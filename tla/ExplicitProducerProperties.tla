---------------------- MODULE ExplicitProducerProperties ----------------------
(***************************************************************************)
(* What is expected of the queue of a producer token.                      *)
(***************************************************************************)
EXTENDS ExplicitProducer

(* Undo is FALSE in what follows: an enqueue that fails has inserted no    *)
(* block, and has not replaced the index after it went on into others.     *)

(* A dequeue that has an item finds its block, however the ring goes on    *)
(* over emptied blocks and the index is written behind its front or        *)
(* replaced meanwhile, or put back by an enqueue that went on into blocks, *)
(* whose entries then stay written.                                        *)
BlockFound ==
  \A c \in Dequeuers :
    deq[c].pc = "block" =>
      /\ EntryOf(c).base = BlockBase(deq[c].index)
      /\ EntryOf(c).block # Null

(* The entries in use are of blocks up to the tail block; an enqueue that  *)
(* went on and failed may have written over the oldest of them.            *)
NoneWrittenOver ==
  \A k \in 1 .. index.slotsUsed :
    ~CircularLess(BaseBefore, EntryAt(blockIndex, index.front - k).base)

(* A block is free or in the ring; the destructor gives all back, after it *)
(* has destroyed exactly the items that are left, provided that the entry  *)
(* it begins with is still there.                                          *)
BlocksAccounted ==
  IF enq.pc = "destroyed" THEN free = Blocks /\ (NoneWrittenOver => enq.items = Remaining)
  ELSE Ring \intersect free = {} /\ Ring \union free = Blocks

-----------------------------------------------------------------------------
(* Items come out in order, once, and a dequeue fails only if the queue    *)
(* was empty or others were dequeueing.                                    *)
Item(i) ==
  LET front == headers[blockIndex].front
      at    == PositionFrom(front, EntryAt(blockIndex, front).base, i, Size)
  IN block[EntryAt(blockIndex, at).block].elements[Slot(i)]

From(i, n) == [k \in 1 .. n |-> Item(Plus(i, k - 1))]

Got(c) ==
  deq[c].got \o
  IF deq[c].pc \in {"index", "base", "block"} THEN From(deq[c].index, deq[c].left) ELSE << >>

Fifo == INSTANCE AbstractQueue WITH
  Items <- Indices,
  q     <- From(headIndex, Minus(tailIndex, headIndex)),
  busy  <- Busy,
  held  <- [c \in Dequeuers |-> Got(c)]

Refines == Fifo!Spec
=============================================================================
