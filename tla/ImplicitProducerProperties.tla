--------------------- MODULE ImplicitProducerProperties ---------------------
(***************************************************************************)
(* What is expected of one producer's queue.                               *)
(***************************************************************************)
EXTENDS ImplicitProducer

(* The type invariant.                                                     *)
TypeOK ==
  /\ {tailIndex, headIndex, dequeueOptimisticCount, dequeueOvercommit} \subseteq Indices
  /\ tailBlock \in Blocks \union {Null}
  /\ \A b \in Blocks : /\ block[b].done \in 0 .. BlockSize
                       /\ \A k \in Slots : block[b].elements[k] \in Indices \union {Null}
  /\ free \subseteq Blocks
  /\ \A e \in DOMAIN entries : /\ entries[e].key \in Indices
                               /\ entries[e].value \in Blocks \union {Null}
  /\ \A h \in DOMAIN indexes :
       /\ indexes[h].tail \in 0 .. indexes[h].capacity - 1
       /\ indexes[h].index \in [0 .. indexes[h].capacity - 1 -> DOMAIN entries]
  /\ \A c \in Dequeuers : /\ deq[c].left \in 0 .. MaxBulk
                          /\ deq[c].index \in Indices
                          /\ deq[c].got \in Seq(Indices)

(* A dequeue that has an item finds its block, however the enqueueing      *)
(* thread meanwhile advances, grows or rewinds the index and others empty  *)
(* the blocks around (the assertion of get_block_index_index_for_index).   *)
BlockFound ==
  \A c \in Dequeuers :
    deq[c].pc = "block" =>
      /\ entries[EntryOf(c)].key = BlockBase(deq[c].index)
      /\ entries[EntryOf(c)].value # Null

(* A block is free, or in the index once, or in the hands of one thread    *)
(* that takes it back to the free blocks; the destructor gives all back.   *)
Claims(b) ==
  {<<"free", x>>  : x \in free \intersect {b}} \union
  {<<"entry", e>> : e \in {e \in DOMAIN entries : entries[e].value = b}} \union
  {<<"deq", c>>   : c \in {c \in Dequeuers : deq[c].pc = "free" /\ deq[c].block = b}} \union
  {<<"undo", k>>  : k \in {k \in DOMAIN enq.blocks :
                             /\ enq.pc = "undo" /\ k <= Len(enq.blocks) - enq.need
                             /\ enq.blocks[k] = b}}

BlocksAccounted ==
  IF enq.pc = "destroyed" THEN free = Blocks
  ELSE \A b \in Blocks : Cardinality(Claims(b)) = 1

-----------------------------------------------------------------------------
(* Items come out in order, once, and a dequeue fails only if the queue    *)
(* was empty or others were dequeueing.                                    *)
Entry(i) == CHOOSE e \in DOMAIN entries :
              entries[e].key = BlockBase(i) /\ entries[e].value # Null

Item(i) == block[entries[Entry(i)].value].elements[Slot(i)]

From(i, n) == [k \in 1 .. n |-> Item(Plus(i, k - 1))]

Got(c) ==
  deq[c].got \o
  IF deq[c].pc \in {"index", "key", "block", "free"}
  THEN From(deq[c].index, deq[c].left) ELSE << >>

Fifo == INSTANCE AbstractQueue WITH
  Items <- Indices,
  q     <- From(headIndex, Minus(tailIndex, headIndex)),
  busy  <- Busy,
  held  <- [c \in Dequeuers |-> Got(c)]

Refines == Fifo!Spec
=============================================================================
