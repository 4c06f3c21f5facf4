---------------------------- MODULE ProducerBase ----------------------------
(***************************************************************************)
(* What the two kinds of producer queue of moodycamel::ConcurrentQueue     *)
(* (concurrentqueue.h) share: the counters by which dequeuers claim items, *)
(* and the blocks items lie in.  One thread enqueues, several dequeue, in  *)
(* bulk or one by one, without locks.  ImplicitProducer and                *)
(* ExplicitProducer say what the index of the blocks is, how blocks are    *)
(* enqueued into and what becomes of them.                                 *)
(*                                                                         *)
(* A step has one access to shared memory whose moment matters; accesses   *)
(* no other thread can tell apart from a later or an earlier one are       *)
(* folded into it.  Reads see the last write.  Items are numbered by the   *)
(* position they are enqueued at.                                          *)
(***************************************************************************)
EXTENDS Integers, Sequences, FiniteSets

CONSTANTS
  Dequeuers,
  Blocks,      (* the blocks there is memory for                           *)
  BlockSize,   (* BLOCK_SIZE                                               *)
  IndexSize,   (* ..._INITIAL_INDEX_SIZE                                   *)
  MaxCapacity, (* bound: entries of the largest index there is memory for  *)
  IndexT,      (* 2^w for the w bits of index_t                            *)
  MaxStall,    (* bound: items enqueued, and dequeues taken back, while    *)
               (* one dequeue claims its items                             *)
  MaxCount,    (* bound: the largest count given to enqueue_bulk           *)
  MaxBulk,     (* bound: the largest max asked of dequeue_bulk             *)
  Null

ASSUME QueueAssumption ==
  /\ IsFiniteSet(Dequeuers) /\ IsFiniteSet(Blocks)
  /\ BlockSize \in Nat \ {0, 1}
  /\ IndexSize \in Nat \ {0, 1}
  /\ MaxCapacity \in Nat /\ MaxCapacity >= IndexSize
  /\ IndexT \in Nat /\ IndexT > 2 * BlockSize
  /\ IndexT % (2 * BlockSize) = 0
  /\ MaxStall \in Nat
  /\ MaxCount \in Nat \ {0} /\ MaxCount < BlockSize * Cardinality(Blocks)
  /\ MaxBulk \in Nat \ {0}
  /\ Null \notin Blocks \union Int
  /\ 2 * BlockSize * MaxCapacity <= IndexT
  /\ MaxStall + MaxCount <= IndexT \div 2
  /\ MaxStall + Cardinality(Dequeuers) * MaxBulk <= IndexT \div 2

VARIABLES
  tailIndex,               (* where to enqueue next                        *)
  headIndex,               (* where to dequeue from next                   *)
  dequeueOptimisticCount,  (* dequeues tried ...                           *)
  dequeueOvercommit,       (* ... and those of them taken back             *)
  tailBlock,
  block,      (* of each block the elements, how many of them were         *)
              (* completely dequeued, and next                             *)
  free,       (* the blocks in no queue                                    *)
  index,      (* the index of the blocks                                   *)
  enq,        (* where the enqueueing thread is                            *)
  deq,        (* the dequeueing threads                                    *)
  excused     (* history: see AbstractQueue                                *)

counters == <<tailIndex, headIndex, dequeueOptimisticCount, dequeueOvercommit>>
storage  == <<tailBlock, block, free, index>>
vars     == <<counters, storage, enq, deq, excused>>

-----------------------------------------------------------------------------
(* Arithmetic of index_t.                                                  *)
Indices == 0 .. IndexT - 1

Plus(a, b)  == (a + b) % IndexT
Minus(a, b) == (a - b) % IndexT

CircularLess(a, b) == Minus(a, b) > IndexT \div 2

Signed(a) == IF a < IndexT \div 2 THEN a ELSE a - IndexT

Slots        == 0 .. BlockSize - 1
Slot(i)      == i % BlockSize
BlockBase(i) == i - Slot(i)

(* The position in an index of size entries of the block of item i, seen   *)
(* from the entry at position at, of the block with that base.             *)
PositionFrom(at, base, i, size) ==
  (at + Signed(Minus(BlockBase(i), base)) \div BlockSize) % size

(* How many of max items a dequeue may go for, or has got: tail - count.   *)
Available(tail, count, max) ==
  LET n == Minus(tail, count) IN
  IF ~CircularLess(0, n) THEN 0 ELSE IF n < max THEN n ELSE max

-----------------------------------------------------------------------------
NewBlock == [elements |-> [k \in Slots |-> Null], done |-> 0, next |-> Null]

Idle == [pc |-> "idle", since |-> 0, tail |-> 0, overcommit |-> 0,
         count |-> 0, index |-> 0, left |-> 0, header |-> 0, at |-> 0,
         block |-> Null, got |-> << >>]

InitBase ==
  /\ tailIndex = 0 /\ headIndex = 0
  /\ dequeueOptimisticCount = 0 /\ dequeueOvercommit = 0
  /\ tailBlock = Null
  /\ block = [b \in Blocks |-> NewBlock]
  /\ free = Blocks
  /\ deq = [c \in Dequeuers |-> Idle]
  /\ excused = {}

Busy == {c \in Dequeuers : deq[c].pc # "idle"}

(* Those whose counts of before are still to be used.                      *)
Claiming == {c \in Busy : deq[c].pc \in {"overcommit", "count", "claim", "recheck"}}

MayEnqueue(n) ==
  \A c \in Claiming : Minus(tailIndex, deq[c].since) + n <= MaxStall

MayTakeBack(n) ==
  \A c \in Claiming : deq[c].pc \in {"count", "claim"} =>
    Minus(dequeueOvercommit, deq[c].overcommit) + n <= MaxStall

(* Another block does not let tail get half the range of index_t away from *)
(* head.                                                                   *)
HasLeeway(base) == CircularLess(headIndex, Plus(base, BlockSize))

-----------------------------------------------------------------------------
(* enqueue and enqueue_bulk: of one item the two do the same, in an order  *)
(* only the enqueueing thread can tell.  enq has the count of items and of *)
(* blocks they still need, the tail block there was and its base, moved on *)
(* with each of the blocks taken.                                          *)

Waiting == [pc |-> "idle", count |-> 0, need |-> 0, base |-> 0, start |-> Null,
            blocks |-> << >>]

BaseBefore == BlockBase(Minus(tailIndex, 1))
NextBase   == Plus(enq.base, BlockSize)

(* How many blocks begin with one of the next n items.                     *)
Needed(n) == Cardinality({k \in 0 .. n - 1 : Slot(tailIndex + k) = 0})

Begun(n) == [Waiting EXCEPT !.count = n, !.need = Needed(n), !.base = BaseBefore,
                            !.start = tailBlock]

(* The next block is b.                                                    *)
Took(b) == [enq EXCEPT !.need = @ - 1, !.base = NextBase, !.blocks = Append(@, b)]

(* The blocks the items go into, and the blocks with the items in.         *)
BlocksOf(e) == (IF Slot(tailIndex) = 0 THEN << >> ELSE <<e.start>>) \o e.blocks

Filled(e) ==
  [b \in Blocks |->
     [block[b] EXCEPT !.elements = [k \in Slots |->
        LET its == {n \in 0 .. e.count - 1 :
                      /\ Slot(tailIndex + n) = k
                      /\ BlocksOf(e)[(Slot(tailIndex) + n) \div BlockSize + 1] = b}
        IN IF its = {} THEN @[k] ELSE Plus(tailIndex, CHOOSE n \in its : TRUE)]]]

(* The items are stored, and are in the queue when tailIndex says so.      *)
EnqueueItems(e) ==
  /\ block' = Filled(e)
  /\ tailIndex' = Plus(tailIndex, e.count)
  /\ UNCHANGED <<headIndex, dequeueOptimisticCount, dequeueOvercommit>>
  /\ UNCHANGED <<tailBlock, free, index, deq, excused>>

(* All go into the tail block.                                             *)
EnqueueHere ==
  /\ enq.pc = "idle"
  /\ \E n \in 1 .. MaxCount :
       /\ MayEnqueue(n)
       /\ Needed(n) = 0
       /\ EnqueueItems(Begun(n))
  /\ UNCHANGED enq

-----------------------------------------------------------------------------
(* dequeue and dequeue_bulk, up to the moment items are claimed. *)

ReadTail(c) ==
  /\ enq.pc # "destroyed"
  /\ deq[c].pc = "idle"
  /\ deq' = [deq EXCEPT ![c].pc = "overcommit",
                        ![c].tail = tailIndex, ![c].since = tailIndex]
  /\ excused' = excused \union IF Busy # {} THEN Busy \union {c}
                               ELSE IF headIndex = tailIndex THEN {c} ELSE {}
  /\ UNCHANGED <<counters, storage, enq>>

ReadOvercommit(c) ==
  /\ deq[c].pc = "overcommit"
  /\ deq' = [deq EXCEPT ![c].pc = "count", ![c].overcommit = dequeueOvercommit]
  /\ UNCHANGED <<counters, storage, enq, excused>>

Return(c) ==
  /\ deq' = [deq EXCEPT ![c] = Idle]
  /\ excused' = excused \ {c}

(* Up to max items are asked for, one by dequeue.                          *)
ReadCount(c) ==
  /\ deq[c].pc = "count"
  /\ \E max \in 1 .. MaxBulk :
       LET n == Available(deq[c].tail,
                          Minus(dequeueOptimisticCount, deq[c].overcommit), max) IN
       \/ n = 0 /\ Return(c)
       \/ /\ n # 0
          /\ deq' = [deq EXCEPT ![c].pc = "claim", ![c].left = n, ![c].tail = 0]
          /\ UNCHANGED excused
  /\ UNCHANGED <<counters, storage, enq>>

Claim(c) ==
  /\ deq[c].pc = "claim"
  /\ dequeueOptimisticCount' = Plus(dequeueOptimisticCount, deq[c].left)
  /\ deq' = [deq EXCEPT ![c].pc = "recheck", ![c].count = dequeueOptimisticCount]
  /\ UNCHANGED <<tailIndex, headIndex, dequeueOvercommit, storage, enq, excused>>

(* A mistake: the claim is not cut down to what is there.                  *)
RecheckAll(c) ==
  /\ deq[c].pc = "recheck"
  /\ deq' = [deq EXCEPT ![c].pc = "head", ![c].since = 0,
                          ![c].overcommit = 0, ![c].count = 0]
  /\ UNCHANGED <<counters, storage, enq, excused>>

(* The second look at tailIndex; count is now how many to take back.       *)
Recheck(c) ==
  /\ deq[c].pc = "recheck"
  /\ LET n == Available(tailIndex, Minus(deq[c].count, deq[c].overcommit), deq[c].left) IN
     deq' = [deq EXCEPT ![c].pc = IF n < deq[c].left THEN "takeback" ELSE "head",
                        ![c].left = n, ![c].since = 0,
                        ![c].count = deq[c].left - n,
                        ![c].overcommit = 0]
  /\ UNCHANGED <<counters, storage, enq, excused>>

(* The rest of the claim, or all of it.                                    *)
ToHeadOrReturn(c) ==
  \/ deq[c].left = 0 /\ Return(c)
  \/ /\ deq[c].left # 0
     /\ deq' = [deq EXCEPT ![c].pc = "head", ![c].count = 0]
     /\ UNCHANGED excused

(* A mistake: nothing is taken back.                                       *)
TakeBackNothing(c) ==
  /\ deq[c].pc = "takeback"
  /\ ToHeadOrReturn(c)
  /\ UNCHANGED <<counters, storage, enq>>

TakeBack(c) ==
  /\ deq[c].pc = "takeback"
  /\ MayTakeBack(deq[c].count)
  /\ dequeueOvercommit' = Plus(dequeueOvercommit, deq[c].count)
  /\ ToHeadOrReturn(c)
  /\ UNCHANGED <<tailIndex, headIndex, dequeueOptimisticCount, storage, enq>>

(* From here on the items from headIndex on are c's.                       *)
AdvanceHead(c) ==
  /\ deq[c].pc = "head"
  /\ headIndex' = Plus(headIndex, deq[c].left)
  /\ deq' = [deq EXCEPT ![c].pc = "index", ![c].index = headIndex]
  /\ excused' = excused \union IF headIndex' = tailIndex THEN Busy ELSE {}
  /\ UNCHANGED <<tailIndex, dequeueOptimisticCount, dequeueOvercommit, storage, enq>>

-----------------------------------------------------------------------------
(* Then c looks its block up in the index, and moves out what it has there. *)

(* How many items that is.                                                 *)
Chunk(c) ==
  LET room == BlockSize - Slot(deq[c].index) IN
  IF deq[c].left < room THEN deq[c].left ELSE room

(* The call after that, b being the block.                                 *)
Moved(c, b) ==
  LET s == Slot(deq[c].index) IN
  [deq[c] EXCEPT !.index = Plus(@, Chunk(c)), !.left = @ - Chunk(c), !.block = b,
     !.got = @ \o [k \in 1 .. Chunk(c) |-> block[b].elements[s + k - 1]]]

(* set_empty, set_many_empty: the items are out.                           *)
SetEmpty(c, b) ==
  LET s == Slot(deq[c].index) IN
  [block EXCEPT ![b].elements = [k \in Slots |-> IF k \in s .. s + Chunk(c) - 1
                                                 THEN Null ELSE @[k]],
                ![b].done = @ + Chunk(c)]

Empties(c, b) == block[b].done + Chunk(c) = BlockSize

(* On to the next entry of the index, which has size entries, or out.      *)
Continue(c, d, size) ==
  \/ d.left = 0 /\ Return(c)
  \/ /\ d.left # 0
     /\ deq' = [deq EXCEPT ![c] = [d EXCEPT !.pc = "block", !.block = Null,
                                            !.at = (@ + 1) % size]]
     /\ UNCHANGED excused

-----------------------------------------------------------------------------
(* ~ProducerBase comes when nobody uses the queue any more; then there are *)
(* the items that are left.                                                *)
Remaining == {Plus(headIndex, k) : k \in 0 .. Minus(tailIndex, headIndex) - 1}

ClaimItems(c) ==
  \/ ReadTail(c) \/ ReadOvercommit(c) \/ ReadCount(c) \/ Claim(c) \/ Recheck(c)
  \/ TakeBack(c) \/ AdvanceHead(c)

-----------------------------------------------------------------------------
(* Of c's claim, what is not taken back or added to headIndex yet ...      *)
Claimed(c) ==
  IF deq[c].pc \in {"recheck", "head"} THEN deq[c].left
  ELSE IF deq[c].pc = "takeback" THEN deq[c].left + deq[c].count ELSE 0

(* ... and what stays its own.                                             *)
Granted(c) == IF deq[c].pc \in {"takeback", "head"} THEN deq[c].left ELSE 0

(* The sum of n[c] over cs, counted one by one.                            *)
Total(n, cs) == Cardinality({x \in cs \X (1 .. MaxBulk) : x[2] <= n[x[1]]})

(* What is claimed of dequeueOptimisticCount and neither taken back nor    *)
(* added to headIndex yet belongs to the dequeues in between, and no       *)
(* dequeue goes beyond tailIndex.                                          *)
CountersAgree ==
  /\ Minus(dequeueOptimisticCount, dequeueOvercommit) =
       Plus(headIndex, Total([c \in Dequeuers |-> Claimed(c)], Dequeuers))
  /\ Total([c \in Dequeuers |-> Granted(c)], Dequeuers) <= Minus(tailIndex, headIndex)
  /\ Minus(tailIndex, headIndex) <= IndexT \div 2
=============================================================================
