-------------------------- MODULE ImplicitProducer --------------------------
(***************************************************************************)
(* The queue of a thread that enqueues without a token                     *)
(* (concurrentqueue.h, ImplicitProducer).  Its blocks are found through a  *)
(* circular index, replaced by a larger one when it is full, and come from *)
(* and go back to a common pool: whoever takes the last item of a block    *)
(* gives it back.                                                          *)
(*                                                                         *)
(* index has the BlockIndexEntries, entries, in the order they were        *)
(* allocated, and the BlockIndexHeaders, indexes; blockIndex points at the *)
(* last of these.  There is none if the first could not be allocated.      *)
(***************************************************************************)
EXTENDS ProducerBase

entries == index.entries
indexes == index.indexes

INVALID_BLOCK_BASE == 1

NewEntry == [key |-> INVALID_BLOCK_BASE, value |-> Null]

FirstIndex ==
  [capacity |-> IndexSize, tail |-> IndexSize - 1,
   index |-> [k \in 0 .. IndexSize - 1 |-> k + 1]]

(* A mistake: the entries of prev are copied as they lie.                  *)
LargerIndexAsIs(prev) ==
  [capacity |-> 2 * prev.capacity,
   tail |-> prev.capacity - 1,
   index |-> [k \in 0 .. 2 * prev.capacity - 1 |->
                IF k < prev.capacity THEN prev.index[k] ELSE k + 1]]

(* new_block_index: the entries of prev, oldest first, and as many new.    *)
LargerIndex(prev) ==
  [capacity |-> 2 * prev.capacity,
   tail |-> prev.capacity - 1,
   index |-> [k \in 0 .. 2 * prev.capacity - 1 |->
                IF k < prev.capacity
                THEN prev.index[(prev.tail + 1 + k) % prev.capacity]
                ELSE k + 1]]

blockIndex == Len(indexes)

Advanced(by) == (indexes[blockIndex].tail + by) % indexes[blockIndex].capacity

(* The entry for the next block.                                           *)
NextEntry == indexes[blockIndex].index[Advanced(1)]

(* It still has a block.                                                   *)
NextEntryIsUsed ==
  /\ blockIndex # 0
  /\ entries[NextEntry].key # INVALID_BLOCK_BASE
  /\ entries[NextEntry].value # Null

(* Where the block of item i is, seen from position at of an index.        *)
Position(h, at, i) ==
  PositionFrom(at, entries[indexes[h].index[at]].key, i, indexes[h].capacity)

Init ==
  /\ InitBase
  /\ index \in
       {[entries |-> << >>, indexes |-> << >>],
        [entries |-> [e \in 1 .. IndexSize |-> NewEntry], indexes |-> <<FirstIndex>>]}
  /\ enq = Waiting

-----------------------------------------------------------------------------
(* enqueue, enqueue_bulk, when blocks are needed.                          *)

BeginEnqueue ==
  /\ enq.pc = "idle"
  /\ \E n \in 1 .. MaxCount :
       /\ MayEnqueue(n)
       /\ Needed(n) > 0
       /\ enq' = [Begun(n) EXCEPT !.pc = "index"]
  /\ UNCHANGED <<counters, storage, deq, excused>>

NeedsBlock ==
  /\ enq.pc = "index" /\ enq.need > 0
  /\ HasLeeway(NextBase)
  /\ blockIndex # 0

(* The next entry takes the key of the next block.                         *)
InsertNextEntry ==
  /\ index' = [index EXCEPT !.entries[NextEntry].key = NextBase,
                            !.indexes[blockIndex].tail = Advanced(1)]
  /\ enq' = [enq EXCEPT !.pc = "inserted"]
  /\ UNCHANGED <<counters, tailBlock, block, free, deq, excused>>

(* A mistake: the entry is used whether or not it still has a block.       *)
InsertBlockIndexEntryAnyway == NeedsBlock /\ InsertNextEntry

(* insert_block_index_entry: the entry must have no block any more.        *)
InsertBlockIndexEntry ==
  /\ NeedsBlock
  /\ ~NextEntryIsUsed
  /\ InsertNextEntry

(* It has one: a larger index, whose next entry then is a new one.         *)
NewBlockIndex ==
  /\ NeedsBlock
  /\ NextEntryIsUsed
  /\ 2 * indexes[blockIndex].capacity <= MaxCapacity
  /\ index' =
       [entries |-> entries \o [k \in 1 .. indexes[blockIndex].capacity |-> NewEntry],
        indexes |-> Append(indexes, LargerIndex(indexes[blockIndex]))]
  /\ UNCHANGED <<counters, tailBlock, block, free, enq, deq, excused>>

TailEntry == indexes[blockIndex].index[indexes[blockIndex].tail]

(* requisition_block gives b, which is put in the index.                   *)
TakeBlockWith(b, done) ==
  /\ enq.pc = "inserted"
  /\ b \in free
  /\ free' = free \ {b}
  /\ index' = [index EXCEPT !.entries[TailEntry].value = b]
  /\ block' = [block EXCEPT ![b].done = done]
  /\ tailBlock' = b
  /\ enq' = [Took(b) EXCEPT !.pc = "index"]
  /\ UNCHANGED <<counters, deq, excused>>

(* A mistake: no reset_empty when a block is used again.                   *)
TakeBlockAsIs(b) == TakeBlockWith(b, block[b].done)

(* It counts its empty elements from 0 (reset_empty).                      *)
TakeBlock(b) == TakeBlockWith(b, 0)

FinishEnqueue ==
  /\ enq.pc = "index" /\ enq.need = 0
  /\ EnqueueItems(enq)
  /\ enq' = Waiting

(* What a failure has to undo: need counts the blocks to go.               *)
Undoing ==
  IF enq.blocks = << >> THEN Waiting
  ELSE [enq EXCEPT !.pc = "undo", !.base = BaseBefore, !.need = Len(enq.blocks)]

(* There is no leeway, or no memory for an index, now or from the start.   *)
NoEntry ==
  /\ enq.pc = "index" /\ enq.need > 0
  /\ ~HasLeeway(NextBase) \/ blockIndex = 0 \/ NextEntryIsUsed
  /\ enq' = Undoing
  /\ UNCHANGED <<counters, storage, deq, excused>>

(* A mistake: the index stays where it is.                                 *)
NoBlockLeavesTail ==
  /\ enq.pc = "inserted"
  /\ enq' = Undoing
  /\ UNCHANGED <<counters, storage, deq, excused>>

(* No block is to be had: rewind_block_index_tail.                         *)
NoBlock ==
  /\ enq.pc = "inserted"
  /\ index' = [index EXCEPT !.indexes[blockIndex].tail = Advanced(-1)]
  /\ enq' = Undoing
  /\ UNCHANGED <<counters, tailBlock, block, free, deq, excused>>

EntryFor(i) ==
  indexes[blockIndex].index[Position(blockIndex, indexes[blockIndex].tail, i)]

(* The blocks taken leave the index, the first one first.                  *)
UndoBlock ==
  /\ enq.pc = "undo" /\ enq.need > 0
  /\ index' = [index EXCEPT !.entries[EntryFor(NextBase)].value = Null,
                            !.indexes[blockIndex].tail = Advanced(-1)]
  /\ enq' = [enq EXCEPT !.need = @ - 1, !.base = NextBase]
  /\ UNCHANGED <<counters, tailBlock, block, free, deq, excused>>

(* add_blocks_to_free_list.                                                *)
FinishUndo ==
  /\ enq.pc = "undo" /\ enq.need = 0
  /\ free' = free \union {enq.blocks[k] : k \in DOMAIN enq.blocks}
  /\ tailBlock' = enq.start
  /\ enq' = Waiting
  /\ UNCHANGED <<counters, block, index, deq, excused>>

-----------------------------------------------------------------------------
(* get_block_index_index_for_index: blockIndex and its tail (an index that *)
(* is not the last one any more does not change), then the key found there. *)
ReadIndexTail(c) ==
  /\ deq[c].pc = "index"
  /\ deq' = [deq EXCEPT ![c].pc = "key", ![c].header = blockIndex,
                        ![c].at = indexes[blockIndex].tail]
  /\ UNCHANGED <<counters, storage, enq, excused>>

ReadTailKey(c) ==
  /\ deq[c].pc = "key"
  /\ deq' = [deq EXCEPT ![c].pc = "block", ![c].at = Position(deq[c].header, @, deq[c].index)]
  /\ UNCHANGED <<counters, storage, enq, excused>>

Capacity(d) == indexes[d.header].capacity

EntryOf(c) == indexes[deq[c].header].index[deq[c].at]

(* Moves out what c has in this block.  Whoever empties the block takes it *)
(* out of the index.                                                       *)
MoveOut(c) ==
  /\ deq[c].pc = "block"
  /\ LET b == entries[EntryOf(c)].value
         d == Moved(c, b) IN
     /\ block' = SetEmpty(c, b)
     /\ \/ /\ Empties(c, b)
           /\ index' = [index EXCEPT !.entries[EntryOf(c)].value = Null]
           /\ deq' = [deq EXCEPT ![c] = [d EXCEPT !.pc = "free"]]
           /\ UNCHANGED excused
        \/ /\ ~Empties(c, b)
           /\ Continue(c, d, Capacity(d))
           /\ UNCHANGED index
  /\ UNCHANGED <<counters, tailBlock, free, enq>>

(* A mistake: the block is not given back.                                 *)
FreeBlockForgets(c) ==
  /\ deq[c].pc = "free"
  /\ Continue(c, deq[c], Capacity(deq[c]))
  /\ UNCHANGED <<counters, storage, enq>>

FreeBlock(c) ==
  /\ deq[c].pc = "free"
  /\ free' = free \union {deq[c].block}
  /\ Continue(c, deq[c], Capacity(deq[c]))
  /\ UNCHANGED <<counters, tailBlock, block, index, enq>>

-----------------------------------------------------------------------------
(* ~ImplicitProducer: the blocks of the items that are left, the last one  *)
(* as tailBlock, which is freed as well if it is only partly filled.       *)
LeftBehind ==
  {entries[EntryFor(i)].value : i \in {i \in Remaining : BlockBase(i) # BaseBefore}}

(* A mistake: tailBlock is freed only when items are left in it.           *)
LastBlockIfNotEmpty == IF Remaining # {} THEN {tailBlock} ELSE {}

LastBlock ==
  IF tailBlock # Null /\ (Remaining # {} \/ Slot(tailIndex) # 0)
  THEN {tailBlock} ELSE {}

Destroy ==
  /\ enq.pc = "idle" /\ Busy = {}
  /\ enq' = [Waiting EXCEPT !.pc = "destroyed"]
  /\ free' = free \union LeftBehind \union LastBlock
  /\ UNCHANGED <<counters, tailBlock, block, index, deq, excused>>

-----------------------------------------------------------------------------
Enqueue ==
  \/ EnqueueHere \/ BeginEnqueue \/ InsertBlockIndexEntry \/ NewBlockIndex
  \/ (\E b \in Blocks : TakeBlock(b)) \/ FinishEnqueue
  \/ NoEntry \/ NoBlock \/ UndoBlock \/ FinishUndo

Dequeue(c) ==
  \/ ClaimItems(c)
  \/ ReadIndexTail(c) \/ ReadTailKey(c) \/ MoveOut(c) \/ FreeBlock(c)

Next ==
  \/ Enqueue
  \/ \E c \in Dequeuers : Dequeue(c)
  \/ Destroy

Spec == Init /\ [][Next]_vars
=============================================================================
