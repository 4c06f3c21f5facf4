-------------------------- MODULE ExplicitProducer --------------------------
(***************************************************************************)
(* The queue of a producer token (concurrentqueue.h, ExplicitProducer).    *)
(* Its blocks form a ring by next and stay in it; the thread that enqueues *)
(* goes on into the next one if that is empty and inserts another block    *)
(* otherwise.  A circular index has an entry for each, and is replaced by  *)
(* a larger one when it is full.                                           *)
(*                                                                         *)
(* index has the BlockIndexHeaders, headers (blockIndex and pr_blockIndex- *)
(* Raw are the last), with their entries; front and slotsUsed are          *)
(* pr_blockIndexFront and pr_blockIndexSlotsUsed.                          *)
(***************************************************************************)
EXTENDS ProducerBase, TLC

CONSTANTS
  Undo        (* whether enqueue_bulk may fail when it has already         *)
              (* inserted a block, or has gone on into next blocks and     *)
              (* then replaced the index: what is undone then does not fit *)
              (* what is kept                                              *)

ASSUME ExplicitAssumption == Undo \in BOOLEAN

headers == index.headers

blockIndex == Len(headers)

(* pr_blockIndexSize; there is no index yet if none could be allocated.    *)
Size == IF blockIndex = 0 THEN IndexSize \div 2 ELSE headers[blockIndex].size

NewEntry == [base |-> 0, block |-> Null]

(* A mistake: the entries are copied from where they are.                  *)
LargerIndexUnturned(exposed) ==
  [size |-> 2 * Size, front |-> exposed - 1,
   entries |-> [k \in 0 .. 2 * Size - 1 |->
                  IF k < index.slotsUsed THEN headers[blockIndex].entries[k] ELSE NewEntry]]

(* new_block_index: the entries in use, oldest first; exposed of them are  *)
(* for the dequeuers to see.                                               *)
LargerIndex(exposed) ==
  [size |-> 2 * Size, front |-> exposed - 1,
   entries |-> [k \in 0 .. 2 * Size - 1 |->
                  IF k < index.slotsUsed
                  THEN headers[blockIndex].entries[(index.front - index.slotsUsed + k) % Size]
                  ELSE NewEntry]]

WithNewIndex(exposed) ==
  [headers |-> Append(headers, LargerIndex(exposed)),
   front |-> index.slotsUsed, slotsUsed |-> index.slotsUsed]

(* Besides, the index as it was is kept, and the destructor's items.       *)
Resting == Waiting @@ [front |-> 0, slotsUsed |-> 0, items |-> {}]

Init ==
  /\ InitBase
  /\ LET none == [headers |-> << >>, front |-> 0, slotsUsed |-> 0] IN
     index \in {none,
                [none EXCEPT !.headers =
                   <<[size |-> IndexSize, front |-> -1,
                      entries |-> [k \in 0 .. IndexSize - 1 |-> NewEntry]]>>]}
  /\ enq = Resting

-----------------------------------------------------------------------------
(* More blocks are needed: what a failure goes back to is kept.            *)
BeginEnqueue ==
  /\ enq.pc = "idle"
  /\ \E n \in 1 .. MaxCount :
       /\ MayEnqueue(n)
       /\ Needed(n) > 0
       /\ enq' = [Begun(n) EXCEPT !.pc = "ahead"]
                    @@ [Resting EXCEPT !.front = index.front, !.slotsUsed = index.slotsUsed]
  /\ UNCHANGED <<counters, storage, deq, excused>>

(* The next entry of the index is for block b; it does not show yet.       *)
EntryFor(b, ix) ==
  [ix EXCEPT !.headers[blockIndex].entries[ix.front] = [base |-> NextBase, block |-> b],
             !.front = (@ + 1) % Size]

firstAllocatedBlock == IF enq.blocks = << >> THEN Null ELSE enq.blocks[1]

(* The next block of the ring, if it is empty and not of this call.        *)
NextBlock == block[tailBlock].next

NextIsEmpty ==
  /\ tailBlock # Null
  /\ NextBlock # firstAllocatedBlock
  /\ block[NextBlock].done = BlockSize

TakeNext ==
  /\ enq.pc = "ahead" /\ enq.need > 0
  /\ NextIsEmpty
  /\ index' = EntryFor(NextBlock, index)
  /\ enq' = Took(NextBlock)
  /\ tailBlock' = NextBlock
  /\ UNCHANGED <<counters, block, free, deq, excused>>

(* Another block has to be inserted.                                       *)
NeedsBlock ==
  /\ enq.need > 0
  /\ enq.pc = "insert" \/ (enq.pc = "ahead" /\ ~NextIsEmpty)

IndexIsFull == blockIndex = 0 \/ index.slotsUsed = Size

NewBlockIndex ==
  /\ NeedsBlock
  /\ HasLeeway(NextBase)
  /\ IndexIsFull
  /\ 2 * Size <= MaxCapacity
  /\ index' = WithNewIndex(enq.slotsUsed)
  /\ enq' = [enq EXCEPT !.pc = "insert", !.front = enq.slotsUsed]
  /\ UNCHANGED <<counters, tailBlock, block, free, deq, excused>>

(* A mistake: the new block is its own ring.                               *)
LinkedAlone(b) ==
  [block EXCEPT ![b].done = BlockSize, ![b].next = b,
                ![IF tailBlock = Null THEN b ELSE tailBlock].next = b]

(* requisition_block, and the new block goes into the ring after the tail  *)
(* block (set_all_empty), into the index, and becomes the tail block.      *)
Linked(b) ==
  [block EXCEPT ![b].done = BlockSize,
                ![b].next = IF tailBlock = Null THEN b ELSE NextBlock,
                ![IF tailBlock = Null THEN b ELSE tailBlock].next = b]

InsertBlock ==
  /\ NeedsBlock
  /\ HasLeeway(NextBase)
  /\ ~IndexIsFull
  /\ \E b \in free :
       /\ free' = free \ {b}
       /\ block' = Linked(b)
       /\ index' = EntryFor(b, [index EXCEPT !.slotsUsed = @ + 1])
       /\ enq' = [Took(b) EXCEPT !.pc = "insert"]
       /\ tailBlock' = b
  /\ UNCHANGED <<counters, deq, excused>>

(* A mistake: the front of the index is not put back.                      *)
GiveUpAhead ==
  /\ NeedsBlock
  /\ Undo \/ enq.pc = "ahead" \/ enq.blocks = << >>
  /\ index' = [index EXCEPT !.slotsUsed = enq.slotsUsed]
  /\ tailBlock' = IF enq.start = Null THEN firstAllocatedBlock ELSE enq.start
  /\ enq' = Resting
  /\ UNCHANGED <<counters, block, free, deq, excused>>

(* There is no leeway, or no memory for an index or a block: the index and *)
(* the tail block are put back, blocks stay in the ring, entries as they   *)
(* are.                                                                    *)
GiveUp ==
  /\ NeedsBlock
  /\ Undo \/ enq.pc = "ahead" \/ enq.blocks = << >>
  /\ index' = [index EXCEPT !.front = enq.front, !.slotsUsed = enq.slotsUsed]
  /\ tailBlock' = IF enq.start = Null THEN firstAllocatedBlock ELSE enq.start
  /\ enq' = Resting
  /\ UNCHANGED <<counters, block, free, deq, excused>>

(* The blocks count their empty elements from 0 (reset_empty), and the     *)
(* dequeuers may see the entries.                                          *)
Publish ==
  /\ enq.pc \in {"ahead", "insert"} /\ enq.need = 0
  /\ block' = [b \in Blocks |->
                 IF \E k \in DOMAIN enq.blocks : enq.blocks[k] = b
                 THEN [block[b] EXCEPT !.done = 0] ELSE block[b]]
  /\ index' = [index EXCEPT !.headers[blockIndex].front = (index.front - 1) % Size]
  /\ enq' = [enq EXCEPT !.pc = "fill"]
  /\ UNCHANGED <<counters, tailBlock, free, deq, excused>>

FinishEnqueue ==
  /\ enq.pc = "fill"
  /\ EnqueueItems(enq)
  /\ enq' = Resting

-----------------------------------------------------------------------------
(* The blocks of a dequeue: blockIndex and its front (which in an older    *)
(* index does not change any more), then the base found there.             *)
ReadIndexFront(c) ==
  /\ deq[c].pc = "index"
  /\ deq' = [deq EXCEPT ![c].pc = "base", ![c].header = blockIndex,
                        ![c].at = headers[blockIndex].front]
  /\ UNCHANGED <<counters, storage, enq, excused>>

EntryAt(h, at) == headers[h].entries[at % headers[h].size]

ReadFrontBase(c) ==
  /\ deq[c].pc = "base"
  /\ LET h == deq[c].header IN
     deq' = [deq EXCEPT ![c].pc = "block",
                        ![c].at = PositionFrom(@, EntryAt(h, @).base, deq[c].index,
                                               headers[h].size)]
  /\ UNCHANGED <<counters, storage, enq, excused>>

EntryOf(c) == EntryAt(deq[c].header, deq[c].at)

MoveOut(c) ==
  /\ deq[c].pc = "block"
  /\ LET b == EntryOf(c).block IN
     /\ block' = SetEmpty(c, b)
     /\ Continue(c, [Moved(c, b) EXCEPT !.block = Null], headers[deq[c].header].size)
  /\ UNCHANGED <<counters, tailBlock, free, index, enq>>

-----------------------------------------------------------------------------
(* ~ExplicitProducer goes round the ring, over the items of the blocks     *)
(* that are not empty, from headIndex on in the block that is partially    *)
(* dequeued and up to tailIndex in the tail block; then all go back.       *)
Ring ==
  LET step(S) == S \union {block[b].next : b \in S}
      grown[n \in 0 .. Cardinality(Blocks)] ==
        IF n = 0 THEN {tailBlock} ELSE step(grown[n - 1])
  IN IF tailBlock = Null THEN {} ELSE grown[Cardinality(Blocks)]

(* The entries in use from the oldest on; the first that reaches beyond    *)
(* headIndex is of that block.                                             *)
HalfDequeuedBlock ==
  LET entry(k) == EntryAt(blockIndex, index.front - index.slotsUsed + k)
      beyond   == {k \in 0 .. Size - 1 :
                     ~CircularLess(Plus(entry(k).base, BlockSize), headIndex)}
  IN IF Slot(headIndex) = 0 THEN Null
     ELSE entry(CHOOSE k \in beyond : \A l \in beyond : k <= l).block

LeftIn(b) ==
  LET from == IF b = HalfDequeuedBlock THEN Slot(headIndex) ELSE 0
      stop == IF b = tailBlock /\ Slot(tailIndex) # 0 THEN Slot(tailIndex) ELSE BlockSize
  IN IF block[b].done = BlockSize THEN {}
     ELSE {block[b].elements[k] : k \in from .. stop - 1}

Destroy ==
  /\ enq.pc = "idle" /\ Busy = {}
  /\ enq' = [Resting EXCEPT !.pc = "destroyed", !.items = UNION {LeftIn(b) : b \in Ring}]
  /\ free' = free \union Ring
  /\ UNCHANGED <<counters, tailBlock, block, index, deq, excused>>

-----------------------------------------------------------------------------
Enqueue ==
  \/ EnqueueHere \/ BeginEnqueue \/ TakeNext \/ NewBlockIndex \/ InsertBlock
  \/ GiveUp \/ Publish \/ FinishEnqueue

Dequeue(c) ==
  \/ ClaimItems(c)
  \/ ReadIndexFront(c) \/ ReadFrontBase(c) \/ MoveOut(c)

Next ==
  \/ Enqueue
  \/ \E c \in Dequeuers : Dequeue(c)
  \/ Destroy

Spec == Init /\ [][Next]_vars
=============================================================================
