----------------------- MODULE ImplicitProducerProofs -----------------------
(***************************************************************************)
(* For any dequeueing threads, blocks and widths: a dequeue finds the      *)
(* block of its items, blocks have one place, counters agree, and the      *)
(* queue of one producer is AbstractQueue.                                 *)
(***************************************************************************)
EXTENDS ImplicitProducerLemmas

-----------------------------------------------------------------------------
(* A dequeue.                                                              *)

LEMMA OwnMoves ==
  ASSUME NEW a \in Unwrappings, NEW g \in Layouts, NEW b \in Unwrappings, NEW h \in Layouts,
         OwnFits(a, g), NEW c \in Dequeuers, a.H <= b.H,
         \A d \in Dequeuers \ {c} : deq'[d] = deq[d] /\ h.idx[d] = g.idx[d],
         deq'[c].index \in Indices, deq'[c].got \in Seq(Indices),
         \A d \in Dequeuers : deq[d].left \in Nat,
         Owns(c)' => /\ deq'[c].index = h.idx[c] % IndexT
                     /\ h.idx[c] + deq'[c].left <= b.H
                     /\ deq'[c].pc # "free" => deq'[c].left > 0,
         \A d \in Dequeuers \ {c} : Own(h, c)' \intersect Own(g, d) = {}
  PROVE  /\ OwnFits(b, h)'
         /\ \A d \in Dequeuers \ {c} : Own(h, d)' = Own(g, d)
<1>1. \A d \in Dequeuers \ {c} : Own(h, d)' = Own(g, d) /\ (Owns(d)' <=> Owns(d))
  BY DEF Own, Owns
<1>2. ASSUME NEW d \in Dequeuers
      PROVE  /\ deq'[d].index \in Indices /\ deq'[d].got \in Seq(Indices)
             /\ Owns(d)' => /\ deq'[d].index = h.idx[d] % IndexT
                            /\ h.idx[d] + deq'[d].left <= b.H
                            /\ deq'[d].pc # "free" => deq'[d].left > 0
  <2>1. CASE d = c
    BY <2>1
  <2>2. CASE d # c
    <3>1. /\ deq[d].index \in Indices /\ deq[d].got \in Seq(Indices)
          /\ Owns(d) => /\ deq[d].index = g.idx[d] % IndexT
                        /\ g.idx[d] + deq[d].left <= a.H
                        /\ deq[d].pc # "free" => deq[d].left > 0
      BY DEF OwnFits
    <3>2. a.H \in Nat /\ b.H \in Nat /\ g.idx[d] + deq[d].left \in Int
      BY UnwrappingType, LayoutType
    <3> QED BY <1>1, <2>2, <3>1, <3>2
  <2> QED BY <2>1, <2>2
<1>3. ASSUME NEW d \in Dequeuers, NEW e \in Dequeuers, d # e
      PROVE  Own(h, d)' \intersect Own(h, e)' = {}
  <2>1. CASE d = c
    BY <1>1, <1>3, <2>1
  <2>2. CASE e = c
    BY <1>1, <1>3, <2>2
  <2>3. CASE d # c /\ e # c
    BY <1>1, <1>3, <2>3 DEF OwnFits
  <2> QED BY <2>1, <2>2, <2>3
<1> QED BY <1>1, <1>2, <1>3 DEF OwnFits

(* c has the same items as before.                                         *)
LEMMA OwnSame ==
  ASSUME NEW a \in Unwrappings, NEW g \in Layouts, NEW b \in Unwrappings, b.H = a.H,
         OwnFits(a, g), NEW c \in Dequeuers,
         \A d \in Dequeuers \ {c} : deq'[d] = deq[d],
         deq'[c].index \in Indices, deq'[c].got \in Seq(Indices),
         \A d \in Dequeuers : deq[d].left \in Nat,
         Owns(c)' => /\ deq'[c].index = g.idx[c] % IndexT
                     /\ g.idx[c] + deq'[c].left <= a.H
                     /\ deq'[c].pc # "free" => deq'[c].left > 0,
         Own(g, c)' = Own(g, c)
  PROVE  /\ OwnFits(b, g)'
         /\ \A i : Pending(b, g, i)' = Pending(a, g, i)
<1>1. \A d \in Dequeuers \ {c} : Own(g, c)' \intersect Own(g, d) = {}
  BY DEF OwnFits
<1>2. a.H <= b.H
  BY UnwrappingType
<1>3. OwnFits(b, g)' /\ \A d \in Dequeuers \ {c} : Own(g, d)' = Own(g, d)
  BY <1>1, <1>2, OwnMoves
<1>4. \A d \in Dequeuers : Own(g, d)' = Own(g, d)
  BY <1>3
<1> QED BY <1>3, <1>4 DEF Pending

(* Steps that leave the index and the blocks as they are ...               *)
LEMMA DequeueIndex ==
  ASSUME NEW a \in Unwrappings, NEW g \in Layouts, Fits(a, g), NEW b \in Unwrappings,
         NEW h \in Layouts, NEW c \in Dequeuers, h.off = g.off, h.low = g.low,
         \A d \in Dequeuers \ {c} : deq'[d] = deq[d] /\ h.idx[d] = g.idx[d],
         b.T = a.T, a.H <= b.H, CountersFit(b)', OwnFits(b, h)',
         \A i \in Nat : Pending(b, h, i)' = Pending(a, g, i),
         UNCHANGED <<index, block, tailBlock, enq>>, deq'[c].pc # "free",
         deq'[c].pc \in {"key", "block"} => SearchFits(h, c)'
  PROVE  /\ EnqFits(b)' /\ Undone' = Undone
         /\ RingsFit(b, h)' /\ KeysFit(b, h)' /\ SearchesFit(h)'
         /\ BlocksFit(b, h)' /\ TakenFit(b, h)'
<1>1. /\ CountersFit(a) /\ EnqFits(a) /\ BlocksFit(a, g) /\ TakenFit(a, g) /\ PlacesFit
      /\ RingsFit(a, g) /\ KeysFit(a, g) /\ SearchesFit(g)
  BY DEF Fits, IndexFits
<1>2. /\ index' = index /\ block' = block /\ tailBlock' = tailBlock /\ enq' = enq
  OBVIOUS
<1>3. EnqFits(b)' /\ Top(b)' = Top(a) /\ Undone' = Undone
  BY <1>1, <1>2, EnqStays
<1>4. /\ RingsStay /\ entries' = entries /\ indexes' = indexes /\ index' \in BlockIndexes
      /\ blockIndex' = blockIndex
  BY <1>1, <1>2, IndexStays DEF RingsFit, blockIndex
<1>5. RingsFit(b, h)'
  <2>1. blockIndex = 0 => NoIndex(b)'
    BY <1>1, <1>2, <1>4 DEF RingsFit, NoIndex
  <2>2. Top(b)' - 1 - Undone' \in Int /\ Top(b)' - 1 - Undone' = Top(a) - 1 - Undone
    BY <1>1, <1>3, TopType
  <2>3. blockIndex # 0 => indexes'[blockIndex].tail = Pos(g, blockIndex, Top(b)' - 1 - Undone')
    BY <1>1, <1>4, <2>2 DEF RingsFit
  <2>4. \A k \in 1 .. blockIndex : k # blockIndex => indexes'[k].tail = indexes[k].tail
    BY <1>4
  <2> QED BY <1>1, <1>4, <2>1, <2>2, <2>3, <2>4, RingsStayFit
<1>6. KeysFit(b, h)'
  <2>1. a.T <= b.T
    BY UnwrappingType
  <2> QED BY <1>1, <1>3, <1>4, <2>1, KeysStay
<1>7. \A B : Store(b, h, B)' = Store(a, g, B)
  <2>1. \A e \in 1 .. Len(entries) : entries'[e].value = entries[e].value
    BY <1>4
  <2> QED BY <1>1, <1>3, <1>4, <2>1, StoreStays
<1>8. SearchesFit(h)'
  <2>1. ASSUME NEW d \in Dequeuers, deq'[d].pc \in {"key", "block", "free"}
        PROVE  SearchFits(h, d)'
    <3>1. CASE d = c
      BY <2>1, <3>1
    <3>2. CASE d # c
      <4>1. deq'[d] = deq[d] /\ h.idx[d] = g.idx[d] /\ SearchFits(g, d)
        BY <1>1, <2>1, <3>2 DEF SearchesFit
      <4>2. \A e \in 1 .. Len(entries) : entries'[e].key = entries[e].key
        BY <1>4
      <4>3. g.low <= h.low
        BY LayoutType
      <4> QED BY <1>1, <1>4, <4>1, <4>2, <4>3, SearchStays
    <3> QED BY <3>1, <3>2
  <2> QED BY <2>1 DEF SearchesFit
<1>9. BlocksFit(b, h)'
  <2>1. ASSUME NEW B \in Nat PROVE PendingOf(b, h, B)' = PendingOf(a, g, B)
    <3>1. \A s \in Slots : B * BlockSize + s \in Nat
      BY Widths DEF Slots
    <3> QED BY <3>1 DEF PendingOf
  <2> QED BY <1>1, <1>2, <1>7, <2>1, BlocksStay
<1>10. TakenFit(b, h)'
  <2>1. StartBlock' = StartBlock
    BY <1>2 DEF StartBlock
  <2> QED BY <1>1, <1>2, <1>3, <1>7, <2>1 DEF TakenFit
<1> QED BY <1>3, <1>5, <1>6, <1>8, <1>9, <1>10

(* ... and the places of all blocks as well.                               *)
LEMMA DequeueQuiet ==
  ASSUME NEW a \in Unwrappings, NEW g \in Layouts, Fits(a, g), NEW b \in Unwrappings,
         NEW h \in Layouts, NEW c \in Dequeuers, h.off = g.off, h.low = g.low,
         \A d \in Dequeuers \ {c} : deq'[d] = deq[d] /\ h.idx[d] = g.idx[d],
         b.T = a.T, a.H <= b.H, CountersFit(b)', OwnFits(b, h)',
         \A i \in Nat : Pending(b, h, i)' = Pending(a, g, i),
         enq.pc # "destroyed", UNCHANGED <<storage, enq>>,
         deq[c].pc # "free", deq'[c].pc # "free",
         deq'[c].pc \in {"key", "block"} => SearchFits(h, c)'
  PROVE  Fits(b, h)'
<1>1. EnqFits(a) /\ RingsFit(a, g) /\ PlacesFit
  BY DEF Fits, IndexFits
<1>2. index' = index /\ block' = block /\ free' = free /\ tailBlock' = tailBlock /\ enq' = enq
  BY DEF storage
<1>3. /\ EnqFits(b)' /\ Undone' = Undone
      /\ RingsFit(b, h)' /\ KeysFit(b, h)' /\ SearchesFit(h)'
      /\ BlocksFit(b, h)' /\ TakenFit(b, h)'
  BY <1>2, DequeueIndex
<1>4. entries' = entries
  BY <1>2 DEF entries
<1>5. PlacesFit'
  <2>1. ASSUME NEW d \in Dequeuers, deq'[d].pc = "free" PROVE d # c /\ deq'[d] = deq[d]
    BY <2>1
  <2>2. ASSUME NEW d \in Dequeuers, deq[d].pc = "free" PROVE d # c /\ deq'[d] = deq[d]
    BY <2>2
  <2>3. \A x \in Blocks : /\ Entered(x)' = Entered(x) /\ Freeing(x)' = Freeing(x)
                          /\ Untaken(x)' = Untaken(x)
    BY <1>2, <1>3, <1>4, <2>1, <2>2 DEF Entered, Freeing, Untaken
  <2>4. \A d \in Dequeuers : deq'[d].pc = "free" => deq'[d].block \in Blocks
    BY <1>1, <2>1 DEF PlacesFit
  <2>5. enq'.pc # "destroyed"
    BY <1>2
  <2> QED BY <1>1, <1>2, <1>3, <2>3, <2>4, <2>5, PlacesQuiet
<1> QED BY <1>3, <1>5 DEF Fits, IndexFits

LEMMA LeftType ==
  ASSUME NEW a \in Unwrappings, CountersFit(a)
  PROVE  \A d \in Dequeuers : deq[d] \in Call /\ deq[d].left \in Nat /\ deq[d].left <= MaxBulk
<1>1. MaxBulk \in Nat
  BY QueueAssumption
<1>2. ASSUME NEW d \in Dequeuers PROVE deq[d] \in Call
  BY DEF CountersFit
<1>3. ASSUME NEW d \in Dequeuers PROVE deq[d].left \in 0 .. MaxBulk
  BY <1>2 DEF Call
<1>4. \A n \in 0 .. MaxBulk : n \in Nat /\ n <= MaxBulk
  BY <1>1
<1> QED BY <1>2, <1>3, <1>4

(* Nobody dequeues after the end.                                          *)
LEMMA NotDestroyed ==
  ASSUME PlacesFit, NEW c \in Dequeuers, deq[c].pc # "idle"
  PROVE  enq.pc # "destroyed"
BY DEF PlacesFit, Busy

LEMMA ClaimItemsChange ==
  ASSUME deq \in [Dequeuers -> Call], NEW c \in Dequeuers, ClaimItems(c), ~AdvanceHead(c),
         deq[c].index \in Indices, deq[c].got \in Seq(Indices)
  PROVE  /\ \A d \in Dequeuers \ {c} : deq'[d] = deq[d]
         /\ ~Owns(c) /\ ~Owns(c)'
         /\ deq'[c].index \in Indices /\ deq'[c].got \in Seq(Indices)
         /\ UNCHANGED <<storage, enq>>
         /\ enq.pc # "destroyed" \/ deq[c].pc # "idle"
<1>1. deq[c] \in Call
  OBVIOUS
<1>2. ASSUME Return(c)
      PROVE  /\ \A d \in Dequeuers \ {c} : deq'[d] = deq[d]
             /\ deq'[c].pc = "idle"
             /\ deq'[c].index \in Indices /\ deq'[c].got \in Seq(Indices)
  <2>1. Idle.pc = "idle" /\ Idle.index = 0 /\ Idle.got = << >>
    BY DEF Idle
  <2>2. 0 \in Indices /\ << >> \in Seq(Indices)
    BY Widths DEF Indices
  <2>3. deq' = [deq EXCEPT ![c] = Idle]
    BY <1>2 DEF Return
  <2>4. deq'[c] = Idle
    BY <2>3
  <2> QED BY <2>1, <2>2, <2>3, <2>4
<1>3. CASE ReadTail(c)
  BY <1>1, <1>3 DEF ReadTail, Owns, Call
<1>4. CASE ReadOvercommit(c)
  BY <1>1, <1>4 DEF ReadOvercommit, Owns, Call
<1>5. CASE ReadCount(c)
  <2>1. deq[c].pc = "count" /\ UNCHANGED <<storage, enq>>
    BY <1>5 DEF ReadCount
  <2>2. CASE Return(c)
    BY <1>2, <2>1, <2>2 DEF Owns
  <2>3. CASE \E n : deq' = [deq EXCEPT ![c].pc = "claim", ![c].left = n, ![c].tail = 0]
    BY <1>1, <2>1, <2>3 DEF Owns, Call
  <2>4. Return(c) \/ \E n : deq' = [deq EXCEPT ![c].pc = "claim", ![c].left = n, ![c].tail = 0]
    BY <1>5 DEF ReadCount
  <2> QED BY <2>2, <2>3, <2>4
<1>6. CASE Claim(c)
  BY <1>1, <1>6 DEF Claim, Owns, Call
<1>7. CASE Recheck(c)
  <2>1. deq[c].pc = "recheck" /\ UNCHANGED <<storage, enq>>
    BY <1>7 DEF Recheck
  <2>2. \E p \in {"takeback", "head"} : \E n, m :
          deq' = [deq EXCEPT ![c].pc = p, ![c].left = n, ![c].since = 0, ![c].count = m,
                             ![c].overcommit = 0]
    BY <1>7 DEF Recheck
  <2> QED BY <1>1, <2>1, <2>2 DEF Owns, Call
<1>8. CASE TakeBack(c)
  <2>1. deq[c].pc = "takeback" /\ UNCHANGED <<storage, enq>>
    BY <1>8 DEF TakeBack
  <2>2. CASE Return(c)
    BY <1>2, <2>1, <2>2 DEF Owns
  <2>3. CASE deq' = [deq EXCEPT ![c].pc = "head", ![c].count = 0]
    BY <1>1, <2>1, <2>3 DEF Owns, Call
  <2> QED BY <1>8, <2>2, <2>3 DEF TakeBack, ToHeadOrReturn
<1> QED BY <1>3, <1>4, <1>5, <1>6, <1>7, <1>8 DEF ClaimItems

LEMMA ClaimItemsKeeps ==
  ASSUME NEW a \in Unwrappings, NEW g \in Layouts, Fits(a, g), NEW c \in Dequeuers,
         ClaimItems(c)
  PROVE  \E b \in Unwrappings, h \in Layouts : Fits(b, h)'
<1>1. /\ CountersFit(a) /\ EnqFits(a) /\ OwnFits(a, g) /\ PlacesFit
  BY DEF Fits, IndexFits
<1>2. PICK b \in Unwrappings : /\ b.T = a.T /\ CountersFit(b)'
                               /\ b.H = IF AdvanceHead(c) THEN a.H + deq[c].left ELSE a.H
  BY <1>1, ClaimItemsFits
<1>3. /\ deq \in [Dequeuers -> Call] /\ deq[c].index \in Indices /\ deq[c].got \in Seq(Indices)
      /\ \A d \in Dequeuers : deq[d].left \in Nat
  BY <1>1, LeftType DEF CountersFit, OwnFits
<1>4. a.H \in Nat /\ b.H \in Nat
  BY UnwrappingType
<1>5. CASE ~AdvanceHead(c)
  <2>1. /\ \A d \in Dequeuers \ {c} : deq'[d] = deq[d]
        /\ ~Owns(c) /\ ~Owns(c)'
        /\ deq'[c].index \in Indices /\ deq'[c].got \in Seq(Indices)
        /\ UNCHANGED <<storage, enq>>
        /\ enq.pc # "destroyed" \/ deq[c].pc # "idle"
    BY <1>3, <1>5, ClaimItemsChange
  <2>2. b.H = a.H /\ a.H <= b.H
    BY <1>2, <1>4, <1>5
  <2>3. Own(g, c)' = Own(g, c)
    BY <2>1 DEF Own
  <2>4. OwnFits(b, g)' /\ \A i : Pending(b, g, i)' = Pending(a, g, i)
    BY <1>1, <1>3, <2>1, <2>2, <2>3, OwnSame
  <2>5. deq[c].pc # "free" /\ deq'[c].pc \notin {"key", "block", "free"}
    BY <2>1 DEF Owns
  <2>6. enq.pc # "destroyed"
    BY <1>1, <2>1, NotDestroyed
  <2> QED BY <1>2, <2>1, <2>2, <2>4, <2>5, <2>6, DequeueQuiet
<1>6. CASE AdvanceHead(c)
  <2>1. /\ deq[c].pc = "head"
        /\ deq' = [deq EXCEPT ![c].pc = "index", ![c].index = headIndex]
        /\ UNCHANGED <<storage, enq>>
    BY <1>6 DEF AdvanceHead
  <2>2. /\ \A d \in Dequeuers \ {c} : deq'[d] = deq[d]
        /\ deq'[c].pc = "index" /\ deq'[c].index = headIndex /\ deq'[c].got = deq[c].got
        /\ deq'[c].left = deq[c].left
    BY <1>3, <2>1 DEF Call
  <2>3. PICK h \in Layouts : /\ h.off = g.off /\ h.low = g.low
                             /\ h.idx = [g.idx EXCEPT ![c] = a.H]
    <3>1. [off |-> g.off, low |-> g.low, idx |-> [g.idx EXCEPT ![c] = a.H]] \in Layouts
      BY <1>4, LayoutType DEF Layouts
    <3> QED BY <3>1
  <2>4. h.idx[c] = a.H /\ \A d \in Dequeuers \ {c} : h.idx[d] = g.idx[d]
    BY <2>3, LayoutType
  <2>5. deq[c].left > 0 /\ b.H = a.H + deq[c].left /\ a.H <= b.H
    BY <1>1, <1>2, <1>3, <1>4, <1>6, <2>1 DEF CountersFit, DequeueFits, LeftFits
  <2>6. headIndex = a.H % IndexT
    BY <1>1 DEF CountersFit, CountersUnwrap
  <2>7. Own(h, c)' = a.H .. b.H - 1
    <3>1. Own(h, c)' = h.idx[c] .. h.idx[c] + deq'[c].left - 1
      BY <2>2 DEF Own, Owns
    <3>2. h.idx[c] = a.H /\ h.idx[c] + deq'[c].left - 1 = b.H - 1
      <4>1. PICK n \in Nat : n = deq[c].left
        BY <1>3
      <4> QED BY <1>4, <2>2, <2>4, <2>5, <4>1
    <3> QED BY <3>1, <3>2
  <2>8. ASSUME NEW d \in Dequeuers \ {c}, NEW i \in Own(g, d) PROVE i \in Int /\ i < a.H
    <3>1. Owns(d) /\ i \in g.idx[d] .. g.idx[d] + deq[d].left - 1
      BY <2>8 DEF Own
    <3>2. g.idx[d] + deq[d].left <= a.H
      BY <1>1, <3>1 DEF OwnFits
    <3> QED BY <1>3, <1>4, <3>1, <3>2, LayoutType
  <2>9. OwnFits(b, h)' /\ \A d \in Dequeuers \ {c} : Own(h, d)' = Own(g, d)
    <3>1. \A d \in Dequeuers \ {c} : Own(h, c)' \intersect Own(g, d) = {}
      BY <1>4, <2>7, <2>8
    <3>2. /\ deq'[c].index = h.idx[c] % IndexT /\ h.idx[c] + deq'[c].left <= b.H
          /\ deq'[c].left > 0
      BY <1>4, <2>2, <2>4, <2>5, <2>6
    <3>3. deq'[c].index \in Indices
      <4>1. a.H \in Int
        BY <1>4
      <4> QED BY <2>2, <2>6, <4>1, IndexType
    <3> QED BY <1>1, <1>3, <2>2, <2>4, <2>5, <3>1, <3>2, <3>3, OwnMoves
  <2>10. ASSUME NEW i \in Nat PROVE Pending(b, h, i)' = Pending(a, g, i)
    <3>1. Own(g, c) = {}
      BY <2>1 DEF Own, Owns
    <3>2. (\E d \in Dequeuers : i \in Own(h, d)') <=>
            i \in a.H .. b.H - 1 \/ \E d \in Dequeuers : i \in Own(g, d)
      BY <2>7, <2>9, <3>1
    <3>3. (i >= b.H \/ i \in a.H .. b.H - 1) <=> i >= a.H
      BY <1>4, <2>5
    <3> QED BY <3>2, <3>3 DEF Pending
  <2>11. enq.pc # "destroyed"
    <3>1. deq[c].pc # "idle"
      BY <2>1
    <3> QED BY <1>1, <3>1, NotDestroyed
  <2>12. deq[c].pc # "free" /\ deq'[c].pc \notin {"key", "block", "free"}
    BY <2>1, <2>2
  <2>13. \A d \in Dequeuers \ {c} : deq'[d] = deq[d] /\ h.idx[d] = g.idx[d]
    BY <2>2, <2>4
  <2>14. OwnFits(b, h)' /\ h.off = g.off /\ h.low = g.low /\ a.H <= b.H
    BY <2>3, <2>5, <2>9
  <2>15. Fits(b, h)'
    BY <1>2, <2>1, <2>10, <2>11, <2>12, <2>13, <2>14, DequeueQuiet
  <2> QED BY <2>15
<1> QED BY <1>5, <1>6

(* The block of the next item.                                             *)
LEMMA NumberLive ==
  ASSUME NEW a \in Unwrappings, NEW g \in Layouts, Fits(a, g), NEW c \in Dequeuers,
         Owns(c), deq[c].left > 0
  PROVE  /\ blockIndex # 0 /\ Number(g, c) \in Nat /\ Number(g, c) \in Live(a, g)
         /\ Store(a, g, Number(g, c)) \in Blocks
         /\ g.idx[c] \in Nat /\ g.idx[c] + deq[c].left <= a.H /\ a.H <= a.T
         /\ Number(g, c) < BlocksTo(a.T) /\ Number(g, c) <= Top(a) - 1 - Undone
         /\ Top(a) - 1 - Undone \in Live(a, g)
         /\ Number(g, c) * BlockSize < g.idx[c] + deq[c].left
         /\ g.idx[c] = Number(g, c) * BlockSize + (g.idx[c] % BlockSize)
         /\ g.idx[c] % BlockSize \in 0 .. BlockSize - 1
<1>1. /\ CountersFit(a) /\ EnqFits(a) /\ OwnFits(a, g)
      /\ RingsFit(a, g) /\ KeysFit(a, g)
  BY DEF Fits, IndexFits
<1>2. PICK x \in Nat, y \in Nat : x = g.idx[c] /\ y = deq[c].left /\ y > 0
  BY <1>1, LeftType, LayoutType
<1>3. PICK N \in Int, r \in 0 .. BlockSize - 1 :
        /\ N = x \div BlockSize /\ r = x % BlockSize /\ x = N * BlockSize + r
        /\ N * BlockSize \in Int
  BY InBlock, Widths
<1>4. N = Number(g, c) /\ N * BlockSize < x + y
  <2>1. N = Number(g, c)
    BY <1>2, <1>3 DEF Number
  <2>2. PICK z \in Int : z = N * BlockSize
    BY <1>3
  <2>3. z < x + y
    <3>1. r \in Int /\ 0 <= r /\ x = z + r
      <4>1. r \in Int /\ 0 <= r
        BY Widths
      <4>2. x = z + r
        BY <1>3, <2>2
      <4> QED BY <4>1, <4>2
    <3> QED BY <1>2, <2>2, <3>1
  <2> QED BY <2>1, <2>2, <2>3
<1>5. N \in Live(a, g) /\ Store(a, g, N) \in Blocks
  <2>1. N >= Number(g, c) /\ N * BlockSize < g.idx[c] + deq[c].left
    BY <1>2, <1>3, <1>4
  <2> QED BY <2>1, PendingLive
<1>6. N \in Nat /\ blockIndex # 0
  BY <1>1, <1>5, LiveFacts
<1>7. x + y <= a.H /\ a.H <= a.T
  BY <1>1, <1>2 DEF OwnFits, CountersFit, CountersUnwrap
<1>8. N < BlocksTo(a.T)
  <2>1. a.T \in Nat /\ a.H \in Nat
    BY UnwrappingType
  <2>2. N * BlockSize < a.T
    BY <1>3, <1>4, <1>7, <2>1
  <2> QED BY <1>3, <2>1, <2>2, BlockBefore
<1>9. /\ Undone \in Nat /\ Undone <= Len(enq.blocks) /\ BlocksTo(a.T) \in Nat
      /\ Len(enq.blocks) \in Nat /\ Top(a) \in Nat
  BY <1>1, TopType, EnqType DEF EnqFits
<1>10. BlocksTo(a.T) + Len(enq.blocks) <= Top(a)
  BY <1>9 DEF Top
<1>11. N <= Top(a) - 1 - Undone /\ Top(a) - 1 - Undone \in Int /\ Top(a) - 1 - Undone <= Top(a) - 1
  BY <1>6, <1>8, <1>9, <1>10
<1>12. Top(a) - 1 - Undone \in Live(a, g)
  <2>1. g.low \in Nat /\ g.low <= N
    BY <1>5, LayoutType DEF Live
  <2> QED BY <1>6, <1>9, <1>11, <2>1 DEF Live
<1>13. /\ x = N * BlockSize + (x % BlockSize) /\ x % BlockSize \in 0 .. BlockSize - 1
  BY <1>3
<1>14. /\ Number(g, c) \in Nat /\ Number(g, c) \in Live(a, g)
       /\ Store(a, g, Number(g, c)) \in Blocks /\ Number(g, c) < BlocksTo(a.T)
       /\ Number(g, c) <= Top(a) - 1 - Undone
  BY <1>4, <1>5, <1>6, <1>8, <1>11
<1>15. Number(g, c) * BlockSize < g.idx[c] + deq[c].left
  BY <1>2, <1>4
<1>16. /\ g.idx[c] = Number(g, c) * BlockSize + (g.idx[c] % BlockSize)
       /\ g.idx[c] % BlockSize \in 0 .. BlockSize - 1
  BY <1>2, <1>4, <1>13
<1>17. g.idx[c] \in Nat /\ g.idx[c] + deq[c].left <= a.H
  BY <1>2, <1>7
<1> QED BY <1>6, <1>7, <1>12, <1>14, <1>15, <1>16, <1>17

LEMMA ReadIndexTailKeeps ==
  ASSUME NEW a \in Unwrappings, NEW g \in Layouts, Fits(a, g), NEW c \in Dequeuers,
         ReadIndexTail(c)
  PROVE  \E b \in Unwrappings : Fits(b, g)'
<1>1. /\ CountersFit(a) /\ EnqFits(a) /\ OwnFits(a, g) /\ PlacesFit
      /\ RingsFit(a, g) /\ KeysFit(a, g)
  BY DEF Fits, IndexFits
<1>2. /\ deq[c].pc = "index" /\ UNCHANGED <<counters, storage, enq>>
      /\ deq' = [deq EXCEPT ![c].pc = "key", ![c].header = blockIndex,
                            ![c].at = indexes[blockIndex].tail]
  BY DEF ReadIndexTail
<1>3. /\ deq \in [Dequeuers -> Call] /\ deq[c] \in Call /\ deq[c].index \in Indices
      /\ deq[c].got \in Seq(Indices) /\ \A d \in Dequeuers : deq[d].left \in Nat
  BY <1>1, LeftType DEF CountersFit, OwnFits
<1>4. Owns(c) /\ deq[c].left > 0
  BY <1>1, <1>2 DEF Owns, OwnFits
<1>5. /\ blockIndex # 0 /\ Number(g, c) \in Nat /\ Number(g, c) <= Top(a) - 1 - Undone
      /\ Top(a) - 1 - Undone \in Live(a, g)
  BY <1>4, NumberLive
<1>6. /\ blockIndex \in 1 .. blockIndex /\ ShapeFits(blockIndex)
      /\ indexes[blockIndex].tail = Pos(g, blockIndex, Top(a) - 1 - Undone)
  BY <1>1, <1>5, RingFacts DEF RingsFit
<1>7. /\ \A d \in Dequeuers \ {c} : deq'[d] = deq[d]
      /\ deq'[c].pc = "key" /\ deq'[c].header = blockIndex
      /\ deq'[c].at = indexes[blockIndex].tail /\ deq'[c].left = deq[c].left
      /\ deq'[c].index = deq[c].index /\ deq'[c].got = deq[c].got
  BY <1>2, <1>3 DEF Call
<1>8. deq' \in [Dequeuers -> Call]
  <2>1. PICK q \in Call : q = deq[c]
    BY <1>3
  <2>2. PICK r : r = [q EXCEPT !.pc = "key", !.header = blockIndex,
                               !.at = indexes[blockIndex].tail]
    OBVIOUS
  <2>3. blockIndex \in Int /\ indexes[blockIndex].tail \in Int
    BY <1>1, <1>5, EntriesType DEF RingsFit
  <2>4. r \in Call
    BY <2>2, <2>3 DEF Call, Pcs
  <2>5. deq' = [deq EXCEPT ![c] = r]
    BY <1>2, <2>1, <2>2
  <2> QED BY <1>3, <2>4, <2>5
<1>9. CountersFit(a)'
  <2>1. Quiet(deq[c]) /\ Quiet(deq'[c])
    BY <1>2, <1>7 DEF Quiet
  <2> QED BY <1>1, <1>2, <1>7, <1>8, <2>1, OutsideFits
<1>10. OwnFits(a, g)' /\ \A i : Pending(a, g, i)' = Pending(a, g, i)
  <2>1. Own(g, c)' = Own(g, c) /\ Owns(c)'
    BY <1>4, <1>7 DEF Own, Owns
  <2>2. deq'[c].index = g.idx[c] % IndexT /\ g.idx[c] + deq'[c].left <= a.H
    BY <1>1, <1>4, <1>7 DEF OwnFits
  <2> QED BY <1>1, <1>3, <1>4, <1>7, <2>1, <2>2, OwnSame
<1>11. SearchFits(g, c)'
  <2>1. PICK K \in Int : K = Top(a) - 1 - Undone /\ K \in Live(a, g) /\ Number(g, c) <= K
    BY <1>1, <1>5, TopType
  <2>2. K < g.low + Len(entries)
    <3>1. g.low \in Nat /\ Len(entries) \in Nat /\ Top(a) \in Nat /\ Top(a) <= g.low + Len(entries)
      BY <1>1, EntriesType, TopType, LayoutType DEF RingsFit, KeysFit
    <3> QED BY <2>1, <3>1 DEF Live
  <2>3. /\ entries[EntryNo(g, K)].key = Key(K)
        /\ EntryNo(g, K) = indexes[blockIndex].index[indexes[blockIndex].tail]
    BY <1>1, <1>6, <2>1 DEF KeysFit, EntryNo
  <2>4. \A B \in Int : indexes[blockIndex].index[Pos(g, blockIndex, B)] = EntryNo(g, B)
    BY DEF EntryNo
  <2>5. indexes' = indexes /\ entries' = entries /\ blockIndex' = blockIndex
    BY <1>2 DEF storage, indexes, entries, blockIndex
  <2>6. blockIndex \in 1 .. blockIndex' /\ indexes[blockIndex].tail \in 0 .. Cap(blockIndex) - 1
    BY <1>6, <2>5 DEF ShapeFits
  <2> HIDE DEF indexes, entries, blockIndex
  <2> QED BY <1>6, <1>7, <2>1, <2>2, <2>3, <2>4, <2>5, <2>6
          DEF SearchFits, Agrees, Number, EntryNo, Pos, Cap
<1>12. Fits(a, g)'
  <2>1. deq[c].pc # "free" /\ deq'[c].pc # "free" /\ a.H <= a.H /\ enq.pc # "destroyed"
    BY <1>1, <1>2, <1>7, NotDestroyed, UnwrappingType
  <2> QED BY <1>2, <1>7, <1>9, <1>10, <1>11, <2>1, DequeueQuiet
<1> QED BY <1>12

LEMMA ReadTailKeyKeeps ==
  ASSUME NEW a \in Unwrappings, NEW g \in Layouts, Fits(a, g), NEW c \in Dequeuers,
         ReadTailKey(c)
  PROVE  \E b \in Unwrappings : Fits(b, g)'
<1>1. /\ CountersFit(a) /\ EnqFits(a) /\ OwnFits(a, g) /\ PlacesFit
      /\ RingsFit(a, g) /\ KeysFit(a, g) /\ SearchesFit(g)
  BY DEF Fits, IndexFits
<1>2. /\ deq[c].pc = "key" /\ UNCHANGED <<counters, storage, enq>>
      /\ deq' = [deq EXCEPT ![c].pc = "block",
                            ![c].at = Position(deq[c].header, deq[c].at, deq[c].index)]
  BY DEF ReadTailKey
<1>3. /\ deq \in [Dequeuers -> Call] /\ deq[c] \in Call /\ deq[c].index \in Indices
      /\ deq[c].got \in Seq(Indices) /\ \A d \in Dequeuers : deq[d].left \in Nat
  BY <1>1, LeftType DEF CountersFit, OwnFits
<1>4. Owns(c) /\ deq[c].left > 0 /\ deq[c].index = g.idx[c] % IndexT
  BY <1>1, <1>2 DEF Owns, OwnFits
<1>5. SearchFits(g, c)
  BY <1>1, <1>2 DEF SearchesFit
<1>6. PICK h \in 1 .. blockIndex, K \in Int :
        /\ h = deq[c].header
        /\ Number(g, c) <= K /\ K < g.low + Len(entries)
        /\ entries[indexes[h].index[deq[c].at]].key = Key(K)
        /\ Pos(g, h, K) = deq[c].at
  BY <1>2, <1>5 DEF SearchFits
<1>7. PICK N \in Nat, x \in Nat : N = Number(g, c) /\ x = g.idx[c] /\ N = x \div BlockSize
  BY <1>4, NumberLive DEF Number
<1>8. /\ Cap(h) \in Nat \ {0} /\ g.off[h] \in Int /\ g.low \in Nat /\ g.low <= N
      /\ Len(entries) \in Nat /\ Len(entries) <= MaxCapacity /\ MaxCapacity \in Nat
  <2>1. N \in Live(a, g) /\ blockIndex # 0
    BY <1>4, <1>7, NumberLive
  <2>2. Cap(h) \in Nat \ {0} /\ h \in Nat
    BY <1>1, EntriesType DEF RingsFit
  <2>3. Len(entries) \in Nat /\ Len(entries) <= MaxCapacity
    BY <1>1, <2>1, RingFacts
  <2> QED BY <2>1, <2>2, <2>3, LayoutType, QueueAssumption DEF Live
<1>9. Position(h, deq[c].at, deq[c].index) = Pos(g, h, N)
  <2>1. N - K < MaxCapacity /\ K - N < MaxCapacity
    <3>1. MaxCapacity > 0
      BY QueueAssumption
    <3>2. PICK l \in Int, n \in Int, m \in Int : l = g.low /\ n = Len(entries) /\ m = MaxCapacity
      BY <1>8
    <3> QED BY <1>6, <1>7, <1>8, <3>1, <3>2
  <2>2. PICK off \in Int, size \in Nat \ {0} : off = g.off[h] /\ size = Cap(h)
    BY <1>8
  <2>3. PositionFrom((K + off) % size, Key(K), x % IndexT, size)
           = ((x \div BlockSize) + off) % size
    BY <1>7, <2>1, PositionOf
  <2>4. deq[c].at = (K + off) % size /\ deq[c].index = x % IndexT
    BY <1>4, <1>6, <1>7, <2>2 DEF Pos
  <2> QED BY <1>6, <1>7, <2>2, <2>3, <2>4 DEF Position, Pos, Cap
<1>10. Pos(g, h, N) \in 0 .. Cap(h) - 1 /\ Pos(g, h, N) \in Int
  <2>1. Pos(g, h, N) \in 0 .. Cap(h) - 1
    <3>1. N \in Int
      BY <1>7
    <3> QED BY <1>1, <3>1, RingFacts
  <2> QED BY <1>8, <2>1
<1>11. /\ \A d \in Dequeuers \ {c} : deq'[d] = deq[d]
       /\ deq'[c].pc = "block" /\ deq'[c].header = h
       /\ deq'[c].at = Pos(g, h, N) /\ deq'[c].left = deq[c].left
       /\ deq'[c].index = deq[c].index /\ deq'[c].got = deq[c].got
  BY <1>2, <1>3, <1>6, <1>9 DEF Call
<1>12. deq' \in [Dequeuers -> Call]
  <2>1. PICK q \in Call : q = deq[c]
    BY <1>3
  <2>2. PICK p \in Int : p = Pos(g, h, N)
    BY <1>10
  <2>3. PICK r : r = [q EXCEPT !.pc = "block", !.at = p]
    OBVIOUS
  <2>4. r \in Call
    BY <2>3 DEF Call, Pcs
  <2>5. deq' = [deq EXCEPT ![c] = r]
    BY <1>2, <1>6, <1>9, <2>1, <2>2, <2>3
  <2> QED BY <1>3, <2>4, <2>5
<1>13. CountersFit(a)'
  <2>1. Quiet(deq[c]) /\ Quiet(deq'[c])
    BY <1>2, <1>11 DEF Quiet
  <2> QED BY <1>1, <1>2, <1>11, <1>12, <2>1, OutsideFits
<1>14. OwnFits(a, g)' /\ \A i : Pending(a, g, i)' = Pending(a, g, i)
  <2>1. Own(g, c)' = Own(g, c) /\ Owns(c)'
    BY <1>4, <1>11 DEF Own, Owns
  <2>2. deq'[c].index = g.idx[c] % IndexT /\ g.idx[c] + deq'[c].left <= a.H
    BY <1>1, <1>4, <1>11 DEF OwnFits
  <2> QED BY <1>1, <1>3, <1>4, <1>11, <2>1, <2>2, OwnSame
<1>15. SearchFits(g, c)'
  <2>1. indexes' = indexes /\ entries' = entries /\ blockIndex' = blockIndex
    BY <1>2 DEF storage, indexes, entries, blockIndex
  <2>2. Agrees(g, c)'
    <3>1. Agrees(g, c)
      BY <1>5 DEF SearchFits
    <3> QED BY <1>6, <1>11, <2>1, <3>1 DEF Agrees, Number, EntryNo, Pos, Cap
  <2>3. h \in 1 .. blockIndex' /\ Cap(h)' = Cap(h) /\ Pos(g, h, N)' = Pos(g, h, N)
    BY <2>1 DEF Cap, Pos
  <2>4. Number(g, c)' = N
    BY <1>7 DEF Number
  <2> QED BY <1>10, <1>11, <2>2, <2>3, <2>4 DEF SearchFits, Pos, Cap
<1>16. Fits(a, g)'
  <2>1. deq[c].pc # "free" /\ deq'[c].pc # "free" /\ a.H <= a.H /\ enq.pc # "destroyed"
    BY <1>1, <1>2, <1>11, NotDestroyed, UnwrappingType
  <2> QED BY <1>2, <1>11, <1>13, <1>14, <1>15, <2>1, DequeueQuiet
<1> QED BY <1>16

(* On to the next block, if there is more to dequeue.                      *)
LEMMA ContinueOf ==
  ASSUME NEW a \in Unwrappings, NEW g \in Layouts, RingsFit(a, g), EnqFits(a),
         deq \in [Dequeuers -> Call], NEW c \in Dequeuers, NEW d \in Call,
         d.index \in Indices, d.got \in Seq(Indices),
         NEW h \in 1 .. blockIndex, d.header = h, NEW M \in Int,
         d.left # 0 => d.at = Pos(g, h, M), Continue(c, d, Cap(h))
  PROVE  /\ deq' \in [Dequeuers -> Call] /\ \A e \in Dequeuers \ {c} : deq'[e] = deq[e]
         /\ deq'[c].index \in Indices /\ deq'[c].got \in Seq(Indices)
         /\ \/ d.left = 0 /\ deq'[c].pc = "idle"
            \/ /\ d.left # 0 /\ deq'[c].pc = "block" /\ deq'[c].index = d.index
               /\ deq'[c].left = d.left /\ deq'[c].header = h
               /\ deq'[c].at = Pos(g, h, M + 1)
<1>1. CASE d.left = 0
  <2>1. deq' = [deq EXCEPT ![c] = Idle]
    BY <1>1 DEF Continue, Return
  <2>2. Idle.pc = "idle" /\ Idle.index = 0 /\ Idle.got = << >> /\ Idle \in Call
    BY IdleType DEF Idle
  <2>3. 0 \in Indices /\ << >> \in Seq(Indices)
    BY Widths DEF Indices
  <2>4. deq'[c] = Idle
    BY <2>1
  <2>5. deq' \in [Dequeuers -> Call]
    BY <2>1, <2>2
  <2> QED BY <1>1, <2>1, <2>2, <2>3, <2>4, <2>5
<1>2. CASE d.left # 0
  <2>1. PICK p : p = (d.at + 1) % Cap(h)
    OBVIOUS
  <2>2. PICK r : r = [d EXCEPT !.pc = "block", !.block = Null, !.at = p]
    OBVIOUS
  <2>3. deq' = [deq EXCEPT ![c] = r]
    BY <1>2, <2>1, <2>2 DEF Continue
  <2>4. p = Pos(g, h, M + 1) /\ p \in Int
    <3>1. PICK off \in Int, size \in Nat \ {0} : off = g.off[h] /\ size = Cap(h)
      <4>1. h \in Nat /\ Cap(h) \in Nat \ {0}
        BY EntriesType DEF RingsFit
      <4> QED BY <4>1, LayoutType
    <3>2. PICK x \in Int : x = M + off
      BY <3>1
    <3>3. ((x % size) + 1) % size = (x + 1) % size
      BY <3>1, <3>2, ModAdd
    <3>4. d.at = x % size
      BY <1>2, <3>1, <3>2 DEF Pos
    <3>5. M + 1 + off = x + 1
      <4>1. ASSUME NEW i \in Int, NEW j \in Int PROVE i + 1 + j = i + j + 1
        OBVIOUS
      <4>2. off \in Int
        BY <3>1
      <4> QED BY <3>2, <4>1, <4>2
    <3>6. (x + 1) % size \in Int
      <4>1. x + 1 \in Int
        BY <3>2
      <4> QED BY <3>1, <4>1, Division
    <3> QED BY <2>1, <3>1, <3>3, <3>4, <3>5, <3>6 DEF Pos
  <2>5. /\ r \in Call /\ r.pc = "block" /\ r.index = d.index /\ r.left = d.left
        /\ r.header = d.header /\ r.at = p /\ r.got = d.got
    BY <2>2, <2>4 DEF Call, Pcs
  <2>6. deq'[c] = r
    BY <2>3
  <2>7. deq' \in [Dequeuers -> Call] /\ \A e \in Dequeuers \ {c} : deq'[e] = deq[e]
    BY <2>3, <2>5
  <2> QED BY <1>2, <2>4, <2>5, <2>6, <2>7
<1> QED BY <1>1, <1>2

LEMMA FreeBlockKeeps ==
  ASSUME NEW a \in Unwrappings, NEW g \in Layouts, Fits(a, g), NEW c \in Dequeuers,
         FreeBlock(c)
  PROVE  \E b \in Unwrappings : Fits(b, g)'
<1>1. /\ CountersFit(a) /\ EnqFits(a) /\ OwnFits(a, g) /\ PlacesFit
      /\ RingsFit(a, g) /\ KeysFit(a, g) /\ SearchesFit(g)
  BY DEF Fits, IndexFits
<1>2. /\ deq[c].pc = "free" /\ free' = free \union {deq[c].block}
      /\ Continue(c, deq[c], Capacity(deq[c]))
      /\ UNCHANGED <<counters, tailBlock, block, index, enq>>
  BY DEF FreeBlock
<1>3. /\ deq \in [Dequeuers -> Call] /\ deq[c] \in Call /\ deq[c].index \in Indices
      /\ deq[c].got \in Seq(Indices) /\ \A d \in Dequeuers : deq[d].left \in Nat
  BY <1>1, LeftType DEF CountersFit, OwnFits
<1>4. Owns(c) /\ deq[c].index = g.idx[c] % IndexT /\ g.idx[c] + deq[c].left <= a.H
  BY <1>1, <1>2 DEF Owns, OwnFits
<1>5. SearchFits(g, c)
  BY <1>1, <1>2 DEF SearchesFit
<1>6. PICK h \in 1 .. blockIndex, N \in Int :
        /\ h = deq[c].header /\ N = Number(g, c)
        /\ deq[c].left # 0 => deq[c].at = Pos(g, h, N - 1)
  <2>1. Number(g, c) \in Int
    <3>1. g.idx[c] \in Int
      BY LayoutType
    <3> QED BY <3>1, InBlock DEF Number
  <2> QED BY <1>2, <1>3, <1>5, <2>1 DEF SearchFits
<1>7. /\ deq' \in [Dequeuers -> Call] /\ \A e \in Dequeuers \ {c} : deq'[e] = deq[e]
      /\ deq'[c].index \in Indices /\ deq'[c].got \in Seq(Indices)
      /\ \/ deq[c].left = 0 /\ deq'[c].pc = "idle"
         \/ /\ deq[c].left # 0 /\ deq'[c].pc = "block" /\ deq'[c].index = deq[c].index
            /\ deq'[c].left = deq[c].left /\ deq'[c].header = h
            /\ deq'[c].at = Pos(g, h, N)
  <2>1. PICK M \in Int : M = N - 1 /\ M + 1 = N
    OBVIOUS
  <2>2. Continue(c, deq[c], Cap(h))
    BY <1>2, <1>6 DEF Capacity, Cap
  <2>3. deq[c].left # 0 => deq[c].at = Pos(g, h, M)
    BY <1>6, <2>1
  <2>4. /\ deq' \in [Dequeuers -> Call] /\ \A e \in Dequeuers \ {c} : deq'[e] = deq[e]
        /\ deq'[c].index \in Indices /\ deq'[c].got \in Seq(Indices)
        /\ \/ deq[c].left = 0 /\ deq'[c].pc = "idle"
           \/ /\ deq[c].left # 0 /\ deq'[c].pc = "block" /\ deq'[c].index = deq[c].index
              /\ deq'[c].left = deq[c].left /\ deq'[c].header = h
              /\ deq'[c].at = Pos(g, h, M + 1)
    BY <1>1, <1>3, <1>6, <2>2, <2>3, ContinueOf
  <2> QED BY <2>1, <2>4
<1>8. CountersFit(a)'
  <2>1. Quiet(deq[c]) /\ Quiet(deq'[c])
    BY <1>2, <1>7 DEF Quiet
  <2> QED BY <1>1, <1>2, <1>7, <2>1, OutsideFits
<1>9. OwnFits(a, g)' /\ \A i : Pending(a, g, i)' = Pending(a, g, i)
  <2>1. Own(g, c)' = Own(g, c)
    <3>1. CASE deq[c].left = 0
      <4>1. Own(g, c)' = {}
        BY <1>7, <3>1 DEF Own, Owns
      <4>2. Own(g, c) = {}
        <5>1. PICK x \in Int : x = g.idx[c]
          BY LayoutType
        <5>2. x .. x + 0 - 1 = {}
          BY <5>1
        <5> QED BY <1>4, <3>1, <5>1, <5>2 DEF Own
      <4> QED BY <4>1, <4>2
    <3>2. CASE deq[c].left # 0
      BY <1>4, <1>7, <3>2 DEF Own, Owns
    <3> QED BY <3>1, <3>2
  <2>2. Owns(c)' => /\ deq'[c].index = g.idx[c] % IndexT /\ g.idx[c] + deq'[c].left <= a.H
                    /\ deq'[c].left > 0
    BY <1>3, <1>4, <1>7 DEF Owns
  <2> QED BY <1>1, <1>3, <1>7, <2>1, <2>2, OwnSame
<1>10. ASSUME deq'[c].pc \in {"key", "block"} PROVE SearchFits(g, c)'
  <2>0. /\ deq[c].left # 0 /\ deq'[c].pc = "block" /\ deq'[c].index = deq[c].index
        /\ deq'[c].left = deq[c].left /\ deq'[c].header = h
        /\ deq'[c].at = Pos(g, h, N)
    BY <1>7, <1>10
  <2>1. indexes' = indexes /\ entries' = entries /\ blockIndex' = blockIndex
    BY <1>2 DEF indexes, entries, blockIndex
  <2>2. Agrees(g, c)'
    <3>1. Agrees(g, c)
      BY <1>5 DEF SearchFits
    <3> QED BY <1>6, <2>0, <2>1, <3>1 DEF Agrees, Number, EntryNo, Pos, Cap
  <2>3. h \in 1 .. blockIndex' /\ Cap(h)' = Cap(h) /\ Pos(g, h, N)' = Pos(g, h, N)
    BY <2>1 DEF Cap, Pos
  <2>4. Number(g, c)' = N
    BY <1>6 DEF Number
  <2>5. Pos(g, h, N) \in 0 .. Cap(h) - 1
    BY <1>1, RingFacts
  <2> QED BY <2>0, <2>2, <2>3, <2>4, <2>5 DEF SearchFits, Pos, Cap
<1>11. enq.pc # "destroyed" /\ enq'.pc # "destroyed"
  <2>1. deq[c].pc # "idle"
    BY <1>2
  <2> QED BY <1>1, <1>2, <2>1, NotDestroyed
<1>12. /\ EnqFits(a)' /\ Undone' = Undone
       /\ RingsFit(a, g)' /\ KeysFit(a, g)' /\ SearchesFit(g)'
       /\ BlocksFit(a, g)' /\ TakenFit(a, g)'
  <2>1. deq'[c].pc # "free" /\ a.H <= a.H
    BY <1>7, UnwrappingType
  <2> QED BY <1>2, <1>7, <1>8, <1>9, <1>10, <2>1, DequeueIndex
<1>13. PlacesFit'
  <2>1. PICK y \in Blocks : y = deq[c].block
    BY <1>1, <1>2 DEF PlacesFit
  <2>2. /\ Freeing(y) = {c} /\ Entered(y) = {} /\ Untaken(y) = {}
    <3>1. c \in Freeing(y)
      BY <1>2, <2>1 DEF Freeing
    <3> QED BY <1>1, <1>11, <3>1, PlaceOf
  <2>3. entries' = entries
    BY <1>2 DEF entries
  <2>4. \A x \in Blocks : Entered(x)' = Entered(x) /\ Untaken(x)' = Untaken(x)
    BY <1>2, <1>12, <2>3 DEF Entered, Untaken
  <2>5. deq'[c].pc # "free"
    BY <1>7
  <2>6. \A x \in Blocks : x # y => Freeing(x)' = Freeing(x)
    BY <1>7, <2>1, <2>5 DEF Freeing
  <2>7. Freeing(y)' = {}
    BY <1>7, <2>2, <2>5 DEF Freeing
  <2>8. free' = free \union {y} /\ free' \subseteq Blocks
    BY <1>1, <1>2, <2>1 DEF PlacesFit
  <2>9. IsOne(PlacesOf(free' \intersect {y}, Entered(y)', Freeing(y)', Untaken(y)'))
    <3>1. free' \intersect {y} = {y}
      BY <2>8
    <3>2. IsOne(PlacesOf({y}, {}, {}, {}))
      BY NewPlace
    <3> QED BY <2>2, <2>4, <2>7, <3>1, <3>2
  <2>10. \A d \in Dequeuers : deq'[d].pc = "free" => deq'[d].block \in Blocks
    BY <1>1, <1>7, <2>5 DEF PlacesFit
  <2>11. \A x \in Blocks \ {y} : /\ x \in free' <=> x \in free
                                 /\ Entered(x)' = Entered(x) /\ Freeing(x)' = Freeing(x)
                                 /\ Untaken(x)' = Untaken(x)
    BY <2>4, <2>6, <2>8
  <2>12. \A x \in Blocks \intersect {y} :
           IsOne(PlacesOf(free' \intersect {x}, Entered(x)', Freeing(x)', Untaken(x)'))
    BY <2>9
  <2> QED BY <1>1, <1>11, <1>12, <2>8, <2>10, <2>11, <2>12, PlacesStay
<1>14. Fits(a, g)'
  BY <1>8, <1>9, <1>12, <1>13 DEF Fits, IndexFits
<1> QED BY <1>14

(* What c moves out: m of its y items, from x, which is item s of block N. *)
Moves(a, g, c, x, y, N, s, m) ==
  /\ x = g.idx[c] /\ y = deq[c].left /\ N = Number(g, c) /\ m = Chunk(c)
  /\ s = Slot(deq[c].index) /\ s = x % BlockSize /\ x = N * BlockSize + s
  /\ m <= y /\ s + m <= BlockSize /\ (m < y => s + m = BlockSize)
  /\ x + y <= a.H /\ a.H <= a.T

LEMMA MoveFacts ==
  ASSUME NEW a \in Unwrappings, NEW g \in Layouts, Fits(a, g), NEW c \in Dequeuers,
         deq[c].pc = "block"
  PROVE  /\ EntryOf(c) = EntryNo(g, Number(g, c))
         /\ entries[EntryOf(c)].key = BlockBase(deq[c].index)
         /\ entries[EntryOf(c)].value = Store(a, g, Number(g, c))
         /\ Store(a, g, Number(g, c)) \in Blocks
         /\ Number(g, c) \in Live(a, g)
         /\ \E x \in Nat, y \in Nat, N \in Nat, s \in 0 .. BlockSize - 1, m \in Nat \ {0} :
              Moves(a, g, c, x, y, N, s, m)
<1>1. /\ CountersFit(a) /\ EnqFits(a) /\ OwnFits(a, g)
      /\ RingsFit(a, g) /\ KeysFit(a, g) /\ SearchesFit(g)
  BY DEF Fits, IndexFits
<1>2. Owns(c) /\ deq[c].left > 0 /\ deq[c].index = g.idx[c] % IndexT
  BY <1>1 DEF Owns, OwnFits
<1>3. /\ Number(g, c) \in Nat /\ Number(g, c) \in Live(a, g)
      /\ Store(a, g, Number(g, c)) \in Blocks
      /\ g.idx[c] \in Nat /\ g.idx[c] + deq[c].left <= a.H /\ a.H <= a.T
      /\ Number(g, c) * BlockSize < g.idx[c] + deq[c].left
      /\ g.idx[c] = Number(g, c) * BlockSize + (g.idx[c] % BlockSize)
      /\ g.idx[c] % BlockSize \in 0 .. BlockSize - 1
  BY <1>2, NumberLive
<1>4. PICK x \in Nat, y \in Nat, N \in Nat, s \in 0 .. BlockSize - 1 :
        /\ x = g.idx[c] /\ y = deq[c].left /\ y > 0 /\ N = Number(g, c) /\ s = x % BlockSize
        /\ x = N * BlockSize + s
  BY <1>1, <1>2, <1>3, LeftType
<1>5. SearchFits(g, c)
  BY <1>1 DEF SearchesFit
<1>6. EntryOf(c) = EntryNo(g, N)
  <2>1. Agrees(g, c) /\ deq[c].at = Pos(g, deq[c].header, N)
    BY <1>4, <1>5 DEF SearchFits
  <2>2. N \in Int /\ N >= Number(g, c) /\ N * BlockSize < g.idx[c] + deq[c].left
    BY <1>3, <1>4
  <2>3. indexes[deq[c].header].index[Pos(g, deq[c].header, N)] = EntryNo(g, N)
    BY <1>2, <2>1, <2>2 DEF Agrees
  <2> QED BY <2>1, <2>3 DEF EntryOf
<1>7. /\ entries[EntryNo(g, N)].key = Key(N)
      /\ entries[EntryNo(g, N)].value = Store(a, g, N)
  BY <1>1, <1>3, <1>4, LiveFacts
<1>8. BlockBase(deq[c].index) = Key(N)
  <2>1. BlockBase(x % IndexT) = Key(x \div BlockSize)
    BY <1>4, BaseOf
  <2> QED BY <1>2, <1>4, <2>1 DEF Number
<1>9. Slot(deq[c].index) = s
  BY <1>2, <1>4, SlotOf
<1>10. PICK m \in Nat \ {0} : /\ m = Chunk(c)
                              /\ m <= y /\ s + m <= BlockSize /\ (m < y => s + m = BlockSize)
  <2>1. PICK room \in Nat \ {0} : room = BlockSize - s /\ s + room = BlockSize
    BY <1>4, Widths
  <2>2. Chunk(c) = IF y < room THEN y ELSE room
    BY <1>4, <1>9, <2>1 DEF Chunk
  <2>3. y \in Nat \ {0} /\ s \in Int
    BY <1>4
  <2>4. CASE y < room
    <3>1. s + y <= BlockSize /\ y <= y
      BY <2>1, <2>3, <2>4
    <3>2. Chunk(c) = y
      BY <2>2, <2>4
    <3> QED BY <2>3, <3>1, <3>2
  <2>5. CASE ~(y < room)
    <3>1. room <= y /\ s + room <= BlockSize
      BY <2>1, <2>3, <2>5, Widths
    <3>2. Chunk(c) = room
      BY <2>2, <2>5
    <3> QED BY <2>1, <3>1, <3>2
  <2> QED BY <2>4, <2>5
<1>11. Moves(a, g, c, x, y, N, s, m)
  BY <1>3, <1>4, <1>9, <1>10 DEF Moves
<1> QED BY <1>3, <1>4, <1>6, <1>7, <1>8, <1>11

(* They are items of c, of block N.                                        *)
LEMMA MovesOwn ==
  ASSUME NEW a \in Unwrappings, NEW g \in Layouts, NEW c \in Dequeuers, Owns(c),
         NEW x \in Nat, NEW y \in Nat, NEW N \in Nat, NEW s \in 0 .. BlockSize - 1,
         NEW m \in Nat \ {0}, Moves(a, g, c, x, y, N, s, m), NEW k \in 0 .. m - 1
  PROVE  /\ x + k \in Own(g, c) /\ x + k \in Nat /\ x + k < a.T
         /\ (x + k) \div BlockSize = N /\ (x + k) % BlockSize = s + k
         /\ s + k \in Slots /\ x + k = N * BlockSize + (s + k)
<1>1. Own(g, c) = x .. x + y - 1
  BY DEF Own, Moves
<1>2. m <= y /\ s + m <= BlockSize /\ x + y <= a.T /\ a.T \in Nat /\ k \in Int
      /\ BlockSize \in Int
  <2>1. a.T \in Nat /\ a.H \in Nat /\ k \in Int /\ BlockSize \in Int
    BY UnwrappingType, Widths
  <2>2. m <= y /\ s + m <= BlockSize /\ x + y <= a.H /\ a.H <= a.T
    BY DEF Moves
  <2> QED BY <2>1, <2>2
<1>3. x + k \in x .. x + y - 1 /\ x + k < a.T
  BY <1>2
<1>4. PICK r \in 0 .. BlockSize - 1 : r = s + k
  BY <1>2
<1>5. (N * BlockSize + r) \div BlockSize = N /\ (N * BlockSize + r) % BlockSize = r
  BY NumberUnique
<1>6. x + k = N * BlockSize + r
  <2>1. PICK z \in Int : z = N * BlockSize
    BY Widths
  <2>2. x = z + s
    BY <2>1 DEF Moves
  <2> QED BY <1>2, <1>4, <2>1, <2>2
<1> QED BY <1>1, <1>3, <1>4, <1>5, <1>6 DEF Slots

LEMMA MovedOf ==
  ASSUME NEW a \in Unwrappings, NEW g \in Layouts, Fits(a, g), NEW c \in Dequeuers,
         deq[c].pc = "block", NEW x \in Nat, NEW y \in Nat, NEW N \in Nat,
         NEW s \in 0 .. BlockSize - 1, NEW m \in Nat \ {0}, Moves(a, g, c, x, y, N, s, m),
         NEW b \in Blocks, b = Store(a, g, N)
  PROVE  \E d \in Call :
           /\ d = Moved(c, b) /\ d.pc = "block" /\ d.index = (x + m) % IndexT
           /\ d.index \in Indices /\ d.left = y - m /\ d.block = b /\ d.got \in Seq(Indices)
           /\ d.header = deq[c].header /\ d.at = deq[c].at
<1>1. CountersFit(a) /\ OwnFits(a, g) /\ BlocksFit(a, g)
  BY DEF Fits, IndexFits
<1>2. deq[c] \in Call /\ deq[c].got \in Seq(Indices) /\ deq[c].index = x % IndexT /\ Owns(c)
  BY <1>1, LeftType DEF OwnFits, Owns, Moves
<1>3. ASSUME NEW k \in 0 .. m - 1 PROVE block[b].elements[s + k] \in Indices
  <2>0. /\ x + k \in Own(g, c) /\ x + k \in Nat /\ x + k < a.T
        /\ (x + k) \div BlockSize = N /\ (x + k) % BlockSize = s + k
    <3>1. Owns(c)
      BY <1>2
    <3> QED BY <3>1, MovesOwn
  <2>1. PICK i \in Nat : /\ i = x + k /\ i \in Own(g, c) /\ i < a.T
                         /\ i \div BlockSize = N /\ i % BlockSize = s + k
    BY <2>0
  <2>2. Pending(a, g, i)
    BY <2>1 DEF Pending
  <2>3. block[b].elements[s + k] = i % IndexT
    BY <1>1, <2>1, <2>2 DEF BlocksFit
  <2> QED BY <2>3, IndexType
<1>4. PICK q : q = [k \in 1 .. m |-> block[b].elements[s + k - 1]]
  OBVIOUS
<1>5. q \in Seq(Indices)
  <2>1. ASSUME NEW k \in 1 .. m PROVE q[k] \in Indices
    <3>1. PICK j \in 0 .. m - 1 : j = k - 1
      OBVIOUS
    <3>2. s + k - 1 = s + j
      BY <3>1
    <3> QED BY <1>3, <1>4, <3>1, <3>2
  <2>2. q \in [1 .. m -> Indices]
    BY <1>4, <2>1
  <2> QED BY <2>2
<1>6. PICK p : p = deq[c].got \o q
  OBVIOUS
<1>7. p \in Seq(Indices) /\ p \in Seq(Int \union {Null})
  <2>1. p \in Seq(Indices)
    BY <1>2, <1>5, <1>6, ConcatProperties
  <2>2. Indices \subseteq Int \union {Null}
    BY DEF Indices
  <2>3. Len(p) \in Nat /\ DOMAIN p = 1 .. Len(p) /\ p = [k \in 1 .. Len(p) |-> p[k]]
        /\ \A k \in 1 .. Len(p) : p[k] \in Indices
    BY <2>1
  <2>4. p \in [1 .. Len(p) -> Int \union {Null}]
    BY <2>2, <2>3
  <2>5. \A n \in Nat : \A f \in [1 .. n -> Int \union {Null}] : f \in Seq(Int \union {Null})
    OBVIOUS
  <2> QED BY <2>1, <2>3, <2>4, <2>5
<1>8. PICK r \in Call : r = deq[c]
  BY <1>2
<1>9. PICK d : d = [r EXCEPT !.index = (x + m) % IndexT, !.left = y - m, !.block = b, !.got = p]
  OBVIOUS
<1>10. (x + m) % IndexT \in Indices /\ (x + m) % IndexT \in Int
  <2>1. x + m \in Int
    OBVIOUS
  <2>2. (x + m) % IndexT \in Indices
    BY <2>1, IndexType
  <2> QED BY <2>2, Widths DEF Indices
<1>11. y - m \in 0 .. MaxBulk
  <2>1. y <= MaxBulk /\ m <= y
    <3>1. deq[c].left <= MaxBulk
      BY <1>1, LeftType
    <3> QED BY <3>1 DEF Moves
  <2>2. MaxBulk \in Nat
    BY QueueAssumption
  <2> QED BY <2>1, <2>2
<1>12. d \in Call
  BY <1>7, <1>9, <1>10, <1>11 DEF Call
<1>13. /\ d.pc = r.pc /\ d.index = (x + m) % IndexT /\ d.left = y - m /\ d.block = b
       /\ d.got = p /\ d.header = r.header /\ d.at = r.at
  BY <1>9 DEF Call
<1>14. d = Moved(c, b)
  <2>1. Plus(deq[c].index, Chunk(c)) = (x + m) % IndexT
    <3>1. x \in Int /\ m \in Int
      OBVIOUS
    <3>2. Plus(x % IndexT, m) = (x + m) % IndexT
      BY <3>1, PlusOf
    <3> QED BY <1>2, <3>2 DEF Moves
  <2>2. Chunk(c) = m /\ Slot(deq[c].index) = s /\ deq[c].left = y
    BY DEF Moves
  <2>3. r.index = deq[c].index /\ r.left = y /\ r.got = deq[c].got
    BY <1>8, <2>2
  <2>4. d = [r EXCEPT !.index = Plus(@, m), !.left = @ - m, !.block = b, !.got = @ \o q]
    BY <1>6, <1>8, <1>9, <2>1, <2>2, <2>3
  <2> QED BY <1>4, <1>8, <2>2, <2>4 DEF Moved
<1> QED BY <1>7, <1>8, <1>10, <1>12, <1>13, <1>14

(* The block after that.                                                   *)
LEMMA SetEmptyOf ==
  ASSUME NEW a \in Unwrappings, NEW g \in Layouts, block \in [Blocks -> BlockType],
         NEW c \in Dequeuers, NEW x \in Nat, NEW y \in Nat, NEW N \in Nat,
         NEW s \in 0 .. BlockSize - 1, NEW m \in Nat \ {0}, Moves(a, g, c, x, y, N, s, m),
         NEW b \in Blocks, block[b].done + m <= BlockSize
  PROVE  /\ SetEmpty(c, b) \in [Blocks -> BlockType]
         /\ SetEmpty(c, b)[b].done = block[b].done + m
         /\ \A k \in Slots \ (s .. s + m - 1) :
              SetEmpty(c, b)[b].elements[k] = block[b].elements[k]
         /\ \A e \in Blocks \ {b} : SetEmpty(c, b)[e] = block[e]
<1>1. Chunk(c) = m /\ Slot(deq[c].index) = s
  BY DEF Moves
<1>2. PICK q \in BlockType : q = block[b]
  OBVIOUS
<1>3. PICK f : f = [k \in Slots |-> IF k \in s .. s + m - 1 THEN Null ELSE q.elements[k]]
  OBVIOUS
<1>4. PICK r : r = [q EXCEPT !.elements = f, !.done = q.done + m]
  OBVIOUS
<1>5. SetEmpty(c, b) = [block EXCEPT ![b] = r]
  BY <1>1, <1>2, <1>3, <1>4 DEF SetEmpty
<1>6. f \in [Slots -> Indices \union {Null}]
  <2>1. q.elements \in [Slots -> Indices \union {Null}]
    BY DEF BlockType
  <2> QED BY <1>3, <2>1
<1>7. q.done + m \in 0 .. BlockSize
  <2>1. q.done \in 0 .. BlockSize
    BY DEF BlockType
  <2> QED BY <1>2, <2>1, Widths
<1>8. r \in BlockType /\ r.done = q.done + m /\ r.elements = f
  BY <1>4, <1>6, <1>7 DEF BlockType
<1> QED BY <1>2, <1>3, <1>5, <1>8

(* After that the others have the items they had, c the rest of its own.   *)
LEMMA MovedOwn ==
  ASSUME NEW a \in Unwrappings, NEW g \in Layouts, Fits(a, g), NEW c \in Dequeuers, Owns(c),
         NEW x \in Nat, NEW y \in Nat, NEW N \in Nat, NEW s \in 0 .. BlockSize - 1,
         NEW m \in Nat \ {0}, Moves(a, g, c, x, y, N, s, m),
         NEW h \in Layouts, h.idx[c] = x + m,
         \A d \in Dequeuers \ {c} : deq'[d] = deq[d] /\ h.idx[d] = g.idx[d],
         deq'[c].index \in Indices, deq'[c].got \in Seq(Indices),
         Owns(c)' => /\ deq'[c].index = (x + m) % IndexT /\ deq'[c].left = y - m
                     /\ deq'[c].pc # "free" => deq'[c].left > 0,
         ~Owns(c)' => m = y
  PROVE  /\ OwnFits(a, h)'
         /\ \A i \in Nat : Pending(a, h, i)' <=> Pending(a, g, i) /\ i \notin x .. x + m - 1
<1>1. CountersFit(a) /\ OwnFits(a, g)
  BY DEF Fits, IndexFits
<1>2. a.H \in Nat /\ m <= y /\ x + y <= a.H /\ deq[c].left = y
  BY UnwrappingType DEF Moves
<1>3. Own(g, c) = x .. x + y - 1
  BY DEF Own, Moves
<1>4. Own(h, c)' = x + m .. x + y - 1
  <2>1. CASE Owns(c)'
    <3>1. Own(h, c)' = x + m .. x + m + (y - m) - 1
      BY <2>1 DEF Own
    <3>2. x + m + (y - m) - 1 = x + y - 1
      OBVIOUS
    <3> QED BY <3>1, <3>2
  <2>2. CASE ~Owns(c)'
    <3>1. Own(h, c)' = {}
      BY <2>2 DEF Own
    <3>2. m = y
      BY <2>2
    <3>3. x + m .. x + y - 1 = {}
      BY <3>2
    <3> QED BY <3>1, <3>3
  <2> QED BY <2>1, <2>2
<1>5. \A i \in Int : /\ i \in x .. x + y - 1 <=> i \in x .. x + m - 1 \/ i \in x + m .. x + y - 1
                     /\ ~(i \in x .. x + m - 1 /\ i \in x + m .. x + y - 1)
                     /\ i \in x .. x + y - 1 => i < a.H
  BY <1>2
<1>6. \A d \in Dequeuers \ {c} : /\ Own(h, c)' \intersect Own(g, d) = {}
                                 /\ Own(g, c) \intersect Own(g, d) = {}
  <2>1. \A d \in Dequeuers \ {c} : Own(g, c) \intersect Own(g, d) = {}
    BY <1>1 DEF OwnFits
  <2>2. Own(h, c)' \subseteq Own(g, c)
    BY <1>2, <1>3, <1>4
  <2> QED BY <2>1, <2>2
<1>7. /\ OwnFits(a, h)' /\ \A d \in Dequeuers \ {c} : Own(h, d)' = Own(g, d)
  <2>1. \A d \in Dequeuers : deq[d].left \in Nat
    BY <1>1, LeftType
  <2>2. Owns(c)' => /\ deq'[c].index = h.idx[c] % IndexT /\ h.idx[c] + deq'[c].left <= a.H
                    /\ deq'[c].pc # "free" => deq'[c].left > 0
    <3>1. x + m + (y - m) <= a.H
      BY <1>2
    <3> QED BY <3>1
  <2>3. a.H <= a.H
    BY <1>2
  <2>4. \A d \in Dequeuers \ {c} : Own(h, c)' \intersect Own(g, d) = {}
    BY <1>6
  <2>5. OwnFits(a, h)'
    BY <1>1, <2>1, <2>2, <2>3, <2>4, OwnMoves, SMTT(60)
  <2>6. \A d \in Dequeuers \ {c} : Own(h, d)' = Own(g, d)
    BY <1>1, <2>1, <2>2, <2>3, <2>4, OwnMoves, SMTT(60)
  <2> QED BY <2>5, <2>6
<1>8. ASSUME NEW i \in Nat
      PROVE  Pending(a, h, i)' <=> Pending(a, g, i) /\ i \notin x .. x + m - 1
  <2>1. CASE i >= a.H
    BY <1>2, <1>5, <2>1 DEF Pending
  <2>2. CASE ~(i >= a.H)
    <3>1. Pending(a, h, i)' <=> i \in Own(h, c)' \/ \E d \in Dequeuers \ {c} : i \in Own(g, d)
      BY <1>7, <2>2 DEF Pending
    <3>2. Pending(a, g, i) <=> i \in Own(g, c) \/ \E d \in Dequeuers \ {c} : i \in Own(g, d)
      BY <2>2 DEF Pending
    <3>0. /\ i \in x .. x + y - 1 <=> i \in x .. x + m - 1 \/ i \in x + m .. x + y - 1
          /\ ~(i \in x .. x + m - 1 /\ i \in x + m .. x + y - 1)
      BY <1>5, i \in Int
    <3>3. i \in Own(g, c) <=> i \in x .. x + m - 1 \/ i \in Own(h, c)'
      BY <1>3, <1>4, <3>0
    <3>4. i \in Own(h, c)' => i \notin x .. x + m - 1
      BY <1>4, <3>0
    <3>5. i \in x .. x + m - 1 => ~\E d \in Dequeuers \ {c} : i \in Own(g, d)
      BY <1>6, <3>3
    <3> QED BY <3>1, <3>2, <3>3, <3>4, <3>5
  <2> QED BY <2>1, <2>2
<1> QED BY <1>7, <1>8

(* So only block N has fewer items to dequeue.                             *)
LEMMA MovedPending ==
  ASSUME NEW a \in Unwrappings, NEW g \in Layouts, NEW c \in Dequeuers, Owns(c),
         NEW x \in Nat, NEW y \in Nat, NEW N \in Nat, NEW s \in 0 .. BlockSize - 1,
         NEW m \in Nat \ {0}, Moves(a, g, c, x, y, N, s, m), NEW h \in Layouts,
         \A i \in Nat : Pending(a, h, i)' <=> Pending(a, g, i) /\ i \notin x .. x + m - 1
  PROVE  /\ \A B \in Nat : B # N => PendingOf(a, h, B)' = PendingOf(a, g, B)
         /\ PendingOf(a, h, N)' = PendingOf(a, g, N) \ (s .. s + m - 1)
         /\ Cardinality(PendingOf(a, h, N)') = Cardinality(PendingOf(a, g, N)) - m
         /\ Cardinality(PendingOf(a, g, N)) \in Nat /\ m <= Cardinality(PendingOf(a, g, N))
         /\ Cardinality(PendingOf(a, g, N)) = m <=> PendingOf(a, h, N)' = {}
<1>1. m <= y /\ s + m <= BlockSize /\ x = N * BlockSize + s
  BY DEF Moves
<1>2. PICK z \in Nat : z = N * BlockSize /\ x = z + s
  BY <1>1, Widths
<1>3. ASSUME NEW B \in Nat, NEW k \in Slots
      PROVE  /\ B * BlockSize + k \in Nat
             /\ B * BlockSize + k \in x .. x + m - 1 <=> B = N /\ k \in s .. s + m - 1
  <2>1. PICK w \in Nat : w = B * BlockSize
    BY Widths
  <2>2. w + k \in Nat /\ BlockSize \in Nat /\ k \in 0 .. BlockSize - 1
    BY Widths DEF Slots
  <2>3. w + k \in x .. x + m - 1 => B = N
    <3>1. HAVE w + k \in x .. x + m - 1
    <3>2. PICK j \in 0 .. BlockSize - 1 : w + k = z + j
      <4>1. s <= w + k - z /\ w + k - z <= s + m - 1 /\ w + k - z \in Int
        BY <1>2, <2>2, <3>1
      <4>2. w + k - z \in 0 .. BlockSize - 1
        BY <1>1, <2>2, <4>1
      <4>3. w + k = z + (w + k - z)
        BY <2>2
      <4> QED BY <4>2, <4>3
    <3>3. (B * BlockSize + k) \div BlockSize = B
      BY <2>2, NumberUnique
    <3>4. (N * BlockSize + j) \div BlockSize = N
      BY NumberUnique
    <3> QED BY <1>2, <2>1, <3>2, <3>3, <3>4
  <2>4. B = N => (w + k \in x .. x + m - 1 <=> k \in s .. s + m - 1)
    BY <1>2, <2>1, <2>2
  <2> QED BY <2>1, <2>2, <2>3, <2>4
<1>4. \A B \in Nat : B # N => PendingOf(a, h, B)' = PendingOf(a, g, B)
  BY <1>3 DEF PendingOf
<1>5. PendingOf(a, h, N)' = PendingOf(a, g, N) \ (s .. s + m - 1)
  BY <1>3 DEF PendingOf
<1>6. s .. s + m - 1 \subseteq PendingOf(a, g, N)
  <2>1. ASSUME NEW k \in s .. s + m - 1
        PROVE  k \in PendingOf(a, g, N)
    <3>1. PICK j \in 0 .. m - 1 : k = s + j
      <4>1. k - s \in 0 .. m - 1 /\ k = s + (k - s)
        OBVIOUS
      <4> QED BY <4>1
    <3>2. /\ x + j \in Own(g, c) /\ s + j \in Slots /\ x + j = N * BlockSize + (s + j)
      BY MovesOwn
    <3> QED BY <3>1, <3>2 DEF PendingOf, Pending
  <2> QED BY <2>1
<1>7. IsFiniteSet(PendingOf(a, g, N)) /\ IsFiniteSet(s .. s + m - 1)
      /\ Cardinality(s .. s + m - 1) = m
  <2>1. IsFiniteSet(Slots)
    BY Widths, FS_Interval DEF Slots
  <2>2. PendingOf(a, g, N) \subseteq Slots
    BY DEF PendingOf
  <2>3. s \in Int /\ s + m - 1 \in Int /\ s + m - 1 - s + 1 = m /\ ~(s > s + m - 1)
    OBVIOUS
  <2> QED BY <2>1, <2>2, <2>3, FS_Interval, FS_Subset
<1>8. Cardinality(PendingOf(a, h, N)') = Cardinality(PendingOf(a, g, N)) - m
  <2>1. PendingOf(a, g, N) \intersect (s .. s + m - 1) = s .. s + m - 1
    BY <1>6
  <2>2. Cardinality(PendingOf(a, g, N) \ (s .. s + m - 1)) =
          Cardinality(PendingOf(a, g, N)) - Cardinality(PendingOf(a, g, N) \intersect (s .. s + m - 1))
    BY <1>7, FS_Difference
  <2> QED BY <1>5, <1>7, <2>1, <2>2
<1>9. Cardinality(PendingOf(a, g, N)) \in Nat /\ m <= Cardinality(PendingOf(a, g, N))
  <2>1. Cardinality(s .. s + m - 1) <= Cardinality(PendingOf(a, g, N))
    BY <1>6, <1>7, FS_Subset
  <2> QED BY <1>7, <2>1, FS_CardinalityType
<1>10. Cardinality(PendingOf(a, g, N)) = m <=> PendingOf(a, h, N)' = {}
  <2>1. IsFiniteSet(PendingOf(a, h, N)')
    BY <1>5, <1>7, FS_Subset
  <2>2. Cardinality(PendingOf(a, h, N)') = 0 <=> PendingOf(a, h, N)' = {}
    BY <2>1, FS_EmptySet
  <2> QED BY <1>8, <1>9, <2>2
<1> QED BY <1>4, <1>5, <1>8, <1>9, <1>10

(* The blocks when c has moved its items out of block N, which leaves the  *)
(* index if it was emptied.                                                *)
LEMMA MovedBlocks ==
  ASSUME NEW a \in Unwrappings, NEW g \in Layouts, Fits(a, g), enq.pc # "destroyed",
         NEW c \in Dequeuers, Owns(c),
         NEW x \in Nat, NEW y \in Nat, NEW N \in Nat, NEW s \in 0 .. BlockSize - 1,
         NEW m \in Nat \ {0}, Moves(a, g, c, x, y, N, s, m), NEW h \in Layouts,
         \A i \in Nat : Pending(a, h, i)' <=> Pending(a, g, i) /\ i \notin x .. x + m - 1,
         NEW b \in Blocks, b = Store(a, g, N), block' = SetEmpty(c, b),
         \A B : Store(a, h, B)' =
           IF B = N /\ block[b].done + m = BlockSize THEN Null ELSE Store(a, g, B)
  PROVE  BlocksFit(a, h)'
<1>1. /\ CountersFit(a) /\ EnqFits(a) /\ RingsFit(a, g) /\ KeysFit(a, g) /\ BlocksFit(a, g)
      /\ PlacesFit
  BY DEF Fits, IndexFits
<1>2. /\ \A B \in Nat : B # N => PendingOf(a, h, B)' = PendingOf(a, g, B)
      /\ PendingOf(a, h, N)' = PendingOf(a, g, N) \ (s .. s + m - 1)
      /\ Cardinality(PendingOf(a, h, N)') = Cardinality(PendingOf(a, g, N)) - m
      /\ Cardinality(PendingOf(a, g, N)) \in Nat /\ m <= Cardinality(PendingOf(a, g, N))
      /\ Cardinality(PendingOf(a, g, N)) = m <=> PendingOf(a, h, N)' = {}
  BY MovedPending
<1>3. PICK done \in Nat, n \in Nat :
        /\ done = block[b].done /\ n = Cardinality(PendingOf(a, g, N)) /\ done + n = BlockSize
  <2>1. block[b] \in BlockType
    BY <1>1 DEF BlocksFit
  <2>2. block[b].done \in Nat
    BY <2>1 DEF BlockType
  <2>3. b # Null
    BY QueueAssumption
  <2>4. block[b].done + Cardinality(PendingOf(a, g, N)) = BlockSize
    BY <1>1, <2>3 DEF BlocksFit
  <2> QED BY <1>2, <2>2, <2>4
<1>4. done + m <= BlockSize /\ (done + m = BlockSize <=> n = m)
  BY <1>2, <1>3, Widths
<1>5. /\ block' \in [Blocks -> BlockType] /\ block'[b].done = done + m
      /\ \A k \in Slots \ (s .. s + m - 1) : block'[b].elements[k] = block[b].elements[k]
      /\ \A e \in Blocks \ {b} : block'[e] = block[e]
  <2>1. block \in [Blocks -> BlockType] /\ block[b].done + m <= BlockSize
    BY <1>1, <1>3, <1>4 DEF BlocksFit
  <2>2. block[b].done + m <= BlockSize
    BY <2>1
  <2>3. block \in [Blocks -> BlockType]
    BY <2>1
  <2>4. SetEmpty(c, b) \in [Blocks -> BlockType]
    BY <2>2, <2>3, SetEmptyOf
  <2>5. SetEmpty(c, b)[b].done = block[b].done + m
    BY <2>2, <2>3, SetEmptyOf
  <2>6. \A k \in Slots \ (s .. s + m - 1) :
              SetEmpty(c, b)[b].elements[k] = block[b].elements[k]
    BY <2>2, <2>3, SetEmptyOf
  <2>7. \A e \in Blocks \ {b} : SetEmpty(c, b)[e] = block[e]
    BY <2>2, <2>3, SetEmptyOf
  <2> QED BY <1>3, <2>4, <2>5, <2>6, <2>7
<1>6. b \in Blocks /\ b # Null /\ Null \notin Blocks
  BY QueueAssumption
<1>7. \A B : B # N /\ Store(a, g, B) # Null => Store(a, g, B) \in Blocks \ {b}
  <2>1. \A B : Store(a, g, B) # Null => Store(a, g, B) \in Blocks
    BY <1>1, LiveFacts
  <2>2. ASSUME NEW B, Store(a, g, B) = b PROVE B = N
    BY <1>1, <1>6, <2>2, StoreOnce
  <2> QED BY <2>1, <2>2
<1>8. ASSUME NEW i \in Nat, Pending(a, h, i)', i < BlocksTo(a.T) * BlockSize
      PROVE  /\ Store(a, h, i \div BlockSize)' = Store(a, g, i \div BlockSize)
             /\ Store(a, g, i \div BlockSize) # Null
             /\ i \div BlockSize = N => i % BlockSize \in Slots \ (s .. s + m - 1)
  <2>1. Pending(a, g, i) /\ Store(a, g, i \div BlockSize) # Null
    BY <1>1, <1>8 DEF BlocksFit
  <2>2. i \div BlockSize = N => i % BlockSize \in PendingOf(a, h, N)'
    <3>1. HAVE i \div BlockSize = N
    <3>2. i % BlockSize \in 0 .. BlockSize - 1 /\ i = (i \div BlockSize) * BlockSize + (i % BlockSize)
      BY InBlock
    <3> QED BY <1>8, <3>1, <3>2 DEF PendingOf, Slots
  <2>3. i \div BlockSize = N => i % BlockSize \in Slots \ (s .. s + m - 1)
    BY <1>2, <2>2 DEF PendingOf
  <2>4. i \div BlockSize = N => ~(block[b].done + m = BlockSize)
    BY <1>2, <1>3, <1>4, <2>2
  <2> QED BY <2>1, <2>3, <2>4
<1>9. ASSUME NEW i \in Nat, Pending(a, h, i)', i < a.T
      PROVE  block'[Store(a, h, i \div BlockSize)'].elements[i % BlockSize] = i % IndexT
  <2>1. a.T \in Nat /\ a.T <= BlocksTo(a.T) * BlockSize /\ BlocksTo(a.T) * BlockSize \in Int
    BY <1>1, TopType, Widths
  <2>2. i < BlocksTo(a.T) * BlockSize
    BY <1>9, <2>1
  <2>3. /\ Store(a, h, i \div BlockSize)' = Store(a, g, i \div BlockSize)
        /\ Store(a, g, i \div BlockSize) # Null
        /\ i \div BlockSize = N => i % BlockSize \in Slots \ (s .. s + m - 1)
    BY <1>8, <1>9, <2>2
  <2>4. Pending(a, g, i)
    BY <1>9
  <2>5. block[Store(a, g, i \div BlockSize)].elements[i % BlockSize] = i % IndexT
    BY <1>1, <1>9, <2>4 DEF BlocksFit
  <2>6. CASE i \div BlockSize = N
    <3>1. Store(a, g, i \div BlockSize) = b
      BY <2>6
    <3> QED BY <1>5, <2>3, <2>5, <2>6, <3>1
  <2>7. CASE i \div BlockSize # N
    BY <1>5, <1>7, <2>3, <2>5, <2>7
  <2> QED BY <2>6, <2>7
<1>10. ASSUME NEW B \in Nat, Store(a, h, B)' # Null
       PROVE  /\ PendingOf(a, h, B)' # {}
              /\ block'[Store(a, h, B)'].done + Cardinality(PendingOf(a, h, B)') = BlockSize
  <2>1. Store(a, h, B)' = Store(a, g, B) /\ Store(a, g, B) # Null
    BY <1>10
  <2>2. CASE B = N
    <3>1. done + m # BlockSize /\ Store(a, g, B) = b
      BY <1>3, <1>10, <2>2
    <3>2. PendingOf(a, h, N)' # {}
      BY <1>2, <1>3, <1>4, <3>1
    <3>3. done + m + (n - m) = BlockSize
      BY <1>3
    <3> QED BY <1>2, <1>3, <1>5, <2>1, <2>2, <3>1, <3>2, <3>3
  <2>3. CASE B # N
    <3>1. PendingOf(a, h, B)' = PendingOf(a, g, B)
      BY <1>2, <2>3
    <3>2. block'[Store(a, g, B)] = block[Store(a, g, B)]
      BY <1>5, <1>7, <2>1, <2>3
    <3> QED BY <1>1, <2>1, <3>1, <3>2 DEF BlocksFit
  <2> QED BY <2>2, <2>3
<1> QED BY <1>5, <1>8, <1>9, <1>10 DEF BlocksFit

(* The blocks an enqueue has taken are later ones.                         *)
LEMMA MovedTaken ==
  ASSUME NEW a \in Unwrappings, NEW g \in Layouts, NEW h \in Layouts,
         TakenFit(a, g), EnqFits(a), EnqFits(a)', UNCHANGED <<enq, tailBlock>>,
         NEW N \in Nat, N < BlocksTo(a.T),
         \A B : B # N => Store(a, h, B)' = Store(a, g, B),
         Store(a, h, N)' \in {Null, Store(a, g, N)}
  PROVE  TakenFit(a, h)'
<1>1. /\ BlocksTo(a.T) \in Nat /\ Len(enq.blocks) \in Nat /\ Undone \in Nat
      /\ Undone <= Len(enq.blocks)
  BY TopType, EnqType DEF EnqFits
<1>2. Undone' = Undone /\ StartBlock' = StartBlock /\ Top(a)' = Top(a)
  BY DEF Undone, StartBlock, Top
<1>3. ASSUME NEW j \in 1 .. Len(enq.blocks)
      PROVE  Store(a, h, BlocksTo(a.T) + j - 1)' = Store(a, g, BlocksTo(a.T) + j - 1)
  <2>1. BlocksTo(a.T) + j - 1 # N
    BY <1>1
  <2> QED BY <2>1
<1>4. \A j \in 1 .. Undone : j \in 1 .. Len(enq.blocks)
  BY <1>1
<1>5. \A B : Store(a, h, B)' \in {Null, Store(a, g, B)}
  OBVIOUS
<1>6. \A j \in 1 .. Len(enq.blocks) :
        j > Undone => Store(a, h, BlocksTo(a.T) + j - 1)' = enq.blocks[j]
  BY <1>3 DEF TakenFit
<1>7. \A j \in 1 .. Undone : Store(a, h, BlocksTo(a.T) + j - 1)' = Null
  BY <1>3, <1>4 DEF TakenFit
<1>8. Store(a, h, BlocksTo(a.T) - 1)' \in {Null, StartBlock}
  BY <1>5 DEF TakenFit
<1>9. enq.pc = "inserted" => Store(a, h, Top(a) - 1)' = Null
  BY <1>2, <1>5 DEF TakenFit
<1> QED BY <1>2, <1>6, <1>7, <1>8, <1>9 DEF TakenFit

(* With more to dequeue c is at the start of the next block.               *)
LEMMA MovedNumber ==
  ASSUME NEW a \in Unwrappings, NEW g \in Layouts, NEW c \in Dequeuers,
         NEW x \in Nat, NEW y \in Nat, NEW N \in Nat, NEW s \in 0 .. BlockSize - 1,
         NEW m \in Nat \ {0}, Moves(a, g, c, x, y, N, s, m), y - m # 0
  PROVE  (x + m) \div BlockSize = N + 1 /\ (x + m) % BlockSize = 0
<1>1. m <= y /\ (m < y => s + m = BlockSize) /\ x = N * BlockSize + s
  BY DEF Moves
<1>2. s + m = BlockSize /\ BlockSize \in Nat
  BY <1>1, Widths
<1>3. PICK M \in Int : M = N + 1
  OBVIOUS
<1>4. 0 \in 0 .. BlockSize - 1
  BY Widths
<1>5. (M * BlockSize + 0) \div BlockSize = M /\ (M * BlockSize + 0) % BlockSize = 0
  BY <1>4, NumberUnique
<1>6. M * BlockSize = N * BlockSize + BlockSize
  BY <1>3, Widths
<1>7. x + m = M * BlockSize + 0
  <2>1. PICK z \in Int : z = N * BlockSize
    BY Widths
  <2> QED BY <1>1, <1>2, <1>6, <2>1
<1> QED BY <1>3, <1>5, <1>7

LEMMA MovedSearch ==
  ASSUME NEW a \in Unwrappings, NEW g \in Layouts, NEW h \in Layouts, h.off = g.off,
         RingsFit(a, g), EnqFits(a), RingsStay, NEW c \in Dequeuers, SearchFits(g, c),
         NEW x \in Nat, NEW y \in Nat, NEW N \in Nat, NEW s \in 0 .. BlockSize - 1,
         NEW m \in Nat \ {0}, Moves(a, g, c, x, y, N, s, m), h.idx[c] = x + m,
         deq[c].pc = "block", deq'[c].header = deq[c].header, deq'[c].left = y - m,
         \/ deq'[c].pc = "block" /\ y - m # 0 /\ deq'[c].at = Pos(g, deq[c].header, N + 1)
         \/ deq'[c].pc = "free" /\ deq'[c].at = deq[c].at
  PROVE  SearchFits(h, c)'
<1>1. PICK k \in 1 .. blockIndex :
        k = deq[c].header /\ deq[c].at \in 0 .. Cap(k) - 1 /\ deq[c].at = Pos(g, k, N)
  BY DEF SearchFits, Moves
<1>2. /\ \A B : Pos(h, k, B)' = Pos(g, k, B)
      /\ \A B : EntryNo(h, B)' = EntryNo(g, B)
  <2>1. blockIndex # 0
    BY <1>1
  <2> QED BY <1>1, <2>1, PositionsStay
<1>3. /\ blockIndex' = blockIndex
      /\ Cap(k)' = Cap(k) /\ indexes'[k].index = indexes[k].index
  BY <1>1 DEF RingsStay, Cap
<1>4. Number(h, c) = (x + m) \div BlockSize /\ Number(h, c)' = Number(h, c)
      /\ Number(g, c) = N /\ g.idx[c] = x /\ deq[c].left = y /\ y > 0 /\ m <= y
  BY DEF Number, Moves
<1>5. y - m # 0 => Number(h, c) = N + 1 /\ (x + m) % BlockSize = 0
  BY <1>4, MovedNumber
<1>6. deq'[c].at \in 0 .. Cap(k) - 1
  <2>1. N + 1 \in Int
    OBVIOUS
  <2>2. Pos(g, k, N + 1) \in 0 .. Cap(k) - 1
    BY <2>1, RingFacts
  <2> QED BY <1>1, <2>2
<1>7. Agrees(h, c)'
  <2>1. ASSUME NEW B \in Int, deq'[c].left > 0, B >= Number(h, c),
               B * BlockSize < h.idx[c] + deq'[c].left
        PROVE  indexes[k].index[Pos(g, k, B)] = EntryNo(g, B)
    <3>1. B >= N /\ x + m + (y - m) = x + y
      BY <1>5, <2>1
    <3>2. Agrees(g, c)
      BY DEF SearchFits
    <3> QED BY <1>1, <1>4, <2>1, <3>1, <3>2 DEF Agrees
  <2>2. \A B : Pos(h, deq[c].header, B)' = Pos(g, k, B)
    BY <1>1, <1>2
  <2> QED BY <1>1, <1>2, <1>3, <1>4, <2>1, <2>2 DEF Agrees
<1>8. deq'[c].pc = "block" => deq'[c].at = Pos(h, k, Number(h, c))'
  BY <1>1, <1>2, <1>4, <1>5
<1>9. deq'[c].pc = "free" /\ deq'[c].left > 0 =>
        /\ h.idx[c] % BlockSize = 0
        /\ deq'[c].at = Pos(h, k, Number(h, c) - 1)'
  <2>1. HAVE deq'[c].pc = "free" /\ deq'[c].left > 0
  <2>2. Number(h, c) - 1 = N
    BY <1>5, <2>1
  <2> QED BY <1>1, <1>2, <1>4, <1>5, <2>1, <2>2
<1>10. deq'[c].pc # "key" /\ deq'[c].header = k
  BY <1>1
<1> QED BY <1>1, <1>3, <1>6, <1>7, <1>8, <1>9, <1>10 DEF SearchFits

(* The call after that: c returns, goes on, or has a block to free.        *)
MovedTo(g, c, y, N, m, next) ==
  /\ next \in Call /\ next.index \in Indices /\ next.got \in Seq(Indices)
  /\ \/ next.pc = "idle" /\ m = y
     \/ /\ next.pc = "block" /\ y - m # 0 /\ next.at = Pos(g, deq[c].header, N + 1)
        /\ next.index = (g.idx[c] + m) % IndexT /\ next.left = y - m
        /\ next.header = deq[c].header
     \/ /\ next.pc = "free" /\ next.at = deq[c].at
        /\ next.index = (g.idx[c] + m) % IndexT /\ next.left = y - m
        /\ next.header = deq[c].header

LEMMA MovedFits ==
  ASSUME NEW a \in Unwrappings, NEW g \in Layouts, Fits(a, g), enq.pc # "destroyed",
         NEW c \in Dequeuers, deq[c].pc = "block",
         NEW x \in Nat, NEW y \in Nat, NEW N \in Nat, NEW s \in 0 .. BlockSize - 1,
         NEW m \in Nat \ {0}, Moves(a, g, c, x, y, N, s, m), NEW h \in Layouts,
         h.off = g.off, h.low = g.low, h.idx[c] = x + m,
         \A d \in Dequeuers \ {c} : deq'[d] = deq[d] /\ h.idx[d] = g.idx[d],
         deq' \in [Dequeuers -> Call], MovedTo(g, c, y, N, m, deq'[c]),
         NEW b \in Blocks, b = Store(a, g, N), block' = SetEmpty(c, b),
         UNCHANGED <<counters, tailBlock, enq>>,
         RingsStay, index' \in BlockIndexes, indexes' = indexes, KeysFit(a, h)',
         \A e \in 1 .. Len(entries) : entries'[e].key = entries[e].key,
         \A B : Store(a, h, B)' =
           IF B = N /\ block[b].done + m = BlockSize THEN Null ELSE Store(a, g, B),
         PlacesFit'
  PROVE  Fits(a, h)'
<1>1. /\ CountersFit(a) /\ EnqFits(a) /\ OwnFits(a, g) /\ TakenFit(a, g)
      /\ RingsFit(a, g) /\ KeysFit(a, g) /\ SearchesFit(g)
  BY DEF Fits, IndexFits
<1>2. x = g.idx[c] /\ y = deq[c].left /\ N = Number(g, c) /\ m <= y /\ Owns(c)
  BY DEF Moves, Owns
<1>3. deq'[c].index \in Indices /\ deq'[c].got \in Seq(Indices)
      /\ deq'[c].pc \in {"idle", "block", "free"}
  BY DEF MovedTo
<1>4. CountersFit(a)'
  <2>1. Quiet(deq[c]) /\ Quiet(deq'[c])
    BY <1>3 DEF Quiet
  <2>2. UNCHANGED <<counters, enq>>
    OBVIOUS
  <2> QED BY <1>1, <2>1, <2>2, OutsideFits
<1>5. EnqFits(a)' /\ Top(a)' = Top(a) /\ Undone' = Undone
  <2>1. a.H <= a.H /\ UNCHANGED <<enq, tailBlock>>
    BY UnwrappingType
  <2> QED BY <1>1, <2>1, EnqStays
<1>6. RingsFit(a, h)'
  <2>1. blockIndex = 0 => NoIndex(a)'
    <3>1. HAVE blockIndex = 0
    <3>2. NoIndex(a)
      BY <1>1, <3>1 DEF RingsFit
    <3>3. Len(entries') = 0
      BY <3>2 DEF NoIndex, RingsStay
    <3>4. entries' \in Seq(EntryType)
      BY EntriesType DEF BlockIndexes, entries
    <3> QED BY <3>2, <3>3, <3>4 DEF NoIndex
  <2>2. Top(a)' - 1 - Undone' \in Int /\ Top(a)' - 1 - Undone' = Top(a) - 1 - Undone
    BY <1>1, <1>5, TopType
  <2>3. blockIndex # 0 => indexes'[blockIndex].tail = Pos(g, blockIndex, Top(a)' - 1 - Undone')
    BY <1>1, <2>2 DEF RingsFit
  <2>4. \A k \in 1 .. blockIndex : k # blockIndex => indexes'[k].tail = indexes[k].tail
    OBVIOUS
  <2> QED BY <1>1, <2>1, <2>2, <2>3, <2>4, RingsStayFit
<1>7. /\ OwnFits(a, h)'
      /\ \A i \in Nat : Pending(a, h, i)' <=> Pending(a, g, i) /\ i \notin x .. x + m - 1
  <2>1. /\ Owns(c)' => /\ deq'[c].index = (x + m) % IndexT /\ deq'[c].left = y - m
                       /\ deq'[c].pc # "free" => deq'[c].left > 0
        /\ ~Owns(c)' => m = y
    <3>1. CASE deq'[c].pc = "idle"
      BY <3>1 DEF MovedTo, Owns
    <3>2. CASE deq'[c].pc = "block"
      <4>1. deq'[c].index = (x + m) % IndexT /\ deq'[c].left = y - m /\ y - m # 0
        BY <1>2, <3>2 DEF MovedTo
      <4>2. y - m > 0
        BY <1>2, <4>1
      <4> QED BY <3>2, <4>1, <4>2 DEF Owns
    <3>3. CASE deq'[c].pc = "free"
      <4>1. deq'[c].index = (x + m) % IndexT /\ deq'[c].left = y - m
        BY <1>2, <3>3 DEF MovedTo
      <4> QED BY <3>3, <4>1 DEF Owns
    <3> QED BY <1>3, <3>1, <3>2, <3>3
  <2>4. Owns(c) /\ deq'[c].index \in Indices /\ deq'[c].got \in Seq(Indices)
    BY <1>2, <1>3
  <2>2. OwnFits(a, h)'
    BY <2>1, <2>4, MovedOwn, SMTT(60)
  <2>3. \A i \in Nat : Pending(a, h, i)' <=> Pending(a, g, i) /\ i \notin x .. x + m - 1
    BY <2>1, <2>4, MovedOwn, SMTT(60)
  <2> QED BY <2>2, <2>3
<1>8. SearchesFit(h)'
  <2>1. ASSUME deq'[c].pc # "idle" PROVE SearchFits(h, c)'
    <3>1. SearchFits(g, c)
      BY <1>1 DEF SearchesFit
    <3>2. /\ deq'[c].header = deq[c].header /\ deq'[c].left = y - m
          /\ \/ deq'[c].pc = "block" /\ y - m # 0 /\ deq'[c].at = Pos(g, deq[c].header, N + 1)
             \/ deq'[c].pc = "free" /\ deq'[c].at = deq[c].at
      BY <2>1 DEF MovedTo
    <3> QED BY <1>1, <3>1, <3>2, MovedSearch
  <2>2. ASSUME NEW d \in Dequeuers \ {c}, deq[d].pc \in {"key", "block", "free"}
        PROVE  SearchFits(h, d)'
    <3>1. deq'[d] = deq[d] /\ h.idx[d] = g.idx[d] /\ SearchFits(g, d)
      BY <1>1, <2>2 DEF SearchesFit
    <3>2. g.low <= h.low
      BY LayoutType
    <3> QED BY <1>1, <3>1, <3>2, SearchStays
  <2> QED BY <2>1, <2>2 DEF SearchesFit
<1>9. BlocksFit(a, h)'
  BY <1>2, <1>7, MovedBlocks
<1>10. TakenFit(a, h)'
  <2>1. N < BlocksTo(a.T)
    <3>1. deq[c].left > 0
      BY <1>1, <1>2 DEF OwnFits
    <3>2. Number(g, c) < BlocksTo(a.T)
      BY <1>2, <3>1, NumberLive
    <3> QED BY <1>2, <3>2
  <2>2. \A B : B # N => Store(a, h, B)' = Store(a, g, B)
    OBVIOUS
  <2>3. Store(a, h, N)' \in {Null, Store(a, g, N)} /\ UNCHANGED <<enq, tailBlock>>
    OBVIOUS
  <2> QED BY <1>1, <1>5, <2>1, <2>2, <2>3, MovedTaken
<1> QED BY <1>4, <1>5, <1>6, <1>7, <1>8, <1>9, <1>10 DEF Fits, IndexFits

(* The layout after that.                                                  *)
LEMMA MovedLayout ==
  ASSUME NEW g \in Layouts, NEW c \in Dequeuers, NEW i \in Nat
  PROVE  \E h \in Layouts : /\ h.off = g.off /\ h.low = g.low /\ h.idx[c] = i
                            /\ \A d \in Dequeuers \ {c} : h.idx[d] = g.idx[d]
<1>1. PICK h : h = [g EXCEPT !.idx = [g.idx EXCEPT ![c] = i]]
  OBVIOUS
<1>2. g.idx \in [Dequeuers -> Nat]
  BY LayoutType
<1>3. [g.idx EXCEPT ![c] = i] \in [Dequeuers -> Nat]
  BY <1>2
<1>4. h \in Layouts /\ h.off = g.off /\ h.low = g.low /\ h.idx = [g.idx EXCEPT ![c] = i]
  BY <1>1, <1>3 DEF Layouts
<1> QED BY <1>2, <1>4

(* c does not empty the block.                                             *)
LEMMA MoveOutStays ==
  ASSUME NEW a \in Unwrappings, NEW g \in Layouts, Fits(a, g), enq.pc # "destroyed",
         NEW c \in Dequeuers, deq[c].pc = "block",
         NEW x \in Nat, NEW y \in Nat, NEW N \in Nat, NEW s \in 0 .. BlockSize - 1,
         NEW m \in Nat \ {0}, Moves(a, g, c, x, y, N, s, m),
         NEW b \in Blocks, b = Store(a, g, N), block' = SetEmpty(c, b),
         block[b].done + m # BlockSize,
         NEW d \in Call, d.index = (x + m) % IndexT, d.index \in Indices, d.left = y - m,
         d.got \in Seq(Indices), d.header = deq[c].header, d.at = deq[c].at,
         Continue(c, d, Capacity(d)), UNCHANGED <<counters, tailBlock, free, enq, index>>
  PROVE  \E h \in Layouts : Fits(a, h)'
<1>1. /\ CountersFit(a) /\ EnqFits(a) /\ PlacesFit
      /\ RingsFit(a, g) /\ KeysFit(a, g) /\ SearchesFit(g)
  BY DEF Fits, IndexFits
<1>2. x = g.idx[c] /\ N = Number(g, c) /\ m <= y
  BY DEF Moves
<1>3. PICK h \in Layouts : /\ h.off = g.off /\ h.low = g.low /\ h.idx[c] = x + m
                           /\ \A e \in Dequeuers \ {c} : h.idx[e] = g.idx[e]
  <2>1. x + m \in Nat
    OBVIOUS
  <2> QED BY <2>1, MovedLayout
<1>4. PICK k \in 1 .. blockIndex : k = deq[c].header /\ d.at = Pos(g, k, N)
  <2>1. SearchFits(g, c)
    BY <1>1 DEF SearchesFit
  <2> QED BY <1>2, <2>1 DEF SearchFits
<1>5. /\ deq' \in [Dequeuers -> Call] /\ \A e \in Dequeuers \ {c} : deq'[e] = deq[e]
      /\ deq'[c].index \in Indices /\ deq'[c].got \in Seq(Indices)
      /\ \/ d.left = 0 /\ deq'[c].pc = "idle"
         \/ /\ d.left # 0 /\ deq'[c].pc = "block" /\ deq'[c].index = d.index
            /\ deq'[c].left = d.left /\ deq'[c].header = k
            /\ deq'[c].at = Pos(g, k, N + 1)
  <2>1. deq \in [Dequeuers -> Call]
    BY <1>1 DEF CountersFit
  <2>2. Continue(c, d, Cap(k)) /\ d.header = k
    BY <1>4 DEF Capacity, Cap
  <2>3. N \in Int
    OBVIOUS
  <2> QED BY <1>1, <1>4, <2>1, <2>2, <2>3, ContinueOf
<1>6. MovedTo(g, c, y, N, m, deq'[c])
  <2>1. deq'[c] \in Call
    BY <1>5
  <2>2. CASE d.left = 0
    <3>1. m = y
      BY <1>2, <2>2
    <3> QED BY <1>5, <2>1, <2>2, <3>1 DEF MovedTo
  <2>3. CASE d.left # 0
    BY <1>2, <1>4, <1>5, <2>1, <2>3 DEF MovedTo
  <2> QED BY <2>2, <2>3
<1>7. /\ RingsStay /\ entries' = entries /\ indexes' = indexes /\ index' \in BlockIndexes
  BY <1>1, IndexStays DEF RingsFit
<1>8. EnqFits(a)' /\ Top(a)' = Top(a) /\ Undone' = Undone
  <2>1. a.H <= a.H /\ UNCHANGED <<enq, tailBlock>>
    BY UnwrappingType
  <2> QED BY <1>1, <2>1, EnqStays
<1>9. KeysFit(a, h)'
  <2>1. a.T <= a.T
    BY UnwrappingType
  <2> QED BY <1>1, <1>3, <1>7, <1>8, <2>1, KeysStay
<1>10. \A B : Store(a, h, B)' = Store(a, g, B)
  <2>1. \A e \in 1 .. Len(entries) : entries'[e].value = entries[e].value
    BY <1>7
  <2> QED BY <1>1, <1>3, <1>7, <1>8, <2>1, StoreStays
<1>11. deq'[c].pc # "free"
  BY <1>5
<1>12. PlacesFit'
  <2>1. \A z \in Blocks : /\ Entered(z)' = Entered(z) /\ Untaken(z)' = Untaken(z)
    BY <1>7, <1>8 DEF Entered, Untaken
  <2>2. \A z \in Blocks : Freeing(z)' = Freeing(z)
    BY <1>5, <1>11 DEF Freeing
  <2>3. \A e \in Dequeuers : deq'[e].pc = "free" => deq'[e].block \in Blocks
    BY <1>1, <1>5, <1>11 DEF PlacesFit
  <2>4. enq'.pc # "destroyed" /\ free' = free
    OBVIOUS
  <2> QED BY <1>1, <1>8, <2>1, <2>2, <2>3, <2>4, PlacesQuiet
<1>13. Fits(a, h)'
  <2>1. \A e \in Dequeuers \ {c} : deq'[e] = deq[e] /\ h.idx[e] = g.idx[e]
    BY <1>3, <1>5
  <2>2. \A e \in 1 .. Len(entries) : entries'[e].key = entries[e].key
    BY <1>7
  <2>3. \A B : Store(a, h, B)' =
           IF B = N /\ block[b].done + m = BlockSize THEN Null ELSE Store(a, g, B)
    BY <1>10
  <2>4. UNCHANGED <<counters, tailBlock, enq>>
    OBVIOUS
  <2>5. deq' \in [Dequeuers -> Call]
    BY <1>5
  <2> QED BY <1>3, <1>6, <1>7, <1>9, <1>12, <2>1, <2>2, <2>3, <2>4, <2>5, MovedFits, SMTT(60)
<1> QED BY <1>13

(* The entry of block N loses its block.                                   *)
BlockLeaves(g, N) == index' = [index EXCEPT !.entries[EntryNo(g, N)].value = Null]

LEMMA EntryEmptied ==
  ASSUME NEW a \in Unwrappings, NEW g \in Layouts, NEW h \in Layouts,
         h.off = g.off, h.low = g.low, Top(a)' = Top(a),
         RingsFit(a, g), EnqFits(a), KeysFit(a, g), NEW N \in Live(a, g),
         BlockLeaves(g, N)
  PROVE  /\ RingsStay /\ index' \in BlockIndexes /\ indexes' = indexes
         /\ KeysFit(a, h)'
         /\ \A B : Store(a, h, B)' = IF B = N THEN Null ELSE Store(a, g, B)
         /\ \A z \in Blocks : Entered(z)' = Entered(z) \ {EntryNo(g, N)}
         /\ \A z \in Blocks \ {Store(a, g, N)} : EntryNo(g, N) \notin Entered(z)
         /\ Store(a, g, N) \in Blocks => EntryNo(g, N) \in Entered(Store(a, g, N))
         /\ \A e \in 1 .. Len(entries) : entries'[e].key = entries[e].key
<1>1. /\ index \in BlockIndexes /\ entries \in Seq(EntryType)
      /\ index = [entries |-> entries, indexes |-> indexes]
      /\ EntryNo(g, N) \in 1 .. Len(entries) /\ entries[EntryNo(g, N)] \in EntryType
      /\ DOMAIN entries = 1 .. Len(entries)
      /\ Store(a, g, N) = entries[EntryNo(g, N)].value
  BY EntriesType, LiveFacts DEF RingsFit
<1>2. PICK ent \in Seq(EntryType) :
         ent = [entries EXCEPT ![EntryNo(g, N)].value = Null] /\ Len(ent) = Len(entries)
  <2>1. PICK E \in 1 .. Len(entries) : E = EntryNo(g, N)
    BY <1>1
  <2>2. PICK q \in EntryType : q = entries[E]
    BY <1>1, <2>1
  <2>3. PICK p : p = [q EXCEPT !.value = Null]
    OBVIOUS
  <2>4. p \in EntryType
    BY <2>3 DEF EntryType
  <2>5. [entries EXCEPT ![E] = p] \in Seq(EntryType) /\ Len([entries EXCEPT ![E] = p]) = Len(entries)
    BY <1>1, <2>4, EntryExcept
  <2>6. [entries EXCEPT ![EntryNo(g, N)].value = Null] = [entries EXCEPT ![E] = p]
    BY <2>1, <2>2, <2>3
  <2> QED BY <2>5, <2>6
<1>3. RingsStay /\ index' \in BlockIndexes /\ entries' = ent /\ indexes' = indexes
  <2>1. index' = [entries |-> ent, indexes |-> indexes]
    BY <1>1, <1>2 DEF BlockLeaves
  <2> QED BY <1>1, <1>2, <2>1, EntryChanges
<1>4. /\ entries' \in Seq(EntryType) /\ entries'[EntryNo(g, N)].value = Null
      /\ \A e \in 1 .. Len(entries) :
           /\ entries'[e].key = entries[e].key
           /\ e # EntryNo(g, N) => entries'[e].value = entries[e].value
  BY <1>1, <1>2, <1>3
<1>5. /\ KeysFit(a, h)'
      /\ \A B : Store(a, h, B)' = IF B = N THEN Null ELSE Store(a, g, B)
      /\ \A z \in Blocks : Entered(z)' = Entered(z) \ {EntryNo(g, N)}
  BY <1>3, <1>4, ValueLeaves
<1>6. /\ \A z \in Blocks \ {Store(a, g, N)} : EntryNo(g, N) \notin Entered(z)
      /\ EntryNo(g, N) \in Entered(Store(a, g, N))
  BY <1>1 DEF Entered
<1> QED BY <1>3, <1>4, <1>5, <1>6

(* c empties the block, takes it out of the index and has to free it.      *)
LEMMA MoveOutEmpties ==
  ASSUME NEW a \in Unwrappings, NEW g \in Layouts, Fits(a, g), enq.pc # "destroyed",
         NEW c \in Dequeuers, deq[c].pc = "block",
         NEW x \in Nat, NEW y \in Nat, NEW N \in Live(a, g), N \in Nat,
         NEW s \in 0 .. BlockSize - 1,
         NEW m \in Nat \ {0}, Moves(a, g, c, x, y, N, s, m),
         NEW b \in Blocks, b = Store(a, g, N), block' = SetEmpty(c, b),
         block[b].done + m = BlockSize,
         BlockLeaves(g, N),
         deq' \in [Dequeuers -> Call], \A e \in Dequeuers \ {c} : deq'[e] = deq[e],
         NEW d \in Call, deq'[c] = d, d.pc = "free",
         d.index = (x + m) % IndexT, d.index \in Indices, d.left = y - m,
         d.got \in Seq(Indices), d.header = deq[c].header, d.at = deq[c].at, d.block = b,
         UNCHANGED <<counters, tailBlock, free, enq>>
  PROVE  \E h \in Layouts : Fits(a, h)'
<1>1. /\ CountersFit(a) /\ EnqFits(a) /\ PlacesFit
      /\ RingsFit(a, g) /\ KeysFit(a, g) /\ SearchesFit(g)
  BY DEF Fits, IndexFits
<1>2. x = g.idx[c]
  BY DEF Moves
<1>3. PICK h \in Layouts : /\ h.off = g.off /\ h.low = g.low /\ h.idx[c] = x + m
                           /\ \A e \in Dequeuers \ {c} : h.idx[e] = g.idx[e]
  <2>1. x + m \in Nat
    OBVIOUS
  <2> QED BY <2>1, MovedLayout
<1>7. MovedTo(g, c, y, N, m, deq'[c])
  BY <1>2 DEF MovedTo
<1>11. EnqFits(a)' /\ Top(a)' = Top(a) /\ Undone' = Undone
  <2>1. a.H <= a.H /\ UNCHANGED <<enq, tailBlock>>
    BY UnwrappingType
  <2> QED BY <1>1, <2>1, EnqStays
<1>12. /\ RingsStay /\ index' \in BlockIndexes /\ indexes' = indexes
       /\ KeysFit(a, h)'
       /\ \A B : Store(a, h, B)' = IF B = N THEN Null ELSE Store(a, g, B)
       /\ \A z \in Blocks : Entered(z)' = Entered(z) \ {EntryNo(g, N)}
       /\ \A z \in Blocks \ {b} : EntryNo(g, N) \notin Entered(z)
       /\ EntryNo(g, N) \in Entered(b)
       /\ \A e \in 1 .. Len(entries) : entries'[e].key = entries[e].key
  BY <1>1, <1>3, <1>11, EntryEmptied, SMTT(60)
<1>13. PlacesFit'
  <2>1. EntryNo(g, N) \in Entered(b)
    BY <1>12
  <2>2. /\ Entered(b) = {EntryNo(g, N)} /\ b \notin free /\ Freeing(b) = {} /\ Untaken(b) = {}
    BY <1>1, <2>1, PlaceOf
  <2>3. \A z \in Blocks : Untaken(z)' = Untaken(z)
    BY <1>11 DEF Untaken
  <2>4. \A z \in Blocks \ {b} : Freeing(z)' = Freeing(z)
    <3>1. deq[c].pc # "free" /\ deq'[c].block = b
      OBVIOUS
    <3> QED BY <3>1 DEF Freeing
  <2>5. Freeing(b)' = {c}
    <3>1. deq'[c].pc = "free" /\ deq'[c].block = b
      OBVIOUS
    <3> QED BY <2>2, <3>1 DEF Freeing
  <2>6. \A z \in Blocks \ {b} : Entered(z)' = Entered(z)
    <3>1. \A z \in Blocks \ {b} : Entered(z) \ {EntryNo(g, N)} = Entered(z)
      BY <1>12
    <3> QED BY <1>12, <3>1
  <2>7. Entered(b)' = {} /\ free' \intersect {b} = {}
    BY <1>12, <2>2
  <2>8. IsOne(PlacesOf(free' \intersect {b}, Entered(b)', Freeing(b)', Untaken(b)'))
    BY <2>2, <2>3, <2>5, <2>7, NewPlace
  <2>9. /\ enq'.pc # "destroyed" /\ free' \subseteq Blocks
        /\ \A e \in Dequeuers : deq'[e].pc = "free" => deq'[e].block \in Blocks
    BY <1>1 DEF PlacesFit
  <2>10. \A z \in Blocks \ {b} : /\ z \in free' <=> z \in free
                                 /\ Entered(z)' = Entered(z) /\ Freeing(z)' = Freeing(z)
                                 /\ Untaken(z)' = Untaken(z)
    BY <2>3, <2>4, <2>6
  <2>11. \A z \in Blocks \intersect {b} :
           IsOne(PlacesOf(free' \intersect {z}, Entered(z)', Freeing(z)', Untaken(z)'))
    BY <2>8
  <2> QED BY <1>1, <1>11, <2>9, <2>10, <2>11, PlacesStay
<1>14. Fits(a, h)'
  <2>1. \A e \in Dequeuers \ {c} : deq'[e] = deq[e] /\ h.idx[e] = g.idx[e]
    BY <1>3
  <2>2. \A B : Store(a, h, B)' =
           IF B = N /\ block[b].done + m = BlockSize THEN Null ELSE Store(a, g, B)
    BY <1>12
  <2>3. UNCHANGED <<counters, tailBlock, enq>>
    OBVIOUS
  <2>4. h.off = g.off /\ h.low = g.low /\ h.idx[c] = x + m
    BY <1>3
  <2>5. deq' \in [Dequeuers -> Call] /\ MovedTo(g, c, y, N, m, deq'[c])
    BY <1>7
  <2>6. RingsStay /\ index' \in BlockIndexes /\ indexes' = indexes /\ KeysFit(a, h)' /\ PlacesFit'
    BY <1>12, <1>13
  <2>7. \A e \in 1 .. Len(entries) : entries'[e].key = entries[e].key
    BY <1>12
  <2> QED BY <2>1, <2>2, <2>3, <2>4, <2>5, <2>6, <2>7, MovedFits, SMTT(60)
<1> QED BY <1>14

(* What consumer c does with its items in one block.                        *)
LEMMA MoveOutKeeps ==
  ASSUME NEW a \in Unwrappings, NEW g \in Layouts, Fits(a, g), NEW c \in Dequeuers, MoveOut(c)
  PROVE  \E h \in Layouts : Fits(a, h)'
<1>1. deq[c].pc = "block" /\ UNCHANGED <<counters, tailBlock, free, enq>>
  BY DEF MoveOut
<1>2. /\ EntryOf(c) = EntryNo(g, Number(g, c))
      /\ entries[EntryOf(c)].value = Store(a, g, Number(g, c))
      /\ Store(a, g, Number(g, c)) \in Blocks
      /\ Number(g, c) \in Live(a, g)
      /\ \E x \in Nat, y \in Nat, N \in Nat, s \in 0 .. BlockSize - 1, m \in Nat \ {0} :
           Moves(a, g, c, x, y, N, s, m)
  BY <1>1, MoveFacts
<1>3. PICK x \in Nat, y \in Nat, N \in Nat, s \in 0 .. BlockSize - 1, m \in Nat \ {0} :
        Moves(a, g, c, x, y, N, s, m)
  BY <1>2
<1>4. N = Number(g, c) /\ m = Chunk(c)
  BY <1>3 DEF Moves
<1>5. PICK b \in Blocks : b = Store(a, g, N) /\ b = entries[EntryOf(c)].value
  BY <1>2, <1>4
<1>6. PICK d \in Call :
           /\ d = Moved(c, b) /\ d.pc = "block" /\ d.index = (x + m) % IndexT
           /\ d.index \in Indices /\ d.left = y - m /\ d.block = b /\ d.got \in Seq(Indices)
           /\ d.header = deq[c].header /\ d.at = deq[c].at
  <2>1. deq[c].pc = "block" /\ Moves(a, g, c, x, y, N, s, m) /\ b = Store(a, g, N)
    BY <1>1, <1>3, <1>5
  <2>2. \E d \in Call :
           /\ d = Moved(c, b) /\ d.pc = "block" /\ d.index = (x + m) % IndexT
           /\ d.index \in Indices /\ d.left = y - m /\ d.block = b /\ d.got \in Seq(Indices)
           /\ d.header = deq[c].header /\ d.at = deq[c].at
    BY <2>1, MovedOf, SMTT(60)
  <2> QED BY <2>2
<1>7. PlacesFit /\ enq.pc # "destroyed"
  <2>1. PlacesFit
    BY DEF Fits, IndexFits
  <2>2. deq[c].pc # "idle"
    BY <1>1
  <2> QED BY <2>1, <2>2, NotDestroyed
<1>8. block' = SetEmpty(c, b)
  BY <1>5 DEF MoveOut
<1>9. CASE Empties(c, b)
  <2>1. /\ index' = [index EXCEPT !.entries[EntryOf(c)].value = Null]
        /\ deq' = [deq EXCEPT ![c] = [d EXCEPT !.pc = "free"]]
    BY <1>5, <1>6, <1>9 DEF MoveOut
  <2>2. BlockLeaves(g, N)
    BY <1>2, <1>4, <2>1 DEF BlockLeaves
  <2>3. block[b].done + m = BlockSize
    BY <1>4, <1>9 DEF Empties
  <2>4. N \in Live(a, g)
    BY <1>2, <1>4
  <2>5. /\ enq.pc # "destroyed" /\ deq[c].pc = "block" /\ Moves(a, g, c, x, y, N, s, m)
        /\ b = Store(a, g, N) /\ block' = SetEmpty(c, b)
        /\ UNCHANGED <<counters, tailBlock, free, enq>>
    BY <1>1, <1>3, <1>5, <1>7, <1>8
  <2>6. /\ d.index = (x + m) % IndexT /\ d.index \in Indices /\ d.left = y - m /\ d.block = b
        /\ d.got \in Seq(Indices) /\ d.header = deq[c].header /\ d.at = deq[c].at
    BY <1>6
  <2>7. PICK r \in Call : /\ deq' = [deq EXCEPT ![c] = r]
                          /\ r.pc = "free" /\ r.index = d.index /\ r.left = d.left
                          /\ r.got = d.got /\ r.header = d.header /\ r.at = d.at
                          /\ r.block = d.block
    <3>1. PICK r : r = [d EXCEPT !.pc = "free"]
      OBVIOUS
    <3>2. r \in Call /\ r.pc = "free" /\ r.index = d.index /\ r.left = d.left
          /\ r.got = d.got /\ r.header = d.header /\ r.at = d.at /\ r.block = d.block
      BY <3>1 DEF Call, Pcs
    <3> QED BY <2>1, <3>1, <3>2
  <2>8. /\ deq' \in [Dequeuers -> Call] /\ deq'[c] = r
        /\ \A e \in Dequeuers \ {c} : deq'[e] = deq[e]
    <3>1. deq \in [Dequeuers -> Call]
      BY DEF Fits, CountersFit
    <3> QED BY <2>7, <3>1, StepOf
  <2>9. /\ r.pc = "free" /\ r.index = (x + m) % IndexT /\ r.index \in Indices
        /\ r.left = y - m /\ r.block = b
        /\ r.got \in Seq(Indices) /\ r.header = deq[c].header /\ r.at = deq[c].at
    BY <2>6, <2>7
  <2> QED BY <2>2, <2>3, <2>4, <2>5, <2>8, <2>9, MoveOutEmpties, SMTT(60)
<1>10. CASE ~Empties(c, b)
  <2>1. Continue(c, d, Capacity(d)) /\ UNCHANGED index
    BY <1>5, <1>6, <1>10 DEF MoveOut
  <2>2. block[b].done + m # BlockSize
    BY <1>4, <1>10 DEF Empties
  <2>3. UNCHANGED <<counters, tailBlock, free, enq, index>>
    BY <1>1, <2>1
  <2>5. /\ enq.pc # "destroyed" /\ deq[c].pc = "block" /\ Moves(a, g, c, x, y, N, s, m)
        /\ b = Store(a, g, N) /\ block' = SetEmpty(c, b) /\ Continue(c, d, Capacity(d))
    BY <1>1, <1>3, <1>5, <1>7, <1>8, <2>1
  <2>6. /\ d.index = (x + m) % IndexT /\ d.index \in Indices /\ d.left = y - m
        /\ d.got \in Seq(Indices) /\ d.header = deq[c].header /\ d.at = deq[c].at
    BY <1>6
  <2> QED BY <1>3, <1>5, <1>6, <2>2, <2>3, <2>5, <2>6, MoveOutStays, SMTT(60)
<1> QED BY <1>9, <1>10

(* At first nothing is in the queue, and there may be an index.            *)
LEMMA InitIndex ==
  ASSUME Init
  PROVE  /\ index \in BlockIndexes
         /\ \A e \in DOMAIN entries : entries[e].value = Null
         /\ \/ entries = << >> /\ blockIndex = 0
            \/ /\ blockIndex = 1 /\ Cap(1) = IndexSize /\ Len(entries) = IndexSize
               /\ indexes[1].tail = IndexSize - 1
               /\ indexes[1].index = [k \in 0 .. IndexSize - 1 |-> k + 1]
<1>1. IndexSize \in Nat \ {0, 1} /\ MaxCapacity \in Nat /\ IndexSize <= MaxCapacity
  BY QueueAssumption
<1>2. CASE index = [entries |-> << >>, indexes |-> << >>]
  <2>1. entries = << >> /\ indexes = << >>
    BY <1>2 DEF entries, indexes
  <2>2. << >> \in Seq(EntryType) /\ << >> \in Seq(HeaderType) /\ Len(<< >>) = 0
        /\ DOMAIN << >> = {}
    OBVIOUS
  <2> QED BY <1>2, <2>1, <2>2 DEF BlockIndexes, blockIndex
<1>3. CASE index = [entries |-> [e \in 1 .. IndexSize |-> NewEntry], indexes |-> <<FirstIndex>>]
  <2>1. PICK es : es = [e \in 1 .. IndexSize |-> NewEntry]
    OBVIOUS
  <2>2. NewEntry \in EntryType /\ NewEntry.value = Null
    <3>1. 1 \in Indices
      BY Widths DEF Indices
    <3> QED BY <3>1 DEF NewEntry, EntryType, INVALID_BLOCK_BASE
  <2>3. es \in Seq(EntryType) /\ Len(es) = IndexSize /\ DOMAIN es = 1 .. IndexSize
        /\ \A e \in 1 .. IndexSize : es[e].value = Null
    <3>1. es \in [1 .. IndexSize -> EntryType]
      BY <2>1, <2>2
    <3>2. es \in Seq(EntryType) /\ Len(es) = IndexSize
      BY <1>1, <3>1
    <3> QED BY <2>1, <2>2, <3>2
  <2>4. PICK ring : ring = [k \in 0 .. IndexSize - 1 |-> k + 1]
    OBVIOUS
  <2>5. ring \in Rings
    <3>1. ring \in [0 .. IndexSize - 1 -> Nat]
      BY <2>4
    <3>2. IndexSize \in 1 .. MaxCapacity
      BY <1>1
    <3> QED BY <3>1, <3>2 DEF Rings
  <2>6. PICK f : f = FirstIndex
    OBVIOUS
  <2>7. f \in HeaderType /\ f.capacity = IndexSize /\ f.tail = IndexSize - 1 /\ f.index = ring
    <3>1. f = [capacity |-> IndexSize, tail |-> IndexSize - 1, index |-> ring]
      BY <2>4, <2>6 DEF FirstIndex
    <3>2. IndexSize \in 1 .. MaxCapacity /\ IndexSize - 1 \in Int
      BY <1>1
    <3> QED BY <2>5, <3>1, <3>2 DEF HeaderType
  <2>8. <<f>> \in Seq(HeaderType) /\ Len(<<f>>) = 1 /\ <<f>>[1] = f
    BY <2>7
  <2>9. entries = es /\ indexes = <<f>> /\ index = [entries |-> es, indexes |-> <<f>>]
    BY <1>3, <2>1, <2>6 DEF entries, indexes
  <2>10. index \in BlockIndexes
    BY <2>3, <2>8, <2>9 DEF BlockIndexes
  <2> QED BY <2>3, <2>4, <2>7, <2>8, <2>9, <2>10 DEF blockIndex, Cap
<1> QED BY <1>2, <1>3 DEF Init

LEMMA InitKeeps ==
  ASSUME Init
  PROVE  IndInv
<1>1. /\ InitBase /\ enq = Waiting
      /\ tailBlock = Null /\ block = [b \in Blocks |-> NewBlock] /\ free = Blocks
      /\ deq = [c \in Dequeuers |-> Idle]
  BY DEF Init, InitBase
<1>2. PICK a \in Unwrappings : a.T = 0 /\ a.H = 0 /\ CountersFit(a)
  BY <1>1, InitFits
<1>3. PICK g \in Layouts : /\ g.low = 0 /\ \A h \in Nat : g.off[h] = 0
  <2>1. PICK off : off = [h \in Nat |-> 0]
    OBVIOUS
  <2>5. off \in [Nat -> Int]
    BY <2>1
  <2>2. PICK idx \in [Dequeuers -> Nat] : idx = [c \in Dequeuers |-> 0]
    OBVIOUS
  <2>3. PICK g : g = [off |-> off, low |-> 0, idx |-> idx]
    OBVIOUS
  <2>4. g \in Layouts /\ g.low = 0 /\ g.off = off
    BY <2>2, <2>3, <2>5 DEF Layouts
  <2> QED BY <2>1, <2>4
<1>4. BlocksTo(a.T) = 0
  <2>1. 0 \in Nat /\ 0 % BlockSize = 0 /\ 0 \div BlockSize = 0
    BY Widths
  <2> QED BY <1>2, <2>1, BlocksToWhole
<1>5. enq \in Enqueuing /\ enq.pc = "idle" /\ enq.blocks = << >> /\ Len(enq.blocks) = 0
  <2>1. Len(<< >>) = 0
    OBVIOUS
  <2> QED BY <1>1, <2>1, WaitingType
<1>6. Undone = 0 /\ Top(a) = 0
  BY <1>4, <1>5 DEF Undone, Top
<1>7. EnqFits(a)
  <2>1. Top(a) * BlockSize - a.H < Half
    <3>1. 0 * BlockSize - 0 < Half
      BY Widths
    <3> QED BY <1>2, <1>6, <3>1
  <2> QED BY <1>1, <1>5, <2>1 DEF EnqFits, NeedFits
<1>8. Live(a, g) = {} /\ \A B : Store(a, g, B) = Null
  <2>1. Live(a, g) = {}
    BY <1>3, <1>6 DEF Live
  <2> QED BY <2>1 DEF Store
<1>9. /\ index \in BlockIndexes
      /\ \A e \in DOMAIN entries : entries[e].value = Null
      /\ \/ entries = << >> /\ blockIndex = 0
         \/ /\ blockIndex = 1 /\ Cap(1) = IndexSize /\ Len(entries) = IndexSize
            /\ indexes[1].tail = IndexSize - 1
            /\ indexes[1].index = [k \in 0 .. IndexSize - 1 |-> k + 1]
  BY InitIndex
<1>10. RingsFit(a, g)
  <2>1. CASE entries = << >> /\ blockIndex = 0
    <3>1. 1 .. blockIndex = {}
      BY <2>1
    <3> QED BY <1>2, <1>5, <1>9, <2>1, <3>1 DEF RingsFit, Nested, NoIndex
  <2>2. CASE /\ blockIndex = 1 /\ Cap(1) = IndexSize /\ Len(entries) = IndexSize
             /\ indexes[1].tail = IndexSize - 1
             /\ indexes[1].index = [k \in 0 .. IndexSize - 1 |-> k + 1]
    <3>1. PICK n \in Nat \ {0, 1} : n = IndexSize
      BY QueueAssumption
    <3>2. \A B \in Int : Pos(g, 1, B) = B % n /\ B % n \in 0 .. n - 1
      <4>1. TAKE B \in Int
      <4>2. g.off[1] = 0 /\ Cap(1) = n
        BY <1>3, <2>2, <3>1
      <4>3. B + 0 = B
        OBVIOUS
      <4>4. Pos(g, 1, B) = B % n
        BY <4>2, <4>3 DEF Pos
      <4> QED BY <4>4, <3>1
    <3>3. ShapeFits(1)
      <4>1. [k \in 0 .. n - 1 |-> k + 1] \in [0 .. n - 1 -> 1 .. n]
        OBVIOUS
      <4>2. n - 1 \in 0 .. n - 1
        OBVIOUS
      <4> QED BY <2>2, <3>1, <4>1, <4>2 DEF ShapeFits
    <3>4. indexes[1].tail = Pos(g, 1, Top(a) - 1 - Undone)
      <4>1. Top(a) - 1 - Undone = -1 /\ -1 \in Int
        BY <1>6
      <4>2. (-1) % n = n - 1
        <5>1. -1 \in -n .. -1
          OBVIOUS
        <5>2. -1 \in -n .. -1 => (-1) % n = -1 + n
          BY ModSmall
        <5> QED BY <5>1, <5>2
      <4> QED BY <2>2, <3>1, <3>2, <4>1, <4>2
    <3>5. \A B \in Int : EntryNo(g, B) = (B % n) + 1
      BY <2>2, <3>1, <3>2 DEF EntryNo
    <3>6. Nested(g)
      <4>1. ASSUME NEW p \in 0 .. n - 1, NEW B \in Int, EntryNo(g, B) = indexes[1].index[p]
            PROVE  Pos(g, 1, B) = p
        <5>1. PICK r \in 0 .. n - 1 : r = B % n
          BY <3>2
        <5>2. indexes[1].index[p] = p + 1
          BY <2>2, <3>1
        <5>3. r + 1 = p + 1
          BY <3>5, <4>1, <5>1, <5>2
        <5> QED BY <3>2, <5>1, <5>3
      <4>2. \A h \in 1 .. blockIndex : h = 1
        BY <2>2
      <4> QED BY <2>2, <3>1, <4>1, <4>2 DEF Nested
    <3>7. \A h \in 1 .. blockIndex : h = 1
      BY <2>2
    <3> QED BY <1>9, <2>2, <3>3, <3>4, <3>6, <3>7 DEF RingsFit
  <2> QED BY <1>9, <2>1, <2>2
<1>11. KeysFit(a, g)
  <2>1. Len(entries) \in Nat
    BY <1>9, EntriesType
  <2> QED BY <1>3, <1>4, <1>6, <1>8, <1>9, <2>1 DEF KeysFit
<1>12. \A c \in Dequeuers : /\ deq[c].pc = "idle" /\ deq[c].index \in Indices
                            /\ deq[c].got \in Seq(Indices) /\ ~Owns(c) /\ Own(g, c) = {}
  <2>1. 0 \in Indices /\ << >> \in Seq(Indices)
    BY Widths DEF Indices
  <2> QED BY <1>1, <2>1 DEF Idle, Owns, Own
<1>13. OwnFits(a, g) /\ SearchesFit(g)
  BY <1>12 DEF OwnFits, SearchesFit
<1>14. BlocksFit(a, g)
  <2>1. block \in [Blocks -> BlockType]
    <3>1. [k \in Slots |-> Null] \in [Slots -> Indices \union {Null}]
      OBVIOUS
    <3>2. 0 \in 0 .. BlockSize
      BY Widths
    <3>3. NewBlock \in BlockType
      BY <3>1, <3>2 DEF NewBlock, BlockType
    <3> QED BY <1>1, <3>3
  <2>2. BlocksTo(a.T) * BlockSize = 0
    BY <1>4, Widths
  <2> QED BY <1>2, <1>8, <2>1, <2>2 DEF BlocksFit
<1>15. TakenFit(a, g)
  BY <1>1, <1>5, <1>6, <1>8 DEF TakenFit, StartBlock
<1>16. PlacesFit
  <2>1. ASSUME NEW b \in Blocks PROVE IsOne(Claims(b))
    <3>1. free \intersect {b} = {b}
      BY <1>1
    <3>2. Entered(b) = {}
      <4>1. b # Null
        BY QueueAssumption
      <4> QED BY <1>9, <4>1 DEF Entered
    <3>3. Freeing(b) = {} /\ Untaken(b) = {}
      BY <1>6, <1>12 DEF Freeing, Untaken
    <3>4. Claims(b) = PlacesOf(free \intersect {b}, Entered(b), Freeing(b), Untaken(b))
      BY <1>7, ClaimsAre
    <3> QED BY <3>1, <3>2, <3>3, <3>4, NewPlace
  <2> QED BY <1>1, <1>5, <1>12, <2>1 DEF PlacesFit
<1>17. Fits(a, g)
  BY <1>2, <1>7, <1>10, <1>11, <1>13, <1>14, <1>15, <1>16 DEF Fits, IndexFits
<1> QED BY <1>17 DEF IndInv

(* Nothing happens.                                                        *)
LEMMA StutterKeeps ==
  ASSUME NEW a \in Unwrappings, NEW g \in Layouts, Fits(a, g), UNCHANGED vars
  PROVE  Fits(a, g)'
<1>1. /\ CountersFit(a) /\ EnqFits(a) /\ BlocksFit(a, g) /\ TakenFit(a, g) /\ PlacesFit
  BY DEF Fits, IndexFits
<1>2. /\ UNCHANGED <<tailIndex, headIndex, dequeueOptimisticCount, dequeueOvercommit>>
      /\ enq' = enq /\ index' = index /\ deq' = deq
      /\ block' = block /\ free' = free /\ tailBlock' = tailBlock
  BY DEF vars, storage, counters
<1>3. CountersFit(a)'
  <2>1. /\ Rechecking' = Rechecking /\ Lefts' = Lefts /\ AllClaimed' = AllClaimed
        /\ AllGranted' = AllGranted /\ Stall' = Stall
    BY <1>2 DEF Rechecking, Lefts, AllClaimed, AllGranted, Claimed, Granted, Stall, IsEnqueueing
  <2>2. \A c : Earlier(a, c)' = Earlier(a, c)
    BY <2>1 DEF Earlier
  <2>3. CountersUnwrap(a)' /\ deq' \in [Dequeuers -> Call]
    BY <1>1, <1>2 DEF CountersFit, CountersUnwrap
  <2>4. \A c \in Dequeuers : DequeueFits(a, c)'
    BY <1>1, <1>2, <2>1
       DEF CountersFit, DequeueFits, SinceFits, TailFits, OvercommitFits, TicketFits, LeftFits
  <2>5. TicketsApart(a)' /\ Balanced(a)' /\ GrantsFit(a)' /\ OthersFit(a)'
    BY <1>1, <1>2, <2>1, <2>2 DEF CountersFit, TicketsApart, Balanced, GrantsFit, OthersFit
  <2> QED BY <2>3, <2>4, <2>5 DEF CountersFit
<1>4. EnqFits(a)' /\ Top(a)' = Top(a) /\ Undone' = Undone
  <2>1. a.H <= a.H
    BY UnwrappingType
  <2> QED BY <1>1, <1>2, <2>1, EnqStays
<1>5. /\ RingsFit(a, g)' /\ KeysFit(a, g)' /\ OwnFits(a, g)' /\ SearchesFit(g)'
      /\ \A B : Store(a, g, B)' = Store(a, g, B)
      /\ \A i : Pending(a, g, i)' = Pending(a, g, i)
      /\ \A B : PendingOf(a, g, B)' = PendingOf(a, g, B)
  <2>1. a.T <= a.T
    BY UnwrappingType
  <2> QED BY <1>2, <1>4, <2>1, IndexQuiet
<1>6. BlocksFit(a, g)'
  BY <1>1, <1>2, <1>5, BlocksStay
<1>7. TakenFit(a, g)'
  BY <1>1, <1>2, <1>4, <1>5 DEF TakenFit, StartBlock
<1>8. PlacesFit'
  <2>1. \A x : Claims(x)' = Claims(x)
    BY <1>2, IndexStays DEF Claims
  <2>2. Busy' = Busy
    BY <1>2 DEF Busy
  <2> QED BY <1>1, <1>2, <2>1, <2>2 DEF PlacesFit
<1> QED BY <1>3, <1>4, <1>5, <1>6, <1>7, <1>8 DEF Fits, IndexFits

(* Every step.                                                             *)
LEMMA EnqueueKeeps ==
  ASSUME IndInv, Enqueue
  PROVE  IndInv'
<1>1. PICK a \in Unwrappings, g \in Layouts : Fits(a, g)
  BY DEF IndInv
<1>2. (\E b \in Unwrappings : Fits(b, g)') => IndInv'
  BY DEF IndInv
<1>3. (\E b \in Unwrappings, h \in Layouts : Fits(b, h)') => IndInv'
  BY DEF IndInv
<1>4. CASE EnqueueHere
  BY <1>1, <1>2, <1>4, EnqueueHereKeeps
<1>5. CASE BeginEnqueue
  BY <1>1, <1>2, <1>5, BeginEnqueueKeeps
<1>6. CASE InsertBlockIndexEntry
  BY <1>1, <1>3, <1>6, InsertBlockIndexEntryKeeps
<1>7. CASE NewBlockIndex
  BY <1>1, <1>3, <1>7, NewBlockIndexKeeps
<1>8. CASE \E y \in Blocks : TakeBlock(y)
  BY <1>1, <1>2, <1>8, TakeBlockKeeps
<1>9. CASE FinishEnqueue
  BY <1>1, <1>2, <1>9, FinishEnqueueKeeps
<1>10. CASE NoEntry
  BY <1>1, <1>2, <1>10, NoEntryKeeps
<1>11. CASE NoBlock
  BY <1>1, <1>2, <1>11, NoBlockKeeps
<1>12. CASE UndoBlock
  BY <1>1, <1>2, <1>12, UndoBlockKeeps
<1>13. CASE FinishUndo
  BY <1>1, <1>2, <1>13, FinishUndoKeeps
<1> QED BY <1>4, <1>5, <1>6, <1>7, <1>8, <1>9, <1>10, <1>11, <1>12, <1>13 DEF Enqueue

LEMMA DequeueKeeps ==
  ASSUME IndInv, NEW c \in Dequeuers, Dequeue(c)
  PROVE  IndInv'
<1>1. PICK a \in Unwrappings, g \in Layouts : Fits(a, g)
  BY DEF IndInv
<1>2. (\E b \in Unwrappings : Fits(b, g)') => IndInv'
  BY DEF IndInv
<1>3. (\E b \in Unwrappings, h \in Layouts : Fits(b, h)') => IndInv'
  BY DEF IndInv
<1>4. CASE ClaimItems(c)
  BY <1>1, <1>3, <1>4, ClaimItemsKeeps
<1>5. CASE ReadIndexTail(c)
  BY <1>1, <1>2, <1>5, ReadIndexTailKeeps
<1>6. CASE ReadTailKey(c)
  BY <1>1, <1>2, <1>6, ReadTailKeyKeeps
<1>7. CASE MoveOut(c)
  <2>1. \E h \in Layouts : Fits(a, h)'
    BY <1>1, <1>7, MoveOutKeeps
  <2> QED BY <1>1, <1>3, <2>1
<1>8. CASE FreeBlock(c)
  BY <1>1, <1>2, <1>8, FreeBlockKeeps
<1> QED BY <1>4, <1>5, <1>6, <1>7, <1>8 DEF Dequeue

LEMMA NextKeeps == IndInv /\ [Next]_vars => IndInv'
<1> SUFFICES ASSUME IndInv, [Next]_vars PROVE IndInv'
  OBVIOUS
<1>1. CASE Enqueue
  BY <1>1, EnqueueKeeps
<1>2. CASE \E c \in Dequeuers : Dequeue(c)
  BY <1>2, DequeueKeeps
<1>3. PICK a \in Unwrappings, g \in Layouts : Fits(a, g)
  BY DEF IndInv
<1>4. CASE Destroy
  <2>1. \E b \in Unwrappings : Fits(b, g)'
    BY <1>3, <1>4, DestroyKeeps
  <2> QED BY <2>1 DEF IndInv
<1>5. CASE UNCHANGED vars
  <2>1. Fits(a, g)'
    BY <1>3, <1>5, StutterKeeps
  <2> QED BY <2>1 DEF IndInv
<1> QED BY <1>1, <1>2, <1>4, <1>5 DEF Next

-----------------------------------------------------------------------------
(* What it means.                                                          *)
LEMMA FitsTyped ==
  ASSUME NEW a \in Unwrappings, NEW g \in Layouts, Fits(a, g)
  PROVE  TypeOK
<1>1. {tailIndex, headIndex, dequeueOptimisticCount, dequeueOvercommit} \subseteq Indices
  <2>1. a.T \in Nat /\ a.H \in Nat /\ a.C \in Nat /\ a.O \in Nat
    BY DEF Unwrappings
  <2>2. \A n \in Nat : n % IndexT \in Indices
    BY Widths DEF Indices
  <2>3. CountersUnwrap(a)
    BY DEF Fits, CountersFit
  <2>4. /\ tailIndex \in Indices /\ headIndex \in Indices
        /\ dequeueOptimisticCount \in Indices /\ dequeueOvercommit \in Indices
    BY <2>1, <2>2, <2>3 DEF CountersUnwrap
  <2> QED BY <2>4
<1>2. tailBlock \in Blocks \union {Null} /\ free \subseteq Blocks
  BY DEF Fits, EnqFits, IndexFits, PlacesFit
<1>3. \A b \in Blocks : /\ block[b].done \in 0 .. BlockSize
                        /\ \A k \in Slots : block[b].elements[k] \in Indices \union {Null}
  BY DEF Fits, IndexFits, BlocksFit, BlockType
<1>4. index \in BlockIndexes /\ \A h \in 1 .. blockIndex : ShapeFits(h)
  BY DEF Fits, IndexFits, RingsFit
<1>5. entries \in Seq(EntryType) /\ indexes \in Seq(HeaderType) /\ DOMAIN entries = 1 .. Len(entries)
      /\ DOMAIN indexes = 1 .. blockIndex
  BY <1>4 DEF BlockIndexes, entries, indexes, blockIndex
<1>6. \A e \in DOMAIN entries : /\ entries[e].key \in Indices
                                /\ entries[e].value \in Blocks \union {Null}
  <2>1. TAKE e \in DOMAIN entries
  <2>2. entries[e] \in EntryType
    BY <1>5
  <2> QED BY <2>2 DEF EntryType
<1>7. \A h \in DOMAIN indexes :
        /\ indexes[h].tail \in 0 .. indexes[h].capacity - 1
        /\ indexes[h].index \in [0 .. indexes[h].capacity - 1 -> DOMAIN entries]
  BY <1>4, <1>5 DEF ShapeFits, Cap
<1>8. \A c \in Dequeuers : /\ deq[c].left \in 0 .. MaxBulk
                           /\ deq[c].index \in Indices
                           /\ deq[c].got \in Seq(Indices)
  BY DEF Fits, IndexFits, OwnFits, CountersFit, Call
<1> QED BY <1>1, <1>2, <1>3, <1>6, <1>7, <1>8 DEF TypeOK

LEMMA FitsFound ==
  ASSUME NEW a \in Unwrappings, NEW g \in Layouts, Fits(a, g)
  PROVE  BlockFound
<1>1. ASSUME NEW c \in Dequeuers, deq[c].pc = "block"
      PROVE  /\ entries[EntryOf(c)].key = BlockBase(deq[c].index)
             /\ entries[EntryOf(c)].value # Null
  BY <1>1, MoveFacts, QueueAssumption
<1> QED BY <1>1 DEF BlockFound

LEMMA FitsAccounted ==
  ASSUME NEW a \in Unwrappings, NEW g \in Layouts, Fits(a, g)
  PROVE  BlocksAccounted
<1>1. PlacesFit
  BY DEF Fits, IndexFits
<1>2. ASSUME NEW S, IsOne(S) PROVE Cardinality(S) = 1
  BY <1>2, FS_Singleton DEF IsOne
<1> QED BY <1>1, <1>2 DEF PlacesFit, BlocksAccounted

LEMMA IndInvImplies ==
  IndInv => TypeOK /\ BlockFound /\ BlocksAccounted /\ CountersAgree
<1> SUFFICES ASSUME IndInv PROVE TypeOK /\ BlockFound /\ BlocksAccounted /\ CountersAgree
  OBVIOUS
<1>1. PICK a \in Unwrappings, g \in Layouts : Fits(a, g)
  BY DEF IndInv
<1>2. CountersAgree
  BY <1>1, CountersFitAgree DEF Fits
<1> QED BY <1>1, <1>2, FitsTyped, FitsFound, FitsAccounted

(* Wherever the threads stand between their steps, unwrapped counters, a   *)
(* layout of the index and one place for each block can be told that fit   *)
(* what the variables have: the inductive invariant.                       *)
THEOREM Inductive == Spec => []IndInv
<1>1. Init => IndInv
  BY InitKeeps
<1>2. IndInv /\ [Next]_vars => IndInv'
  BY NextKeeps
<1> QED BY <1>1, <1>2, PTL DEF Spec

(* What the queue, its index, its blocks and its dequeues consist of.      *)
THEOREM TypeCorrect == Spec => []TypeOK
BY Inductive, IndInvImplies, PTL

(* A dequeue that has an item finds the block of the item through the tail *)
(* and the index it read, however the index has been rewound, grown or     *)
(* used again in between (the assertion of                                 *)
(* get_block_index_index_for_index).                                       *)
THEOREM DequeuesFindTheirBlocks == Spec => []BlockFound
BY Inductive, IndInvImplies, PTL

(* No block is lost, and none is given to the free blocks or entered in    *)
(* the index twice: whoever dequeues the last item of a block, an enqueue  *)
(* that fails and the destructor give back what they should.               *)
THEOREM BlocksHaveOnePlace == Spec => []BlocksAccounted
BY Inductive, IndInvImplies, PTL

(* The counters that enqueues and dequeues change without waiting for each *)
(* other agree, wrapped as they are: what is claimed and neither taken     *)
(* back nor added to headIndex belongs to the dequeues in between, and no  *)
(* dequeue goes beyond tailIndex.                                          *)
THEOREM CountersStayInAgreement == Spec => []CountersAgree
BY Inductive, IndInvImplies, PTL

(* The abstract queue.  The items from headIndex on are in the blocks in   *)
(* which the index has them, each with its own number; so are those of a   *)
(* dequeue.                                                                *)

Run(x, n) == [k \in 1 .. n |-> Plus(x, k - 1)]

LEMMA RunType ==
  ASSUME NEW x \in Int, NEW n \in Nat
  PROVE  Run(x, n) \in Seq(Indices) /\ Len(Run(x, n)) = n /\ DOMAIN Run(x, n) = 1 .. n
<1>1. \A k \in 1 .. n : Plus(x, k - 1) \in Indices
  <2>1. TAKE k \in 1 .. n
  <2>2. x + (k - 1) \in Int
    OBVIOUS
  <2> QED BY <2>2, IndexType DEF Plus
<1>2. Run(x, n) \in [1 .. n -> Indices]
  BY <1>1 DEF Run
<1> QED BY <1>2

LEMMA RunParts ==
  ASSUME NEW x \in Int, NEW m \in Nat, NEW n \in Nat
  PROVE  /\ Run(x, m + n) = Run(x, m) \o Run(Plus(x, m), n)
         /\ SubSeq(Run(x, m + n), 1, m) = Run(x, m)
         /\ SubSeq(Run(x, m + n), m + 1, m + n) = Run(Plus(x, m), n)
<1>1. PICK y \in Int : y = Plus(x, m)
  <2>1. x + m \in Int
    OBVIOUS
  <2> QED BY <2>1, IndexType, Widths DEF Plus, Indices
<1>2. ASSUME NEW k \in 1 .. n PROVE Plus(y, k - 1) = Plus(x, (m + k) - 1)
  <2>1. x + m \in Int /\ k - 1 \in Int /\ (x + m) + (k - 1) = x + ((m + k) - 1)
    OBVIOUS
  <2>2. (((x + m) % IndexT) + (k - 1)) % IndexT = ((x + m) + (k - 1)) % IndexT
    BY <2>1, Widths, ModAdd
  <2> QED BY <1>1, <2>1, <2>2 DEF Plus
<1>3. PICK r : r = Run(x, m + n)
  OBVIOUS
<1>4. PICK s : s = Run(x, m)
  OBVIOUS
<1>5. PICK t : t = Run(y, n)
  OBVIOUS
<1>6. /\ r \in Seq(Indices) /\ Len(r) = m + n
      /\ s \in Seq(Indices) /\ Len(s) = m
      /\ t \in Seq(Indices) /\ Len(t) = n
  BY <1>1, <1>3, <1>4, <1>5, RunType, m + n \in Nat
<1>7. /\ \A k \in 1 .. m : s[k] = r[k]
      /\ \A k \in 1 .. n : t[k] = r[m + k]
  <2>1. \A k \in 1 .. m : s[k] = r[k]
    BY <1>3, <1>4 DEF Run
  <2>2. ASSUME NEW k \in 1 .. n PROVE t[k] = r[m + k]
    <3>1. m + k \in 1 .. m + n
      OBVIOUS
    <3>2. r[m + k] = Plus(x, (m + k) - 1)
      BY <1>3, <3>1 DEF Run
    <3> QED BY <1>2, <1>5, <3>2 DEF Run
  <2> QED BY <2>1, <2>2
<1>8. r = s \o t
  <2>1. s \o t \in Seq(Indices) /\ Len(s \o t) = m + n
    BY <1>6
  <2>2. ASSUME NEW k \in 1 .. m + n PROVE (s \o t)[k] = r[k]
    <3>1. CASE k <= m
      <4>1. k \in 1 .. m
        BY <3>1
      <4>2. (s \o t)[k] = s[k]
        BY <1>6, <4>1
      <4> QED BY <1>7, <4>1, <4>2
    <3>2. CASE k > m
      <4>1. PICK j \in 1 .. n : j = k - m /\ m + j = k
        BY <3>2
      <4>2. (s \o t)[k] = t[j]
        BY <1>6, <3>2, <4>1
      <4> QED BY <1>7, <4>1, <4>2
    <3>3. k <= m \/ k > m
      <4>1. k \in Int
        OBVIOUS
      <4> QED BY <4>1
    <3> QED BY <3>1, <3>2, <3>3
  <2> QED BY <1>6, <2>1, <2>2, SeqEqual
<1>9. SubSeq(r, 1, m) = s
  <2>1. SubSeq(r, 1, m) \in Seq(Indices) /\ Len(SubSeq(r, 1, m)) = m
        /\ \A k \in 1 .. m : SubSeq(r, 1, m)[k] = r[k]
    BY <1>6
  <2> QED BY <1>6, <1>7, <2>1, SeqEqual
<1>10. SubSeq(r, m + 1, m + n) = t
  <2>1. /\ SubSeq(r, m + 1, m + n) \in Seq(Indices) /\ Len(SubSeq(r, m + 1, m + n)) = n
        /\ \A k \in 1 .. n : SubSeq(r, m + 1, m + n)[k] = r[m + k]
    BY <1>6
  <2> QED BY <1>6, <1>7, <2>1, SeqEqual
<1> QED BY <1>1, <1>3, <1>4, <1>5, <1>8, <1>9, <1>10

LEMMA ItemOf ==
  ASSUME NEW a \in Unwrappings, NEW g \in Layouts, Fits(a, g),
         NEW i \in Nat, Pending(a, g, i), i < a.T
  PROVE  Item(i % IndexT) = i % IndexT
<1>1. /\ RingsFit(a, g) /\ EnqFits(a) /\ KeysFit(a, g) /\ BlocksFit(a, g)
      /\ a.T \in Nat /\ index \in BlockIndexes
  BY UnwrappingType DEF Fits, IndexFits, RingsFit
<1>2. PICK B \in Int : B = i \div BlockSize
  BY InBlock
<1>3. BlockBase(i % IndexT) = Key(B) /\ Slot(i % IndexT) = i % BlockSize
  BY <1>2, BaseOf, SlotOf
<1>4. PICK b : b = Store(a, g, B)
  OBVIOUS
<1>5. b # Null
  <2>1. i < BlocksTo(a.T) * BlockSize
    <3>1. a.T <= BlocksTo(a.T) * BlockSize /\ BlocksTo(a.T) \in Nat /\ BlockSize \in Nat
      BY <1>1, BlocksHold, Widths
    <3> QED BY <1>1, <3>1
  <2> QED BY <1>1, <1>2, <1>4, <2>1 DEF BlocksFit
<1>6. /\ B \in Live(a, g) /\ EntryNo(g, B) \in DOMAIN entries
      /\ entries[EntryNo(g, B)].key = Key(B) /\ entries[EntryNo(g, B)].value = b
      /\ blockIndex # 0 /\ DOMAIN entries = 1 .. Len(entries)
  <2>1. B \in Live(a, g)
    BY <1>1, <1>4, <1>5, LiveFacts
  <2> QED BY <1>1, <1>4, <2>1, LiveFacts, EntriesType
<1>7. ASSUME NEW e \in DOMAIN entries, entries[e].key = Key(B), entries[e].value # Null
      PROVE  e = EntryNo(g, B)
  <2>1. PICK C \in Live(a, g) : EntryNo(g, C) = e
    BY <1>1, <1>6, <1>7, LiveFacts
  <2>2. Key(C) = Key(B)
    BY <1>1, <1>7, <2>1, LiveFacts
  <2>3. /\ B \in Nat /\ C \in Nat /\ g.low \in Nat /\ Top(a) \in Nat
        /\ g.low <= B /\ B < Top(a) /\ g.low <= C /\ C < Top(a)
        /\ Top(a) <= g.low + Len(entries) /\ Len(entries) \in Nat /\ Len(entries) <= MaxCapacity
        /\ MaxCapacity \in Nat
    <3>1. g.low \in Nat /\ Top(a) \in Nat /\ MaxCapacity \in Nat
      BY <1>1, LayoutType, TopType, QueueAssumption
    <3>2. B \in g.low .. Top(a) - 1 /\ C \in g.low .. Top(a) - 1
      BY <1>6, <2>1 DEF Live
    <3>3. Len(entries) \in Nat /\ Len(entries) <= MaxCapacity
      BY <1>1, <1>6, RingFacts
    <3>4. Top(a) <= g.low + Len(entries)
      BY <1>1 DEF KeysFit
    <3> QED BY <3>1, <3>2, <3>3, <3>4
  <2>4. B - C <= MaxCapacity /\ C - B <= MaxCapacity /\ B - C \in Int /\ C - B \in Int
    BY <2>3
  <2>5. (B - C) * BlockSize <= MaxCapacity * BlockSize /\ (C - B) * BlockSize <= MaxCapacity * BlockSize
    BY <2>3, <2>4, Widths, TimesMonotonic
  <2>6. MaxCapacity * BlockSize < IndexT
    <3>1. PICK p \in Nat : p = MaxCapacity * BlockSize
      BY <2>3, Widths
    <3>2. 2 * BlockSize * MaxCapacity = 2 * p
      BY <2>3, <3>1, Widths
    <3>3. 2 * BlockSize * MaxCapacity <= IndexT
      BY QueueAssumption
    <3> QED BY <3>1, <3>2, <3>3, Widths
  <2>7. (B - C) * BlockSize < IndexT /\ (C - B) * BlockSize < IndexT
    <3>1. /\ (B - C) * BlockSize \in Int /\ (C - B) * BlockSize \in Int
          /\ MaxCapacity * BlockSize \in Int /\ IndexT \in Int
      BY <2>3, Widths
    <3> QED BY <2>5, <2>6, <3>1
  <2>8. B = C
    BY <2>2, <2>3, <2>7, KeySame
  <2> QED BY <2>1, <2>8
<1>8. Entry(i % IndexT) = EntryNo(g, B)
  BY <1>3, <1>5, <1>6, <1>7 DEF Entry
<1>9. block[b].elements[i % BlockSize] = i % IndexT
  BY <1>1, <1>2, <1>4 DEF BlocksFit
<1> QED BY <1>3, <1>6, <1>8, <1>9 DEF Item

LEMMA FromOf ==
  ASSUME NEW a \in Unwrappings, NEW g \in Layouts, Fits(a, g), NEW x \in Nat, NEW n \in Nat,
         \A k \in 0 .. n - 1 : Pending(a, g, x + k) /\ x + k < a.T
  PROVE  From(x % IndexT, n) = Run(x % IndexT, n)
<1>1. ASSUME NEW k \in 1 .. n
      PROVE  Item(Plus(x % IndexT, k - 1)) = Plus(x % IndexT, k - 1)
  <2>1. k - 1 \in 0 .. n - 1 /\ k - 1 \in Int /\ x + (k - 1) \in Nat
    OBVIOUS
  <2>2. Plus(x % IndexT, k - 1) = (x + (k - 1)) % IndexT
    BY <2>1, PlusOf
  <2>3. Item((x + (k - 1)) % IndexT) = (x + (k - 1)) % IndexT
    BY <2>1, ItemOf
  <2> QED BY <2>2, <2>3
<1> QED BY <1>1 DEF From, Run

(* What of the queue the abstract one has.                                 *)
Size   == Minus(tailIndex, headIndex)
Queue  == Run(headIndex, Size)
Gets(c) == deq[c].got \o IF Owns(c) THEN Run(deq[c].index, deq[c].left) ELSE << >>
Held   == [c \in Dequeuers |-> Gets(c)]

Mapped ==
  /\ From(headIndex, Minus(tailIndex, headIndex)) = Queue
  /\ [c \in Dequeuers |-> Got(c)] = Held

LEMMA SizeOf ==
  ASSUME NEW a \in Unwrappings, CountersFit(a)
  PROVE  Size = a.T - a.H /\ Size \in Nat /\ Size < Half /\ headIndex \in Int /\ tailIndex \in Int
<1>1. /\ tailIndex = a.T % IndexT /\ headIndex = a.H % IndexT
      /\ a.H <= a.T /\ a.T - a.H < Half
  BY DEF CountersFit, CountersUnwrap
<1>2. a.T \in Nat /\ a.H \in Nat /\ a.T - a.H \in 0 .. IndexT - 1
  BY <1>1, UnwrappingType, Widths
<1>3. Size = (a.T - a.H) % IndexT
  <2>1. a.T \in Int /\ a.H \in Int
    BY <1>2
  <2>2. Minus(a.T % IndexT, a.H % IndexT) = (a.T - a.H) % IndexT
    BY <2>1, MinusOf
  <2> QED BY <1>1, <2>2 DEF Size
<1>4. (a.T - a.H) % IndexT = a.T - a.H
  BY <1>2, Unwrapped
<1> QED BY <1>1, <1>2, <1>3, <1>4, Widths

LEMMA FitsMapped ==
  ASSUME NEW a \in Unwrappings, NEW g \in Layouts, Fits(a, g)
  PROVE  Mapped
<1>1. CountersFit(a) /\ OwnFits(a, g) /\ deq \in [Dequeuers -> Call]
  BY DEF Fits, IndexFits, CountersFit
<1>2. a.T \in Nat /\ a.H \in Nat /\ a.H <= a.T /\ headIndex = a.H % IndexT
  BY <1>1, UnwrappingType DEF CountersFit, CountersUnwrap
<1>3. From(headIndex, Size) = Run(headIndex, Size)
  <2>1. Size = a.T - a.H /\ Size \in Nat
    BY <1>1, SizeOf
  <2>2. \A k \in 0 .. Size - 1 : Pending(a, g, a.H + k) /\ a.H + k < a.T
    BY <1>2, <2>1 DEF Pending
  <2> QED BY <1>2, <2>1, <2>2, FromOf
<1>4. ASSUME NEW c \in Dequeuers PROVE Got(c) = Gets(c)
  <2>1. CASE Owns(c)
    <3>1. PICK x \in Nat : x = g.idx[c]
      BY LayoutType
    <3>2. PICK n \in Nat : n = deq[c].left
      BY <1>1, CallType
    <3>3. deq[c].index = x % IndexT /\ x + n <= a.H
      BY <1>1, <2>1, <3>1, <3>2 DEF OwnFits
    <3>4. \A k \in 0 .. n - 1 : Pending(a, g, x + k) /\ x + k < a.T
      <4>1. TAKE k \in 0 .. n - 1
      <4>2. x + k \in x .. x + n - 1 /\ x + k < a.T
        BY <1>2, <3>3
      <4> QED BY <2>1, <3>1, <3>2, <4>2 DEF Pending, Own
    <3>5. From(deq[c].index, deq[c].left) = Run(deq[c].index, deq[c].left)
      BY <3>2, <3>3, <3>4, FromOf
    <3> QED BY <2>1, <3>5 DEF Got, Gets, Owns
  <2>2. CASE ~Owns(c)
    BY <2>2 DEF Got, Gets, Owns
  <2> QED BY <2>1, <2>2
<1>5. [c \in Dequeuers |-> Got(c)] = Held
  BY <1>4 DEF Held
<1> QED BY <1>3, <1>5 DEF Mapped, Queue, Size

(* Who may come back empty-handed.  A dequeue that may not is the only one *)
(* there is, and headIndex has stayed behind the tailIndex it read.        *)

Trying(c) ==
  deq[c].pc \in {"overcommit", "count", "claim", "recheck", "takeback", "head"}

GotFits ==
  \A c \in Dequeuers : /\ deq[c].pc = "idle" \/ Trying(c) => deq[c].got = << >>
                       /\ deq[c].pc = "free" => deq[c].got # << >>

AloneFits(c) ==
  /\ Busy = {c}
  /\ deq[c].pc \in {"overcommit", "count", "claim", "recheck"} =>
       Minus(deq[c].since, headIndex) \in 1 .. Size
  /\ deq[c].pc \in {"count", "claim", "recheck"} => deq[c].overcommit = dequeueOvercommit
  /\ deq[c].pc = "recheck" => Minus(deq[c].count, deq[c].overcommit) = headIndex
  /\ deq[c].pc = "takeback" => deq[c].left > 0

ExcusesFit == \A c \in Busy \ excused : AloneFits(c)

ExcuseInv == GotFits /\ ExcusesFit

(* Alone, it finds the count it would without any claims.                  *)
LEMMA AloneCount ==
  ASSUME NEW a \in Unwrappings, CountersFit(a), NEW c \in Dequeuers, Busy = {c},
         Claimed(c) = 0
  PROVE  Minus(dequeueOptimisticCount, dequeueOvercommit) = headIndex
<1>1. /\ deq \in [Dequeuers -> Call] /\ AllClaimed \in Counts /\ Dequeuers \in SUBSET Dequeuers
      /\ CountersAgree
  BY CountersFitAgree, CountsOf DEF CountersFit, DequeueFits
<1>2. ASSUME NEW d \in Dequeuers PROVE AllClaimed[d] = 0
  <2>1. CASE d = c
    BY <2>1 DEF AllClaimed
  <2>2. CASE d # c
    <3>1. deq[d].pc = "idle"
      BY <2>2 DEF Busy
    <3> QED BY <3>1 DEF AllClaimed, Claimed
  <2> QED BY <2>1, <2>2
<1>3. Total(AllClaimed, Dequeuers) = 0
  BY <1>1, <1>2, TotalOfNone
<1>4. Minus(dequeueOptimisticCount, dequeueOvercommit) = Plus(headIndex, 0)
  BY <1>1, <1>3 DEF CountersAgree, AllClaimed
<1>5. PICK h \in Nat : h = a.H
  BY UnwrappingType
<1>6. headIndex = h % IndexT /\ h + 0 = h
  BY <1>5 DEF CountersFit, CountersUnwrap
<1>7. Plus(h % IndexT, 0) = (h + 0) % IndexT
  BY PlusOf
<1> QED BY <1>4, <1>6, <1>7

(* Some of what is there is available.                                     *)
LEMMA SomeAvailable ==
  ASSUME NEW a \in Unwrappings, CountersFit(a), NEW tail, NEW count, NEW max \in Nat \ {0},
         Minus(tail, count) \in 1 .. Size
  PROVE  Available(tail, count, max) > 0
<1>1. PICK x \in Int : x = Minus(tail, count)
  BY SizeOf
<1>2. x > 0 /\ x < Half /\ x >= -Half /\ x < IndexT
  BY <1>1, SizeOf, Widths
<1>3. x % IndexT = x
  BY <1>2, Unwrapped, Widths
<1>4. Available(tail, count, max) = IF x < max THEN x ELSE max
  <2>1. max \in Nat /\ Minus(tail, count) = x % IndexT
    BY <1>1, <1>3
  <2> QED BY <1>2, <2>1, AvailableOf
<1> QED BY <1>2, <1>4

(* One dequeue moves.                                                      *)
LEMMA BusyMoves ==
  ASSUME NEW c \in Dequeuers, \A d \in Dequeuers \ {c} : deq'[d] = deq[d]
  PROVE  Busy' = IF deq'[c].pc = "idle" THEN Busy \ {c} ELSE Busy \union {c}
BY DEF Busy

LEMMA GotMoves ==
  ASSUME GotFits, NEW c \in Dequeuers, \A d \in Dequeuers \ {c} : deq'[d] = deq[d],
         deq'[c].pc = "idle" \/ Trying(c)' => deq'[c].got = << >>,
         deq'[c].pc = "free" => deq'[c].got # << >>
  PROVE  GotFits'
BY DEF GotFits, Trying

LEMMA ExcusesMove ==
  ASSUME ExcusesFit, NEW c \in Busy, \A d \in Dequeuers \ {c} : deq'[d] = deq[d],
         excused \ {c} \subseteq excused',
         deq'[c].pc # "idle" /\ c \notin excused' => c \notin excused,
         deq'[c].pc # "idle" /\ Busy = {c} /\ AloneFits(c) => AloneFits(c)'
  PROVE  ExcusesFit'
<1>1. Busy' = IF deq'[c].pc = "idle" THEN Busy \ {c} ELSE Busy \union {c}
  BY BusyMoves DEF Busy
<1>2. ASSUME NEW d \in Busy', d \notin excused' PROVE AloneFits(d)'
  <2>1. CASE d = c
    <3>1. deq'[c].pc # "idle" /\ c \notin excused
      BY <1>1, <1>2, <2>1
    <3>2. AloneFits(c) /\ Busy = {c}
      BY <3>1 DEF ExcusesFit, AloneFits
    <3> QED BY <2>1, <3>1, <3>2
  <2>2. CASE d # c
    <3>1. d \in Busy /\ d \notin excused
      BY <1>1, <1>2, <2>2
    <3>2. Busy = {d}
      BY <3>1 DEF ExcusesFit, AloneFits
    <3> QED BY <2>2, <3>2
  <2> QED BY <2>1, <2>2
<1> QED BY <1>2 DEF ExcusesFit

(* Steps of the queue are steps of the abstract one.                       *)
Plain == INSTANCE AbstractQueue WITH
  Items <- Indices, q <- Queue, busy <- Busy, held <- Held

PlainStep == [Plain!Next]_(Plain!vars)

Stays == Queue' = Queue /\ Busy' = Busy /\ Held' = Held /\ excused' = excused

LEMMA StaysPlain == Stays => PlainStep
BY DEF Stays, PlainStep, Plain!vars

LEMMA QuietRefines ==
  ASSUME ExcuseInv, UNCHANGED <<counters, deq, excused>>
  PROVE  ExcuseInv' /\ Stays
<1>1. /\ tailIndex' = tailIndex /\ headIndex' = headIndex /\ deq' = deq /\ excused' = excused
      /\ dequeueOvercommit' = dequeueOvercommit
  BY DEF counters
<1>2. Size' = Size /\ Busy' = Busy
  BY <1>1 DEF Size, Busy
<1>3. Queue' = Queue
  BY <1>1, <1>2 DEF Queue
<1>4. Held' = Held
  BY <1>1 DEF Held, Gets, Owns
<1>5. GotFits'
  BY <1>1 DEF ExcuseInv, GotFits, Trying
<1>6. ExcusesFit'
  BY <1>1, <1>2 DEF ExcuseInv, ExcusesFit, AloneFits
<1> QED BY <1>1, <1>2, <1>3, <1>4, <1>5, <1>6 DEF ExcuseInv, Stays

LEMMA EnqueueItemsRefines ==
  ASSUME NEW a \in Unwrappings, CountersFit(a), ExcuseInv, NEW e, EnqueueItems(e),
         e.count \in 1 .. MaxCount
  PROVE  ExcuseInv' /\ PlainStep
<1>1. PICK n \in 1 .. MaxCount : n = e.count
  OBVIOUS
<1>2. /\ tailIndex' = Plus(tailIndex, n) /\ headIndex' = headIndex /\ deq' = deq
      /\ excused' = excused /\ dequeueOvercommit' = dequeueOvercommit
  BY <1>1 DEF EnqueueItems
<1>3. /\ tailIndex = a.T % IndexT /\ headIndex = a.H % IndexT
      /\ a.T \in Nat /\ a.H \in Nat
  BY UnwrappingType DEF CountersFit, CountersUnwrap
<1>4. /\ Size = a.T - a.H /\ Size \in Nat /\ Size < Half /\ headIndex \in Int /\ tailIndex \in Int
      /\ n \in Nat \ {0} /\ n <= Half /\ IndexT = 2 * Half /\ Half \in Nat
  BY SizeOf, Bounds, Widths
<1>5. Size' = Size + n
  <2>1. a.T \in Int /\ a.H \in Int /\ n \in Int /\ a.T + n \in Int
    BY <1>3, <1>4
  <2>2. tailIndex' = (a.T + n) % IndexT
    BY <1>2, <1>3, <2>1, PlusOf
  <2>3. Size' = ((a.T + n) - a.H) % IndexT
    BY <1>2, <1>3, <2>1, <2>2, MinusOf DEF Size
  <2>4. (a.T + n) - a.H = Size + n /\ Size + n \in 0 .. IndexT - 1
    BY <1>3, <1>4
  <2> QED BY <2>3, <2>4, Unwrapped
<1>6. /\ Queue' = Run(headIndex, Size + n)
      /\ Queue' \in Seq(Indices) /\ Len(Queue') = Size + n /\ Len(Queue) = Size
      /\ SubSeq(Queue', 1, Size) = Queue
  <2>1. Queue' = Run(headIndex, Size + n)
    BY <1>2, <1>5 DEF Queue
  <2>2. SubSeq(Run(headIndex, Size + n), 1, Size) = Run(headIndex, Size)
    BY <1>4, RunParts
  <2>3. Size + n \in Nat
    BY <1>4
  <2> QED BY <1>4, <2>1, <2>2, <2>3, RunType DEF Queue
<1>7. Busy' = Busy /\ Held' = Held
  BY <1>2 DEF Busy, Held, Gets, Owns
<1>8. Plain!Enqueue
  <2>1. Len(Queue') \in Len(Queue) + 1 .. Len(Queue) + MaxCount
    <3>1. Size + n \in Size + 1 .. Size + MaxCount
      BY <1>4, Bounds
    <3> QED BY <1>6, <3>1
  <2>2. SubSeq(Queue', 1, Len(Queue)) = Queue
    BY <1>6
  <2> QED BY <1>2, <1>6, <1>7, <2>1, <2>2 DEF Plain!Enqueue
<1>9. GotFits'
  BY <1>2 DEF ExcuseInv, GotFits, Trying
<1>10. ExcusesFit'
  <2>1. ASSUME NEW c \in Busy, c \notin excused PROVE AloneFits(c)'
    <3>1. AloneFits(c)
      BY <2>1 DEF ExcuseInv, ExcusesFit
    <3>2. \A k : k \in 1 .. Size => k \in 1 .. Size + n
      BY <1>4
    <3> QED BY <1>2, <1>5, <1>7, <3>1, <3>2 DEF AloneFits
  <2> QED BY <1>2, <1>7, <2>1 DEF ExcusesFit
<1> QED BY <1>8, <1>9, <1>10 DEF ExcuseInv, PlainStep, Plain!Next

LEMMA EnqueueRefines ==
  ASSUME NEW a \in Unwrappings, NEW g \in Layouts, Fits(a, g), ExcuseInv, Enqueue
  PROVE  ExcuseInv' /\ PlainStep
<1>1. CountersFit(a) /\ EnqFits(a)
  BY DEF Fits
<1>2. CASE EnqueueHere
  <2>1. PICK n \in 1 .. MaxCount : EnqueueItems(Begun(n))
    BY <1>2 DEF EnqueueHere
  <2>2. PICK e : e = Begun(n)
    OBVIOUS
  <2>3. e.count = n
    BY <2>2 DEF Begun, Waiting
  <2> QED BY <1>1, <2>1, <2>2, <2>3, EnqueueItemsRefines
<1>3. CASE FinishEnqueue
  <2>1. EnqueueItems(enq) /\ enq.count \in 1 .. MaxCount
    BY <1>1, <1>3, FinishEnqueueFits DEF FinishEnqueue
  <2> QED BY <1>1, <2>1, EnqueueItemsRefines
<1>4. CASE \/ BeginEnqueue \/ InsertBlockIndexEntry \/ NewBlockIndex
           \/ (\E b \in Blocks : TakeBlock(b)) \/ NoEntry \/ NoBlock \/ UndoBlock \/ FinishUndo
  <2>1. UNCHANGED <<counters, deq, excused>>
    BY <1>4 DEF BeginEnqueue, InsertBlockIndexEntry, InsertNextEntry, NewBlockIndex, TakeBlock,
                TakeBlockWith, NoEntry, NoBlock, UndoBlock, FinishUndo
  <2> QED BY <2>1, QuietRefines, StaysPlain
<1> QED BY <1>2, <1>3, <1>4 DEF Enqueue

(* A step of a dequeue, in the abstract one.                               *)
LEMMA HeldMoves ==
  ASSUME NEW c \in Dequeuers, \A d \in Dequeuers \ {c} : deq'[d] = deq[d]
  PROVE  Held' = [Held EXCEPT ![c] = Gets(c)'] /\ Held[c] = Gets(c)
<1>1. ASSUME NEW d \in Dequeuers, d # c PROVE Gets(d)' = Gets(d)
  BY <1>1 DEF Gets, Owns
<1> QED BY <1>1 DEF Held

LEMMA SameGets ==
  ASSUME NEW c \in Dequeuers, \A d \in Dequeuers \ {c} : deq'[d] = deq[d],
         Gets(c)' = Gets(c), deq[c].pc # "idle", deq'[c].pc # "idle",
         headIndex' = headIndex, tailIndex' = tailIndex
  PROVE  Queue' = Queue /\ Busy' = Busy /\ Held' = Held /\ Size' = Size
<1>1. Held' = Held
  <2>1. ASSUME NEW d \in Dequeuers PROVE Gets(d)' = Gets(d)
    BY DEF Gets, Owns
  <2> QED BY <2>1 DEF Held
<1>2. Busy' = Busy
  BY BusyMoves DEF Busy
<1>3. Size' = Size
  BY DEF Size
<1> QED BY <1>1, <1>2, <1>3 DEF Queue

(* A dequeue goes on trying ...                                            *)
LEMMA TriesRefines ==
  ASSUME ExcuseInv, NEW c \in Dequeuers, \A d \in Dequeuers \ {c} : deq'[d] = deq[d],
         Trying(c), Trying(c)', deq'[c].got = deq[c].got,
         headIndex' = headIndex, tailIndex' = tailIndex, excused' = excused,
         Busy = {c} /\ AloneFits(c) => AloneFits(c)'
  PROVE  ExcuseInv' /\ PlainStep
<1>1. deq[c].pc # "idle" /\ deq'[c].pc # "idle" /\ deq'[c].pc # "free" /\ c \in Busy
  BY DEF Trying, Busy
<1>2. deq[c].got = << >>
  BY DEF ExcuseInv, GotFits
<1>3. Gets(c)' = Gets(c)
  BY <1>2 DEF Gets, Owns, Trying
<1>4. Queue' = Queue /\ Busy' = Busy /\ Held' = Held
  BY <1>1, <1>3, SameGets
<1>5. GotFits'
  BY <1>1, <1>2, GotMoves DEF ExcuseInv
<1>6. ExcusesFit'
  BY <1>1, ExcusesMove DEF ExcuseInv
<1> QED BY <1>4, <1>5, <1>6, StaysPlain DEF Stays, ExcuseInv

(* ... or comes back with nothing ...                                      *)
LEMMA FailRefines ==
  ASSUME ExcuseInv, deq \in [Dequeuers -> Call], NEW c \in Dequeuers, Trying(c), Return(c),
         headIndex' = headIndex, tailIndex' = tailIndex, c \in excused
  PROVE  ExcuseInv' /\ PlainStep
<1>1. /\ deq'[c] = Idle /\ \A d \in Dequeuers \ {c} : deq'[d] = deq[d]
      /\ excused' = excused \ {c}
  BY DEF Return
<1>2. Idle.pc = "idle" /\ Idle.got = << >>
  BY DEF Idle
<1>3. c \in Busy /\ deq[c].got = << >>
  BY DEF Trying, Busy, ExcuseInv, GotFits
<1>4. GotFits'
  BY <1>1, <1>2, GotMoves DEF ExcuseInv
<1>5. ExcusesFit'
  BY <1>1, <1>2, <1>3, ExcusesMove DEF ExcuseInv
<1>6. Gets(c) = << >> /\ Gets(c)' = << >>
  BY <1>1, <1>2, <1>3 DEF Gets, Owns, Trying
<1>7. /\ Held' = Held /\ Held[c] = << >>
  <2>1. Held' = [Held EXCEPT ![c] = Gets(c)'] /\ Held[c] = Gets(c)
    BY <1>1, HeldMoves
  <2> QED BY <1>6, <2>1 DEF Held
<1>8. Busy' = Busy \ {c}
  BY <1>1, <1>2, BusyMoves
<1>9. Queue' = Queue
  BY DEF Queue, Size
<1>10. Plain!Fail(c)
  BY <1>1, <1>3, <1>7, <1>8, <1>9 DEF Plain!Fail, Plain!Leave
<1> QED BY <1>4, <1>5, <1>10 DEF ExcuseInv, PlainStep, Plain!Next

(* ... or moves items out ...                                              *)
LEMMA MovesRefines ==
  ASSUME ExcuseInv, NEW c \in Dequeuers, \A d \in Dequeuers \ {c} : deq'[d] = deq[d],
         Owns(c), Owns(c)', Gets(c)' = Gets(c), deq'[c].pc = "free" => deq'[c].got # << >>,
         headIndex' = headIndex, tailIndex' = tailIndex, excused' = excused
  PROVE  ExcuseInv' /\ PlainStep
<1>1. /\ deq[c].pc # "idle" /\ deq'[c].pc # "idle" /\ c \in Busy /\ ~Trying(c)'
      /\ deq'[c].pc \notin {"overcommit", "count", "claim", "recheck", "takeback"}
  BY DEF Owns, Busy, Trying
<1>2. Queue' = Queue /\ Busy' = Busy /\ Held' = Held
  BY <1>1, SameGets
<1>3. GotFits'
  BY <1>1, GotMoves DEF ExcuseInv
<1>4. ExcusesFit'
  <2>1. Busy = {c} /\ AloneFits(c) => AloneFits(c)'
    BY <1>1, <1>2 DEF AloneFits
  <2> QED BY <1>1, <2>1, ExcusesMove DEF ExcuseInv
<1> QED BY <1>2, <1>3, <1>4, StaysPlain DEF Stays, ExcuseInv

(* ... until it has them all.                                              *)
LEMMA FinishRefines ==
  ASSUME ExcuseInv, deq \in [Dequeuers -> Call], NEW c \in Dequeuers, Owns(c), Return(c),
         Gets(c) # << >>, headIndex' = headIndex, tailIndex' = tailIndex
  PROVE  ExcuseInv' /\ PlainStep
<1>1. /\ deq'[c] = Idle /\ \A d \in Dequeuers \ {c} : deq'[d] = deq[d]
      /\ excused' = excused \ {c}
  BY DEF Return
<1>2. Idle.pc = "idle" /\ Idle.got = << >>
  BY DEF Idle
<1>3. c \in Busy
  BY DEF Owns, Busy
<1>4. GotFits'
  BY <1>1, <1>2, GotMoves DEF ExcuseInv
<1>5. ExcusesFit'
  BY <1>1, <1>2, <1>3, ExcusesMove DEF ExcuseInv
<1>6. Gets(c)' = << >>
  BY <1>1, <1>2 DEF Gets, Owns
<1>7. /\ Held' = [Held EXCEPT ![c] = << >>] /\ Held[c] # << >>
  <2>1. Held' = [Held EXCEPT ![c] = Gets(c)'] /\ Held[c] = Gets(c)
    BY <1>1, HeldMoves
  <2> QED BY <1>6, <2>1
<1>8. Busy' = Busy \ {c}
  BY <1>1, <1>2, BusyMoves
<1>9. Queue' = Queue
  BY DEF Queue, Size
<1>10. Plain!Finish(c)
  BY <1>1, <1>3, <1>7, <1>8, <1>9 DEF Plain!Finish, Plain!Leave
<1> QED BY <1>4, <1>5, <1>10 DEF ExcuseInv, PlainStep, Plain!Next

(* The steps up to the claim of the items.                                 *)
LEMMA SizeZero ==
  ASSUME NEW a \in Unwrappings, CountersFit(a)
  PROVE  /\ Size \in Nat /\ (headIndex = tailIndex <=> Size = 0)
         /\ (Queue = << >> <=> headIndex = tailIndex)
         /\ Queue \in Seq(Indices) /\ Len(Queue) = Size
<1>1. Size = a.T - a.H /\ Size \in Nat /\ Size < Half /\ headIndex \in Int /\ tailIndex \in Int
  BY SizeOf
<1>2. Queue \in Seq(Indices) /\ Len(Queue) = Size
  BY <1>1, RunType DEF Queue
<1>3. a.T \in Int /\ a.H \in Int /\ a.H <= a.T /\ tailIndex = a.T % IndexT /\ headIndex = a.H % IndexT
  BY UnwrappingType DEF CountersFit, CountersUnwrap
<1>4. headIndex = tailIndex => Size = 0
  <2>1. ASSUME headIndex = tailIndex PROVE a.T = a.H
    <3>1. a.T % IndexT = a.H % IndexT /\ a.T - a.H < IndexT /\ a.H - a.T < IndexT
      BY <1>1, <1>3, <2>1, Widths
    <3> QED BY <1>3, <3>1, Widths, ModSame
  <2> QED BY <1>1, <1>3, <2>1
<1>5. Size = 0 => headIndex = tailIndex
  <2>1. ASSUME Size = 0 PROVE a.T = a.H
    BY <1>1, <1>3, <2>1
  <2> QED BY <1>3, <2>1
<1>6. Queue = << >> <=> Size = 0
  <2>1. Len(<< >>) = 0
    OBVIOUS
  <2> QED BY <1>2, <2>1
<1> QED BY <1>1, <1>2, <1>4, <1>5, <1>6

LEMMA ReadTailRefines ==
  ASSUME NEW a \in Unwrappings, CountersFit(a), ExcuseInv, NEW c \in Dequeuers, ReadTail(c)
  PROVE  ExcuseInv' /\ PlainStep
<1>1. deq \in [Dequeuers -> Call] /\ deq[c].pc = "idle" /\ deq[c].got = << >>
  BY DEF CountersFit, ReadTail, ExcuseInv, GotFits
<1>2. /\ deq'[c].pc = "overcommit" /\ deq'[c].got = << >> /\ deq'[c].since = tailIndex
      /\ \A d \in Dequeuers \ {c} : deq'[d] = deq[d]
  BY <1>1 DEF ReadTail, Call
<1>3. /\ headIndex' = headIndex /\ tailIndex' = tailIndex
      /\ excused' = excused \union IF Busy # {} THEN Busy \union {c}
                                   ELSE IF headIndex = tailIndex THEN {c} ELSE {}
  BY DEF ReadTail, counters
<1>4. Busy' = Busy \union {c} /\ c \notin Busy
  BY <1>1, <1>2, BusyMoves DEF Busy
<1>5. Size' = Size /\ Queue' = Queue
  BY <1>3 DEF Size, Queue
<1>6. Held' = Held
  <2>1. Gets(c)' = Gets(c)
    BY <1>1, <1>2 DEF Gets, Owns
  <2>2. Held' = [Held EXCEPT ![c] = Gets(c)'] /\ Held[c] = Gets(c)
    BY <1>2, HeldMoves
  <2> QED BY <2>1, <2>2 DEF Held
<1>7. GotFits'
  BY <1>2, GotMoves DEF ExcuseInv
<1>8. ExcusesFit'
  <2>1. CASE Busy # {}
    <3>1. Busy' \subseteq excused'
      BY <1>3, <1>4, <2>1
    <3> QED BY <3>1 DEF ExcusesFit
  <2>2. CASE Busy = {}
    <3>1. Busy' = {c}
      BY <1>4, <2>2
    <3>2. ASSUME c \notin excused' PROVE AloneFits(c)'
      <4>1. headIndex # tailIndex
        BY <1>3, <2>2, <3>2
      <4>2. Size \in 1 .. Size
        BY <4>1, SizeZero
      <4>3. Minus(deq'[c].since, headIndex') = Size
        BY <1>2, <1>3 DEF Size
      <4> QED BY <1>2, <1>5, <3>1, <4>2, <4>3 DEF AloneFits
    <3> QED BY <3>1, <3>2 DEF ExcusesFit
  <2> QED BY <2>1, <2>2
<1>9. Plain!Begin(c)
  <2>1. Queue = << >> <=> headIndex = tailIndex
    BY SizeZero
  <2> QED BY <1>3, <1>4, <1>5, <1>6, <2>1 DEF Plain!Begin
<1> QED BY <1>7, <1>8, <1>9 DEF ExcuseInv, PlainStep, Plain!Next

LEMMA ReadOvercommitRefines ==
  ASSUME NEW a \in Unwrappings, CountersFit(a), ExcuseInv, NEW c \in Dequeuers, ReadOvercommit(c)
  PROVE  ExcuseInv' /\ PlainStep
<1>1. deq \in [Dequeuers -> Call] /\ deq[c].pc = "overcommit"
  BY DEF CountersFit, ReadOvercommit
<1>2. /\ deq'[c].pc = "count" /\ deq'[c].got = deq[c].got /\ deq'[c].since = deq[c].since
      /\ deq'[c].overcommit = dequeueOvercommit
      /\ \A d \in Dequeuers \ {c} : deq'[d] = deq[d]
  BY <1>1 DEF ReadOvercommit, Call
<1>3. /\ headIndex' = headIndex /\ tailIndex' = tailIndex /\ excused' = excused
      /\ dequeueOvercommit' = dequeueOvercommit /\ Size' = Size
  BY DEF ReadOvercommit, counters, Size
<1>4. Trying(c) /\ Trying(c)' /\ Busy' = Busy
  BY <1>1, <1>2, BusyMoves DEF Trying, Busy
<1>5. AloneFits(c) => AloneFits(c)'
  BY <1>1, <1>2, <1>3, <1>4 DEF AloneFits
<1> QED BY <1>2, <1>3, <1>4, <1>5, TriesRefines

LEMMA ReadCountRefines ==
  ASSUME NEW a \in Unwrappings, CountersFit(a), ExcuseInv, NEW c \in Dequeuers, ReadCount(c)
  PROVE  ExcuseInv' /\ PlainStep
<1>1. deq \in [Dequeuers -> Call] /\ deq[c].pc = "count" /\ Trying(c) /\ c \in Busy
  BY DEF CountersFit, ReadCount, Trying, Busy
<1>2. /\ headIndex' = headIndex /\ tailIndex' = tailIndex
      /\ dequeueOvercommit' = dequeueOvercommit /\ Size' = Size
  BY DEF ReadCount, counters, Size
<1>3. PICK max \in 1 .. MaxBulk :
        LET n == Available(deq[c].tail,
                           Minus(dequeueOptimisticCount, deq[c].overcommit), max) IN
        \/ n = 0 /\ Return(c)
        \/ /\ n # 0
           /\ deq' = [deq EXCEPT ![c].pc = "claim", ![c].left = n, ![c].tail = 0]
           /\ UNCHANGED excused
  BY DEF ReadCount
<1>4. PICK n : n = Available(deq[c].tail,
                             Minus(dequeueOptimisticCount, deq[c].overcommit), max)
  OBVIOUS
<1>5. CASE n = 0 /\ Return(c)
  <2>1. ASSUME c \notin excused PROVE FALSE
    <3>1. AloneFits(c)
      BY <1>1, <2>1 DEF ExcuseInv, ExcusesFit
    <3>2. /\ Busy = {c} /\ Minus(deq[c].since, headIndex) \in 1 .. Size
          /\ deq[c].overcommit = dequeueOvercommit
      BY <1>1, <3>1 DEF AloneFits
    <3>3. Minus(dequeueOptimisticCount, deq[c].overcommit) = headIndex
      <4>1. Claimed(c) = 0
        BY <1>1 DEF Claimed
      <4> QED BY <3>2, <4>1, AloneCount
    <3>4. deq[c].tail = deq[c].since
      BY <1>1 DEF CountersFit, DequeueFits, TailFits
    <3>5. max \in Nat \ {0}
      BY Bounds
    <3>6. n > 0
      BY <1>4, <3>2, <3>3, <3>4, <3>5, SomeAvailable
    <3> QED BY <1>5, <3>6
  <2> QED BY <1>1, <1>2, <1>5, <2>1, FailRefines
<1>6. CASE /\ deq' = [deq EXCEPT ![c].pc = "claim", ![c].left = n, ![c].tail = 0]
           /\ UNCHANGED excused
  <2>1. /\ deq'[c].pc = "claim" /\ deq'[c].got = deq[c].got /\ deq'[c].since = deq[c].since
        /\ deq'[c].overcommit = deq[c].overcommit
        /\ \A d \in Dequeuers \ {c} : deq'[d] = deq[d]
    BY <1>1, <1>6 DEF Call
  <2>2. Trying(c)' /\ Busy' = Busy
    BY <1>1, <2>1, BusyMoves DEF Trying
  <2>3. AloneFits(c) => AloneFits(c)'
    BY <1>1, <1>2, <2>1, <2>2 DEF AloneFits
  <2> QED BY <1>1, <1>2, <1>6, <2>1, <2>2, <2>3, TriesRefines
<1> QED BY <1>3, <1>4, <1>5, <1>6

LEMMA ClaimRefines ==
  ASSUME NEW a \in Unwrappings, CountersFit(a), ExcuseInv, NEW c \in Dequeuers, Claim(c)
  PROVE  ExcuseInv' /\ PlainStep
<1>1. deq \in [Dequeuers -> Call] /\ deq[c].pc = "claim"
  BY DEF CountersFit, Claim
<1>2. /\ deq'[c].pc = "recheck" /\ deq'[c].got = deq[c].got /\ deq'[c].since = deq[c].since
      /\ deq'[c].overcommit = deq[c].overcommit /\ deq'[c].count = dequeueOptimisticCount
      /\ \A d \in Dequeuers \ {c} : deq'[d] = deq[d]
  BY <1>1 DEF Claim, Call
<1>3. /\ headIndex' = headIndex /\ tailIndex' = tailIndex /\ excused' = excused
      /\ dequeueOvercommit' = dequeueOvercommit /\ Size' = Size
  BY DEF Claim, Size
<1>4. Trying(c) /\ Trying(c)' /\ Busy' = Busy /\ Claimed(c) = 0
  BY <1>1, <1>2, BusyMoves DEF Trying, Busy, Claimed
<1>5. ASSUME AloneFits(c) PROVE AloneFits(c)'
  <2>1. Minus(dequeueOptimisticCount, dequeueOvercommit) = headIndex
    BY <1>4, <1>5, AloneCount DEF AloneFits
  <2>2. deq[c].overcommit = dequeueOvercommit
    BY <1>1, <1>5 DEF AloneFits
  <2>3. Minus(deq'[c].count, deq'[c].overcommit) = headIndex
    BY <1>2, <2>1, <2>2
  <2> QED BY <1>1, <1>2, <1>3, <1>4, <1>5, <2>2, <2>3 DEF AloneFits
<1> QED BY <1>2, <1>3, <1>4, <1>5, TriesRefines

LEMMA RecheckRefines ==
  ASSUME NEW a \in Unwrappings, CountersFit(a), ExcuseInv, NEW c \in Dequeuers, Recheck(c)
  PROVE  ExcuseInv' /\ PlainStep
<1>1. deq \in [Dequeuers -> Call] /\ deq[c].pc = "recheck"
  BY DEF CountersFit, Recheck
<1>2. PICK n : n = Available(tailIndex, Minus(deq[c].count, deq[c].overcommit), deq[c].left)
  OBVIOUS
<1>3. /\ deq'[c].pc = IF n < deq[c].left THEN "takeback" ELSE "head"
      /\ deq'[c].got = deq[c].got /\ deq'[c].left = n
      /\ \A d \in Dequeuers \ {c} : deq'[d] = deq[d]
  BY <1>1, <1>2 DEF Recheck, Call
<1>4. /\ headIndex' = headIndex /\ tailIndex' = tailIndex /\ excused' = excused
      /\ dequeueOvercommit' = dequeueOvercommit /\ Size' = Size
  BY DEF Recheck, counters, Size
<1>5. deq'[c].pc \in {"takeback", "head"}
  BY <1>3
<1>6. Trying(c) /\ Trying(c)' /\ Busy' = Busy
  BY <1>1, <1>3, <1>5, BusyMoves DEF Trying, Busy
<1>7. ASSUME AloneFits(c) PROVE AloneFits(c)'
  <2>1. /\ Minus(deq[c].count, deq[c].overcommit) = headIndex
        /\ Minus(deq[c].since, headIndex) \in 1 .. Size
    BY <1>1, <1>7 DEF AloneFits
  <2>2. Minus(tailIndex, headIndex) \in 1 .. Size
    <3>1. Size \in Nat
      BY SizeZero
    <3>2. Size \in 1 .. Size
      BY <2>1, <3>1
    <3> QED BY <3>2 DEF Size
  <2>3. deq[c].left \in Nat \ {0}
    BY <1>1, CallType DEF CountersFit, DequeueFits, LeftFits
  <2>4. n > 0
    BY <1>2, <2>1, <2>2, <2>3, SomeAvailable
  <2> QED BY <1>3, <1>5, <1>6, <1>7, <2>4 DEF AloneFits
<1> QED BY <1>3, <1>4, <1>6, <1>7, TriesRefines

LEMMA TakeBackRefines ==
  ASSUME NEW a \in Unwrappings, CountersFit(a), ExcuseInv, NEW c \in Dequeuers, TakeBack(c)
  PROVE  ExcuseInv' /\ PlainStep
<1>1. deq \in [Dequeuers -> Call] /\ deq[c].pc = "takeback" /\ Trying(c) /\ c \in Busy
  BY DEF CountersFit, TakeBack, Trying, Busy
<1>2. headIndex' = headIndex /\ tailIndex' = tailIndex
  BY DEF TakeBack
<1>3. CASE deq[c].left = 0 /\ Return(c)
  <2>1. ASSUME c \notin excused PROVE FALSE
    BY <1>1, <1>3, <2>1 DEF ExcuseInv, ExcusesFit, AloneFits
  <2> QED BY <1>1, <1>2, <1>3, <2>1, FailRefines
<1>4. CASE deq' = [deq EXCEPT ![c].pc = "head", ![c].count = 0] /\ UNCHANGED excused
  <2>1. /\ deq'[c].pc = "head" /\ deq'[c].got = deq[c].got
        /\ \A d \in Dequeuers \ {c} : deq'[d] = deq[d]
    BY <1>1, <1>4 DEF Call
  <2>2. Trying(c)' /\ Busy' = Busy
    BY <1>1, <2>1, BusyMoves DEF Trying
  <2>3. AloneFits(c) => AloneFits(c)'
    BY <1>1, <2>1, <2>2 DEF AloneFits
  <2> QED BY <1>1, <1>2, <1>4, <2>1, <2>2, <2>3, TriesRefines
<1> QED BY <1>3, <1>4 DEF TakeBack, ToHeadOrReturn

(* The items are taken when headIndex moves.                               *)
LEMMA AdvanceHeadRefines ==
  ASSUME NEW a \in Unwrappings, CountersFit(a), ExcuseInv, NEW c \in Dequeuers, AdvanceHead(c)
  PROVE  ExcuseInv' /\ PlainStep
<1>1. deq \in [Dequeuers -> Call] /\ deq[c].pc = "head" /\ c \in Busy /\ deq[c].got = << >>
  BY DEF CountersFit, AdvanceHead, ExcuseInv, GotFits, Busy, Trying
<1>2. PICK n \in 1 .. MaxBulk : n = deq[c].left /\ a.H + n <= a.T
  <2>1. deq[c].left > 0 /\ deq[c].left \in Nat /\ deq[c].left <= MaxBulk
    BY <1>1, CallType DEF CountersFit, DequeueFits, LeftFits
  <2>2. a.H + deq[c].left <= a.T
    BY AdvanceHeadFits
  <2> QED BY <2>1, <2>2, Bounds
<1>3. /\ deq'[c].pc = "index" /\ deq'[c].got = << >> /\ deq'[c].index = headIndex
      /\ deq'[c].left = n /\ \A d \in Dequeuers \ {c} : deq'[d] = deq[d]
  BY <1>1, <1>2 DEF AdvanceHead, Call
<1>4. /\ headIndex' = Plus(headIndex, n) /\ tailIndex' = tailIndex
      /\ excused' = excused \union IF headIndex' = tailIndex THEN Busy ELSE {}
  BY <1>2 DEF AdvanceHead
<1>5. /\ Size = a.T - a.H /\ Size \in Nat /\ Size < Half /\ headIndex \in Int /\ tailIndex \in Int
      /\ a.T \in Int /\ a.H \in Int /\ n \in Nat \ {0} /\ n <= Size
      /\ tailIndex = a.T % IndexT /\ headIndex = a.H % IndexT
  <2>1. /\ Size = a.T - a.H /\ Size \in Nat /\ Size < Half /\ headIndex \in Int /\ tailIndex \in Int
    BY SizeOf
  <2>2. /\ a.T \in Int /\ a.H \in Int /\ n \in Nat \ {0}
        /\ tailIndex = a.T % IndexT /\ headIndex = a.H % IndexT
    BY Bounds, UnwrappingType DEF CountersFit, CountersUnwrap
  <2> QED BY <1>2, <2>1, <2>2
<1>6. PICK h \in Int : h = a.H + n
  BY <1>5
<1>7. headIndex' = h % IndexT
  <2>1. n \in Int /\ Plus(a.H % IndexT, n) = (a.H + n) % IndexT
    <3>1. n \in Int /\ a.H \in Int
      BY <1>5
    <3> QED BY <3>1, PlusOf
  <2> QED BY <1>4, <1>5, <1>6, <2>1
<1>8. Size' = Size - n
  <2>1. Size' = (a.T - h) % IndexT
    <3>1. Minus(a.T % IndexT, h % IndexT) = (a.T - h) % IndexT
      BY <1>5, MinusOf
    <3> QED BY <1>4, <1>5, <1>7, <3>1 DEF Size
  <2>2. a.T - h = Size - n /\ a.T - h \in 0 .. IndexT - 1
    BY <1>5, <1>6, Widths
  <2> QED BY <2>1, <2>2, Unwrapped
<1>9. PICK m \in Nat : m = Size - n /\ n + m = Size
  BY <1>5
<1>10. /\ Queue' = Run(Plus(headIndex, n), m) /\ Queue = Run(headIndex, n + m)
  <2>1. Queue = Run(headIndex, n + m)
    BY <1>9 DEF Queue
  <2>2. Queue' = Run(headIndex', Size')
    BY DEF Queue
  <2> QED BY <1>4, <1>8, <1>9, <2>1, <2>2
<1>11. /\ SubSeq(Queue, 1, n) = Run(headIndex, n)
       /\ SubSeq(Queue, n + 1, Len(Queue)) = Queue'
       /\ Len(Queue) = Size /\ Len(Queue') = m
  <2>1. /\ SubSeq(Run(headIndex, n + m), 1, n) = Run(headIndex, n)
        /\ SubSeq(Run(headIndex, n + m), n + 1, n + m) = Run(Plus(headIndex, n), m)
    <3>1. headIndex \in Int /\ n \in Nat /\ m \in Nat
      BY <1>5, <1>9
    <3> QED BY <3>1, RunParts
  <2>2. Len(Queue) = Size
    BY SizeZero
  <2>3. Plus(headIndex, n) \in Int
    BY <1>4, <1>6, <1>7, Widths
  <2>4. Len(Queue') = m
    BY <1>10, <2>3, RunType
  <2> QED BY <1>9, <1>10, <2>1, <2>2, <2>4
<1>12. Queue' = << >> <=> headIndex' = tailIndex
  <2>1. Queue' = << >> => m = 0
    <3>1. Len(<< >>) = 0
      OBVIOUS
    <3> QED BY <1>11, <3>1
  <2>2. m = 0 => h = a.T
    <3>1. PICK t \in Int, k \in Int : t = a.T /\ k = a.H
      BY <1>5
    <3>2. m = (t - k) - n /\ h = k + n /\ n \in Int
      BY <1>5, <1>6, <1>9, <3>1
    <3> QED BY <3>1, <3>2
  <2>3. h = a.T => headIndex' = tailIndex
    BY <1>5, <1>7
  <2>4. headIndex' = tailIndex => h = a.T
    <3>1. h - a.T < IndexT /\ a.T - h < IndexT
      BY <1>5, <1>6, Widths
    <3>2. h % IndexT = a.T % IndexT => h = a.T
      BY <1>5, <3>1, Widths, ModSame
    <3> QED BY <1>5, <1>7, <3>2
  <2>5. h = a.T => m = 0
    BY <1>5, <1>6, <1>9
  <2>6. m = 0 => Queue' = << >>
    <3>1. Plus(headIndex, n) \in Int
      BY <1>4, <1>6, <1>7, Widths
    <3>2. Queue' \in Seq(Indices) /\ Len(Queue') = m
      BY <1>10, <3>1, RunType
    <3> QED BY <3>2
  <2> QED BY <2>1, <2>2, <2>3, <2>4, <2>5, <2>6
<1>13. Busy' = Busy
  BY <1>1, <1>3, BusyMoves
<1>14. Held' = [Held EXCEPT ![c] = SubSeq(Queue, 1, n)] /\ Held[c] = << >>
  <2>1. Held' = [Held EXCEPT ![c] = Gets(c)'] /\ Held[c] = Gets(c)
    BY <1>3, HeldMoves
  <2>2. Gets(c) = << >>
    BY <1>1 DEF Gets, Owns
  <2>3. Gets(c)' = << >> \o Run(headIndex, n)
    BY <1>3 DEF Gets, Owns
  <2>4. Run(headIndex, n) \in Seq(Indices)
    BY <1>5, RunType
  <2>5. << >> \o Run(headIndex, n) = Run(headIndex, n)
    BY <2>4, ConcatEmptySeq
  <2> QED BY <1>11, <2>1, <2>2, <2>3, <2>5
<1>15. Plain!Take(c)
  <2>1. n <= Len(Queue)
    BY <1>5, <1>11
  <2>2. excused' = excused \union IF Queue' = << >> THEN Busy ELSE {}
    BY <1>4, <1>12
  <2> QED BY <1>1, <1>11, <1>13, <1>14, <2>1, <2>2 DEF Plain!Take
<1>16. GotFits'
  BY <1>3, GotMoves DEF ExcuseInv
<1>17. ExcusesFit'
  <2>1. excused \subseteq excused'
    BY <1>4
  <2>2. AloneFits(c) => AloneFits(c)'
    BY <1>3, <1>13 DEF AloneFits
  <2> QED BY <1>1, <1>3, <2>1, <2>2, ExcusesMove DEF ExcuseInv
<1> QED BY <1>15, <1>16, <1>17 DEF ExcuseInv, PlainStep, Plain!Next

LEMMA ClaimItemsRefines ==
  ASSUME NEW a \in Unwrappings, CountersFit(a), ExcuseInv, NEW c \in Dequeuers, ClaimItems(c)
  PROVE  ExcuseInv' /\ PlainStep
BY ReadTailRefines, ReadOvercommitRefines, ReadCountRefines, ClaimRefines, RecheckRefines,
   TakeBackRefines, AdvanceHeadRefines DEF ClaimItems

(* The steps after that.                                                   *)
LEMMA SearchRefines ==
  ASSUME deq \in [Dequeuers -> Call], ExcuseInv, NEW c \in Dequeuers,
         ReadIndexTail(c) \/ ReadTailKey(c)
  PROVE  ExcuseInv' /\ PlainStep
<1>1. /\ \A d \in Dequeuers \ {c} : deq'[d] = deq[d]
      /\ deq[c].pc \in {"index", "key"} /\ deq'[c].pc \in {"key", "block"}
      /\ deq'[c].got = deq[c].got /\ deq'[c].index = deq[c].index /\ deq'[c].left = deq[c].left
  BY DEF ReadIndexTail, ReadTailKey, Call
<1>2. headIndex' = headIndex /\ tailIndex' = tailIndex /\ excused' = excused
  BY DEF ReadIndexTail, ReadTailKey, counters
<1>3. Owns(c) /\ Owns(c)' /\ deq'[c].pc # "free"
  BY <1>1 DEF Owns
<1>4. Gets(c)' = Gets(c)
  BY <1>1, <1>3 DEF Gets
<1> QED BY <1>1, <1>2, <1>3, <1>4, MovesRefines

(* On to the next block, or out: what d has is what c had.                 *)
LEMMA ContinueRefines ==
  ASSUME ExcuseInv, deq \in [Dequeuers -> Call], NEW c \in Dequeuers, Owns(c),
         NEW d \in Call, NEW size, Continue(c, d, size), d.got # << >>, d.got \in Seq(Indices),
         Gets(c) = d.got \o Run(d.index, d.left),
         headIndex' = headIndex, tailIndex' = tailIndex
  PROVE  ExcuseInv' /\ PlainStep
<1>1. CASE d.left = 0 /\ Return(c)
  <2>1. Gets(c) # << >>
    <3>1. d.index \in Int /\ 0 \in Nat
      BY CallType
    <3>2. PICK r \in Seq(Indices) : r = Run(d.index, d.left) /\ Len(r) = 0
      <4>1. Run(d.index, 0) \in Seq(Indices) /\ Len(Run(d.index, 0)) = 0
        BY <3>1, RunType
      <4> QED BY <1>1, <4>1
    <3>3. PICK p \in Seq(Indices) : p = d.got /\ p # << >>
      OBVIOUS
    <3>4. Len(p \o r) = Len(p) /\ Len(p) \in Nat \ {0}
      <4>1. Len(p \o r) = Len(p) + Len(r) /\ Len(p) \in Nat
        BY ConcatProperties
      <4>2. Len(p) # 0
        BY <3>3, EmptySeq
      <4> QED BY <3>2, <4>1, <4>2
    <3>5. Len(<< >>) = 0
      OBVIOUS
    <3> QED BY <3>2, <3>3, <3>4, <3>5
  <2> QED BY <1>1, <2>1, FinishRefines
<1>2. CASE /\ deq' = [deq EXCEPT ![c] = [d EXCEPT !.pc = "block", !.block = Null,
                                                  !.at = (@ + 1) % size]]
           /\ UNCHANGED excused
  <2>1. /\ \A e \in Dequeuers \ {c} : deq'[e] = deq[e]
        /\ deq'[c].pc = "block" /\ deq'[c].got = d.got /\ deq'[c].index = d.index
        /\ deq'[c].left = d.left
    <3>1. PICK at : at = (d.at + 1) % size
      OBVIOUS
    <3>2. deq' = [deq EXCEPT ![c] = [d EXCEPT !.pc = "block", !.block = Null, !.at = at]]
      BY <1>2, <3>1
    <3> QED BY <3>2 DEF Call
  <2>2. Owns(c)' /\ deq'[c].pc # "free"
    BY <2>1 DEF Owns
  <2>3. Gets(c)' = Gets(c)
    BY <2>1, <2>2 DEF Gets
  <2> QED BY <1>2, <2>1, <2>2, <2>3, MovesRefines
<1> QED BY <1>1, <1>2 DEF Continue

LEMMA FreeBlockRefines ==
  ASSUME NEW a \in Unwrappings, NEW g \in Layouts, Fits(a, g), ExcuseInv,
         NEW c \in Dequeuers, FreeBlock(c)
  PROVE  ExcuseInv' /\ PlainStep
<1>1. deq \in [Dequeuers -> Call] /\ deq[c].pc = "free" /\ Owns(c)
  BY DEF Fits, CountersFit, FreeBlock, Owns
<1>2. deq[c] \in Call /\ deq[c].got # << >> /\ deq[c].got \in Seq(Indices)
  BY <1>1 DEF ExcuseInv, GotFits, Fits, IndexFits, OwnFits
<1>3. Gets(c) = deq[c].got \o Run(deq[c].index, deq[c].left)
  BY <1>1 DEF Gets
<1>4. /\ Continue(c, deq[c], Capacity(deq[c]))
      /\ headIndex' = headIndex /\ tailIndex' = tailIndex
  BY DEF FreeBlock, counters
<1> QED BY <1>1, <1>2, <1>3, <1>4, ContinueRefines

(* Three sequences in a row.                                               *)
LEMMA ConcatThree ==
  ASSUME NEW p \in Seq(Indices), NEW q \in Seq(Indices), NEW r \in Seq(Indices)
  PROVE  (p \o q) \o r = p \o (q \o r)
OBVIOUS

(* d has an item of what c gets, and the rest still to get.                *)
GetsOn(c, d) ==
  d.got # << >> /\ d.got \in Seq(Indices) /\ Gets(c) = d.got \o Run(d.index, d.left)

(* What c moves out of a block are its next items, in order.               *)
LEMMA MovedGets ==
  ASSUME NEW a \in Unwrappings, NEW g \in Layouts, Fits(a, g), NEW c \in Dequeuers,
         deq[c].pc = "block", NEW x \in Nat, NEW y \in Nat, NEW N \in Nat,
         NEW s \in 0 .. BlockSize - 1, NEW m \in Nat \ {0}, Moves(a, g, c, x, y, N, s, m),
         NEW b \in Blocks, b = Store(a, g, N)
  PROVE  \E d \in Call : d = Moved(c, b) /\ GetsOn(c, d)
<1>1. CountersFit(a) /\ OwnFits(a, g) /\ BlocksFit(a, g)
  BY DEF Fits, IndexFits
<1>2. /\ deq[c] \in Call /\ deq[c].got \in Seq(Indices) /\ deq[c].index = x % IndexT /\ Owns(c)
      /\ deq[c].left = y /\ Chunk(c) = m /\ Slot(deq[c].index) = s /\ m <= y
  BY <1>1, LeftType DEF OwnFits, Owns, Moves
<1>3. ASSUME NEW j \in 0 .. m - 1
      PROVE  block[b].elements[s + j] = Plus(x % IndexT, j)
  <2>1. /\ x + j \in Own(g, c) /\ x + j \in Nat /\ x + j < a.T
        /\ (x + j) \div BlockSize = N /\ (x + j) % BlockSize = s + j
    <3>1. Owns(c)
      BY <1>2
    <3> QED BY <3>1, MovesOwn
  <2>2. PICK i \in Nat : /\ i = x + j /\ i \in Own(g, c) /\ i < a.T
                         /\ i \div BlockSize = N /\ i % BlockSize = s + j
    BY <2>1
  <2>3. Pending(a, g, i)
    BY <2>2 DEF Pending
  <2>4. block[b].elements[s + j] = i % IndexT
    BY <1>1, <2>2, <2>3 DEF BlocksFit
  <2>5. Plus(x % IndexT, j) = (x + j) % IndexT
    <3>1. x \in Int /\ j \in Int
      OBVIOUS
    <3> QED BY <3>1, PlusOf
  <2> QED BY <2>2, <2>4, <2>5
<1>4. ASSUME NEW k \in 1 .. m
      PROVE  block[b].elements[s + k - 1] = Plus(x % IndexT, k - 1)
  <2>1. PICK j \in 0 .. m - 1 : j = k - 1
    OBVIOUS
  <2>2. s + k - 1 = s + j
    BY <2>1
  <2> QED BY <1>3, <2>1, <2>2
<1>5. PICK d \in Call :
           /\ d = Moved(c, b) /\ d.pc = "block" /\ d.index = (x + m) % IndexT
           /\ d.index \in Indices /\ d.left = y - m /\ d.block = b /\ d.got \in Seq(Indices)
           /\ d.header = deq[c].header /\ d.at = deq[c].at
  BY MovedOf
<1>6. PICK p \in Seq(Indices) : p = deq[c].got
  BY <1>2
<1>7. PICK z \in Int : z = x % IndexT /\ z = deq[c].index
  BY <1>2, Widths
<1>8. PICK n \in Nat : n = y - m /\ m + n = y
  BY <1>2
<1>9. PICK q \in Seq(Indices) : q = Run(z, m) /\ Len(q) = m
  BY RunType
<1>10. PICK r \in Seq(Indices) : r = Run(Plus(z, m), n)
  <2>1. Plus(z, m) \in Int
    <3>1. z + m \in Int
      OBVIOUS
    <3> QED BY <3>1, Widths DEF Plus
  <2> QED BY <2>1, RunType
<1>11. d.got = p \o q
  <2>1. d.got = deq[c].got \o [k \in 1 .. Chunk(c) |->
                                 block[b].elements[Slot(deq[c].index) + k - 1]]
    BY <1>5, <1>2 DEF Moved, Call
  <2>2. [k \in 1 .. m |-> block[b].elements[s + k - 1]] = q
    BY <1>4, <1>7, <1>9 DEF Run
  <2> QED BY <1>2, <1>6, <2>1, <2>2
<1>12. d.index = Plus(z, m)
  <2>1. x \in Int /\ m \in Int
    OBVIOUS
  <2>2. Plus(x % IndexT, m) = (x + m) % IndexT
    BY <2>1, PlusOf
  <2> QED BY <1>5, <1>7, <2>2
<1>13. Gets(c) = p \o (q \o r)
  <2>1. Run(z, m + n) = Run(z, m) \o Run(Plus(z, m), n)
    <3>1. m \in Nat
      OBVIOUS
    <3> QED BY <3>1, RunParts
  <2>2. Gets(c) = p \o Run(z, m + n)
    BY <1>2, <1>6, <1>7, <1>8 DEF Gets
  <2> QED BY <1>9, <1>10, <2>1, <2>2
<1>14. (p \o q) \o r = p \o (q \o r)
  BY ConcatThree
<1>15. d.got # << >>
  <2>1. Len(p \o q) = Len(p) + Len(q) /\ Len(p) \in Nat
    BY ConcatProperties
  <2>2. Len(p \o q) # 0
    BY <1>9, <2>1
  <2>3. Len(<< >>) = 0
    OBVIOUS
  <2> QED BY <1>11, <2>2, <2>3
<1>16. Run(d.index, d.left) = r
  BY <1>5, <1>8, <1>10, <1>12
<1>17. Gets(c) = d.got \o Run(d.index, d.left)
  BY <1>11, <1>13, <1>14, <1>16
<1> QED BY <1>5, <1>15, <1>17 DEF GetsOn

LEMMA MoveOutRefines ==
  ASSUME NEW a \in Unwrappings, NEW g \in Layouts, Fits(a, g), ExcuseInv,
         NEW c \in Dequeuers, MoveOut(c)
  PROVE  ExcuseInv' /\ PlainStep
<1>1. /\ deq[c].pc = "block" /\ deq \in [Dequeuers -> Call] /\ Owns(c)
      /\ headIndex' = headIndex /\ tailIndex' = tailIndex
  BY DEF MoveOut, Fits, CountersFit, Owns, counters
<1>2. /\ entries[EntryOf(c)].value = Store(a, g, Number(g, c))
      /\ Store(a, g, Number(g, c)) \in Blocks
      /\ \E x \in Nat, y \in Nat, N \in Nat, s \in 0 .. BlockSize - 1, m \in Nat \ {0} :
           Moves(a, g, c, x, y, N, s, m)
  BY <1>1, MoveFacts
<1>3. PICK x \in Nat, y \in Nat, N \in Nat, s \in 0 .. BlockSize - 1, m \in Nat \ {0} :
        Moves(a, g, c, x, y, N, s, m)
  BY <1>2
<1>4. N = Number(g, c) /\ m = Chunk(c)
  BY <1>3 DEF Moves
<1>5. PICK b \in Blocks : b = Store(a, g, N) /\ b = entries[EntryOf(c)].value
  BY <1>2, <1>4
<1>6. PICK d \in Call :
           /\ d = Moved(c, b) /\ d.got # << >> /\ d.got \in Seq(Indices)
           /\ Gets(c) = d.got \o Run(d.index, d.left)
  <2>1. deq[c].pc = "block" /\ Moves(a, g, c, x, y, N, s, m) /\ b = Store(a, g, N)
    BY <1>1, <1>3, <1>5
  <2>2. \E d \in Call : d = Moved(c, b) /\ GetsOn(c, d)
    BY <1>3, <1>5, <2>1, MovedGets, SMTT(60)
  <2> QED BY <2>2 DEF GetsOn
<1>7. CASE Empties(c, b)
  <2>1. deq' = [deq EXCEPT ![c] = [d EXCEPT !.pc = "free"]] /\ excused' = excused
    BY <1>5, <1>6, <1>7 DEF MoveOut
  <2>2. /\ \A e \in Dequeuers \ {c} : deq'[e] = deq[e]
        /\ deq'[c].pc = "free" /\ deq'[c].got = d.got /\ deq'[c].index = d.index
        /\ deq'[c].left = d.left
    BY <1>1, <2>1 DEF Call
  <2>3. Owns(c)'
    BY <2>2 DEF Owns
  <2>4. Gets(c)' = Gets(c)
    BY <1>6, <2>2, <2>3 DEF Gets
  <2> QED BY <1>1, <1>6, <2>1, <2>2, <2>3, <2>4, MovesRefines
<1>8. CASE ~Empties(c, b)
  <2>1. Continue(c, d, Capacity(d))
    BY <1>5, <1>6, <1>8 DEF MoveOut
  <2>2. d.got \in Seq(Indices)
    BY <1>6
  <2> QED BY <1>1, <1>6, <2>1, <2>2, ContinueRefines
<1> QED BY <1>7, <1>8

(* Every step.                                                             *)
LEMMA StepRefines ==
  IndInv /\ ExcuseInv /\ [Next]_vars => ExcuseInv' /\ PlainStep
<1> SUFFICES ASSUME IndInv, ExcuseInv, [Next]_vars PROVE ExcuseInv' /\ PlainStep
  OBVIOUS
<1>1. PICK a \in Unwrappings, g \in Layouts : Fits(a, g)
  BY DEF IndInv
<1>2. CountersFit(a) /\ deq \in [Dequeuers -> Call]
  BY <1>1 DEF Fits, CountersFit
<1>3. CASE Enqueue
  BY <1>1, <1>3, EnqueueRefines
<1>4. CASE \E c \in Dequeuers : Dequeue(c)
  <2>1. PICK c \in Dequeuers : Dequeue(c)
    BY <1>4
  <2>2. CASE ClaimItems(c)
    BY <1>2, <2>2, ClaimItemsRefines
  <2>3. CASE ReadIndexTail(c) \/ ReadTailKey(c)
    BY <1>2, <2>3, SearchRefines
  <2>4. CASE MoveOut(c)
    BY <1>1, <2>4, MoveOutRefines
  <2>5. CASE FreeBlock(c)
    BY <1>1, <2>5, FreeBlockRefines
  <2> QED BY <2>1, <2>2, <2>3, <2>4, <2>5 DEF Dequeue
<1>5. CASE Destroy \/ UNCHANGED vars
  <2>1. UNCHANGED <<counters, deq, excused>>
    BY <1>5 DEF Destroy, vars
  <2> QED BY <2>1, QuietRefines, StaysPlain
<1> QED BY <1>3, <1>4, <1>5 DEF Next

LEMMA InitRefines == Init => ExcuseInv /\ Fifo!Init
<1> SUFFICES ASSUME Init PROVE ExcuseInv /\ Fifo!Init
  OBVIOUS
<1>1. /\ tailIndex = 0 /\ headIndex = 0 /\ deq = [c \in Dequeuers |-> Idle] /\ excused = {}
  BY DEF Init, InitBase
<1>2. \A c \in Dequeuers : deq[c].pc = "idle" /\ deq[c].got = << >>
  BY <1>1 DEF Idle
<1>3. Busy = {}
  BY <1>2 DEF Busy
<1>4. ExcuseInv
  BY <1>2, <1>3 DEF ExcuseInv, GotFits, ExcusesFit
<1>5. PICK a \in Unwrappings, g \in Layouts : Fits(a, g)
  BY InitKeeps DEF IndInv
<1>6. Mapped /\ Queue = << >>
  BY <1>1, <1>5, FitsMapped, SizeZero DEF Fits
<1>7. Held = [c \in Dequeuers |-> << >>]
  <2>1. \A c \in Dequeuers : Gets(c) = << >>
    BY <1>2 DEF Gets, Owns
  <2> QED BY <2>1 DEF Held
<1>8. /\ From(headIndex, Minus(tailIndex, headIndex)) = << >>
      /\ [c \in Dequeuers |-> Got(c)] = [c \in Dequeuers |-> << >>]
  BY <1>6, <1>7 DEF Mapped
<1> QED BY <1>1, <1>3, <1>4, <1>8 DEF Fifo!Init

(* The abstract queue as Refines has it.                                   *)
LEMMA MappedStep ==
  Mapped /\ Mapped' /\ PlainStep => [Fifo!Next]_(Fifo!vars)
<1> SUFFICES ASSUME Mapped, Mapped', PlainStep PROVE [Fifo!Next]_(Fifo!vars)
  OBVIOUS
<1>1. /\ From(headIndex, Minus(tailIndex, headIndex)) = Queue
      /\ From(headIndex, Minus(tailIndex, headIndex))' = Queue'
      /\ [c \in Dequeuers |-> Got(c)] = Held
      /\ [c \in Dequeuers |-> Got(c)]' = Held'
  BY DEF Mapped
<1>2. CASE Plain!Enqueue
  BY <1>1, <1>2 DEF Plain!Enqueue, Fifo!Enqueue, Fifo!Next
<1>3. CASE \E c \in Dequeuers : Plain!Begin(c)
  BY <1>1, <1>3 DEF Plain!Begin, Fifo!Begin, Fifo!Next
<1>4. CASE \E c \in Dequeuers : Plain!Take(c)
  BY <1>1, <1>4 DEF Plain!Take, Fifo!Take, Fifo!Next
<1>5. CASE \E c \in Dequeuers : Plain!Fail(c)
  BY <1>1, <1>5 DEF Plain!Fail, Fifo!Fail, Plain!Leave, Fifo!Leave, Fifo!Next
<1>6. CASE \E c \in Dequeuers : Plain!Finish(c)
  BY <1>1, <1>6 DEF Plain!Finish, Fifo!Finish, Plain!Leave, Fifo!Leave, Fifo!Next
<1>7. CASE UNCHANGED Plain!vars
  BY <1>1, <1>7 DEF Plain!vars, Fifo!vars
<1> QED BY <1>2, <1>3, <1>4, <1>5, <1>6, <1>7 DEF PlainStep, Plain!Next

LEMMA IndInvMapped == IndInv => Mapped
BY FitsMapped DEF IndInv

(* One producer's queue is a queue: what its dequeues return has been      *)
(* enqueued before all that is left, to one dequeue each, in order; and a  *)
(* dequeue returns nothing only if the queue was empty at some moment      *)
(* while it ran, or somebody else was dequeueing.  The items are handed    *)
(* over when headIndex moves, though they are moved out of their blocks    *)
(* later, in steps, while others enqueue, dequeue and change the index.    *)
THEOREM ImplementsAbstractQueue == Spec => Refines
<1>1. Init => ExcuseInv /\ Fifo!Init
  BY InitRefines
<1>2. IndInv /\ ExcuseInv /\ [Next]_vars => ExcuseInv' /\ PlainStep
  BY StepRefines
<1>3. Mapped /\ Mapped' /\ PlainStep => [Fifo!Next]_(Fifo!vars)
  BY MappedStep
<1>4. IndInv => Mapped
  BY IndInvMapped
<1> QED BY <1>1, <1>2, <1>3, <1>4, Inductive, PTL DEF Spec, Refines, Fifo!Spec

=============================================================================
