------------------------- MODULE MCExplicitProducer -------------------------
(***************************************************************************)
(* ExplicitProducerProperties for TLC, with a view.  Positions in the last *)
(* index are counted from pr_blockIndexFront, in an older one from its     *)
(* front, modulo the size.                                                 *)
(***************************************************************************)
EXTENDS ExplicitProducerProperties, MCProducerBase

RelEntry(e) == IF e.block = Null THEN << >> ELSE <<Rel(e.base), e.block>>

Start(h) == IF h = blockIndex THEN index.front ELSE headers[h].front

(* Of the older indexes, those a dequeue looks at.                         *)
RelIndex(h) ==
  IF h = blockIndex \/ \E c \in Dequeuers : deq[c].header = h
  THEN [k \in 0 .. headers[h].size - 1 |-> RelEntry(EntryAt(h, Start(h) + k))] ELSE << >>

At(d) == (d.at - Start(d.header)) % headers[d.header].size

RelEnqueue ==
  IF enq.pc = "idle" THEN enq
  ELSE [enq EXCEPT !.base = Rel(@), !.front = (@ - index.front) % Size,
                   !.items = {RelItem(i) : i \in @}]

View ==
  <<BaseView, [h \in DOMAIN headers |-> RelIndex(h)],
    IF blockIndex = 0 THEN 0 ELSE (headers[blockIndex].front - index.front) % Size,
    index.slotsUsed, RelEnqueue,
    [c \in Dequeuers |-> RelDequeue(deq[c], At(deq[c]))]>>
=============================================================================
