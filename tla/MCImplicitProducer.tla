------------------------- MODULE MCImplicitProducer -------------------------
(***************************************************************************)
(* ImplicitProducerProperties for TLC, with a view.  Positions in an index *)
(* are counted from its tail, modulo its capacity, and the last index has  *)
(* all the entries: it may be turned, and an entry named by its distance   *)
(* from the tail there.                                                    *)
(***************************************************************************)
EXTENDS ImplicitProducerProperties, MCProducerBase

RelEntry(e) ==
  [entries[e] EXCEPT !.key = IF @ = INVALID_BLOCK_BASE THEN << >> ELSE <<Rel(@)>>]

(* The entries of an index from its tail on.                               *)
Ring(h) ==
  [k \in 0 .. indexes[h].capacity - 1 |->
     indexes[h].index[(indexes[h].tail + k) % indexes[h].capacity]]

Distance(e) == CHOOSE k \in DOMAIN Ring(blockIndex) : Ring(blockIndex)[k] = e

(* Of the older indexes, those a dequeue looks at.                         *)
RelIndex(h) ==
  IF \E c \in Dequeuers : deq[c].header = h
  THEN [k \in DOMAIN Ring(h) |-> Distance(Ring(h)[k])] ELSE << >>

At(d) == (d.at - indexes[d.header].tail) % indexes[d.header].capacity

View ==
  <<BaseView,
    IF blockIndex = 0 THEN << >>
    ELSE [k \in DOMAIN Ring(blockIndex) |-> RelEntry(Ring(blockIndex)[k])],
    [h \in 1 .. blockIndex - 1 |-> RelIndex(h)],
    IF enq.pc = "idle" THEN enq ELSE [enq EXCEPT !.base = Rel(@)],
    [c \in Dequeuers |-> RelDequeue(deq[c], At(deq[c]))]>>
=============================================================================
