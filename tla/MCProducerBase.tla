--------------------------- MODULE MCProducerBase ---------------------------
(***************************************************************************)
(* For TLC: what a view of a producer's queue makes of the variables of    *)
(* ProducerBase, to keep one of the states that differ only in ways no     *)
(* step can tell.  Indices and counts are compared by their differences    *)
(* modulo IndexT, and an index by itself is looked at only modulo          *)
(* BlockSize: all may be moved by a multiple of BlockSize, and             *)
(* dequeueOptimisticCount, dequeueOvercommit and what was read of them by  *)
(* one number.                                                             *)
(***************************************************************************)
EXTENDS ProducerBase, TLC

Symmetric == Permutations(Blocks) \union Permutations(Dequeuers)

Rel(i) == Minus(i, BlockBase(headIndex))

RelItem(i) == IF i = Null THEN Null ELSE Rel(i)

RelBlock(b) ==
  [block[b] EXCEPT !.elements = [k \in Slots |-> RelItem(block[b].elements[k])]]

RelCount(n) == Minus(n, dequeueOvercommit)

(* at is the position in the index, counted from where the view starts it. *)
RelDequeue(d, at) ==
  CASE d.pc = "idle"       -> d
    [] d.pc = "overcommit" -> [d EXCEPT !.since = Rel(@), !.tail = Rel(@)]
    [] d.pc = "count"      -> [d EXCEPT !.since = Rel(@), !.tail = Rel(@),
                                        !.overcommit = RelCount(@)]
    [] d.pc = "claim"      -> [d EXCEPT !.since = Rel(@), !.overcommit = RelCount(@)]
    [] d.pc = "recheck"    -> [d EXCEPT !.since = Rel(@), !.overcommit = RelCount(@),
                                        !.count = RelCount(Rel(@))]
    [] d.pc \in {"takeback", "head"} -> d
    [] d.pc = "index"      -> [d EXCEPT !.index = Rel(@)]
    [] OTHER -> [d EXCEPT !.index = Rel(@), !.at = at,
                          !.got = [k \in DOMAIN @ |-> Rel(@[k])]]

BaseView ==
  <<Rel(tailIndex), Rel(headIndex), Rel(RelCount(dequeueOptimisticCount)),
    tailBlock, [b \in Blocks |-> RelBlock(b)], free, enq.pc, excused>>
=============================================================================
