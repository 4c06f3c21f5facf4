-------------------------- MODULE MCProducerTable --------------------------
(* All thread ids hash to one slot: they meet on their way through every   *)
(* table, and are symmetric.                                               *)
EXTENDS ProducerTable, TLC

MCHashedId == [t \in Threads |-> 0]

Symmetry == Permutations(Threads)
=============================================================================
