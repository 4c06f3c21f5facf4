------------------------- MODULE MCConsumerRotation -------------------------
(* ConsumerRotationProperties for TLC.                                     *)
EXTENDS ConsumerRotationProperties

CONSTANTS c1, c2

Cast(first, second, producers, items) ==
  [who |-> [c \in {c1, c2} |-> IF c = c1 THEN first ELSE second],
   producers |-> producers, items |-> items]

(* As the requests of a PoolState are dequeued, as free_pools_ is; a token *)
(* used both ways; and the two kinds mixed.                                *)
OwnerOf3 == Cast("bulk", "none", 3, 1)
OwnerOf2 == Cast("bulk", "none", 2, 2)
NoTokens == Cast("plain", "plain", 3, 1)
BothWays == Cast("token", "none", 2, 2)
Mixed    == Cast("bulk", "plain", 2, 1)
AllCasts == {OwnerOf3, OwnerOf2, NoTokens, BothWays, Mixed}
=============================================================================
