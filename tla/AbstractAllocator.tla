------------------------- MODULE AbstractAllocator -------------------------
(***************************************************************************)
(* What a family of fixed-size allocators promises its clients: a block is *)
(* lent to at most one holder at a time, an allocation fails only when     *)
(* every block of that pool is lent, and giving a block back to a pool it  *)
(* does not come from does nothing.                                        *)
(***************************************************************************)
CONSTANTS Pools, Blocks, Null

VARIABLES lent, ret

vars == <<lent, ret>>

BlocksOf(q) == {q} \X Blocks

Init == lent = {} /\ ret = Null

Allocate(q) ==
  \/ \E x \in BlocksOf(q) \ lent : lent' = lent \union {x} /\ ret' = x
  \/ BlocksOf(q) \subseteq lent /\ ret' = Null /\ UNCHANGED lent

DeAllocate(q) ==
  \E x \in lent : x \in BlocksOf(q) /\ lent' = lent \ {x} /\ UNCHANGED ret

ReclaimAll(q) == lent' = lent \ BlocksOf(q) /\ UNCHANGED ret

Next == \E q \in Pools : Allocate(q) \/ DeAllocate(q) \/ ReclaimAll(q)

Spec == Init /\ [][Next]_vars
=============================================================================
