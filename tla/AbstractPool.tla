---------------------------- MODULE AbstractPool ----------------------------
(***************************************************************************)
(* What the pool promises about addresses: New returns one that no object  *)
(* has, and an address comes back only after its object was destroyed,     *)
(* once.                                                                   *)
(***************************************************************************)
CONSTANT Addresses

VARIABLES
  live,     (* the addresses of constructed objects                        *)
  pending   (* destroyed, or never constructed, and not yet to be reused   *)

vars == <<live, pending>>

Init == live = {} /\ pending = {}

New ==
  \E x \in Addresses \ (live \union pending) :
    \/ live' = live \union {x} /\ UNCHANGED pending
    \/ pending' = pending \union {x} /\ UNCHANGED live

Destroy ==
  \E x \in live : live' = live \ {x} /\ pending' = pending \union {x}

GiveBack == \E x \in pending : pending' = pending \ {x} /\ UNCHANGED live

Next == New \/ Destroy \/ GiveBack

Spec == Init /\ [][Next]_vars
=============================================================================
