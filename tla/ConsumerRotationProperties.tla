---------------------- MODULE ConsumerRotationProperties ----------------------
(***************************************************************************)
(* What is expected of the choice among producers.                         *)
(***************************************************************************)
EXTENDS ConsumerRotation

(* The count by which update_current_producer_after_rotation divides, read *)
(* apart from the list, is not behind what the list showed.                *)
CountCoversList ==
  \A c \in Consumers :
    call[c].pc = "rotate" => call[c].prodCount >= call[c].tail /\ call[c].tail > 0

(* A call that returns nothing has looked everywhere: a producer that had  *)
(* an item when the call began was, meanwhile, reached by somebody else.   *)
(* (try_dequeue: "false if all producer streams appeared empty at the time *)
(* they were checked".)  On this rests that ConsumeDeallocRequests stops   *)
(* only with every request handed in before it taken, and that Init makes  *)
(* no new PoolState while one is free.                                     *)
ReturnsNothing(c) ==
  /\ call[c].pc # "idle" /\ call'[c].pc = "idle"
  /\ ~call[c].got /\ size' = size

NothingMissed ==
  [][\A c \in Consumers : ReturnsNothing(c) => call[c].full = {}]_vars

(* A call ends, though its round ends at a producer it may move on itself, *)
(* and producers and items are added while it goes round.                  *)
CallsEnd ==
  \A c \in Consumers : call[c].pc # "idle" ~> call[c].pc = "idle"

(* With one consumer, which dequeues in bulk with a token, no producer's   *)
(* items wait forever while others are filled again and again.             *)
Alone(c) ==
  cast.who[c] = "bulk" /\ \A d \in Consumers \ {c} : cast.who[d] = "none"

TakenFrom(p) == size'[p] < size[p]

NoStarvation ==
  (\E c \in Consumers : Alone(c)) =>
    \A p \in Producers : []<>(size[p] = 0) \/ []<><<TakenFrom(p)>>_vars
=============================================================================
