-------------------------- MODULE ConsumerRotation --------------------------
(***************************************************************************)
(* How a dequeue of moodycamel::ConcurrentQueue chooses among the queues   *)
(* of its producers (concurrentqueue.h: try_dequeue, try_dequeue_bulk,     *)
(* update_current_producer_after_rotation), with a consumer token as the   *)
(* owner of a PoolState does, or without as PoolManager does, while        *)
(* producers are added and items enqueued.                                 *)
(*                                                                         *)
(* Producers are numbered in the order they enter the list; they never     *)
(* leave it.  next_prod leads to the producer before, producerListTail to  *)
(* the last.  Of the items only their number counts.  One producer's queue *)
(* keeps the contract of AbstractQueue: a dequeue that is there comes back *)
(* empty-handed only if the queue was empty as it arrived, or another one  *)
(* was there meanwhile.                                                    *)
(***************************************************************************)
EXTENDS Integers

CONSTANTS
  Consumers,
  MaxProducers,  (* bound: producers that are ever added                   *)
  MaxBulk,       (* bound: the largest max asked of try_dequeue_bulk       *)
  Sampled,       (* the 3 non-empty producers try_dequeue looks at         *)
  Quota,         (* EXPLICIT_CONSUMER_CONSUMPTION_QUOTA_BEFORE_ROTATE      *)
  OffsetT,       (* 2^w for the w bits of the offsets                      *)
  Casts          (* who dequeues how: "plain" without a token, "bulk" with *)
                 (* a token and in bulk, "token" with a token either way,  *)
                 (* "none" not at all; and bounds of their own for the     *)
                 (* producers and the items of each                        *)

ASSUME RotationAssumption ==
  /\ MaxProducers \in Nat
  /\ MaxBulk \in Nat \ {0}
  /\ Sampled \in Nat \ {0}
  /\ Quota \in Nat \ {0, 1}
  /\ OffsetT \in Nat \ {0, 1}
  /\ Casts \subseteq [who : [Consumers -> {"plain", "bulk", "token", "none"}],
                     producers : 0 .. MaxProducers, items : Nat]

VARIABLES
  cast,           (* one of Casts, which stays the same                    *)
  producerCount,  (* incremented before ...                                *)
  listed,         (* ... the producer is in the list                       *)
  size,           (* the items of each producer                            *)
  globalExplicitConsumerOffset,
  token,          (* the ConsumerTokens                                    *)
  call            (* the dequeues in progress                              *)

vars ==
  <<cast, producerCount, listed, size, globalExplicitConsumerOffset, token, call>>

Producers == 1 .. MaxProducers

Null == 0

(* next_prod, from the first producer on to the last again.                *)
NextProd(p, tail) == IF p = 1 THEN tail ELSE p - 1

(* k times next_prod.                                                      *)
Ahead(p, k, tail) == IF k < p THEN p - k ELSE tail - ((k - p) % tail)

Idle ==
  [pc |-> "idle", bulk |-> FALSE, left |-> 0, got |-> FALSE, ptr |-> Null,
   tail |-> Null, best |-> Null, bestSize |-> 0, found |-> 0, prodCount |-> 0,
   excused |-> FALSE, full |-> {}]

HasToken(c) == cast.who[c] \in {"bulk", "token"}

Init ==
  /\ cast \in Casts
  /\ producerCount = 0
  /\ listed = 0
  /\ size = [p \in Producers |-> 0]
  /\ globalExplicitConsumerOffset = 0
  /\ token = [c \in Consumers |->
                [lastKnownGlobalOffset |-> OffsetT - 1, itemsConsumedFromCurrent |-> 0,
                 currentProducer |-> Null, desiredProducer |-> Null]]
  /\ call = [c \in Consumers |-> Idle]

-----------------------------------------------------------------------------
(* The producers.                                                          *)

CountProducer ==
  /\ producerCount < cast.producers
  /\ producerCount' = producerCount + 1
  /\ UNCHANGED <<cast, listed, size, globalExplicitConsumerOffset, token, call>>

(* A mistake: the producer is counted once it is in the list.              *)
ListProducerFirst ==
  /\ listed < cast.producers
  /\ listed' = listed + 1
  /\ UNCHANGED <<cast, producerCount, size, globalExplicitConsumerOffset, token, call>>

ListProducer ==
  /\ listed < producerCount
  /\ listed' = listed + 1
  /\ UNCHANGED <<cast, producerCount, size, globalExplicitConsumerOffset, token, call>>

Enqueue(p) ==
  /\ p <= listed
  /\ size[p] < cast.items
  /\ size' = [size EXCEPT ![p] = @ + 1]
  /\ UNCHANGED <<cast, producerCount, listed, globalExplicitConsumerOffset, token, call>>

-----------------------------------------------------------------------------
(* Being at a producer's queue, to dequeue there or to ask its size.       *)
Dequeuing == {"current", "scan", "best", "pass"}

At(c, p) == call[c].pc \in Dequeuing /\ call[c].ptr = p

(* The call of c goes on as d, after n items were taken where it was.  Who *)
(* meets another one at a queue may come away without an item; who asks    *)
(* for the size while items are taken may get too low an answer.           *)
Becomes(c, d, n) ==
  LET arrives == d.pc \in Dequeuing
      met(e)  == arrives /\ At(e, d.ptr)
  IN call' = [e \in Consumers |->
       IF e = c
       THEN [d EXCEPT !.excused = arrives /\ (size[d.ptr] = 0 \/
                                              \E o \in Consumers \ {c} : met(o))]
       ELSE [call[e] EXCEPT
               !.excused = @ \/ met(e) \/
                           (n > 0 /\ call[e].pc = "look" /\ call[e].ptr = call[c].ptr),
               !.full = IF arrives THEN @ \ {d.ptr} ELSE @]]

(* How many items a dequeue may get.                                       *)
Outcome(c) ==
  LET p == call[c].ptr
      n == IF call[c].left < size[p] THEN call[c].left ELSE size[p]
  IN (1 .. n) \union IF call[c].excused THEN {0} ELSE {}

Remove(c, n) == size' = [size EXCEPT ![call[c].ptr] = @ - n]

(* The call after n items were taken, wherever it goes.                    *)
Got(c, n) == [call[c] EXCEPT !.left = @ - n, !.got = @ \/ n > 0]

GoTo(d, pc, p) == [d EXCEPT !.pc = pc, !.ptr = p]

Return(c) == Becomes(c, Idle, 0)

-----------------------------------------------------------------------------
(* A dequeue begins.                                                       *)
Fresh(bulk, max) ==
  [Idle EXCEPT !.bulk = bulk, !.left = max,
               !.full = {p \in 1 .. listed :
                           size[p] > 0 /\ \A d \in Consumers : ~At(d, p)}]

(* Without a token: to the last producer, of a dequeue of one to ask for   *)
(* its size first, unless it is not to interleave.                         *)
BeginPlain(c) ==
  /\ call[c].pc = "idle"
  /\ cast.who[c] = "plain"
  /\ \E bulk \in BOOLEAN, max \in 1 .. MaxBulk, pc \in {"look", "pass"} :
       /\ bulk => pc = "pass"
       /\ ~bulk => max = 1
       /\ listed # 0
       /\ Becomes(c, GoTo(Fresh(bulk, max), pc, listed), 0)
  /\ UNCHANGED <<cast, producerCount, listed, size, globalExplicitConsumerOffset, token>>

(* With a token: to its current producer, or first to where it should be.  *)
BeginWithToken(c) ==
  /\ call[c].pc = "idle"
  /\ HasToken(c)
  /\ \E bulk \in BOOLEAN, max \in 1 .. MaxBulk :
       /\ cast.who[c] = "bulk" => bulk
       /\ ~bulk => max = 1
       /\ IF \/ token[c].desiredProducer = Null
             \/ token[c].lastKnownGlobalOffset # globalExplicitConsumerOffset
          THEN /\ listed # 0
               /\ Becomes(c, [Fresh(bulk, max) EXCEPT !.pc = "count", !.tail = listed], 0)
          ELSE Becomes(c, GoTo(Fresh(bulk, max), "current", token[c].currentProducer), 0)
  /\ UNCHANGED <<cast, producerCount, listed, size, globalExplicitConsumerOffset, token>>

-----------------------------------------------------------------------------
(* update_current_producer_after_rotation, from the reading of             *)
(* producerCount on.                                                       *)
ReadProducerCount(c) ==
  /\ call[c].pc = "count"
  /\ call' = [call EXCEPT ![c].pc = "rotate", ![c].prodCount = producerCount]
  /\ UNCHANGED <<cast, producerCount, listed, size, globalExplicitConsumerOffset, token>>

(* Where a token that has not dequeued yet starts, for the number it got   *)
(* when it was made.                                                       *)
StartingPoint(n, tail, initialOffset) ==
  Ahead(tail, n - 1 - (initialOffset % n), tail)

(* A mistake: the token stays at the producer it is at.                    *)
RotateNot(c) ==
  /\ call[c].pc = "rotate"
  /\ LET tail    == call[c].tail
         desired == IF token[c].desiredProducer = Null THEN tail
                    ELSE token[c].desiredProducer
     IN /\ token' = [token EXCEPT ![c] =
                       [lastKnownGlobalOffset |-> globalExplicitConsumerOffset,
                        itemsConsumedFromCurrent |-> 0,
                        currentProducer |-> desired, desiredProducer |-> desired]]
        /\ Becomes(c, GoTo([call[c] EXCEPT !.tail = Null, !.prodCount = 0],
                           "current", desired), 0)
  /\ UNCHANGED <<cast, producerCount, listed, size, globalExplicitConsumerOffset>>

Rotate(c) ==
  /\ call[c].pc = "rotate"
  /\ \E initialOffset \in 0 .. OffsetT - 1 :
       LET n     == call[c].prodCount
           tail  == call[c].tail
           delta == (globalExplicitConsumerOffset - token[c].lastKnownGlobalOffset) % OffsetT
           start == IF token[c].desiredProducer = Null
                    THEN StartingPoint(n, tail, initialOffset)
                    ELSE token[c].desiredProducer
           desired == Ahead(start, delta % n, tail)
       IN /\ token' = [token EXCEPT ![c] =
                         [lastKnownGlobalOffset |-> globalExplicitConsumerOffset,
                          itemsConsumedFromCurrent |-> 0,
                          currentProducer |-> desired, desiredProducer |-> desired]]
          /\ Becomes(c, GoTo([call[c] EXCEPT !.tail = Null, !.prodCount = 0],
                             "current", desired), 0)
  /\ UNCHANGED <<cast, producerCount, listed, size, globalExplicitConsumerOffset>>

-----------------------------------------------------------------------------
(* With a token.                                                           *)

(* What itemsConsumedFromCurrent is compared with: anything above Quota is *)
(* the same.                                                               *)
Counted(c, n) ==
  LET sum == token[c].itemsConsumedFromCurrent + n IN
  IF sum < Quota + 1 THEN sum ELSE Quota + 1

QuotaReached(c, n) ==
  \/ Counted(c, n) = Quota
  \/ call[c].bulk /\ Counted(c, n) > Quota

Rotated(by) ==
  globalExplicitConsumerOffset' = (globalExplicitConsumerOffset + by) % OffsetT

DequeueFromCurrent(c) ==
  /\ call[c].pc = "current"
  /\ \E n \in Outcome(c) :
       /\ Remove(c, n)
       /\ token' = [token EXCEPT ![c].itemsConsumedFromCurrent = Counted(c, n)]
       /\ IF n = call[c].left
          THEN /\ Rotated(IF QuotaReached(c, n) THEN 1 ELSE 0)
               /\ Becomes(c, Idle, n)
          ELSE /\ Rotated(0)
               /\ Becomes(c, GoTo(Got(c, n), "tail", Null), n)
  /\ UNCHANGED <<cast, producerCount, listed>>

(* The others are tried one after the other.                               *)
ReadTail(c) ==
  /\ call[c].pc = "tail"
  /\ cast.who[c] # "plain"
  /\ LET current == token[c].currentProducer
         p == NextProd(current, listed) IN
     IF p = current THEN Return(c)
     ELSE Becomes(c, [GoTo(call[c], "scan", p) EXCEPT !.tail = listed], 0)
  /\ UNCHANGED <<cast, producerCount, listed, size, globalExplicitConsumerOffset, token>>

(* A mistake: the round does not end.                                      *)
ScanUntilFound(c) ==
  /\ call[c].pc = "scan"
  /\ \E n \in Outcome(c) :
       /\ Remove(c, n)
       /\ IF n > 0 THEN Becomes(c, Idle, n)
          ELSE Becomes(c, GoTo(call[c], "scan", NextProd(call[c].ptr, call[c].tail)), n)
  /\ UNCHANGED <<cast, producerCount, listed, globalExplicitConsumerOffset, token>>

(* Until it comes to the current one, which is the last that had items.    *)
Scan(c) ==
  /\ call[c].pc = "scan"
  /\ \E n \in Outcome(c) :
       LET here    == call[c].ptr
           next    == NextProd(here, call[c].tail)
           current == IF n > 0 THEN here ELSE token[c].currentProducer
       IN /\ Remove(c, n)
          /\ token' = [token EXCEPT
                         ![c].currentProducer = current,
                         ![c].itemsConsumedFromCurrent = IF n > 0 THEN n ELSE @]
          /\ IF n = call[c].left \/ next = current
             THEN Becomes(c, Idle, n)
             ELSE Becomes(c, GoTo(Got(c, n), "scan", next), n)
  /\ UNCHANGED <<cast, producerCount, listed, globalExplicitConsumerOffset>>

-----------------------------------------------------------------------------
(* Without a token.                                                        *)

(* size_approx.                                                            *)
Sizes(c) == IF call[c].excused THEN 0 .. size[call[c].ptr] ELSE {size[call[c].ptr]}

(* The next producer is asked, unless enough have items, or this was the   *)
(* last; then the fullest is tried, if there is one.                       *)
Look(c) ==
  /\ call[c].pc = "look"
  /\ \E n \in Sizes(c) :
       LET here == call[c].ptr
           seen == [call[c] EXCEPT !.found    = @ + IF n > 0 THEN 1 ELSE 0,
                                   !.best     = IF n > call[c].bestSize THEN here ELSE @,
                                   !.bestSize = IF n > @ THEN n ELSE @]
       IN CASE seen.found < Sampled /\ here > 1 -> Becomes(c, GoTo(seen, "look", here - 1), 0)
            [] seen.found = 0 /\ here = 1 -> Return(c)
            [] OTHER -> Becomes(c, [GoTo(seen, "best", seen.best) EXCEPT
                                     !.found = 0, !.bestSize = 0, !.tail = Null], 0)
  /\ UNCHANGED <<cast, producerCount, listed, size, globalExplicitConsumerOffset, token>>

(* A mistake: the others are not tried.                                    *)
DequeueFromBestOnly(c) ==
  /\ call[c].pc = "best"
  /\ \E n \in Outcome(c) : Remove(c, n) /\ Becomes(c, Idle, n)
  /\ UNCHANGED <<cast, producerCount, listed, globalExplicitConsumerOffset, token>>

DequeueFromBest(c) ==
  /\ call[c].pc = "best"
  /\ \E n \in Outcome(c) :
       /\ Remove(c, n)
       /\ IF n > 0 THEN Becomes(c, Idle, n)
          ELSE Becomes(c, GoTo(call[c], "tail", Null), 0)
  /\ UNCHANGED <<cast, producerCount, listed, globalExplicitConsumerOffset, token>>

(* All but best, from p on: to the first of them, or out.                  *)
PassTo(c, d, p, n) ==
  LET q == IF p # Null /\ p = d.best THEN p - 1 ELSE p IN
  IF q = Null THEN Becomes(c, Idle, n) ELSE Becomes(c, GoTo(d, "pass", q), n)

ReadTailAgain(c) ==
  /\ call[c].pc = "tail"
  /\ cast.who[c] = "plain"
  /\ PassTo(c, call[c], listed, 0)
  /\ UNCHANGED <<cast, producerCount, listed, size, globalExplicitConsumerOffset, token>>

Pass(c) ==
  /\ call[c].pc = "pass"
  /\ \E n \in Outcome(c) :
       /\ Remove(c, n)
       /\ IF n = call[c].left THEN Becomes(c, Idle, n)
          ELSE PassTo(c, Got(c, n), call[c].ptr - 1, n)
  /\ UNCHANGED <<cast, producerCount, listed, globalExplicitConsumerOffset, token>>

-----------------------------------------------------------------------------
Produce ==
  \/ CountProducer \/ ListProducer
  \/ \E p \in Producers : Enqueue(p)

Dequeue(c) ==
  \/ BeginPlain(c) \/ BeginWithToken(c)
  \/ ReadProducerCount(c) \/ Rotate(c)
  \/ DequeueFromCurrent(c) \/ ReadTail(c) \/ Scan(c)
  \/ Look(c) \/ DequeueFromBest(c) \/ ReadTailAgain(c) \/ Pass(c)

Next == Produce \/ \E c \in Consumers : Dequeue(c)

Spec == Init /\ [][Next]_vars

(* A call that has begun runs on, and consumers go on calling; nobody has  *)
(* to enqueue.                                                             *)
FairSpec ==
  Spec /\ \A c \in Consumers : WF_vars(Dequeue(c))
=============================================================================
