------------------------ MODULE ConsumerRotationProofs ------------------------
(***************************************************************************)
(* For any number of consumers, producers and items: that                  *)
(* update_current_producer_after_rotation never divides by zero, nor by    *)
(* less than the list showed it, which rests on the order of the two       *)
(* writes in add_producer, the count first, then the list; and that a      *)
(* dequeue which returns nothing missed no producer that had items all     *)
(* along and was nobody else's.                                            *)
(***************************************************************************)
EXTENDS ConsumerRotationProperties, TLAPS

(* The fields of a call that matter here.                                  *)
IsCall(d) == {"pc", "ptr", "tail", "prodCount", "excused", "full"} \subseteq DOMAIN d

(* With n producers in the list: a call that has read the tail of the list *)
(* only has a producer that is there; one that has read the count as well  *)
(* has one that covers it.                                                 *)
CallOK(d, n) ==
  /\ IsCall(d)
  /\ d.pc = "count"  => d.tail \in 1 .. n
  /\ d.pc = "rotate" => d.tail \in Nat \ {0} /\ d.prodCount \in Nat /\ d.prodCount >= d.tail

(* The strengthening: producers are counted before they are listed.        *)
IndInv ==
  /\ producerCount \in Nat /\ listed \in Nat /\ listed <= producerCount
  /\ DOMAIN call = Consumers
  /\ \A c \in Consumers : CallOK(call[c], listed)

(* A step of c: the others' calls stay what they are as to the list.       *)
LEMMA BecomesKeeps ==
  ASSUME NEW c \in Consumers, NEW STATE d, NEW n, IndInv,
         Becomes(c, d, n), CallOK(d, listed), UNCHANGED <<producerCount, listed>>
  PROVE  IndInv'
<1>1. DOMAIN call' = Consumers
  BY DEF Becomes
<1>2. ASSUME NEW e \in Consumers PROVE CallOK(call'[e], listed)
  <2>1. CASE e = c
    <3>1. /\ IsCall(call'[e])
          /\ call'[e].pc = d.pc /\ call'[e].tail = d.tail
          /\ call'[e].prodCount = d.prodCount
      BY <2>1 DEF Becomes, CallOK, IsCall
    <3> QED
      BY <3>1 DEF CallOK
  <2>2. CASE e # c
    <3>1. /\ IsCall(call'[e])
          /\ call'[e].pc = call[e].pc /\ call'[e].tail = call[e].tail
          /\ call'[e].prodCount = call[e].prodCount
      BY <2>2 DEF Becomes, CallOK, IsCall, IndInv
    <3> QED
      BY <3>1 DEF CallOK, IndInv
  <2> QED
    BY <2>1, <2>2
<1> QED
  BY <1>1, <1>2 DEF IndInv

(* The same where a call goes on elsewhere than at the list, or ends.      *)
LEMMA GoesElsewhere ==
  ASSUME NEW c \in Consumers, NEW STATE d, NEW n, IndInv,
         IsCall(d), d.pc \notin {"count", "rotate"},
         Becomes(c, d, n), UNCHANGED <<producerCount, listed>>
  PROVE  IndInv'
<1>1. CallOK(d, listed)
  BY DEF CallOK
<1> QED
  BY <1>1, BecomesKeeps

(* GoTo moves a call and changes nothing else.                             *)
LEMMA GoToKeeps ==
  ASSUME NEW STATE d, NEW STATE pc, NEW STATE p, IsCall(d)
  PROVE  IsCall(GoTo(d, pc, p)) /\ GoTo(d, pc, p).pc = pc
  BY DEF IsCall, GoTo

(* A call that has ended has the fields, too ...                           *)
LEMMA IdleIsCall == IsCall(Idle) /\ Idle.pc = "idle"
  BY DEF IsCall, Idle

(* ... so has one that begins ...                                          *)
LEMMA FreshIsCall ==
  ASSUME NEW bulk, NEW max
  PROVE  IsCall(Fresh(bulk, max))
  BY DEF IsCall, Fresh, Idle

(* ... and one that got its items.                                         *)
LEMMA GotIsCall ==
  ASSUME NEW c \in Consumers, NEW n, IsCall(call[c])
  PROVE  IsCall(Got(c, n))
  BY DEF IsCall, Got

(* Producers: the count grows before the list does, and a longer list      *)
(* still has what a call read.                                             *)
LEMMA ProduceStep == ASSUME IndInv, Produce PROVE IndInv'
<1>1. CASE CountProducer
  BY <1>1 DEF IndInv, CountProducer
<1>2. CASE ListProducer
  <2>1. ASSUME NEW c \in Consumers PROVE CallOK(call[c], listed + 1)
    <3>1. CallOK(call[c], listed) /\ listed \in Nat
      BY DEF IndInv
    <3>2. 1 .. listed \subseteq 1 .. listed + 1
      BY <3>1
    <3> QED
      BY <3>1, <3>2 DEF CallOK
  <2> QED
    BY <1>2, <2>1 DEF IndInv, ListProducer
<1>3. CASE \E p \in Producers : Enqueue(p)
  BY <1>3 DEF IndInv, Enqueue
<1> QED
  BY <1>1, <1>2, <1>3 DEF Produce

(* A dequeue begins; with a token it may have read the tail of the list.   *)
LEMMA BeginStep ==
  ASSUME NEW c \in Consumers, IndInv, BeginPlain(c) \/ BeginWithToken(c)
  PROVE  IndInv'
<1>1. CASE BeginPlain(c)
  <2>1. PICK bulk \in BOOLEAN, max \in 1 .. MaxBulk, pc \in {"look", "pass"} :
          Becomes(c, GoTo(Fresh(bulk, max), pc, listed), 0)
    BY <1>1 DEF BeginPlain
  <2>2. UNCHANGED <<producerCount, listed>>
    BY <1>1 DEF BeginPlain
  <2> QED
    BY <2>1, <2>2, FreshIsCall, GoToKeeps, GoesElsewhere
<1>2. CASE BeginWithToken(c)
  <2>1. PICK bulk \in BOOLEAN, max \in 1 .. MaxBulk :
          \/ /\ listed # 0
             /\ Becomes(c, [Fresh(bulk, max) EXCEPT !.pc = "count", !.tail = listed], 0)
          \/ Becomes(c, GoTo(Fresh(bulk, max), "current", token[c].currentProducer), 0)
    BY <1>2 DEF BeginWithToken
  <2>2. UNCHANGED <<producerCount, listed>>
    BY <1>2 DEF BeginWithToken
  <2>3. CASE /\ listed # 0
             /\ Becomes(c, [Fresh(bulk, max) EXCEPT !.pc = "count", !.tail = listed], 0)
    <3>1. CallOK([Fresh(bulk, max) EXCEPT !.pc = "count", !.tail = listed], listed)
      BY <2>3, FreshIsCall DEF CallOK, IsCall, IndInv
    <3> QED
      BY <2>2, <2>3, <3>1, BecomesKeeps
  <2>4. CASE Becomes(c, GoTo(Fresh(bulk, max), "current", token[c].currentProducer), 0)
    BY <2>2, <2>4, FreshIsCall, GoToKeeps, GoesElsewhere
  <2> QED
    BY <2>1, <2>3, <2>4
<1> QED
  BY <1>1, <1>2

(* The count is read, of the producers there are by now.                   *)
LEMMA ReadProducerCountStep ==
  ASSUME NEW c \in Consumers, IndInv, ReadProducerCount(c)
  PROVE  IndInv'
<1>1. /\ DOMAIN call' = Consumers
      /\ \A e \in Consumers \ {c} : call'[e] = call[e]
      /\ UNCHANGED <<producerCount, listed>>
  BY DEF IndInv, ReadProducerCount
<1>2. /\ IsCall(call'[c])
      /\ call'[c].pc = "rotate" /\ call'[c].prodCount = producerCount
      /\ call'[c].tail = call[c].tail
  BY DEF IndInv, CallOK, IsCall, ReadProducerCount
<1>3. call[c].tail \in 1 .. listed /\ listed <= producerCount /\ {listed, producerCount} \subseteq Nat
  BY DEF IndInv, CallOK, ReadProducerCount
<1>4. CallOK(call'[c], listed)
  BY <1>2, <1>3 DEF CallOK
<1> QED
  BY <1>1, <1>4 DEF IndInv

(* The other steps with a token no longer need the count.                  *)
LEMMA TokenStep ==
  ASSUME NEW c \in Consumers, IndInv,
         Rotate(c) \/ DequeueFromCurrent(c) \/ ReadTail(c) \/ Scan(c)
  PROVE  IndInv'
<1>1. IsCall(call[c]) /\ UNCHANGED <<producerCount, listed>>
  BY DEF IndInv, CallOK, Rotate, DequeueFromCurrent, ReadTail, Scan
<1>2. CASE Rotate(c)
  <2>1. PICK initialOffset \in 0 .. OffsetT - 1 :
          \E desired : Becomes(c, GoTo([call[c] EXCEPT !.tail = Null, !.prodCount = 0],
                                       "current", desired), 0)
    BY <1>2 DEF Rotate
  <2>2. IsCall([call[c] EXCEPT !.tail = Null, !.prodCount = 0])
    BY <1>1 DEF IsCall
  <2> QED
    BY <1>1, <2>1, <2>2, GoToKeeps, GoesElsewhere
<1>3. CASE DequeueFromCurrent(c)
  <2>1. PICK n \in Outcome(c) : \/ Becomes(c, Idle, n)
                                \/ Becomes(c, GoTo(Got(c, n), "tail", Null), n)
    BY <1>3 DEF DequeueFromCurrent
  <2> QED
    BY <1>1, <2>1, IdleIsCall, GotIsCall, GoToKeeps, GoesElsewhere
<1>4. CASE ReadTail(c)
  <2> DEFINE p == NextProd(token[c].currentProducer, listed)
             d == [GoTo(call[c], "scan", p) EXCEPT !.tail = listed]
  <2>1. Becomes(c, Idle, 0) \/ Becomes(c, d, 0)
    BY <1>4 DEF ReadTail, Return
  <2>2. IsCall(d) /\ d.pc = "scan"
    BY <1>1, GoToKeeps DEF IsCall
  <2> QED
    BY <1>1, <2>1, <2>2, IdleIsCall, GoesElsewhere
<1>5. CASE Scan(c)
  <2>1. PICK n \in Outcome(c) :
          \/ Becomes(c, Idle, n)
          \/ Becomes(c, GoTo(Got(c, n), "scan", NextProd(call[c].ptr, call[c].tail)), n)
    BY <1>5 DEF Scan
  <2> QED
    BY <1>1, <2>1, IdleIsCall, GotIsCall, GoToKeeps, GoesElsewhere
<1> QED
  BY <1>2, <1>3, <1>4, <1>5

(* PassTo goes on to a queue or ends the call.                             *)
LEMMA PassToKeeps ==
  ASSUME NEW c \in Consumers, NEW STATE d, NEW STATE p, NEW n, IndInv, IsCall(d),
         PassTo(c, d, p, n), UNCHANGED <<producerCount, listed>>
  PROVE  IndInv'
<1>1. PICK q : Becomes(c, Idle, n) \/ Becomes(c, GoTo(d, "pass", q), n)
  BY DEF PassTo
<1>2. IsCall(GoTo(d, "pass", q)) /\ GoTo(d, "pass", q).pc = "pass"
  BY DEF IsCall, GoTo
<1> QED
  BY <1>1, <1>2, IdleIsCall, GoesElsewhere

(* The steps of a call without a token never read the count.               *)
LEMMA PlainStep ==
  ASSUME NEW c \in Consumers, IndInv,
         Look(c) \/ DequeueFromBest(c) \/ ReadTailAgain(c) \/ Pass(c)
  PROVE  IndInv'
<1>1. IsCall(call[c]) /\ UNCHANGED <<producerCount, listed>>
  BY DEF IndInv, CallOK, Look, DequeueFromBest, ReadTailAgain, Pass
<1>2. CASE Look(c)
  <2>1. PICK n \in Sizes(c) :
          LET here == call[c].ptr
              seen == [call[c] EXCEPT !.found    = @ + IF n > 0 THEN 1 ELSE 0,
                                      !.best     = IF n > call[c].bestSize THEN here ELSE @,
                                      !.bestSize = IF n > @ THEN n ELSE @]
          IN \/ Becomes(c, GoTo(seen, "look", here - 1), 0)
             \/ Becomes(c, Idle, 0)
             \/ Becomes(c, [GoTo(seen, "best", seen.best) EXCEPT
                             !.found = 0, !.bestSize = 0, !.tail = Null], 0)
    BY <1>2 DEF Look, Return
  <2> DEFINE here == call[c].ptr
             seen == [call[c] EXCEPT !.found    = @ + IF n > 0 THEN 1 ELSE 0,
                                     !.best     = IF n > call[c].bestSize THEN here ELSE @,
                                     !.bestSize = IF n > @ THEN n ELSE @]
             best == [GoTo(seen, "best", seen.best) EXCEPT
                       !.found = 0, !.bestSize = 0, !.tail = Null]
  <2>2. IsCall(seen)
    BY <1>1 DEF IsCall
  <2>3. IsCall(best) /\ best.pc = "best"
    <3> HIDE DEF seen
    <3> QED
      BY <2>2 DEF IsCall, GoTo
  <2>4. IsCall(GoTo(seen, "look", here - 1)) /\ GoTo(seen, "look", here - 1).pc = "look"
    <3> HIDE DEF seen
    <3> QED
      BY <2>2 DEF IsCall, GoTo
  <2>5. Becomes(c, GoTo(seen, "look", here - 1), 0) \/ Becomes(c, Idle, 0) \/ Becomes(c, best, 0)
    BY <2>1
  <2> HIDE DEF seen, best, here
  <2> QED
    BY <1>1, <2>3, <2>4, <2>5, IdleIsCall, GoesElsewhere
<1>3. CASE DequeueFromBest(c)
  <2>1. PICK n : Becomes(c, Idle, n) \/ Becomes(c, GoTo(call[c], "tail", Null), 0)
    BY <1>3 DEF DequeueFromBest
  <2> QED
    BY <1>1, <2>1, IdleIsCall, GoToKeeps, GoesElsewhere
<1>4. CASE ReadTailAgain(c)
  <2>1. PassTo(c, call[c], listed, 0)
    BY <1>4 DEF ReadTailAgain
  <2> QED
    BY <1>1, <2>1, PassToKeeps
<1>5. CASE Pass(c)
  <2>1. PICK n : Becomes(c, Idle, n) \/ PassTo(c, Got(c, n), call[c].ptr - 1, n)
    BY <1>5 DEF Pass
  <2> QED
    BY <1>1, <2>1, IdleIsCall, GotIsCall, GoesElsewhere, PassToKeeps
<1> QED
  BY <1>2, <1>3, <1>4, <1>5

(* The three facts about the strengthening.                                *)
LEMMA IndInvInit == Init => IndInv
<1> SUFFICES ASSUME Init PROVE IndInv
  OBVIOUS
<1>1. IsCall(Idle) /\ Idle.pc = "idle"
  BY IdleIsCall
<1>2. \A c \in Consumers : call[c] = Idle
  BY DEF Init
<1>3. \A c \in Consumers : CallOK(call[c], 0)
  BY <1>1, <1>2 DEF CallOK
<1> QED
  BY <1>3 DEF Init, IndInv

(* Every step keeps it.                                                    *)
LEMMA IndInvNext == IndInv /\ [Next]_vars => IndInv'
<1> SUFFICES ASSUME IndInv, [Next]_vars PROVE IndInv'
  OBVIOUS
<1>1. CASE Produce
  BY <1>1, ProduceStep
<1>2. CASE \E c \in Consumers : Dequeue(c)
  <2>1. PICK c \in Consumers : Dequeue(c)
    BY <1>2
  <2> QED
    BY <2>1, BeginStep, ReadProducerCountStep, TokenStep, PlainStep DEF Dequeue
<1>3. CASE UNCHANGED vars
  BY <1>3 DEF vars, IndInv
<1> QED
  BY <1>1, <1>2, <1>3 DEF Next

(* It implies that the count covers the list.                              *)
LEMMA IndInvCovers == IndInv => CountCoversList
<1> SUFFICES ASSUME IndInv, NEW c \in Consumers, call[c].pc = "rotate"
             PROVE  call[c].prodCount >= call[c].tail /\ call[c].tail > 0
  BY DEF CountCoversList
<1> QED
  BY DEF IndInv, CallOK

(* update_current_producer_after_rotation reads the tail of the list and   *)
(* the count apart, while producers are added; the count it divides by is  *)
(* never zero and never behind the tail it read.                           *)
THEOREM CountIsCovering == Spec => []CountCoversList
<1>1. Init => IndInv
  BY IndInvInit
<1>2. IndInv /\ [Next]_vars => IndInv'
  BY IndInvNext
<1>3. IndInv => CountCoversList
  BY IndInvCovers
<1> QED
  BY <1>1, <1>2, <1>3, PTL DEF Spec
-----------------------------------------------------------------------------
(***************************************************************************)
(* The second invariant, for NothingMissed: what the variables hold, where *)
(* a call is, and where the producers it has not been at yet lie.          *)
(***************************************************************************)
PCs == {"idle", "count", "rotate", "current", "tail", "scan", "look", "best", "pass"}

Calls ==
  [pc : PCs, bulk : BOOLEAN, left : Nat, got : BOOLEAN, ptr : Nat, tail : Nat,
   best : Nat, bestSize : Nat, found : Nat, prodCount : Nat, excused : BOOLEAN,
   full : SUBSET Producers]

Tokens(n) ==
  [lastKnownGlobalOffset : 0 .. OffsetT - 1, itemsConsumedFromCurrent : Nat,
   currentProducer : 0 .. n, desiredProducer : 0 .. n]

(* producers is what cast allows.                                          *)
Typed ==
  /\ cast \in [who : [Consumers -> {"plain", "bulk", "token", "none"}],
               producers : 0 .. MaxProducers, items : Nat]
  /\ producerCount \in 0 .. cast.producers
  /\ listed \in 0 .. producerCount
  /\ size \in [Producers -> Nat]
  /\ globalExplicitConsumerOffset \in 0 .. OffsetT - 1
  /\ token \in [Consumers -> Tokens(listed)]
  /\ call \in [Consumers -> Calls]

(* Where a call d, with the token t or plainly, is in a list of n.         *)
PlacedWithToken(d, t, n) ==
  /\ d.pc \in {"idle", "count", "rotate", "current", "tail", "scan"}
  /\ d.pc \in {"count", "rotate"} => d.tail \in 1 .. n /\ t.desiredProducer <= d.tail
  /\ d.pc = "current" => d.ptr \in 1 .. n /\ t.currentProducer = d.ptr
  /\ d.pc = "tail" => t.currentProducer \in 1 .. n
  /\ d.pc = "scan" => /\ d.tail \in 1 .. n /\ d.ptr \in 1 .. d.tail
                      /\ t.currentProducer \in 1 .. d.tail
  /\ t.desiredProducer # Null => t.currentProducer # Null

PlacedPlainly(d, n) ==
  /\ d.pc \in {"idle", "look", "best", "tail", "pass"}
  /\ d.pc = "look" => /\ d.ptr \in 1 .. n
                      /\ d.found > 0 => d.best \in 1 .. n
                      /\ d.found = 0 => d.bestSize = 0
  /\ d.pc = "best" => d.ptr \in 1 .. n /\ d.ptr = d.best
  /\ d.pc = "tail" => d.best \in 1 .. n
  /\ d.pc = "pass" => d.ptr \in 1 .. n

Placed(d, w, t, n) ==
  /\ d.pc # "idle" => d.left > 0
  /\ IF w = "plain" THEN PlacedPlainly(d, n) ELSE PlacedWithToken(d, t, n)

(* A call d that got nothing yet has producer p still before it: on the    *)
(* way from where it is, by next_prod, to the current producer of t; or    *)
(* down the list, or found already to have items.                          *)
Before(d, w, t, p) ==
  /\ d.pc = "scan" =>
       IF d.ptr < t.currentProducer
       THEN p <= d.ptr \/ p \in t.currentProducer + 1 .. d.tail
       ELSE p \in t.currentProducer + 1 .. d.ptr
  /\ d.pc = "tail" => p # IF w = "plain" THEN d.best ELSE t.currentProducer
  /\ d.pc = "look" => p <= d.ptr \/ d.found > 0
  /\ d.pc = "pass" => p <= d.ptr /\ p # d.best

(* Nobody else is at p, and it has items.                                  *)
Undisturbed(c, p) ==
  /\ p \in 1 .. listed
  /\ size[p] > 0
  /\ \A e \in Consumers \ {c} : ~At(e, p)

StillBefore(c) ==
  call[c].pc # "idle" /\ ~call[c].got =>
    \A p \in call[c].full :
      /\ Undisturbed(c, p)
      /\ call[c].ptr = p => ~call[c].excused
      /\ Before(call[c], cast.who[c], token[c], p)

SearchInv ==
  /\ Typed
  /\ \A c \in Consumers : Placed(call[c], cast.who[c], token[c], listed)
  /\ \A c \in Consumers : StillBefore(c)


(* The call of c after a step is d, but for excused ...                    *)
LEMMA OwnCall ==
  ASSUME NEW c \in Consumers, NEW STATE d, NEW n, d \in Calls, Becomes(c, d, n)
  PROVE  /\ call'[c] \in Calls
         /\ call'[c].pc = d.pc /\ call'[c].left = d.left /\ call'[c].got = d.got
         /\ call'[c].ptr = d.ptr /\ call'[c].tail = d.tail /\ call'[c].best = d.best
         /\ call'[c].bestSize = d.bestSize /\ call'[c].found = d.found
         /\ call'[c].full = d.full
         /\ call'[c].excused => /\ d.pc \in Dequeuing
                                /\ \/ size[d.ptr] = 0
                                   \/ \E o \in Consumers \ {c} : At(o, d.ptr)
<1> DEFINE x == d.pc \in Dequeuing /\ (size[d.ptr] = 0 \/
                                       \E o \in Consumers \ {c} : At(o, d.ptr))
<1>1. call'[c] = [d EXCEPT !.excused = x]
  BY DEF Becomes
<1>2. x \in BOOLEAN
  OBVIOUS
<1>3. x => /\ d.pc \in Dequeuing
           /\ \/ size[d.ptr] = 0
              \/ \E o \in Consumers \ {c} : At(o, d.ptr)
  OBVIOUS
<1> HIDE DEF x
<1> QED
  BY <1>1, <1>2, <1>3 DEF Calls

(* ... and that of another one changes in excused and full only.           *)
LEMMA OtherCall ==
  ASSUME NEW c \in Consumers, NEW e \in Consumers \ {c}, NEW STATE d, NEW n \in Nat,
         call[e] \in Calls, Becomes(c, d, n)
  PROVE  /\ call'[e] \in Calls
         /\ call'[e].pc = call[e].pc /\ call'[e].left = call[e].left
         /\ call'[e].got = call[e].got /\ call'[e].ptr = call[e].ptr
         /\ call'[e].tail = call[e].tail /\ call'[e].best = call[e].best
         /\ call'[e].bestSize = call[e].bestSize /\ call'[e].found = call[e].found
         /\ call'[e].full \subseteq call[e].full
         /\ d.pc \in Dequeuing => d.ptr \notin call'[e].full
         /\ call'[e].excused => \/ call[e].excused
                                \/ d.pc \in Dequeuing /\ d.ptr = call[e].ptr
                                \/ n > 0 /\ call[e].ptr = call[c].ptr
<1> DEFINE x == \/ call[e].excused
                \/ d.pc \in Dequeuing /\ At(e, d.ptr)
                \/ n > 0 /\ call[e].pc = "look" /\ call[e].ptr = call[c].ptr
           f == IF d.pc \in Dequeuing THEN call[e].full \ {d.ptr} ELSE call[e].full
<1>1. call'[e] = [call[e] EXCEPT !.excused = x, !.full = f]
  BY DEF Becomes
<1>2. x \in BOOLEAN /\ f \subseteq call[e].full /\ (d.pc \in Dequeuing => d.ptr \notin f)
  BY DEF Calls
<1>3. x => \/ call[e].excused
           \/ d.pc \in Dequeuing /\ d.ptr = call[e].ptr
           \/ n > 0 /\ call[e].ptr = call[c].ptr
  BY DEF At
<1> HIDE DEF x, f
<1> QED
  BY <1>1, <1>2, <1>3 DEF Calls

(* A step of c to d, which got n items where it was, keeps the invariant   *)
(* if d is well placed and has before it what it has not been at.          *)
LEMMA SearchStep ==
  ASSUME NEW c \in Consumers, NEW STATE d, NEW n \in Nat, SearchInv, Becomes(c, d, n),
         UNCHANGED <<cast, producerCount, listed>>,
         size' \in [Producers -> Nat],
         globalExplicitConsumerOffset' \in 0 .. OffsetT - 1,
         token' \in [Consumers -> Tokens(listed)],
         \A e \in Consumers \ {c} : token'[e] = token[e],
         \A p \in Producers : size'[p] = size[p] \/ At(c, p),
         n > 0 => call[c].pc \in Dequeuing,
         d \in Calls,
         Placed(d, cast.who[c], token'[c], listed),
         d.pc # "idle" /\ ~d.got =>
           \A p \in d.full : Undisturbed(c, p) /\ size'[p] = size[p]
                             /\ Before(d, cast.who[c], token'[c], p)
  PROVE  SearchInv'
<1>1. Typed'
  <2>1. \A e \in Consumers : call'[e] \in Calls
    BY OwnCall, OtherCall DEF SearchInv, Typed
  <2>2. call' = [e \in Consumers |-> call'[e]]
    BY DEF Becomes
  <2>3. call' \in [Consumers -> Calls]
    BY <2>1, <2>2
  <2> QED
    BY <2>3 DEF SearchInv, Typed
<1>2. ASSUME NEW e \in Consumers PROVE Placed(call'[e], cast.who[e], token'[e], listed)
  <2>1. CASE e = c
    BY <2>1, OwnCall DEF Placed, PlacedPlainly, PlacedWithToken
  <2>2. CASE e # c
    BY <2>2, OtherCall DEF SearchInv, Typed, Placed, PlacedPlainly, PlacedWithToken
  <2> QED
    BY <2>1, <2>2
<1>3. ASSUME NEW e \in Consumers, call'[e].pc # "idle", ~call'[e].got, NEW p \in call'[e].full
      PROVE  /\ Undisturbed(e, p)'
             /\ call'[e].ptr = p => ~call'[e].excused
             /\ Before(call'[e], cast.who[e], token'[e], p)
  <2>1. CASE e = c
    <3>1. /\ d.pc # "idle" /\ ~d.got /\ p \in d.full
          /\ call'[e].ptr = d.ptr
          /\ call'[e].excused => \/ size[d.ptr] = 0
                                 \/ \E o \in Consumers \ {c} : At(o, d.ptr)
      BY <1>3, <2>1, OwnCall
    <3>2. Undisturbed(c, p) /\ size'[p] = size[p] /\ Before(d, cast.who[c], token'[c], p)
      BY <3>1
    <3>3. Before(call'[e], cast.who[e], token'[e], p)
      BY <2>1, <3>2, OwnCall DEF Before
    <3>4. \A o \in Consumers \ {c} : ~At(o, p)'
      BY <3>2, OtherCall DEF Undisturbed, At, SearchInv, Typed
    <3>5. call'[e].ptr = p => ~call'[e].excused
      <4>1. size[p] \in Nat
        BY <3>1 DEF Calls, SearchInv, Typed
      <4> QED
        BY <4>1, <3>1, <3>2 DEF Undisturbed
    <3> QED
      BY <2>1, <3>2, <3>3, <3>4, <3>5 DEF Undisturbed
  <2>2. CASE e # c
    <3>1. /\ call[e].pc # "idle" /\ ~call[e].got /\ p \in call[e].full
          /\ call'[e].ptr = call[e].ptr
          /\ d.pc \in Dequeuing => d.ptr # p
          /\ call'[e].excused => \/ call[e].excused
                                 \/ d.pc \in Dequeuing /\ d.ptr = call[e].ptr
                                 \/ n > 0 /\ call[e].ptr = call[c].ptr
      BY <1>3, <2>2, OtherCall DEF SearchInv, Typed
    <3>2. /\ Undisturbed(e, p) /\ (call[e].ptr = p => ~call[e].excused)
          /\ Before(call[e], cast.who[e], token[e], p)
      BY <3>1 DEF SearchInv, StillBefore
    <3>3. Before(call'[e], cast.who[e], token'[e], p)
      BY <2>2, <3>2, OtherCall DEF Before, SearchInv, Typed
    <3>4. ~At(c, p)
      BY <2>2, <3>2 DEF Undisturbed
    <3>5. size'[p] = size[p]
      BY <3>1, <3>4 DEF Calls, SearchInv, Typed
    <3>6. call'[e].ptr = p => ~call'[e].excused
      BY <3>1, <3>2, <3>4 DEF At
    <3>7. ASSUME NEW o \in Consumers \ {e} PROVE ~At(o, p)'
      <4>1. CASE o = c
        BY <3>1, <4>1, OwnCall DEF At
      <4>2. CASE o # c
        BY <3>2, <4>2, OtherCall DEF At, Undisturbed, SearchInv, Typed
      <4> QED
        BY <4>1, <4>2
    <3> QED
      BY <3>2, <3>3, <3>5, <3>6, <3>7 DEF Undisturbed
  <2> QED
    BY <2>1, <2>2
<1> QED
  BY <1>1, <1>2, <1>3 DEF SearchInv, StillBefore

(* The fields of the calls a step may go on with.                          *)
LEMMA GoToFields ==
  ASSUME NEW STATE d, NEW STATE pc, NEW STATE p, d \in Calls, pc \in PCs, p \in Nat
  PROVE  /\ GoTo(d, pc, p) \in Calls
         /\ GoTo(d, pc, p).pc = pc /\ GoTo(d, pc, p).ptr = p
         /\ GoTo(d, pc, p).left = d.left /\ GoTo(d, pc, p).got = d.got
         /\ GoTo(d, pc, p).tail = d.tail /\ GoTo(d, pc, p).best = d.best
         /\ GoTo(d, pc, p).bestSize = d.bestSize /\ GoTo(d, pc, p).found = d.found
         /\ GoTo(d, pc, p).full = d.full
  BY DEF GoTo, Calls

(* A call that is over.                                                    *)
LEMMA IdleFields == Idle \in Calls /\ Idle.pc = "idle"
  BY DEF Idle, Calls, PCs, Null

(* What Fresh counts as full is undisturbed.                               *)
LEMMA FreshFields ==
  ASSUME NEW c \in Consumers, NEW bulk \in BOOLEAN, NEW max \in 1 .. MaxBulk, Typed
  PROVE  /\ Fresh(bulk, max) \in Calls
         /\ Fresh(bulk, max).left = max /\ Fresh(bulk, max).best = Null
         /\ Fresh(bulk, max).bestSize = 0 /\ Fresh(bulk, max).found = 0
         /\ \A p \in Fresh(bulk, max).full : Undisturbed(c, p)
<1> DEFINE f == {p \in 1 .. listed : size[p] > 0 /\ \A d \in Consumers : ~At(d, p)}
<1>1. f \subseteq Producers
  BY RotationAssumption DEF Typed, Producers
<1>2. \A p \in f : Undisturbed(c, p)
  BY DEF Undisturbed
<1>3. Fresh(bulk, max) = [Idle EXCEPT !.bulk = bulk, !.left = max, !.full = f]
  BY DEF Fresh
<1>4. max \in Nat
  BY RotationAssumption
<1> HIDE DEF f
<1>5. Idle.best = Null /\ Idle.bestSize = 0 /\ Idle.found = 0
  BY DEF Idle
<1>6. /\ Fresh(bulk, max) \in Calls
      /\ Fresh(bulk, max).left = max /\ Fresh(bulk, max).best = Null
      /\ Fresh(bulk, max).bestSize = 0 /\ Fresh(bulk, max).found = 0
      /\ Fresh(bulk, max).full = f
  BY <1>1, <1>3, <1>4, <1>5, IdleFields DEF Calls
<1> QED
  BY <1>2, <1>6

(* Got counts down what is left and notes whether anything was got.        *)
LEMMA GotFields ==
  ASSUME NEW c \in Consumers, NEW n \in Nat, call[c] \in Calls, n <= call[c].left
  PROVE  /\ Got(c, n) \in Calls
         /\ Got(c, n).left = call[c].left - n
         /\ ~Got(c, n).got => ~call[c].got /\ n = 0
         /\ Got(c, n).best = call[c].best /\ Got(c, n).tail = call[c].tail
         /\ Got(c, n).full = call[c].full
<1> DEFINE g == call[c].got \/ n > 0
<1>1. call[c].left - n \in Nat
  BY DEF Calls
<1>2. g \in BOOLEAN /\ (~g => ~call[c].got /\ n = 0)
  OBVIOUS
<1>3. Got(c, n) = [call[c] EXCEPT !.left = call[c].left - n, !.got = g]
  BY DEF Got
<1> HIDE DEF g
<1> QED
  BY <1>1, <1>2, <1>3 DEF Calls

(* What a dequeue of n items at ptr does to the queues; who gets none met  *)
(* an excuse.                                                              *)
LEMMA Taking ==
  ASSUME NEW c \in Consumers, NEW n \in Outcome(c), Typed, Remove(c, n),
         call[c].ptr \in Producers
  PROVE  /\ n \in Nat /\ n <= call[c].left
         /\ size' \in [Producers -> Nat]
         /\ \A p \in Producers : p # call[c].ptr => size'[p] = size[p]
         /\ n = 0 => size' = size /\ call[c].excused
         /\ n > 0 => size' # size
<1>1. call[c].left \in Nat /\ size[call[c].ptr] \in Nat /\ size \in [Producers -> Nat]
  BY DEF Typed, Calls
<1>2. n \in Nat /\ n <= call[c].left /\ n <= size[call[c].ptr] /\ (n = 0 => call[c].excused)
  BY <1>1 DEF Outcome
<1>3. size[call[c].ptr] - n \in Nat
  BY <1>1, <1>2
<1>4. size' = [size EXCEPT ![call[c].ptr] = size[call[c].ptr] - n]
  BY DEF Remove
<1>5. size' \in [Producers -> Nat] /\ \A p \in Producers : p # call[c].ptr => size'[p] = size[p]
  BY <1>1, <1>3, <1>4
<1>6. size'[call[c].ptr] = size[call[c].ptr] - n
  BY <1>1, <1>4
<1>7. n > 0 => size' # size
  BY <1>1, <1>2, <1>6
<1>8. n = 0 => size' = size
  BY <1>1, <1>4
<1> QED
  BY <1>2, <1>5, <1>7, <1>8

(* So a producer a call has not missed yet is not the one it gets nothing  *)
(* from.                                                                   *)
LEMMA NotHere ==
  ASSUME NEW c \in Consumers, SearchInv, call[c].pc # "idle", ~call[c].got,
         call[c].excused, NEW p \in call[c].full
  PROVE  /\ Undisturbed(c, p) /\ p # call[c].ptr
         /\ Before(call[c], cast.who[c], token[c], p)
  BY DEF SearchInv, StillBefore

(* The producers that are listed are Producers.                            *)
LEMMA ListedAreProducers ==
  Typed => listed \in Nat /\ listed <= MaxProducers /\ 1 .. listed \subseteq Producers
  BY RotationAssumption DEF Typed, Producers

(* next_prod stays in the list.                                            *)
LEMMA NextProdListed ==
  ASSUME NEW STATE tail, NEW STATE p, tail \in Nat, p \in 1 .. tail
  PROVE  NextProd(p, tail) \in 1 .. tail
  BY DEF NextProd

(* So do any number of next_prod ...                                       *)
LEMMA AheadListed ==
  ASSUME NEW tail \in Nat, NEW p \in 1 .. tail, NEW k \in Nat
  PROVE  Ahead(p, k, tail) \in 1 .. tail
<1>1. CASE k < p
  BY <1>1 DEF Ahead
<1>2. CASE ~(k < p)
  <2>1. (k - p) % tail \in 0 .. tail - 1
    BY <1>2
  <2> QED
    BY <1>2, <2>1 DEF Ahead
<1> QED
  BY <1>1, <1>2

(* ... and where a token starts.                                           *)
LEMMA StartingPointListed ==
  ASSUME NEW n \in Nat \ {0}, NEW tail \in Nat \ {0}, NEW initialOffset \in Nat
  PROVE  StartingPoint(n, tail, initialOffset) \in 1 .. tail
<1>1. initialOffset % n \in 0 .. n - 1
  OBVIOUS
<1>2. n - 1 - (initialOffset % n) \in Nat
  BY <1>1
<1> QED
  BY <1>2, AheadListed DEF StartingPoint

(* No call moves as a producer is added or enqueues.                       *)
LEMMA ProduceSearch ==
  ASSUME SearchInv, Produce
  PROVE  SearchInv' /\ call' = call
<1>1. UNCHANGED <<cast, globalExplicitConsumerOffset, token, call>>
  BY DEF Produce, CountProducer, ListProducer, Enqueue
<1>2. /\ producerCount' \in 0 .. cast.producers /\ listed' \in 0 .. producerCount'
      /\ listed <= listed' /\ listed \in Nat
      /\ size' \in [Producers -> Nat] /\ \A p \in Producers : size'[p] >= size[p]
  <2>1. CASE CountProducer
    BY <2>1 DEF CountProducer, SearchInv, Typed
  <2>2. CASE ListProducer
    BY <2>2 DEF ListProducer, SearchInv, Typed
  <2>3. CASE \E p \in Producers : Enqueue(p)
    BY <2>3 DEF Enqueue, SearchInv, Typed
  <2> QED
    BY <2>1, <2>2, <2>3 DEF Produce
<1>3. Typed'
  <2>1. Tokens(listed) \subseteq Tokens(listed')
    BY <1>2 DEF Tokens
  <2>2. token' \in [Consumers -> Tokens(listed')]
    BY <1>1, <2>1 DEF SearchInv, Typed
  <2> QED
    BY <1>1, <1>2, <2>2 DEF SearchInv, Typed
<1>4. ASSUME NEW c \in Consumers
      PROVE  Placed(call'[c], cast'.who[c], token'[c], listed')
  <2>1. Placed(call[c], cast.who[c], token[c], listed)
    BY DEF SearchInv
  <2>2. 1 .. listed \subseteq 1 .. listed'
    BY <1>2
  <2> QED
    BY <1>1, <2>1, <2>2 DEF Placed, PlacedPlainly, PlacedWithToken
<1>5. ASSUME NEW c \in Consumers PROVE StillBefore(c)'
  <2>1. \A p \in Producers : Undisturbed(c, p) => Undisturbed(c, p)'
    BY <1>1, <1>2 DEF Undisturbed, At, SearchInv, Typed
  <2>2. call[c].full \subseteq Producers
    BY DEF SearchInv, Typed, Calls
  <2>3. StillBefore(c)
    BY DEF SearchInv
  <2> QED
    BY <1>1, <2>1, <2>2, <2>3 DEF StillBefore
<1> QED
  BY <1>1, <1>3, <1>4, <1>5 DEF SearchInv

(* A call that begins without a token is at the last producer, with the    *)
(* whole list before it.                                                   *)
LEMMA BeginPlainSearch ==
  ASSUME NEW c \in Consumers, SearchInv, BeginPlain(c)
  PROVE  SearchInv' /\ (ReturnsNothing(c) => call[c].full = {})
<1>1. PICK bulk \in BOOLEAN, max \in 1 .. MaxBulk, pc \in {"look", "pass"} :
        listed # 0 /\ Becomes(c, GoTo(Fresh(bulk, max), pc, listed), 0)
  BY DEF BeginPlain
<1> DEFINE d == GoTo(Fresh(bulk, max), pc, listed)
<1>2. /\ UNCHANGED <<cast, producerCount, listed, size, globalExplicitConsumerOffset, token>>
      /\ cast.who[c] = "plain" /\ call[c].pc = "idle"
  BY DEF BeginPlain
<1>3. Typed /\ listed \in Nat \ {0} /\ max \in Nat \ {0} /\ pc \in PCs
  BY <1>1, ListedAreProducers DEF SearchInv, PCs
<1>4. /\ d \in Calls /\ d.pc = pc /\ d.ptr = listed /\ d.left = max
      /\ d.best = Null /\ d.bestSize = 0 /\ d.found = 0
      /\ \A p \in d.full : Undisturbed(c, p)
  BY <1>3, FreshFields, GoToFields
<1> HIDE DEF d
<1>5. Placed(d, cast.who[c], token'[c], listed)
  BY <1>2, <1>3, <1>4 DEF Placed, PlacedPlainly
<1>6. \A p \in d.full : Undisturbed(c, p) /\ size'[p] = size[p]
                        /\ Before(d, cast.who[c], token'[c], p)
  BY <1>2, <1>3, <1>4 DEF Before, Undisturbed, Null
<1>7. SearchInv'
  <2>1. Becomes(c, d, 0)
    BY <1>1 DEF d
  <2> QED
    BY <1>2, <1>4, <1>5, <1>6, <2>1, SearchStep DEF SearchInv, Typed
<1> QED
  BY <1>2, <1>7 DEF ReturnsNothing

(* With a token it is at the current producer, or is to rotate first.      *)
LEMMA BeginWithTokenSearch ==
  ASSUME NEW c \in Consumers, SearchInv, BeginWithToken(c)
  PROVE  SearchInv' /\ (ReturnsNothing(c) => call[c].full = {})
<1>1. PICK bulk \in BOOLEAN, max \in 1 .. MaxBulk :
        \/ /\ listed # 0
           /\ Becomes(c, [Fresh(bulk, max) EXCEPT !.pc = "count", !.tail = listed], 0)
        \/ /\ token[c].desiredProducer # Null
           /\ Becomes(c, GoTo(Fresh(bulk, max), "current", token[c].currentProducer), 0)
  BY DEF BeginWithToken
<1>2. /\ UNCHANGED <<cast, producerCount, listed, size, globalExplicitConsumerOffset, token>>
      /\ cast.who[c] # "plain" /\ call[c].pc = "idle"
  BY DEF BeginWithToken, HasToken
<1>3. Typed /\ listed \in Nat /\ max \in Nat \ {0}
  BY ListedAreProducers DEF SearchInv
<1>4. /\ token[c].currentProducer \in 0 .. listed /\ token[c].desiredProducer \in 0 .. listed
      /\ token[c].desiredProducer # Null => token[c].currentProducer # Null
  BY <1>2 DEF SearchInv, Typed, Tokens, Placed, PlacedWithToken
<1>5. /\ Fresh(bulk, max) \in Calls /\ Fresh(bulk, max).left = max
      /\ \A p \in Fresh(bulk, max).full : Undisturbed(c, p)
  BY <1>3, FreshFields
<1>6. ASSUME NEW STATE d, Becomes(c, d, 0), d \in Calls, d.left = max,
             d.full = Fresh(bulk, max).full,
             \/ listed # 0 /\ d.pc = "count" /\ d.tail = listed
             \/ /\ d.pc = "current" /\ token[c].desiredProducer # Null
                /\ d.ptr = token[c].currentProducer
      PROVE  SearchInv'
  <2>1. Placed(d, cast.who[c], token'[c], listed)
    BY <1>2, <1>3, <1>4, <1>6 DEF Placed, PlacedWithToken, Null
  <2>2. \A p \in d.full : Undisturbed(c, p) /\ size'[p] = size[p]
                          /\ Before(d, cast.who[c], token'[c], p)
    BY <1>2, <1>5, <1>6 DEF Before
  <2> QED
    BY <1>2, <1>6, <2>1, <2>2, SearchStep DEF SearchInv, Typed
<1>7. CASE /\ listed # 0
           /\ Becomes(c, [Fresh(bulk, max) EXCEPT !.pc = "count", !.tail = listed], 0)
  <2> DEFINE d == [Fresh(bulk, max) EXCEPT !.pc = "count", !.tail = listed]
  <2>1. d \in Calls /\ d.left = max /\ d.full = Fresh(bulk, max).full
        /\ d.pc = "count" /\ d.tail = listed
    BY <1>3, <1>5 DEF Calls, PCs
  <2>2. Becomes(c, d, 0)
    BY <1>7
  <2> HIDE DEF d
  <2> QED
    BY <1>2, <1>6, <1>7, <2>1, <2>2 DEF ReturnsNothing
<1>8. CASE /\ token[c].desiredProducer # Null
           /\ Becomes(c, GoTo(Fresh(bulk, max), "current", token[c].currentProducer), 0)
  <2> DEFINE d == GoTo(Fresh(bulk, max), "current", token[c].currentProducer)
  <2>1. d \in Calls /\ d.left = max /\ d.full = Fresh(bulk, max).full
        /\ d.pc = "current" /\ d.ptr = token[c].currentProducer
    BY <1>3, <1>4, <1>5, GoToFields DEF PCs
  <2>2. Becomes(c, d, 0)
    BY <1>8
  <2> HIDE DEF d
  <2> QED
    BY <1>2, <1>6, <1>8, <2>1, <2>2 DEF ReturnsNothing
<1> QED
  BY <1>1, <1>7, <1>8

(* Reading producerCount moves nothing.                                    *)
LEMMA ReadProducerCountSearch ==
  ASSUME NEW c \in Consumers, SearchInv, ReadProducerCount(c)
  PROVE  SearchInv' /\ (ReturnsNothing(c) => call[c].full = {})
<1>1. /\ UNCHANGED <<cast, producerCount, listed, size, globalExplicitConsumerOffset, token>>
      /\ call[c].pc = "count"
      /\ call' = [call EXCEPT ![c].pc = "rotate", ![c].prodCount = producerCount]
  BY DEF ReadProducerCount
<1>2. /\ call'[c].pc = "rotate" /\ call'[c] \in Calls
      /\ call'[c].left = call[c].left /\ call'[c].tail = call[c].tail
      /\ call'[c].got = call[c].got /\ call'[c].full = call[c].full
      /\ call'[c].ptr = call[c].ptr /\ call'[c].excused = call[c].excused
  <2>1. call \in [Consumers -> Calls] /\ producerCount \in Nat
    BY DEF SearchInv, Typed
  <2>2. call'[c] = [call[c] EXCEPT !.pc = "rotate", !.prodCount = producerCount]
    BY <1>1, <2>1
  <2>3. "rotate" \in PCs
    BY DEF PCs
  <2>4. call'[c] \in Calls
    BY <2>1, <2>2, <2>3 DEF Calls
  <2>5. call[c] \in Calls
    BY <2>1
  <2> QED
    BY <2>2, <2>4, <2>5 DEF Calls
<1>3. \A e \in Consumers \ {c} : call'[e] = call[e]
  BY <1>1 DEF SearchInv, Typed
<1>4. Typed'
  <2>1. call' \in [Consumers -> Calls]
    BY <1>1, <1>2, <1>3 DEF SearchInv, Typed
  <2> QED
    BY <1>1, <2>1 DEF SearchInv, Typed
<1>5. ASSUME NEW e \in Consumers PROVE Placed(call'[e], cast.who[e], token[e], listed)
  <2>1. Placed(call[e], cast.who[e], token[e], listed)
    BY DEF SearchInv
  <2>2. CASE e = c
    BY <1>1, <1>2, <2>1, <2>2 DEF Placed, PlacedPlainly, PlacedWithToken
  <2> QED
    BY <1>3, <2>1, <2>2
<1>6. ASSUME NEW e \in Consumers, NEW p PROVE At(e, p)' <=> At(e, p)
  BY <1>1, <1>2, <1>3 DEF At, Dequeuing
<1>7. ASSUME NEW e \in Consumers PROVE StillBefore(e)'
  <2>1. StillBefore(e)
    BY DEF SearchInv
  <2>2. \A p : Undisturbed(e, p) => Undisturbed(e, p)'
    BY <1>1, <1>6 DEF Undisturbed
  <2>3. CASE e = c
    BY <1>1, <1>2, <2>1, <2>2, <2>3 DEF StillBefore, Before
  <2>4. CASE e # c
    BY <1>1, <1>3, <2>1, <2>2, <2>4 DEF StillBefore
  <2> QED
    BY <2>3, <2>4
<1> QED
  BY <1>1, <1>2, <1>4, <1>5, <1>7 DEF SearchInv, ReturnsNothing

(* However far a token rotates, its producer is one of the list it read.   *)
LEMMA RotateSearch ==
  ASSUME NEW c \in Consumers, SearchInv, IndInv, Rotate(c)
  PROVE  SearchInv' /\ (ReturnsNothing(c) => call[c].full = {})
<1>1. /\ UNCHANGED <<cast, producerCount, listed, size, globalExplicitConsumerOffset>>
      /\ call[c].pc = "rotate"
  BY DEF Rotate
<1> DEFINE n     == call[c].prodCount
           tail  == call[c].tail
           delta == (globalExplicitConsumerOffset - token[c].lastKnownGlobalOffset) % OffsetT
           start(o) == IF token[c].desiredProducer = Null THEN StartingPoint(n, tail, o)
                       ELSE token[c].desiredProducer
           desired(o) == Ahead(start(o), delta % n, tail)
           t(x) == [lastKnownGlobalOffset |-> globalExplicitConsumerOffset,
                    itemsConsumedFromCurrent |-> 0,
                    currentProducer |-> x, desiredProducer |-> x]
           gone == [call[c] EXCEPT !.tail = Null, !.prodCount = 0]
<1>2. PICK o \in 0 .. OffsetT - 1 : /\ token' = [token EXCEPT ![c] = t(desired(o))]
                                    /\ Becomes(c, GoTo(gone, "current", desired(o)), 0)
  BY DEF Rotate
<1>3. n \in Nat \ {0} /\ tail \in 1 .. listed /\ tail \in Nat \ {0} /\ listed \in Nat
  BY <1>1, ListedAreProducers DEF IndInv, CallOK, SearchInv, Placed, PlacedPlainly, PlacedWithToken
<1>4. /\ Typed /\ call[c] \in Calls /\ token[c] \in Tokens(listed)
      /\ cast.who[c] # "plain" /\ call[c].left > 0
      /\ token[c].desiredProducer <= tail
  BY <1>1 DEF SearchInv, Typed, Placed, PlacedPlainly, PlacedWithToken
<1>5. delta \in Nat
  <2>1. /\ globalExplicitConsumerOffset - token[c].lastKnownGlobalOffset \in Int
        /\ OffsetT \in Nat \ {0}
    BY <1>4, RotationAssumption DEF Typed, Tokens
  <2> QED
    BY <2>1
<1>6. start(o) \in 1 .. tail
  <2>1. o \in Nat
    OBVIOUS
  <2>2. token[c].desiredProducer \in Nat
    BY <1>3, <1>4 DEF Tokens
  <2> HIDE DEF n, tail
  <2>3. StartingPoint(n, tail, o) \in 1 .. tail
    BY <1>3, <2>1, StartingPointListed
  <2> QED
    BY <1>3, <1>4, <2>2, <2>3 DEF Null, tail
<1>7. desired(o) \in 1 .. tail
  <2>1. delta % n \in Nat
    BY <1>3, <1>5
  <2> HIDE DEF start, delta, n, tail
  <2> QED
    BY <1>3, <1>6, <2>1, AheadListed
<1> DEFINE x == desired(o)
           d == GoTo(gone, "current", x)
<1> HIDE DEF desired
<1>8. x \in 1 .. listed /\ x \in Nat \ {0}
  BY <1>3, <1>7
<1>9. gone \in Calls /\ gone.left = call[c].left /\ gone.got = call[c].got
      /\ gone.full = call[c].full
  BY <1>4 DEF Calls, Null
<1> HIDE DEF x, gone
<1>10. /\ d \in Calls /\ d.pc = "current" /\ d.ptr = x /\ d.left = call[c].left
       /\ d.got = call[c].got /\ d.full = call[c].full
  BY <1>8, <1>9, GoToFields DEF PCs
<1>11. t(x) \in Tokens(listed) /\ t(x).currentProducer = x
  BY <1>4, <1>8 DEF Tokens, Typed
<1>12. token' = [token EXCEPT ![c] = t(x)] /\ Becomes(c, d, 0)
  BY <1>2 DEF x
<1> HIDE DEF d, t
<1>13. /\ token' \in [Consumers -> Tokens(listed)]
       /\ token'[c] = t(x) /\ \A e \in Consumers \ {c} : token'[e] = token[e]
  BY <1>4, <1>11, <1>12 DEF Typed
<1>14. Placed(d, cast.who[c], token'[c], listed)
  BY <1>4, <1>8, <1>10, <1>11, <1>13 DEF Placed, PlacedWithToken, Null
<1>15. ASSUME ~d.got, NEW p \in d.full
       PROVE  Undisturbed(c, p) /\ size'[p] = size[p] /\ Before(d, cast.who[c], token'[c], p)
  BY <1>1, <1>10, <1>15 DEF SearchInv, StillBefore, Before
<1>16. SearchInv'
  BY <1>1, <1>10, <1>12, <1>13, <1>14, <1>15, SearchStep DEF SearchInv, Typed
<1>17. call'[c].pc = "current"
  BY <1>10, <1>12, OwnCall
<1> QED
  BY <1>16, <1>17 DEF ReturnsNothing

(* Who got nothing from the current producer has all the others before it. *)
LEMMA DequeueFromCurrentSearch ==
  ASSUME NEW c \in Consumers, SearchInv, DequeueFromCurrent(c)
  PROVE  SearchInv' /\ (ReturnsNothing(c) => call[c].full = {})
<1>1. /\ UNCHANGED <<cast, producerCount, listed>> /\ call[c].pc = "current"
  BY DEF DequeueFromCurrent
<1>2. PICK n \in Outcome(c) :
        /\ Remove(c, n)
        /\ token' = [token EXCEPT ![c].itemsConsumedFromCurrent = Counted(c, n)]
        /\ \E by \in {0, 1} : Rotated(by)
        /\ \/ n = call[c].left /\ Becomes(c, Idle, n)
           \/ n # call[c].left /\ Becomes(c, GoTo(Got(c, n), "tail", Null), n)
  BY DEF DequeueFromCurrent
<1>3. /\ Typed /\ call[c] \in Calls /\ token[c] \in Tokens(listed)
      /\ cast.who[c] # "plain" /\ call[c].left > 0
      /\ call[c].ptr \in 1 .. listed /\ token[c].currentProducer = call[c].ptr
      /\ token[c].desiredProducer # Null => token[c].currentProducer # Null
  BY <1>1 DEF SearchInv, Typed, Placed, PlacedPlainly, PlacedWithToken
<1>4. call[c].ptr \in Producers
  BY <1>3, ListedAreProducers
<1>5. /\ n \in Nat /\ n <= call[c].left
      /\ size' \in [Producers -> Nat]
      /\ \A p \in Producers : p # call[c].ptr => size'[p] = size[p]
      /\ n = 0 => size' = size /\ call[c].excused
      /\ n > 0 => size' # size
  BY <1>2, <1>3, <1>4, Taking
<1>6. globalExplicitConsumerOffset' \in 0 .. OffsetT - 1
  <2>1. PICK by \in {0, 1} : Rotated(by)
    BY <1>2
  <2>2. globalExplicitConsumerOffset + by \in Int /\ OffsetT \in Nat \ {0}
    BY <1>3, RotationAssumption DEF Typed
  <2> QED
    BY <2>1, <2>2 DEF Rotated
<1>7. Counted(c, n) \in Nat
  BY <1>3, <1>5, RotationAssumption DEF Counted, Tokens
<1>8. /\ token' \in [Consumers -> Tokens(listed)]
      /\ token'[c].currentProducer = token[c].currentProducer
      /\ token'[c].desiredProducer = token[c].desiredProducer
      /\ \A e \in Consumers \ {c} : token'[e] = token[e]
  <2>1. [token[c] EXCEPT !.itemsConsumedFromCurrent = Counted(c, n)] \in Tokens(listed)
    BY <1>3, <1>7 DEF Tokens
  <2>2. token' = [token EXCEPT ![c] = [token[c] EXCEPT !.itemsConsumedFromCurrent = Counted(c, n)]]
    BY <1>2
  <2> QED
    BY <1>3, <2>1, <2>2 DEF Typed, Tokens
<1>9. \A p \in Producers : size'[p] = size[p] \/ At(c, p)
  BY <1>1, <1>5 DEF At, Dequeuing
<1>10. CASE n = call[c].left /\ Becomes(c, Idle, n)
  <2>1. Placed(Idle, cast.who[c], token'[c], listed)
    BY <1>3, <1>8, IdleFields DEF Placed, PlacedWithToken
  <2>2. SearchInv'
    BY <1>1, <1>5, <1>6, <1>8, <1>9, <1>10, <2>1, IdleFields, SearchStep DEF Dequeuing
  <2> QED
    BY <1>3, <1>5, <1>10, <2>2 DEF ReturnsNothing
<1>11. CASE n # call[c].left /\ Becomes(c, GoTo(Got(c, n), "tail", Null), n)
  <2> DEFINE d == GoTo(Got(c, n), "tail", Null)
  <2>1. /\ d \in Calls /\ d.pc = "tail" /\ d.left = call[c].left - n
        /\ (~d.got => ~call[c].got /\ n = 0) /\ d.full = call[c].full
    BY <1>3, <1>5, GotFields, GoToFields DEF PCs, Null
  <2> HIDE DEF d
  <2>2. d.left > 0
    BY <1>3, <1>5, <2>1, <1>11 DEF Calls
  <2>3. Placed(d, cast.who[c], token'[c], listed)
    BY <1>3, <1>8, <2>1, <2>2 DEF Placed, PlacedWithToken
  <2>4. ASSUME ~d.got, NEW p \in d.full
        PROVE  Undisturbed(c, p) /\ size'[p] = size[p] /\ Before(d, cast.who[c], token'[c], p)
    <3>1. n = 0 /\ ~call[c].got /\ p \in call[c].full /\ call[c].excused /\ size' = size
      BY <1>5, <2>1, <2>4
    <3>2. Undisturbed(c, p) /\ p # call[c].ptr
      BY <1>1, <3>1, NotHere
    <3> QED
      BY <1>3, <1>8, <2>1, <3>1, <3>2 DEF Before
  <2>5. Becomes(c, d, n)
    BY <1>11 DEF d
  <2>6. SearchInv'
    BY <1>1, <1>5, <1>6, <1>8, <1>9, <2>1, <2>3, <2>4, <2>5, SearchStep DEF Dequeuing
  <2>7. call'[c].pc = "tail"
    BY <2>1, <2>5, OwnCall
  <2> QED
    BY <2>6, <2>7 DEF ReturnsNothing
<1> QED
  BY <1>2, <1>10, <1>11

(* The round with a token starts after the current producer ...            *)
LEMMA ReadTailSearch ==
  ASSUME NEW c \in Consumers, SearchInv, ReadTail(c)
  PROVE  SearchInv' /\ (ReturnsNothing(c) => call[c].full = {})
<1> DEFINE current == token[c].currentProducer
           p == NextProd(current, listed)
           d == [GoTo(call[c], "scan", p) EXCEPT !.tail = listed]
<1>1. /\ UNCHANGED <<cast, producerCount, listed, size, globalExplicitConsumerOffset, token>>
      /\ call[c].pc = "tail" /\ cast.who[c] # "plain"
      /\ \/ p = current /\ Becomes(c, Idle, 0)
         \/ p # current /\ Becomes(c, d, 0)
  BY DEF ReadTail, Return
<1>2. /\ Typed /\ call[c] \in Calls /\ call[c].left > 0
      /\ listed \in Nat /\ current \in 1 .. listed
      /\ PlacedWithToken(call[c], token[c], listed)
  BY <1>1, ListedAreProducers DEF SearchInv, Typed, Placed, PlacedWithToken
<1>3. p \in 1 .. listed
  BY <1>2, NextProdListed
<1>4. ASSUME ~call[c].got, NEW q \in call[c].full
      PROVE  /\ Undisturbed(c, q) /\ q \in 1 .. listed /\ q # current /\ p # current
             /\ IF p < current THEN q <= p \/ q \in current + 1 .. listed
                ELSE q \in current + 1 .. p
  <2>1. Undisturbed(c, q) /\ q # current
    BY <1>1, <1>4 DEF SearchInv, StillBefore, Before
  <2>2. q \in 1 .. listed
    BY <2>1 DEF Undisturbed
  <2> QED
    BY <1>2, <2>1, <2>2 DEF NextProd
<1>5. CASE p = current /\ Becomes(c, Idle, 0)
  <2>1. Placed(Idle, cast.who[c], token'[c], listed)
    BY <1>1, <1>2, IdleFields DEF Placed, PlacedWithToken
  <2>2. SearchInv'
    BY <1>1, <1>5, <2>1, IdleFields, SearchStep DEF SearchInv, Typed
  <2> QED
    BY <1>4, <1>5, <2>2 DEF ReturnsNothing
<1>6. CASE p # current /\ Becomes(c, d, 0)
  <2>1. /\ GoTo(call[c], "scan", p) \in Calls /\ GoTo(call[c], "scan", p).pc = "scan"
        /\ GoTo(call[c], "scan", p).ptr = p /\ GoTo(call[c], "scan", p).left = call[c].left
        /\ GoTo(call[c], "scan", p).got = call[c].got
        /\ GoTo(call[c], "scan", p).full = call[c].full
    BY <1>2, <1>3, GoToFields DEF PCs
  <2>2. /\ d \in Calls /\ d.pc = "scan" /\ d.ptr = p /\ d.tail = listed
        /\ d.left = call[c].left /\ d.got = call[c].got /\ d.full = call[c].full
    BY <1>2, <2>1 DEF Calls
  <2>3. Becomes(c, d, 0)
    BY <1>6
  <2> HIDE DEF d, p
  <2>4. Placed(d, cast.who[c], token'[c], listed)
    BY <1>1, <1>2, <1>3, <2>2 DEF Placed, PlacedWithToken
  <2>5. ASSUME ~d.got, NEW q \in d.full
        PROVE  Undisturbed(c, q) /\ size'[q] = size[q] /\ Before(d, cast.who[c], token'[c], q)
    BY <1>1, <1>4, <2>2, <2>5 DEF Before
  <2>6. SearchInv'
    BY <1>1, <2>2, <2>3, <2>4, <2>5, SearchStep DEF SearchInv, Typed
  <2>7. call'[c].pc = "scan"
    BY <2>2, <2>3, OwnCall
  <2> QED
    BY <2>6, <2>7 DEF ReturnsNothing
<1> QED
  BY <1>1, <1>5, <1>6

(* ... and is over only as it comes to it again, unless it got something.  *)
LEMMA ScanSearch ==
  ASSUME NEW c \in Consumers, SearchInv, Scan(c)
  PROVE  SearchInv' /\ (ReturnsNothing(c) => call[c].full = {})
<1> DEFINE here == call[c].ptr
           tail == call[c].tail
           next == NextProd(here, tail)
           current(n) == IF n > 0 THEN here ELSE token[c].currentProducer
           t(n) == [token[c] EXCEPT !.currentProducer = current(n),
                                    !.itemsConsumedFromCurrent = IF n > 0 THEN n ELSE @]
<1>1. /\ UNCHANGED <<cast, producerCount, listed, globalExplicitConsumerOffset>>
      /\ call[c].pc = "scan"
  BY DEF Scan
<1>2. PICK n \in Outcome(c) :
        /\ Remove(c, n)
        /\ token' = [token EXCEPT ![c] = t(n)]
        /\ \/ (n = call[c].left \/ next = current(n)) /\ Becomes(c, Idle, n)
           \/ /\ n # call[c].left /\ next # current(n)
              /\ Becomes(c, GoTo(Got(c, n), "scan", next), n)
  <2>1. PICK n \in Outcome(c) :
          /\ Remove(c, n)
          /\ token' = [token EXCEPT ![c].currentProducer = current(n),
                                    ![c].itemsConsumedFromCurrent = IF n > 0 THEN n ELSE @]
          /\ \/ (n = call[c].left \/ next = current(n)) /\ Becomes(c, Idle, n)
             \/ /\ n # call[c].left /\ next # current(n)
                /\ Becomes(c, GoTo(Got(c, n), "scan", next), n)
    BY DEF Scan
  <2>2. token[c] \in Tokens(listed) /\ token \in [Consumers -> Tokens(listed)]
    BY DEF SearchInv, Typed
  <2>3. token' = [token EXCEPT ![c] = t(n)]
    BY <2>1, <2>2 DEF Tokens
  <2> QED
    BY <2>1, <2>3
<1>3. /\ Typed /\ call[c] \in Calls /\ token[c] \in Tokens(listed)
      /\ cast.who[c] # "plain" /\ call[c].left > 0 /\ listed \in Nat
      /\ tail \in 1 .. listed /\ here \in 1 .. tail
      /\ token[c].currentProducer \in 1 .. tail
  BY <1>1, ListedAreProducers DEF SearchInv, Typed, Placed, PlacedPlainly, PlacedWithToken
<1>4. here \in Producers /\ here \in 1 .. listed /\ tail \in Nat
  BY <1>3, ListedAreProducers
<1>5. /\ n \in Nat /\ n <= call[c].left
      /\ size' \in [Producers -> Nat]
      /\ \A p \in Producers : p # here => size'[p] = size[p]
      /\ n = 0 => size' = size /\ call[c].excused
      /\ n > 0 => size' # size
  BY <1>2, <1>3, <1>4, Taking
<1>6. next \in 1 .. tail
  BY <1>3, <1>4, NextProdListed
<1>7. /\ t(n) \in Tokens(listed) /\ t(n).currentProducer = current(n)
      /\ current(n) \in 1 .. tail /\ t(n).desiredProducer = token[c].desiredProducer
  <2>1. current(n) \in 1 .. tail /\ current(n) \in 0 .. listed
    BY <1>3, <1>4
  <2> HIDE DEF current
  <2> QED
    BY <1>3, <1>5, <2>1 DEF Tokens
<1>8. /\ token' \in [Consumers -> Tokens(listed)] /\ token'[c] = t(n)
      /\ \A e \in Consumers \ {c} : token'[e] = token[e]
  <2> HIDE DEF t
  <2> QED
    BY <1>2, <1>3, <1>7 DEF Typed
<1>9. \A p \in Producers : size'[p] = size[p] \/ At(c, p)
  BY <1>1, <1>5 DEF At, Dequeuing
<1>10. ASSUME n = 0, ~call[c].got, NEW q \in call[c].full
       PROVE  /\ Undisturbed(c, q) /\ next # current(n)
              /\ IF next < current(n) THEN q <= next \/ q \in current(n) + 1 .. tail
                 ELSE q \in current(n) + 1 .. next
  <2>1. /\ Undisturbed(c, q) /\ q # here
        /\ Before(call[c], cast.who[c], token[c], q)
    BY <1>1, <1>5, <1>10, NotHere
  <2>2. q \in 1 .. listed
    BY <2>1 DEF Undisturbed
  <2>3. IF here < current(n) THEN q <= here \/ q \in current(n) + 1 .. tail
        ELSE q \in current(n) + 1 .. here
    BY <1>1, <1>10, <2>1 DEF Before
  <2>4. current(n) \in 1 .. tail
    BY <1>7
  <2> HIDE DEF current
  <2> QED
    BY <1>3, <1>4, <2>1, <2>2, <2>3, <2>4 DEF NextProd
<1>11. \A e \in {Idle} : Placed(e, cast.who[c], token'[c], listed)
  BY <1>3, <1>7, <1>8, IdleFields DEF Placed, PlacedWithToken, Null
<1> HIDE DEF t, current, next
<1>12. CASE (n = call[c].left \/ next = current(n)) /\ Becomes(c, Idle, n)
  <2>1. SearchInv'
    BY <1>1, <1>3, <1>5, <1>8, <1>9, <1>11, <1>12, IdleFields, SearchStep DEF Typed, Dequeuing
  <2>2. ReturnsNothing(c) => call[c].full = {}
    BY <1>3, <1>5, <1>10, <1>12 DEF ReturnsNothing
  <2> QED
    BY <2>1, <2>2
<1>13. CASE /\ n # call[c].left /\ next # current(n)
            /\ Becomes(c, GoTo(Got(c, n), "scan", next), n)
  <2> DEFINE d == GoTo(Got(c, n), "scan", next)
  <2>1. next \in Nat
    BY <1>4, <1>6
  <2>2. /\ d \in Calls /\ d.pc = "scan" /\ d.ptr = next /\ d.left = call[c].left - n
        /\ d.tail = tail /\ (~d.got => ~call[c].got /\ n = 0) /\ d.full = call[c].full
    BY <1>3, <1>5, <2>1, GotFields, GoToFields DEF PCs
  <2> HIDE DEF d
  <2>3. d.left > 0
    BY <1>3, <1>5, <1>13, <2>2 DEF Calls
  <2>4. token[c].desiredProducer # Null => token'[c].currentProducer # Null
    BY <1>4, <1>7, <1>8 DEF Null
  <2>5. Placed(d, cast.who[c], token'[c], listed)
    BY <1>3, <1>6, <1>7, <1>8, <2>2, <2>3, <2>4 DEF Placed, PlacedWithToken
  <2>6. ASSUME ~d.got, NEW q \in d.full
        PROVE  Undisturbed(c, q) /\ size'[q] = size[q] /\ Before(d, cast.who[c], token'[c], q)
    BY <1>5, <1>7, <1>8, <1>10, <2>2, <2>6 DEF Before
  <2>7. Becomes(c, d, n)
    BY <1>13 DEF d
  <2>8. SearchInv'
    BY <1>1, <1>3, <1>5, <1>8, <1>9, <2>2, <2>5, <2>6, <2>7, SearchStep DEF Typed, Dequeuing
  <2>9. call'[c].pc = "scan"
    BY <2>2, <2>7, OwnCall
  <2> QED
    BY <2>8, <2>9 DEF ReturnsNothing
<1> QED
  BY <1>2, <1>12, <1>13

(* size_approx of a queue nobody came to is what it has.                   *)
LEMMA SizesFound ==
  ASSUME NEW c \in Consumers, NEW n \in Sizes(c), Typed, call[c].ptr \in Producers
  PROVE  n \in Nat /\ (~call[c].excused => n = size[call[c].ptr])
  BY DEF Sizes, Typed

(* Who looks for the fullest producer finds one, if one was undisturbed.   *)
LEMMA LookSearch ==
  ASSUME NEW c \in Consumers, SearchInv, Look(c)
  PROVE  SearchInv' /\ (ReturnsNothing(c) => call[c].full = {})
<1> DEFINE here == call[c].ptr
           found(n) == call[c].found + IF n > 0 THEN 1 ELSE 0
           best(n) == IF n > call[c].bestSize THEN here ELSE call[c].best
           bestSize(n) == IF n > call[c].bestSize THEN n ELSE call[c].bestSize
           seen(n) == [call[c] EXCEPT !.found = found(n), !.best = best(n),
                                      !.bestSize = bestSize(n)]
           there(n) == [GoTo(seen(n), "best", seen(n).best) EXCEPT
                          !.found = 0, !.bestSize = 0, !.tail = Null]
<1>1. /\ UNCHANGED <<cast, producerCount, listed, size, globalExplicitConsumerOffset, token>>
      /\ call[c].pc = "look"
  BY DEF Look
<1>2. /\ Typed /\ call[c] \in Calls /\ call[c].left > 0 /\ cast.who[c] = "plain"
      /\ listed \in Nat /\ here \in 1 .. listed /\ here \in Producers
      /\ call[c].found > 0 => call[c].best \in 1 .. listed
      /\ call[c].found = 0 => call[c].bestSize = 0
  BY <1>1, ListedAreProducers
     DEF SearchInv, Typed, Placed, PlacedPlainly, PlacedWithToken
<1>3. PICK n \in Sizes(c) :
        \/ /\ seen(n).found < Sampled /\ here > 1
           /\ Becomes(c, GoTo(seen(n), "look", here - 1), 0)
        \/ /\ seen(n).found = 0 /\ here = 1
           /\ Becomes(c, Idle, 0)
        \/ /\ ~(seen(n).found < Sampled /\ here > 1)
           /\ ~(seen(n).found = 0 /\ here = 1)
           /\ Becomes(c, there(n), 0)
  <2>1. PICK n \in Sizes(c) :
          CASE seen(n).found < Sampled /\ here > 1 ->
                 Becomes(c, GoTo(seen(n), "look", here - 1), 0)
            [] seen(n).found = 0 /\ here = 1 -> Return(c)
            [] OTHER -> Becomes(c, there(n), 0)
    BY DEF Look
  <2>2. ~(seen(n).found < Sampled /\ here > 1 /\ seen(n).found = 0 /\ here = 1)
    BY <1>2
  <2> HIDE DEF seen, there, here
  <2> QED
    BY <2>1, <2>2 DEF Return
<1>4. n \in Nat /\ (~call[c].excused => n = size[here])
  BY <1>2, SizesFound
<1>5. /\ found(n) \in Nat /\ best(n) \in Nat /\ bestSize(n) \in Nat
      /\ found(n) > 0 => best(n) \in 1 .. listed
      /\ found(n) = 0 => bestSize(n) = 0 /\ n = 0
  BY <1>2, <1>4 DEF Calls
<1>6. ASSUME ~call[c].got, NEW q \in call[c].full
      PROVE  Undisturbed(c, q) /\ (found(n) > 0 \/ q <= here - 1)
  <2>1. /\ Undisturbed(c, q) /\ (here = q => ~call[c].excused)
        /\ q <= here \/ call[c].found > 0
    BY <1>1, <1>6 DEF SearchInv, StillBefore, Before
  <2>2. q \in Nat /\ size[q] > 0 /\ call[c].found \in Nat
    BY <1>2, <2>1 DEF Undisturbed, Calls
  <2> QED
    BY <1>2, <1>4, <2>1, <2>2
<1>7. /\ seen(n) \in Calls /\ seen(n).found = found(n) /\ seen(n).best = best(n)
      /\ seen(n).bestSize = bestSize(n) /\ seen(n).left = call[c].left
      /\ seen(n).got = call[c].got /\ seen(n).full = call[c].full
  <2> HIDE DEF found, best, bestSize
  <2> QED
    BY <1>2, <1>5 DEF Calls
<1> HIDE DEF found, best, bestSize, seen
<1>8. CASE /\ seen(n).found < Sampled /\ here > 1
           /\ Becomes(c, GoTo(seen(n), "look", here - 1), 0)
  <2> DEFINE d == GoTo(seen(n), "look", here - 1)
  <2>1. here - 1 \in Nat /\ here - 1 \in 1 .. listed
    BY <1>2, <1>8
  <2>2. /\ d \in Calls /\ d.pc = "look" /\ d.ptr = here - 1 /\ d.left = call[c].left
        /\ d.got = call[c].got /\ d.full = call[c].full
        /\ d.found = found(n) /\ d.best = best(n) /\ d.bestSize = bestSize(n)
    BY <1>7, <2>1, GoToFields DEF PCs
  <2>3. Becomes(c, d, 0)
    BY <1>8
  <2> HIDE DEF d
  <2>4. Placed(d, cast.who[c], token'[c], listed)
    BY <1>2, <1>5, <2>1, <2>2 DEF Placed, PlacedPlainly
  <2>5. ASSUME ~d.got, NEW q \in d.full
        PROVE  Undisturbed(c, q) /\ size'[q] = size[q] /\ Before(d, cast.who[c], token'[c], q)
    BY <1>1, <1>6, <2>2, <2>5 DEF Before
  <2>6. SearchInv'
    BY <1>1, <2>2, <2>3, <2>4, <2>5, SearchStep DEF SearchInv, Typed
  <2>7. call'[c].pc = "look"
    BY <2>2, <2>3, OwnCall
  <2> QED
    BY <2>6, <2>7 DEF ReturnsNothing
<1>9. CASE seen(n).found = 0 /\ here = 1 /\ Becomes(c, Idle, 0)
  <2>1. Placed(Idle, cast.who[c], token'[c], listed)
    BY <1>2, IdleFields DEF Placed, PlacedPlainly
  <2>2. SearchInv'
    BY <1>1, <1>9, <2>1, IdleFields, SearchStep DEF SearchInv, Typed
  <2>3. ASSUME ~call[c].got, NEW q \in call[c].full PROVE FALSE
    <3>1. q \in Nat /\ q >= 1
      BY <1>2, <1>6, <2>3 DEF Undisturbed
    <3> QED
      BY <1>6, <1>7, <1>9, <2>3, <3>1
  <2> QED
    BY <2>2, <2>3 DEF ReturnsNothing
<1>10. CASE /\ ~(seen(n).found < Sampled /\ here > 1)
            /\ ~(seen(n).found = 0 /\ here = 1)
            /\ Becomes(c, there(n), 0)
  <2> DEFINE d == there(n)
             s == seen(n)
  <2>1. best(n) \in 1 .. listed /\ best(n) \in Nat
    BY <1>2, <1>5, <1>7, <1>10, RotationAssumption
  <2>2. /\ GoTo(s, "best", s.best) \in Calls /\ GoTo(s, "best", s.best).pc = "best"
        /\ GoTo(s, "best", s.best).ptr = best(n) /\ GoTo(s, "best", s.best).best = best(n)
        /\ GoTo(s, "best", s.best).left = call[c].left
        /\ GoTo(s, "best", s.best).got = call[c].got
        /\ GoTo(s, "best", s.best).full = call[c].full
    BY <1>7, <2>1, GoToFields DEF PCs
  <2>3. /\ d \in Calls /\ d.pc = "best" /\ d.ptr = best(n) /\ d.best = best(n)
        /\ d.left = call[c].left /\ d.got = call[c].got /\ d.full = call[c].full
    BY <2>2 DEF Calls, Null
  <2>4. Becomes(c, d, 0)
    BY <1>10
  <2> HIDE DEF d, there
  <2>5. Placed(d, cast.who[c], token'[c], listed)
    BY <1>2, <2>1, <2>3 DEF Placed, PlacedPlainly
  <2>6. ASSUME ~d.got, NEW q \in d.full
        PROVE  Undisturbed(c, q) /\ size'[q] = size[q] /\ Before(d, cast.who[c], token'[c], q)
    BY <1>1, <1>6, <2>3, <2>6 DEF Before
  <2>7. SearchInv'
    BY <1>1, <2>3, <2>4, <2>5, <2>6, SearchStep DEF SearchInv, Typed
  <2>8. call'[c].pc = "best"
    BY <2>3, <2>4, OwnCall
  <2> QED
    BY <2>7, <2>8 DEF ReturnsNothing
<1> QED
  BY <1>3, <1>8, <1>9, <1>10

(* Who then gets nothing from the fullest has the others before it ...     *)
LEMMA DequeueFromBestSearch ==
  ASSUME NEW c \in Consumers, SearchInv, DequeueFromBest(c)
  PROVE  SearchInv' /\ (ReturnsNothing(c) => call[c].full = {})
<1>1. /\ UNCHANGED <<cast, producerCount, listed, globalExplicitConsumerOffset, token>>
      /\ call[c].pc = "best"
  BY DEF DequeueFromBest
<1>2. PICK n \in Outcome(c) :
        /\ Remove(c, n)
        /\ \/ n > 0 /\ Becomes(c, Idle, n)
           \/ ~(n > 0) /\ Becomes(c, GoTo(call[c], "tail", Null), 0)
  BY DEF DequeueFromBest
<1>3. /\ Typed /\ call[c] \in Calls /\ call[c].left > 0 /\ cast.who[c] = "plain"
      /\ call[c].ptr \in 1 .. listed /\ call[c].ptr = call[c].best
      /\ call[c].ptr \in Producers
  BY <1>1, ListedAreProducers
     DEF SearchInv, Typed, Placed, PlacedPlainly, PlacedWithToken
<1>4. /\ n \in Nat
      /\ size' \in [Producers -> Nat]
      /\ \A p \in Producers : p # call[c].ptr => size'[p] = size[p]
      /\ n = 0 => size' = size /\ call[c].excused
      /\ n > 0 => size' # size
  BY <1>2, <1>3, Taking
<1>5. \A p \in Producers : size'[p] = size[p] \/ At(c, p)
  BY <1>1, <1>4 DEF At, Dequeuing
<1>6. CASE n > 0 /\ Becomes(c, Idle, n)
  <2>1. Placed(Idle, cast.who[c], token'[c], listed)
    BY <1>3, IdleFields DEF Placed, PlacedPlainly
  <2>2. SearchInv'
    BY <1>1, <1>4, <1>5, <1>6, <2>1, IdleFields, SearchStep DEF SearchInv, Typed, Dequeuing
  <2> QED
    BY <1>4, <1>6, <2>2 DEF ReturnsNothing
<1>7. CASE ~(n > 0) /\ Becomes(c, GoTo(call[c], "tail", Null), 0)
  <2> DEFINE d == GoTo(call[c], "tail", Null)
  <2>1. /\ d \in Calls /\ d.pc = "tail" /\ d.left = call[c].left /\ d.best = call[c].best
        /\ d.got = call[c].got /\ d.full = call[c].full
    BY <1>3, GoToFields DEF PCs, Null
  <2>2. n = 0 /\ size' = size /\ call[c].excused
    BY <1>4, <1>7
  <2>3. Becomes(c, d, 0)
    BY <1>7
  <2> HIDE DEF d
  <2>4. Placed(d, cast.who[c], token'[c], listed)
    BY <1>3, <2>1 DEF Placed, PlacedPlainly
  <2>5. ASSUME ~d.got, NEW q \in d.full
        PROVE  Undisturbed(c, q) /\ size'[q] = size[q] /\ Before(d, cast.who[c], token'[c], q)
    <3>1. Undisturbed(c, q) /\ q # call[c].ptr
      BY <1>1, <2>1, <2>2, <2>5, NotHere
    <3> QED
      BY <1>3, <2>1, <2>2, <3>1 DEF Before
  <2>6. SearchInv'
    BY <1>1, <2>1, <2>2, <2>3, <2>4, <2>5, SearchStep DEF SearchInv, Typed
  <2>7. call'[c].pc = "tail"
    BY <2>1, <2>3, OwnCall
  <2> QED
    BY <2>6, <2>7 DEF ReturnsNothing
<1> QED
  BY <1>2, <1>6, <1>7

(* ... and goes down the list, past the fullest only.                      *)
LEMMA PassToSearch ==
  ASSUME NEW c \in Consumers, NEW STATE d, NEW STATE p, NEW n \in Nat,
         SearchInv, PassTo(c, d, p, n), cast.who[c] = "plain",
         UNCHANGED <<cast, producerCount, listed, globalExplicitConsumerOffset, token>>,
         size' \in [Producers -> Nat],
         \A q \in Producers : size'[q] = size[q] \/ At(c, q),
         n > 0 => call[c].pc \in Dequeuing,
         d \in Calls, d.left > 0, p \in 0 .. listed,
         ~d.got => \A q \in d.full : /\ Undisturbed(c, q) /\ size'[q] = size[q]
                                     /\ q <= p /\ q # d.best
  PROVE  SearchInv' /\ (call'[c].pc = "idle" /\ ~d.got => d.full = {})
<1> DEFINE x == IF p # Null /\ p = d.best THEN p - 1 ELSE p
<1>1. Typed /\ listed \in Nat
  BY ListedAreProducers DEF SearchInv
<1>2. x \in 0 .. listed
  BY <1>1 DEF Null
<1>3. ASSUME ~d.got, NEW q \in d.full
      PROVE  Undisturbed(c, q) /\ size'[q] = size[q] /\ q <= x /\ q # d.best /\ x # Null
  <2>1. Undisturbed(c, q) /\ size'[q] = size[q] /\ q <= p /\ q # d.best
    BY <1>3
  <2>2. q \in 1 .. listed
    BY <2>1 DEF Undisturbed
  <2> QED
    BY <1>1, <2>1, <2>2 DEF Null
<1>4. \/ x = Null /\ Becomes(c, Idle, n)
      \/ x # Null /\ Becomes(c, GoTo(d, "pass", x), n)
  BY DEF PassTo
<1> HIDE DEF x
<1>5. CASE x = Null /\ Becomes(c, Idle, n)
  <2>1. Placed(Idle, cast.who[c], token'[c], listed)
    BY IdleFields DEF Placed, PlacedPlainly
  <2>2. SearchInv'
    BY <1>5, <2>1, IdleFields, SearchStep DEF SearchInv, Typed
  <2> QED
    BY <1>3, <1>5, <2>2
<1>6. CASE x # Null /\ Becomes(c, GoTo(d, "pass", x), n)
  <2> DEFINE e == GoTo(d, "pass", x)
  <2>1. /\ e \in Calls /\ e.pc = "pass" /\ e.ptr = x /\ e.left = d.left /\ e.best = d.best
        /\ e.got = d.got /\ e.full = d.full
    BY <1>1, <1>2, GoToFields DEF PCs
  <2>2. Becomes(c, e, n)
    BY <1>6
  <2> HIDE DEF e
  <2>3. Placed(e, cast.who[c], token'[c], listed)
    BY <1>1, <1>2, <1>6, <2>1 DEF Placed, PlacedPlainly, Null
  <2>4. ASSUME ~e.got, NEW q \in e.full
        PROVE  Undisturbed(c, q) /\ size'[q] = size[q] /\ Before(e, cast.who[c], token'[c], q)
    BY <1>3, <2>1, <2>4 DEF Before
  <2>5. SearchInv'
    BY <2>1, <2>2, <2>3, <2>4, SearchStep DEF SearchInv, Typed
  <2>6. call'[c].pc = "pass"
    BY <2>1, <2>2, OwnCall
  <2> QED
    BY <2>5, <2>6
<1> QED
  BY <1>4, <1>5, <1>6

(* From the last producer, read again ...                                  *)
LEMMA ReadTailAgainSearch ==
  ASSUME NEW c \in Consumers, SearchInv, ReadTailAgain(c)
  PROVE  SearchInv' /\ (ReturnsNothing(c) => call[c].full = {})
<1>1. /\ UNCHANGED <<cast, producerCount, listed, size, globalExplicitConsumerOffset, token>>
      /\ call[c].pc = "tail" /\ cast.who[c] = "plain"
      /\ PassTo(c, call[c], listed, 0)
  BY DEF ReadTailAgain
<1>2. call[c] \in Calls /\ call[c].left > 0 /\ listed \in 0 .. listed
  BY <1>1, ListedAreProducers DEF SearchInv, Typed, Placed
<1>3. ASSUME ~call[c].got, NEW q \in call[c].full
      PROVE  Undisturbed(c, q) /\ q <= listed /\ q # call[c].best
  BY <1>1, <1>3 DEF SearchInv, StillBefore, Before, Undisturbed
<1>4. SearchInv' /\ (call'[c].pc = "idle" /\ ~call[c].got => call[c].full = {})
  BY <1>1, <1>2, <1>3, PassToSearch DEF SearchInv, Typed
<1> QED
  BY <1>4 DEF ReturnsNothing

(* ... to the first.                                                       *)
LEMMA PassSearch ==
  ASSUME NEW c \in Consumers, SearchInv, Pass(c)
  PROVE  SearchInv' /\ (ReturnsNothing(c) => call[c].full = {})
<1>1. /\ UNCHANGED <<cast, producerCount, listed, globalExplicitConsumerOffset, token>>
      /\ call[c].pc = "pass"
  BY DEF Pass
<1>2. PICK n \in Outcome(c) :
        /\ Remove(c, n)
        /\ \/ n = call[c].left /\ Becomes(c, Idle, n)
           \/ n # call[c].left /\ PassTo(c, Got(c, n), call[c].ptr - 1, n)
  BY DEF Pass
<1>3. /\ Typed /\ call[c] \in Calls /\ call[c].left > 0 /\ cast.who[c] = "plain"
      /\ call[c].ptr \in 1 .. listed /\ call[c].ptr \in Producers /\ listed \in Nat
  BY <1>1, ListedAreProducers
     DEF SearchInv, Typed, Placed, PlacedPlainly, PlacedWithToken
<1>4. /\ n \in Nat /\ n <= call[c].left
      /\ size' \in [Producers -> Nat]
      /\ \A p \in Producers : p # call[c].ptr => size'[p] = size[p]
      /\ n = 0 => size' = size /\ call[c].excused
      /\ n > 0 => size' # size
  BY <1>2, <1>3, Taking
<1>5. \A p \in Producers : size'[p] = size[p] \/ At(c, p)
  BY <1>1, <1>4 DEF At, Dequeuing
<1>6. CASE n = call[c].left /\ Becomes(c, Idle, n)
  <2>1. Placed(Idle, cast.who[c], token'[c], listed)
    BY <1>3, IdleFields DEF Placed, PlacedPlainly
  <2>2. SearchInv'
    BY <1>1, <1>4, <1>5, <1>6, <2>1, IdleFields, SearchStep DEF SearchInv, Typed, Dequeuing
  <2> QED
    BY <1>3, <1>4, <1>6, <2>2 DEF ReturnsNothing
<1>7. CASE n # call[c].left /\ PassTo(c, Got(c, n), call[c].ptr - 1, n)
  <2> DEFINE d == Got(c, n)
             p == call[c].ptr - 1
  <2>1. /\ d \in Calls /\ d.left = call[c].left - n /\ d.best = call[c].best
        /\ (~d.got => ~call[c].got /\ n = 0) /\ d.full = call[c].full
    BY <1>3, <1>4, GotFields
  <2>2. PassTo(c, d, p, n)
    BY <1>7
  <2>3. p \in 0 .. listed
    BY <1>3
  <2> HIDE DEF d
  <2>4. d.left > 0
    BY <1>3, <1>4, <1>7, <2>1 DEF Calls
  <2>5. ASSUME ~d.got, NEW q \in d.full
        PROVE  Undisturbed(c, q) /\ size'[q] = size[q] /\ q <= p /\ q # d.best
    <3>1. /\ Undisturbed(c, q) /\ q # call[c].ptr
          /\ Before(call[c], cast.who[c], token[c], q) /\ size' = size
      BY <1>1, <1>4, <2>1, <2>5, NotHere
    <3>2. q \in Nat
      BY <1>3, <3>1 DEF Undisturbed
    <3> QED
      BY <1>1, <1>3, <2>1, <3>1, <3>2 DEF Before
  <2> HIDE DEF p
  <2>6. SearchInv' /\ (call'[c].pc = "idle" /\ ~d.got => d.full = {})
    BY <1>1, <1>3, <1>4, <1>5, <2>1, <2>2, <2>3, <2>4, <2>5, PassToSearch DEF Dequeuing
  <2>7. ReturnsNothing(c) => ~d.got
    BY <1>3, <1>4, <1>1, <2>1, GotFields DEF ReturnsNothing, d, Got, Calls
  <2> QED
    BY <2>1, <2>6, <2>7 DEF ReturnsNothing
<1> QED
  BY <1>2, <1>6, <1>7

(* The three facts about the second invariant.                             *)
LEMMA SearchInvInit == Init => SearchInv
<1> SUFFICES ASSUME Init PROVE SearchInv
  OBVIOUS
<1>1. Typed
  <2>1. cast \in [who : [Consumers -> {"plain", "bulk", "token", "none"}],
                  producers : 0 .. MaxProducers, items : Nat]
    BY RotationAssumption DEF Init
  <2>2. \A c \in Consumers : token[c] \in Tokens(0)
    <3>1. OffsetT - 1 \in 0 .. OffsetT - 1 /\ 0 \in 0 .. 0 /\ 0 \in Nat
      BY RotationAssumption
    <3>2. [lastKnownGlobalOffset |-> OffsetT - 1, itemsConsumedFromCurrent |-> 0,
           currentProducer |-> 0, desiredProducer |-> 0] \in Tokens(0)
      BY <3>1 DEF Tokens
    <3> QED
      BY <3>2 DEF Init, Null
  <2>3. token \in [Consumers -> Tokens(listed)] /\ call \in [Consumers -> Calls]
    BY <2>2, IdleFields DEF Init
  <2> QED
    BY <2>1, <2>3, RotationAssumption DEF Init, Typed
<1>2. \A c \in Consumers : call[c].pc = "idle" /\ token[c].desiredProducer = Null
  BY IdleFields DEF Init
<1> QED
  BY <1>1, <1>2 DEF SearchInv, Placed, PlacedPlainly, PlacedWithToken, StillBefore

(* A step of a call keeps it, and a call that returns nothing missed       *)
(* nothing; other calls do not return meanwhile.                           *)
LEMMA SearchInvNext ==
  IndInv /\ SearchInv /\ [Next]_vars =>
    SearchInv' /\ \A c \in Consumers : ReturnsNothing(c) => call[c].full = {}
<1> SUFFICES ASSUME IndInv, SearchInv, [Next]_vars
             PROVE  SearchInv' /\ \A c \in Consumers : ReturnsNothing(c) => call[c].full = {}
  OBVIOUS
<1>1. CASE Produce
  BY <1>1, ProduceSearch DEF ReturnsNothing
<1>2. CASE \E c \in Consumers : Dequeue(c)
  <2>1. PICK c \in Consumers : Dequeue(c)
    BY <1>2
  <2>2. SearchInv' /\ (ReturnsNothing(c) => call[c].full = {})
    BY <2>1, BeginPlainSearch, BeginWithTokenSearch, ReadProducerCountSearch, RotateSearch,
       DequeueFromCurrentSearch, ReadTailSearch, ScanSearch, LookSearch,
       DequeueFromBestSearch, ReadTailAgainSearch, PassSearch
    DEF Dequeue
  <2>3. ASSUME NEW e \in Consumers \ {c} PROVE call'[e].pc = call[e].pc
    <3>1. CASE ReadProducerCount(c)
      BY <3>1 DEF ReadProducerCount, SearchInv, Typed
    <3>2. ASSUME NEW STATE d, NEW n, Becomes(c, d, n) PROVE call'[e].pc = call[e].pc
      <4>1. e # c /\ call[e] \in Calls
        BY DEF SearchInv, Typed
      <4>2. \E x, f : call'[e] = [call[e] EXCEPT !.excused = x, !.full = f]
        BY <3>2, <4>1 DEF Becomes
      <4> QED
        BY <4>1, <4>2 DEF Calls
    <3>3. ASSUME NEW STATE d, NEW STATE p, NEW n, PassTo(c, d, p, n)
          PROVE  call'[e].pc = call[e].pc
      BY <3>2, <3>3 DEF PassTo
    <3>4. CASE BeginPlain(c) \/ BeginWithToken(c)
      BY <3>2, <3>4 DEF BeginPlain, BeginWithToken
    <3>5. CASE Rotate(c)
      BY <3>2, <3>5 DEF Rotate
    <3>6. CASE DequeueFromCurrent(c) \/ ReadTail(c) \/ Scan(c)
      BY <3>2, <3>6 DEF DequeueFromCurrent, ReadTail, Scan, Return
    <3>7. CASE Look(c)
      BY <3>2, <3>7 DEF Look, Return
    <3>8. CASE DequeueFromBest(c) \/ ReadTailAgain(c) \/ Pass(c)
      BY <3>2, <3>3, <3>8 DEF DequeueFromBest, ReadTailAgain, Pass
    <3> QED
      BY <2>1, <3>1, <3>4, <3>5, <3>6, <3>7, <3>8 DEF Dequeue
  <2> QED
    BY <2>2, <2>3 DEF ReturnsNothing
<1>3. CASE UNCHANGED vars
  <2>1. UNCHANGED <<cast, producerCount, listed, size, globalExplicitConsumerOffset,
                    token, call>>
    BY <1>3 DEF vars
  <2> QED
    BY <2>1 DEF SearchInv, Typed, StillBefore, Undisturbed, At, ReturnsNothing
<1> QED
  BY <1>1, <1>2, <1>3 DEF Next

(* A dequeue that returns nothing was, or somebody else was, at every      *)
(* producer that had an item as it began, whichever way it goes round the  *)
(* list, while producers are added, items enqueued, and tokens rotate.     *)
THEOREM SearchMissesNothing == Spec => NothingMissed
<1>1. Init => IndInv /\ SearchInv
  BY IndInvInit, SearchInvInit
<1>2. IndInv /\ SearchInv /\ [Next]_vars => (IndInv /\ SearchInv)'
  BY IndInvNext, SearchInvNext
<1>3. IndInv /\ SearchInv /\ [Next]_vars =>
        [\A c \in Consumers : ReturnsNothing(c) => call[c].full = {}]_vars
  BY SearchInvNext
<1> QED
  BY <1>1, <1>2, <1>3, PTL DEF Spec, NothingMissed
=============================================================================
