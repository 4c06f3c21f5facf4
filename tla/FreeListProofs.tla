---------------------------- MODULE FreeListProofs ----------------------------
(***************************************************************************)
(* The free list for any number of threads and nodes.                      *)
(***************************************************************************)
EXTENDS FreeListProperties, FiniteSetTheorems, FunctionTheorems,
        WellFoundedInduction, TLAPS

S == SHOULD_BE_ON_FREELIST

Referring == {"next", "pop", "release", "got"}   (* hold a reference       *)
Keeping   == {"got", "put", "unput"}             (* hold the list's        *)
Pushing   == {"push", "link", "count"}           (* the count is 0         *)
Holding   == Keeping \union Pushing              (* have the node          *)

IsAt(t, steps, n) == pc[t] \in steps /\ node[t] = n

Held(n)    == \E t \in Threads : IsAt(t, Holding, n)
Pushed(n)  == \E t \in Threads : IsAt(t, Pushing, n)

Count(n) ==
  Cardinality(At(Referring, n)) + Cardinality(At(Keeping, n)) +
  Cardinality(Listed \intersect {n})

(* Where a node is: nobody's yet, in use, on the list, in the hands of a   *)
(* thread, or to be put on the list by the last that refers to it.         *)
Kinds == {"fresh", "used", "list", "thread", "referred"}

IsPlaced(n, kind) ==
  /\ n \in fresh  <=> kind = "fresh"
  /\ n \in used   <=> kind = "used"
  /\ n \in Listed <=> kind = "list"
  /\ Held(n)      <=> kind = "thread"

(* Its freeListRefs: the count, and the bit if it is to be put on the list *)
(* by the thread that has it or by the last that refers to it.             *)
RefsAre(n, kind) ==
  \/ /\ kind = "referred"
     /\ Count(n) > 0
     /\ freeListRefs[n] = Count(n) + S
  \/ /\ Pushed(n)
     /\ Count(n) = 0
     /\ freeListRefs[n] = S
  \/ /\ kind # "referred"
     /\ ~Pushed(n)
     /\ freeListRefs[n] = Count(n)

NodesOK == \A n \in Nodes : \E kind \in Kinds : IsPlaced(n, kind) /\ RefsAre(n, kind)

OneHolder ==
  \A t, u \in Threads :
    pc[t] \in Holding /\ pc[u] \in Holding /\ node[t] = node[u] => t = u

(* What threads go by: the word that acquire expects has a count; and the  *)
(* link of a node stays while threads refer to it or one has it.           *)
LocalsOK ==
  \A t \in Threads :
    /\ pc[t] = "acquire" => REFS_MASK(refs[t]) # 0
    /\ pc[t] \in {"pop", "count", "put"} => link[t] = freeListNext[node[t]]

HasList == \E c \in Lists : IsList(c)

IndInv == TypeOK /\ HasList /\ NodesOK /\ OneHolder /\ LocalsOK

-----------------------------------------------------------------------------
(* The bit is above the count of all threads' references and the list's.   *)
LEMMA SNat == S \in Nat /\ Cardinality(Threads) + 1 < S /\ Cardinality(Threads) \in Nat
BY FreeListAssumption, FS_CardinalityType DEF S

(* The mask keeps a count ...                                              *)
LEMMA ModSmall ==
  ASSUME NEW a \in Nat, NEW d \in Nat, a < d
  PROVE  a % d = a
BY Z3

(* ... and takes the bit off.                                              *)
LEMMA ModOnce ==
  ASSUME NEW a \in Nat, NEW d \in Nat, a < d
  PROVE  (a + d) % d = a
BY Z3

(* A list is a sequence without repetition.                                *)
LEMMA ListLen ==
  ASSUME NEW c \in Lists
  PROVE  /\ Len(c) \in Nat
         /\ Len(c) <= Cardinality(Nodes)
         /\ DOMAIN c = 1 .. Len(c)
         /\ c \in [1 .. Len(c) -> Nodes]
         /\ c \in Seq(Nodes)
         /\ c = << >> <=> Len(c) = 0
<1>1. PICK k \in 0 .. Cardinality(Nodes) : c \in [1 .. k -> Nodes]
  BY DEF Lists
<1>2. Cardinality(Nodes) \in Nat
  BY FreeListAssumption, FS_CardinalityType
<1>3. c \in Seq(Nodes)
  BY <1>1, <1>2
<1>4. Len(c) = k
  BY <1>1, <1>2, <1>3
<1> QED
  BY <1>1, <1>2, <1>3, <1>4

(* A function on 1 .. k is a sequence of k nodes.                          *)
LEMMA LenIs ==
  ASSUME NEW k \in Nat, NEW c \in [1 .. k -> Nodes]
  PROVE  c \in Seq(Nodes) /\ Len(c) = k /\ (c = << >> <=> k = 0)
<1>1. c \in Seq(Nodes)
  OBVIOUS
<1>2. Len(c) = k
  BY <1>1
<1> QED
  BY <1>1, <1>2

(* Conversely, by the pigeonhole principle.                                *)
LEMMA IsInLists ==
  ASSUME NEW c \in Seq(Nodes), \A i, j \in DOMAIN c : c[i] = c[j] => i = j
  PROVE  c \in Lists
<1>1. Len(c) \in Nat /\ DOMAIN c = 1 .. Len(c) /\ c \in [1 .. Len(c) -> Nodes]
  OBVIOUS
<1>2. c \in Injection(1 .. Len(c), Nodes)
  BY <1>1 DEF Injection, IsInjective
<1>3. Cardinality(1 .. Len(c)) <= Cardinality(Nodes)
  BY <1>2, FreeListAssumption, FS_Injection
<1>4. Cardinality(1 .. Len(c)) = Len(c)
  BY <1>1, FS_Interval
<1>5. Cardinality(Nodes) \in Nat
  BY FreeListAssumption, FS_CardinalityType
<1> QED
  BY <1>1, <1>3, <1>4, <1>5 DEF Lists

(* Two lists agree as far as both go, counted from the head ...            *)
LEMMA ListsAgree ==
  ASSUME NEW head, NEW next, NEW c \in Lists, NEW d \in Lists,
         IsListFrom(head, next, c), IsListFrom(head, next, d)
  PROVE  \A i \in Nat : i < Len(c) /\ i < Len(d) => c[Len(c) - i] = d[Len(d) - i]
<1> DEFINE k == Len(c)
           l == Len(d)
           T == {i \in Nat : i < k /\ i < l /\ c[k - i] # d[l - i]}
<1>1. /\ k \in Nat /\ DOMAIN c = 1 .. k /\ c = << >> <=> k = 0
      /\ l \in Nat /\ DOMAIN d = 1 .. l /\ d = << >> <=> l = 0
  BY ListLen
<1>2. SUFFICES ASSUME T # {} PROVE FALSE
  OBVIOUS
<1>3. PICK i \in T : \A j \in T : ~(<<j, i>> \in OpToRel(<, Nat))
  <2>1. T \subseteq Nat /\ IsWellFoundedOn(OpToRel(<, Nat), Nat)
    BY NatLessThanWellFounded
  <2> HIDE DEF T
  <2> QED
    BY <1>2, <2>1, WFMin
<1>4. i \in Nat /\ i < k /\ i < l /\ c[k - i] # d[l - i]
  OBVIOUS
<1>5. i # 0
  BY <1>1, <1>4 DEF IsListFrom
<1>6. i - 1 \in Nat /\ i - 1 < i
  BY <1>4, <1>5
<1>7. i - 1 \notin T
  BY <1>3, <1>4, <1>6 DEF OpToRel
<1>8. c[k - (i - 1)] = d[l - (i - 1)]
  BY <1>4, <1>6, <1>7
<1>9. next[c[k - (i - 1)]] = c[k - i]
  <2>1. k - (i - 1) \in DOMAIN c /\ k - (i - 1) # 1 /\ (k - (i - 1)) - 1 = k - i
    BY <1>1, <1>4, <1>5
  <2> QED
    BY <2>1 DEF IsListFrom
<1>10. next[d[l - (i - 1)]] = d[l - i]
  <2>1. l - (i - 1) \in DOMAIN d /\ l - (i - 1) # 1 /\ (l - (i - 1)) - 1 = l - i
    BY <1>1, <1>4, <1>5
  <2> QED
    BY <2>1 DEF IsListFrom
<1> QED
  BY <1>4, <1>8, <1>9, <1>10

(* ... and neither goes on when the other has ended.                       *)
LEMMA ListNotLonger ==
  ASSUME NEW head, NEW next, NEW c \in Lists, NEW d \in Lists,
         IsListFrom(head, next, c), IsListFrom(head, next, d)
  PROVE  Len(d) <= Len(c)
<1> DEFINE k == Len(c)
           l == Len(d)
<1>1. /\ k \in Nat /\ DOMAIN c = 1 .. k /\ c = << >> <=> k = 0
      /\ l \in Nat /\ DOMAIN d = 1 .. l /\ d = << >> <=> l = 0
      /\ \A i \in DOMAIN d : d[i] \in Nodes
  BY ListLen
<1>2. Null \notin Nodes
  BY FreeListAssumption
<1>3. SUFFICES ASSUME k < l PROVE FALSE
  BY <1>1
<1>4. CASE k = 0
  BY <1>1, <1>2, <1>3, <1>4 DEF IsListFrom
<1>5. CASE k > 0
  <2>1. k - 1 \in Nat /\ k - 1 < k /\ k - 1 < l /\ k - (k - 1) = 1 /\ 1 \in DOMAIN c
    BY <1>1, <1>3, <1>5
  <2>2. c[1] = d[l - (k - 1)]
    BY <2>1, ListsAgree
  <2>3. next[c[1]] = Null
    BY <2>1 DEF IsListFrom
  <2>4. /\ l - (k - 1) \in DOMAIN d /\ l - (k - 1) # 1
        /\ (l - (k - 1)) - 1 \in DOMAIN d
    BY <1>1, <1>3, <1>5
  <2>5. next[d[l - (k - 1)]] = d[(l - (k - 1)) - 1]
    BY <2>4 DEF IsListFrom
  <2> QED
    BY <1>1, <1>2, <2>2, <2>3, <2>4, <2>5
<1> QED
  BY <1>1, <1>4, <1>5

(* So there is one list at most.                                           *)
LEMMA ListIsUnique ==
  ASSUME NEW head, NEW next, NEW c \in Lists, NEW d \in Lists,
         IsListFrom(head, next, c), IsListFrom(head, next, d)
  PROVE  c = d
<1>1. /\ Len(c) \in Nat /\ c \in [1 .. Len(c) -> Nodes]
      /\ Len(d) \in Nat /\ d \in [1 .. Len(d) -> Nodes]
  BY ListLen
<1>2. Len(d) <= Len(c) /\ Len(c) <= Len(d)
  BY ListNotLonger
<1>3. Len(d) \in Nat /\ Len(c) \in Nat
  BY <1>1
<1>4. Len(d) = Len(c)
  BY <1>2, <1>3
<1>5. ASSUME NEW j \in 1 .. Len(c) PROVE d[j] = c[j]
  <2>1. /\ Len(c) - j \in Nat /\ Len(c) - j < Len(c)
        /\ Len(c) - (Len(c) - j) = j
    BY <1>3
  <2> QED
    BY <1>4, <2>1, ListsAgree
<1> QED
  BY <1>1, <1>4, <1>5

(* List is the list there is ...                                           *)
LEMMA ListIs == ASSUME NEW c \in Lists, IsList(c) PROVE List = c
<1>1. List \in Lists /\ IsList(List)
  BY DEF List
<1> QED
  BY <1>1, ListIsUnique DEF IsList

(* ... also after a step.                                                  *)
LEMMA NextListIs == ASSUME NEW c \in Lists, IsList(c)' PROVE List' = c
<1>1. List' \in Lists /\ IsList(List)'
  BY DEF List, Lists
<1> QED
  BY <1>1, ListIsUnique DEF IsList

(* The list stays while the links of its nodes do.                         *)
LEMMA ListStays ==
  ASSUME HasList, freeListHead' = freeListHead,
         \A n \in Listed : freeListNext'[n] = freeListNext[n]
  PROVE  HasList' /\ Listed' = Listed
<1>1. PICK c \in Lists : IsList(c)
  BY DEF HasList
<1>2. List = c /\ \A i \in DOMAIN c : c[i] \in Listed
  BY <1>1, ListIs DEF Listed
<1>3. IsList(c)'
  BY <1>1, <1>2 DEF IsList, IsListFrom
<1>4. List' = c
  BY <1>1, <1>3, NextListIs
<1> QED
  BY <1>2, <1>3, <1>4 DEF HasList, Listed, Lists

(* A pop takes the head off.                                               *)
LEMMA ListPops ==
  ASSUME HasList, freeListHead \in Nodes, freeListNext' = freeListNext,
         freeListHead' = freeListNext[freeListHead]
  PROVE  /\ HasList'
         /\ freeListHead \in Listed
         /\ Listed' = Listed \ {freeListHead}
<1>1. PICK c \in Lists : IsList(c)
  BY DEF HasList
<1> DEFINE k == Len(c)
           d == [i \in 1 .. k - 1 |-> c[i]]
<1>2. /\ k \in Nat /\ DOMAIN c = 1 .. k /\ c \in [1 .. k -> Nodes]
      /\ c = << >> <=> k = 0
  BY ListLen
<1>3. Null \notin Nodes
  BY FreeListAssumption
<1>4. k > 0 /\ freeListHead = c[k]
  BY <1>1, <1>2, <1>3 DEF IsList, IsListFrom
<1>5. d \in [1 .. k - 1 -> Nodes] /\ k - 1 \in Nat
  BY <1>2, <1>4
<1>6. /\ d \in Seq(Nodes) /\ Len(d) = k - 1
      /\ d = << >> <=> k - 1 = 0
  BY <1>5, LenIs
<1>7. \A i, j \in DOMAIN d : d[i] = d[j] => i = j
  BY <1>1, <1>2, <1>4 DEF IsList, IsListFrom
<1>8. d \in Lists
  BY <1>6, <1>7, IsInLists
<1>9. freeListHead' = IF d = << >> THEN Null ELSE d[Len(d)]
  <2>1. freeListNext[c[k]] = IF k = 1 THEN Null ELSE c[k - 1]
    BY <1>1, <1>2, <1>4 DEF IsList, IsListFrom
  <2>2. k # 1 => d[k - 1] = c[k - 1]
    BY <1>2, <1>4
  <2> HIDE DEF d, k
  <2> QED
    BY <1>2, <1>4, <1>6, <2>1, <2>2
<1>10. \A i \in DOMAIN d : freeListNext'[d[i]] = IF i = 1 THEN Null ELSE d[i - 1]
  BY <1>1, <1>2, <1>4 DEF IsList, IsListFrom
<1>11. IsList(d)'
  <2> HIDE DEF d
  <2> QED
    BY <1>7, <1>9, <1>10 DEF IsList, IsListFrom
<1>12. List = c /\ List' = d
  <2> HIDE DEF d
  <2> QED
    BY <1>1, <1>8, <1>11, ListIs, NextListIs
<1>13. Listed = {c[i] : i \in 1 .. k} /\ Listed' = {d[i] : i \in 1 .. k - 1}
  BY <1>2, <1>12, <1>5 DEF Listed
<1>14. {d[i] : i \in 1 .. k - 1} = {c[i] : i \in 1 .. k - 1}
  OBVIOUS
<1>15. {c[i] : i \in 1 .. k - 1} = {c[i] : i \in 1 .. k} \ {c[k]}
  <2>0. k \in Nat
    BY <1>2
  <2>1. \A i \in 1 .. k : i \in 1 .. k - 1 \/ i = k
    BY <2>0
  <2>2. \A i \in 1 .. k - 1 : i \in 1 .. k /\ c[i] # c[k]
    BY <1>1, <1>2, <1>4 DEF IsList, IsListFrom
  <2> QED
    BY <2>1, <2>2
<1> QED
  <2>1. HasList'
    <3> HIDE DEF d
    <3> QED
      BY <1>8, <1>11 DEF HasList, Lists
  <2>2. k \in 1 .. k
    BY <1>2, <1>4
  <2>3. c[k] \in {c[i] : i \in 1 .. k}
    BY <2>2
  <2> HIDE DEF d, k
  <2> QED
    BY <1>4, <1>13, <1>14, <1>15, <2>1, <2>3

(* A push puts a node before the head it leads to.                         *)
LEMMA ListPuts ==
  ASSUME HasList, NEW n \in Nodes, n \notin Listed, freeListNext[n] = freeListHead,
         freeListNext' = freeListNext, freeListHead' = n
  PROVE  HasList' /\ Listed' = Listed \union {n}
<1>1. PICK c \in Lists : IsList(c)
  BY DEF HasList
<1> DEFINE k == Len(c)
           d == [i \in 1 .. k + 1 |-> IF i = k + 1 THEN n ELSE c[i]]
<1>2. /\ k \in Nat /\ DOMAIN c = 1 .. k /\ c \in [1 .. k -> Nodes]
      /\ c = << >> <=> k = 0
  BY ListLen
<1>3. List = c /\ Listed = {c[i] : i \in 1 .. k}
  BY <1>1, <1>2, ListIs DEF Listed
<1>4. \A i \in 1 .. k : c[i] # n
  BY <1>3
<1>5. d \in [1 .. k + 1 -> Nodes] /\ k + 1 \in Nat
  BY <1>2
<1>6. /\ d \in Seq(Nodes) /\ Len(d) = k + 1
      /\ d # << >>
  <2> HIDE DEF d
  <2> QED
    BY <1>2, <1>5, LenIs
<1>7. \A i, j \in DOMAIN d : d[i] = d[j] => i = j
  <2>1. \A i, j \in 1 .. k : c[i] = c[j] => i = j
    BY <1>1, <1>2 DEF IsList, IsListFrom
  <2>2. \A i \in 1 .. k + 1 : i \in 1 .. k \/ i = k + 1
    BY <1>2
  <2> QED
    BY <1>2, <1>4, <2>1, <2>2
<1>8. d \in Lists
  <2> HIDE DEF d
  <2> QED
    BY <1>6, <1>7, IsInLists
<1>9. freeListHead' = IF d = << >> THEN Null ELSE d[Len(d)]
  <2>1. d[k + 1] = n
    BY <1>2
  <2> HIDE DEF d
  <2> QED
    BY <1>6, <2>1
<1>10. \A i \in DOMAIN d : freeListNext'[d[i]] = IF i = 1 THEN Null ELSE d[i - 1]
  <2>1. ASSUME NEW i \in 1 .. k
        PROVE  freeListNext'[d[i]] = IF i = 1 THEN Null ELSE d[i - 1]
    BY <1>1, <1>2 DEF IsList, IsListFrom
  <2>2. freeListNext'[d[k + 1]] = IF k + 1 = 1 THEN Null ELSE d[(k + 1) - 1]
    <3>0. k \in Nat
      BY <1>2
    <3>1. d[k + 1] = n
      BY <3>0
    <3>a. k # 0 => d[k] = c[k]
      BY <3>0
    <3>2. freeListNext'[n] = IF k = 0 THEN Null ELSE c[k]
      BY <1>1, <1>2 DEF IsList, IsListFrom
    <3>3. (k + 1 = 1 <=> k = 0) /\ (k + 1) - 1 = k
      BY <1>2
    <3> HIDE DEF d, k
    <3> QED
      BY <3>1, <3>a, <3>2, <3>3
  <2>3. \A i \in DOMAIN d : i \in 1 .. k \/ i = k + 1
    BY <1>2
  <2> HIDE DEF d
  <2> QED
    BY <2>1, <2>2, <2>3
<1>11. IsList(d)'
  <2> HIDE DEF d
  <2> QED
    BY <1>7, <1>9, <1>10 DEF IsList, IsListFrom
<1>12. List' = d
  <2> HIDE DEF d
  <2> QED
    BY <1>8, <1>11, NextListIs
<1>13. Listed' = {d[i] : i \in 1 .. k + 1}
  BY <1>5, <1>12 DEF Listed
<1>14. {d[i] : i \in 1 .. k + 1} = {c[i] : i \in 1 .. k} \union {n}
  <2>1. \A i \in 1 .. k + 1 : (i \in 1 .. k /\ d[i] = c[i]) \/ (i = k + 1 /\ d[i] = n)
    BY <1>2
  <2>2. \A i \in 1 .. k : i \in 1 .. k + 1 /\ d[i] = c[i]
    BY <1>2
  <2>3. k + 1 \in 1 .. k + 1 /\ d[k + 1] = n
    BY <1>2
  <2> HIDE DEF d
  <2> QED
    BY <2>1, <2>2, <2>3
<1> QED
  <2> HIDE DEF d
  <2> QED
    BY <1>3, <1>8, <1>11, <1>13, <1>14 DEF HasList, Lists

-----------------------------------------------------------------------------
(* A step of thread t changes the locals of t only.                        *)
StepOf(t) ==
  \A u \in Threads \ {t} :
    pc'[u] = pc[u] /\ node'[u] = node[u] /\ link'[u] = link[u] /\ refs'[u] = refs[u]

Step(t) == TakeFresh(t) \/ Add(t) \/ TryGet(t) \/ Work(t)

(* The loop of try_get changes the locals of its thread only.              *)
LEMMA LoopIs ==
  ASSUME TypeOK, NEW t \in Threads, NEW head \in Nodes \union {Null}, Loop(t, head)
  PROVE  /\ StepOf(t)
         /\ pc'[t] \in {"idle", "refs"}
         /\ pc' \in [Threads -> Steps]
         /\ node' \in [Threads -> Nodes \union {Null}]
         /\ \A u \in Threads : pc'[u] # "idle" => node'[u] # Null
         /\ refs' \in [Threads -> 0 .. 2 * S - 1]
         /\ link' \in [Threads -> Nodes \union {Null}]
         /\ seen' \in [Threads -> Nodes \union {Null}]
<1>1. 0 \in 0 .. 2 * S - 1
  BY SNat
<1>2. CASE head = Null /\ Return(t)
  BY <1>1, <1>2 DEF TypeOK, Return, GoTo, StepOf, Steps, S
<1>3. CASE head # Null
  BY <1>1, <1>3, FreeListAssumption DEF TypeOK, Loop, Return, GoTo, StepOf, Steps, S
<1> QED
  BY <1>2, <1>3 DEF Loop

(* fetch_add changes the word of one node, within its 32 bits.             *)
LEMMA AddedIs ==
  ASSUME TypeOK, NEW n \in Nodes, NEW by \in Int
  PROVE  /\ Added(n, by) \in [Nodes -> 0 .. 2 * S - 1]
         /\ \A m \in Nodes \ {n} : Added(n, by)[m] = freeListRefs[m]
         /\ Added(n, by)[n] = (freeListRefs[n] + by) % (2 * S)
<1>1. 2 * S \in Nat /\ 2 * S > 0
  BY SNat
<1>2. freeListRefs \in [Nodes -> 0 .. 2 * S - 1]
  BY DEF TypeOK, S
<1>3. freeListRefs[n] + by \in Int
  BY <1>1, <1>2
<1>4. (freeListRefs[n] + by) % (2 * S) \in 0 .. 2 * S - 1
  <2> DEFINE d == 2 * S
             a == freeListRefs[n] + by
  <2>1. a \in Int /\ d \in Nat /\ d > 0
    BY <1>1, <1>3
  <2> HIDE DEF a, d
  <2>2. a % d \in 0 .. d - 1
    BY <2>1
  <2> QED
    BY <2>2 DEF a, d
<1> QED
  BY <1>2, <1>4 DEF Added, S

(* A thread's step keeps the types, and the locals of other threads.       *)
LEMMA TypeStep ==
  ASSUME TypeOK, NEW t \in Threads, Step(t)
  PROVE  TypeOK' /\ StepOf(t)
<1>0. S \in Int /\ 1 \in 0 .. 2 * S - 1
  BY SNat
<1>n. pc[t] # "idle" => node[t] \in Nodes
  BY DEF TypeOK
<1>1. CASE TakeFresh(t)
  BY <1>1 DEF TakeFresh, shared, locals, TypeOK, StepOf
<1>2. CASE Add(t)
  <2>1. PICK n \in used :
          /\ used' = used \ {n}
          /\ freeListRefs' = Added(n, S)
          /\ \/ GoTo(t, "push") /\ node' = [node EXCEPT ![t] = n]
             \/ UNCHANGED <<pc, node>>
    BY <1>2 DEF Add, S
  <2>2. freeListRefs' \in [Nodes -> 0 .. 2 * S - 1]
    BY <1>0, <2>1, AddedIs DEF TypeOK
  <2>3. UNCHANGED <<freeListHead, freeListNext, fresh, refs, link, seen>>
    BY <1>2 DEF Add
  <2>4. n \in Nodes /\ n # Null
    BY <2>1, FreeListAssumption DEF TypeOK
  <2> QED
    BY <2>1, <2>2, <2>3, <2>4 DEF TypeOK, GoTo, StepOf, Steps, S
<1>3. CASE TryGet(t)
  <2>1. freeListHead \in Nodes \union {Null} /\ Loop(t, freeListHead) /\ UNCHANGED <<shared, fresh, used>>
    BY <1>3 DEF TryGet, TypeOK
  <2> QED
    BY <2>1, LoopIs DEF TypeOK, shared, S
<1>4. CASE ReadRefs(t)
  BY <1>4, <1>n DEF ReadRefs, shared, TypeOK, GoTo, StepOf, Steps
<1>5. CASE Acquire(t)
  <2>1. freeListRefs' \in [Nodes -> 0 .. 2 * S - 1]
    BY <1>5, <1>n, AddedIs DEF Acquire, TypeOK, S
  <2> QED
    BY <1>5, <1>n, <2>1 DEF Acquire, TypeOK, GoTo, StepOf, Steps, S
<1>6. CASE ReadHeadAgain(t)
  <2>1. freeListHead \in Nodes \union {Null} /\ Loop(t, freeListHead) /\ UNCHANGED <<shared, fresh, used>>
    BY <1>6 DEF ReadHeadAgain, TypeOK
  <2> QED
    BY <2>1, LoopIs DEF TypeOK, shared, S
<1>7. CASE ReadNext(t)
  BY <1>7, <1>n DEF ReadNext, shared, TypeOK, GoTo, StepOf, Steps
<1>8. CASE Pop(t)
  BY <1>8, <1>n DEF Pop, TypeOK, GoTo, StepOf, Steps
<1>9. CASE Got(t)
  <2>1. freeListRefs' \in [Nodes -> 0 .. 2 * S - 1]
    BY <1>9, <1>n, AddedIs DEF Got
  <2>2. Null \notin Nodes /\ 0 \in 0 .. 2 * S - 1
    BY FreeListAssumption, SNat
  <2> QED
    BY <1>9, <1>n, <2>1, <2>2 DEF Got, Return, TypeOK, GoTo, StepOf, Steps, S
<1>10. CASE Release(t)
  <2>1. freeListRefs' \in [Nodes -> 0 .. 2 * S - 1]
    BY <1>10, <1>n, AddedIs DEF Release
  <2>2. UNCHANGED <<freeListHead, freeListNext, fresh, used>>
    BY <1>10 DEF Release
  <2>3. CASE Loop(t, seen[t])
    <3>1. seen[t] \in Nodes \union {Null}
      BY DEF TypeOK
    <3> QED
      BY <2>1, <2>2, <2>3, <3>1, LoopIs DEF TypeOK, S
  <2>4. CASE GoTo(t, "push") /\ UNCHANGED <<node, refs, link, seen>>
    BY <1>10, <1>n, <2>1, <2>2, <2>4 DEF Release, TypeOK, GoTo, StepOf, Steps, S
  <2> QED
    BY <1>10, <2>3, <2>4 DEF Release
<1>11. CASE ReadHead(t)
  BY <1>11, <1>n DEF ReadHead, shared, TypeOK, GoTo, StepOf, Steps
<1>12. CASE Link(t)
  BY <1>12, <1>n DEF Link, TypeOK, GoTo, StepOf, Steps
<1>13. CASE SetRefs(t)
  BY <1>0, <1>13, <1>n DEF SetRefs, TypeOK, GoTo, StepOf, Steps, S
<1>14. CASE Put(t)
  <2>1. CASE freeListHead = link[t] /\ freeListHead' = node[t] /\ Loop(t, seen[t])
    <3>1. seen[t] \in Nodes \union {Null} /\ node[t] \in Nodes
      BY <1>14, <1>n DEF TypeOK, Put
    <3>2. UNCHANGED <<freeListRefs, freeListNext, fresh, used>>
      BY <1>14 DEF Put
    <3> QED
      BY <2>1, <3>1, <3>2, LoopIs DEF TypeOK, S
  <2>2. CASE freeListHead # link[t]
    BY <1>14, <1>n, <2>2 DEF Put, TypeOK, GoTo, StepOf, Steps, S
  <2> QED
    BY <1>14, <2>1, <2>2 DEF Put
<1>15. CASE Unput(t)
  <2>1. freeListRefs' \in [Nodes -> 0 .. 2 * S - 1]
    BY <1>0, <1>15, <1>n, AddedIs DEF Unput, S
  <2>2. UNCHANGED <<freeListHead, freeListNext, fresh, used>>
    BY <1>15 DEF Unput
  <2>3. CASE Loop(t, seen[t])
    <3>1. seen[t] \in Nodes \union {Null}
      BY DEF TypeOK
    <3> QED
      BY <2>1, <2>2, <2>3, <3>1, LoopIs DEF TypeOK, S
  <2>4. CASE GoTo(t, "link") /\ UNCHANGED <<node, refs, link, seen>>
    BY <1>15, <1>n, <2>1, <2>2, <2>4 DEF Unput, TypeOK, GoTo, StepOf, Steps, S
  <2> QED
    BY <1>15, <2>3, <2>4 DEF Unput
<1> QED
  BY <1>1, <1>2, <1>3, <1>4, <1>5, <1>6, <1>7, <1>8, <1>9, <1>10, <1>11, <1>12, <1>13,
     <1>14, <1>15 DEF Step, Work

-----------------------------------------------------------------------------
(* How the sets of threads at a node, and so its count, change with the    *)
(* thread that steps.                                                      *)
LEMMA AtIsFinite ==
  ASSUME NEW steps, NEW n
  PROVE  /\ IsFiniteSet(At(steps, n))
         /\ Cardinality(At(steps, n)) \in Nat
         /\ Cardinality(At(steps, n)) <= Cardinality(Threads)
         /\ Cardinality(At(steps, n)) = 0 <=> At(steps, n) = {}
<1>1. At(steps, n) \in SUBSET Threads
  BY DEF At
<1> QED
  BY <1>1, FreeListAssumption, FS_Subset, FS_CardinalityType, FS_EmptySet

(* The number of threads at a node changes by the one that steps.          *)
LEMMA AtStep ==
  ASSUME NEW t \in Threads, NEW steps, NEW n, StepOf(t)
  PROVE  Cardinality(At(steps, n)') = Cardinality(At(steps, n))
           + (IF IsAt(t, steps, n)' THEN 1 ELSE 0) - (IF IsAt(t, steps, n) THEN 1 ELSE 0)
<1> DEFINE others == At(steps, n) \ {t}
<1>1. /\ IsFiniteSet(At(steps, n)) /\ Cardinality(At(steps, n)) \in Nat
  BY AtIsFinite
<1>2. t \in At(steps, n) <=> IsAt(t, steps, n)
  BY DEF At, IsAt
<1>3. /\ IsFiniteSet(others)
      /\ Cardinality(others) = Cardinality(At(steps, n)) - (IF IsAt(t, steps, n) THEN 1 ELSE 0)
  BY <1>1, <1>2, FS_RemoveElement
<1>4. At(steps, n)' = IF IsAt(t, steps, n)' THEN others \union {t} ELSE others
  BY DEF At, IsAt, StepOf
<1>5. Cardinality(others \union {t}) = Cardinality(others) + 1
  BY <1>3, FS_AddElement
<1> HIDE DEF others
<1> QED
  BY <1>1, <1>3, <1>4, <1>5

(* The list counts for one.                                                *)
LEMMA CountIs ==
  ASSUME NEW n
  PROVE  /\ Count(n) = Cardinality(At(Referring, n)) + Cardinality(At(Keeping, n)) +
                       (IF n \in Listed THEN 1 ELSE 0)
         /\ Count(n) \in Nat
<1>1. Cardinality(Listed \intersect {n}) = IF n \in Listed THEN 1 ELSE 0
  <2>1. CASE n \in Listed
    <3>1. Listed \intersect {n} = {n}
      BY <2>1
    <3> QED
      BY <2>1, <3>1, FS_Singleton
  <2>2. CASE n \notin Listed
    <3>1. Listed \intersect {n} = {}
      BY <2>2
    <3> QED
      BY <2>2, <3>1, FS_EmptySet
  <2> QED
    BY <2>1, <2>2
<1>2. Cardinality(At(Referring, n)) \in Nat /\ Cardinality(At(Keeping, n)) \in Nat
  BY AtIsFinite
<1> QED
  BY <1>1, <1>2 DEF Count

(* A step changes a count by what its thread and the list do.              *)
LEMMA CountStep ==
  ASSUME NEW t \in Threads, NEW n, StepOf(t)
  PROVE  /\ Count(n) \in Nat /\ Count(n)' \in Nat
         /\ Count(n)' = Count(n)
              + (IF IsAt(t, Referring, n)' THEN 1 ELSE 0) - (IF IsAt(t, Referring, n) THEN 1 ELSE 0)
              + (IF IsAt(t, Keeping, n)' THEN 1 ELSE 0) - (IF IsAt(t, Keeping, n) THEN 1 ELSE 0)
              + (IF n \in Listed' THEN 1 ELSE 0) - (IF n \in Listed THEN 1 ELSE 0)
<1> DEFINE a == Cardinality(At(Referring, n))
           b == Cardinality(At(Keeping, n))
           c == Cardinality(At(Referring, n)')
           d == Cardinality(At(Keeping, n)')
<1>1. a \in Nat /\ b \in Nat
  BY AtIsFinite
<1>2. /\ c = a + (IF IsAt(t, Referring, n)' THEN 1 ELSE 0) - (IF IsAt(t, Referring, n) THEN 1 ELSE 0)
      /\ d = b + (IF IsAt(t, Keeping, n)' THEN 1 ELSE 0) - (IF IsAt(t, Keeping, n) THEN 1 ELSE 0)
  BY AtStep
<1>3. /\ Count(n) = a + b + (IF n \in Listed THEN 1 ELSE 0)
      /\ Count(n) \in Nat
  BY CountIs
<1>4. /\ Count(n)' = c + d + (IF n \in Listed' THEN 1 ELSE 0)
      /\ Count(n)' \in Nat
  <2>1. At(Referring, n)' \in SUBSET Threads /\ At(Keeping, n)' \in SUBSET Threads
    BY DEF At
  <2>2. c \in Nat /\ d \in Nat
    BY <2>1, FreeListAssumption, FS_Subset, FS_CardinalityType
  <2>3. Cardinality(Listed' \intersect {n}) = IF n \in Listed' THEN 1 ELSE 0
    <3>1. CASE n \in Listed'
      <4>1. Listed' \intersect {n} = {n}
        BY <3>1
      <4> QED
        BY <3>1, <4>1, FS_Singleton
    <3>2. CASE n \notin Listed'
      <4>1. Listed' \intersect {n} = {}
        BY <3>2
      <4> QED
        BY <3>2, <4>1, FS_EmptySet
    <3> QED
      BY <3>1, <3>2
  <2>4. Count(n)' = c + d + Cardinality(Listed' \intersect {n})
    BY DEF Count
  <2> HIDE DEF c, d
  <2> QED
    BY <2>2, <2>3, <2>4
<1> HIDE DEF a, b, c, d
<1> QED
  BY <1>1, <1>2, <1>3, <1>4

(* A thread at a node counts.                                              *)
LEMMA CountCovers ==
  ASSUME NEW t \in Threads, NEW n, IsAt(t, Referring, n) \/ IsAt(t, Keeping, n)
  PROVE  Count(n) > 0
<1>1. At(Referring, n) # {} \/ At(Keeping, n) # {}
  BY DEF At, IsAt
<1>2. /\ Cardinality(At(Referring, n)) \in Nat /\ Cardinality(At(Keeping, n)) \in Nat
      /\ Cardinality(At(Referring, n)) > 0 \/ Cardinality(At(Keeping, n)) > 0
  BY <1>1, AtIsFinite
<1>3. Count(n) = Cardinality(At(Referring, n)) + Cardinality(At(Keeping, n)) +
                 (IF n \in Listed THEN 1 ELSE 0)
  BY CountIs
<1> QED
  BY <1>2, <1>3

(* There are at most as many references as threads, and the list's.        *)
LEMMA CountFits ==
  ASSUME OneHolder, NEW n, NEW kind \in Kinds, IsPlaced(n, kind)
  PROVE  /\ Count(n) \in Nat /\ Count(n) < S
         /\ \A t \in Threads : pc[t] \notin Referring => Count(n) + 1 < S
<1> DEFINE a == Cardinality(At(Referring, n))
           b == Cardinality(At(Keeping, n))
<1>1. /\ a \in Nat /\ a <= Cardinality(Threads)
      /\ b \in Nat
  BY AtIsFinite
<1>2. Count(n) = a + b + (IF n \in Listed THEN 1 ELSE 0)
  BY CountIs
<1>3. b + (IF n \in Listed THEN 1 ELSE 0) <= 1
  <2>1. CASE At(Keeping, n) = {}
    BY <2>1, AtIsFinite
  <2>2. CASE At(Keeping, n) # {}
    <3>1. PICK t \in Threads : IsAt(t, Keeping, n)
      BY <2>2 DEF At, IsAt
    <3>2. At(Keeping, n) = {t}
      BY <3>1 DEF At, IsAt, OneHolder, Holding
    <3>3. b = 1
      BY <3>2, FS_Singleton
    <3>4. n \notin Listed
      BY <3>1 DEF IsPlaced, Held, IsAt, Holding, Kinds
    <3> HIDE DEF b
    <3> QED
      BY <3>3, <3>4
  <2> QED
    BY <2>1, <2>2
<1>4. Cardinality(Threads) \in Nat /\ S \in Nat /\ Cardinality(Threads) + 1 < S
  BY SNat
<1>5. ASSUME NEW t \in Threads, pc[t] \notin Referring
      PROVE  a + 1 <= Cardinality(Threads)
  <2>1. t \notin At(Referring, n) /\ At(Referring, n) \union {t} \in SUBSET Threads
    BY <1>5 DEF At
  <2>2. Cardinality(At(Referring, n) \union {t}) = a + 1
    BY <2>1, AtIsFinite, FS_AddElement
  <2>3. Cardinality(At(Referring, n) \union {t}) <= Cardinality(Threads)
    BY <2>1, FreeListAssumption, FS_Subset
  <2> QED
    BY <2>2, <2>3
<1> HIDE DEF a, b
<1> QED
  BY <1>1, <1>2, <1>3, <1>4, <1>5

(* A node the step has nothing to do with stays what it is.                *)
Untouched(t, n) ==
  /\ n \in fresh' <=> n \in fresh
  /\ n \in used' <=> n \in used
  /\ n \in Listed' <=> n \in Listed
  /\ freeListRefs'[n] = freeListRefs[n]
  /\ \A steps \in {Referring, Keeping, Pushing} : IsAt(t, steps, n)' <=> IsAt(t, steps, n)

(* ... and so it stays in its place, with its count.                       *)
LEMMA NodeStays ==
  ASSUME NEW t \in Threads, StepOf(t), NEW n \in Nodes, Untouched(t, n),
         NEW kind \in Kinds, IsPlaced(n, kind), RefsAre(n, kind)
  PROVE  IsPlaced(n, kind)' /\ RefsAre(n, kind)'
<1>1. Count(n)' = Count(n)
  BY CountStep DEF Untouched
<1>2. \A u \in Threads : \A steps \in {Referring, Keeping, Pushing} : IsAt(u, steps, n)' <=> IsAt(u, steps, n)
  BY DEF StepOf, Untouched, IsAt
<1>3. Pushed(n)' <=> Pushed(n)
  BY <1>2 DEF Pushed
<1>4. Held(n)' <=> Held(n)
  BY <1>2 DEF Held, IsAt, Holding
<1> QED
  BY <1>1, <1>3, <1>4 DEF Untouched, IsPlaced, RefsAre

(* A thread may only come to have a node that none has.                    *)
LEMMA HolderStays ==
  ASSUME OneHolder, NEW t \in Threads, StepOf(t),
         pc'[t] \in Holding => (pc[t] \in Holding /\ node'[t] = node[t]) \/ ~Held(node'[t])
  PROVE  OneHolder'
BY DEF OneHolder, StepOf, Held, IsAt

(* The one that has a node: what others do is not the matter.              *)
LEMMA HolderIs ==
  ASSUME OneHolder, NEW t \in Threads, StepOf(t), NEW n, IsAt(t, Holding, n)
  PROVE  /\ Held(n)
         /\ Held(n)' <=> IsAt(t, Holding, n)'
         /\ Pushed(n) <=> IsAt(t, Pushing, n)
         /\ Pushed(n)' <=> IsAt(t, Pushing, n)'
<1>1. \A u \in Threads \ {t} : ~IsAt(u, Holding, n) /\ ~IsAt(u, Holding, n)'
  BY DEF OneHolder, IsAt, StepOf
<1>2. \A u \in Threads : /\ IsAt(u, Pushing, n) => IsAt(u, Holding, n)
                         /\ IsAt(u, Pushing, n)' => IsAt(u, Holding, n)'
  BY DEF IsAt, Holding
<1> QED
  BY <1>1, <1>2 DEF Held, Pushed

(* The one that comes to have it, or goes by.                              *)
LEMMA NoHolderIs ==
  ASSUME NEW t \in Threads, StepOf(t), NEW n, ~IsAt(t, Holding, n)
  PROVE  /\ Held(n)' <=> Held(n) \/ IsAt(t, Holding, n)'
         /\ Pushed(n)' <=> Pushed(n) \/ IsAt(t, Pushing, n)'
BY DEF Held, Pushed, IsAt, StepOf, Holding

(* Whoever pushes a node has it, so nobody refers to it.                   *)
LEMMA PushedIs ==
  ASSUME NEW n \in Nodes, NEW kind \in Kinds, IsPlaced(n, kind), RefsAre(n, kind), Pushed(n)
  PROVE  /\ kind = "thread" /\ Count(n) = 0 /\ freeListRefs[n] = S
         /\ \A t \in Threads : ~IsAt(t, Referring, n)
<1>1. Held(n)
  BY DEF Held, Pushed, IsAt, Holding
<1>2. kind = "thread"
  BY <1>1 DEF IsPlaced
<1>3. Count(n) = 0 /\ freeListRefs[n] = S
  BY <1>2 DEF RefsAre
<1> QED
  BY <1>2, <1>3, CountCovers

-----------------------------------------------------------------------------
(* Steps in which no node changes its place: calls begin, go round their   *)
(* loops and read.                                                         *)
Sets == {Referring, Keeping, Pushing}

(* They keep the invariant.                                                *)
LEMMA QuietStep ==
  ASSUME IndInv, NEW t \in Threads, StepOf(t), TypeOK',
         UNCHANGED <<freeListHead, freeListRefs, freeListNext, fresh, used>>,
         \/ \A steps \in Sets : pc[t] \notin steps /\ pc'[t] \notin steps
         \/ node'[t] = node[t] /\ \A steps \in Sets : pc'[t] \in steps <=> pc[t] \in steps,
         pc'[t] = "acquire" => REFS_MASK(refs'[t]) # 0,
         pc'[t] \in {"pop", "count", "put"} => link'[t] = freeListNext[node'[t]]
  PROVE  IndInv'
<1>1. HasList' /\ Listed' = Listed
  BY ListStays DEF IndInv
<1>2. \A n : Untouched(t, n)
  BY <1>1 DEF Untouched, IsAt, Sets
<1>3. NodesOK'
  BY <1>2, NodeStays DEF IndInv, NodesOK
<1>4. OneHolder'
  BY HolderStays DEF IndInv, Sets, Holding
<1>5. LocalsOK'
  BY DEF LocalsOK, IndInv, StepOf, REFS_MASK
<1> QED
  BY <1>1, <1>3, <1>4, <1>5 DEF IndInv

(* Steps that change the place or the count of one node.                   *)
LEMMA TouchStep ==
  ASSUME IndInv, NEW t \in Threads, StepOf(t), TypeOK', HasList',
         freeListNext' = freeListNext,
         NEW m \in Nodes, \A n \in Nodes \ {m} : Untouched(t, n),
         NEW kind \in Kinds, IsPlaced(m, kind)', RefsAre(m, kind)',
         pc'[t] \in Holding => (pc[t] \in Holding /\ node'[t] = node[t]) \/ ~Held(node'[t]),
         pc'[t] # "acquire",
         pc'[t] \in {"pop", "count", "put"} => link'[t] = freeListNext[node'[t]]
  PROVE  IndInv'
<1>1. NodesOK'
  <2> SUFFICES ASSUME NEW n \in Nodes
               PROVE  \E k \in Kinds : IsPlaced(n, k)' /\ RefsAre(n, k)'
    BY DEF NodesOK
  <2>1. CASE n = m
    BY <2>1
  <2>2. CASE n # m
    BY <2>2, NodeStays DEF IndInv, NodesOK
  <2> QED
    BY <2>1, <2>2
<1>2. OneHolder'
  BY HolderStays DEF IndInv
<1>3. LocalsOK'
  BY DEF LocalsOK, IndInv, StepOf, REFS_MASK
<1> QED
  BY <1>1, <1>2, <1>3 DEF IndInv

(* A fresh node comes into use.                                            *)
LEMMA TakeFreshStep ==
  ASSUME IndInv, NEW t \in Threads, TakeFresh(t), TypeOK', StepOf(t)
  PROVE  IndInv'
<1>1. PICK n \in fresh : fresh' = fresh \ {n} /\ used' = used \union {n}
  BY DEF TakeFresh
<1>2. UNCHANGED <<freeListHead, freeListRefs, freeListNext, pc, node, link, refs>>
  BY DEF TakeFresh, shared, locals
<1>3. n \in Nodes
  BY DEF IndInv, TypeOK
<1>4. HasList' /\ Listed' = Listed
  BY <1>2, ListStays DEF IndInv
<1>5. \A m \in Nodes \ {n} : Untouched(t, m)
  BY <1>1, <1>2, <1>4 DEF Untouched, IsAt
<1>6. PICK kind \in Kinds : IsPlaced(n, kind) /\ RefsAre(n, kind)
  BY <1>3 DEF IndInv, NodesOK
<1>7. kind = "fresh"
  BY <1>1, <1>6 DEF IsPlaced
<1>8. (Held(n)' <=> Held(n)) /\ (Pushed(n)' <=> Pushed(n)) /\ Count(n)' = Count(n)
  BY <1>2, <1>4, CountStep DEF Held, Pushed, IsAt
<1>9. IsPlaced(n, "used")' /\ RefsAre(n, "used")'
  BY <1>1, <1>2, <1>4, <1>6, <1>7, <1>8 DEF IsPlaced, RefsAre
<1>10. pc[t] = "idle"
  BY DEF TakeFresh
<1> QED
  BY <1>2, <1>3, <1>4, <1>5, <1>9, <1>10, TouchStep DEF Kinds, Holding, Keeping, Pushing

(* The arithmetic of the word, which never overflows.                      *)
LEMMA Bits ==
  ASSUME NEW a \in Nat, a < S
  PROVE  /\ (a + S) % (2 * S) = a + S
         /\ a + S - 1 \in Nat /\ (a + S - 1) % (2 * S) = a + S - 1
         /\ a + 1 < S => (a + 1) % (2 * S) = a + 1 /\ (a + S + 1) % (2 * S) = a + S + 1
         /\ a >= 1 => (a - 1) % (2 * S) = a - 1
         /\ a >= 2 => (a - 2) % (2 * S) = a - 2
<1>1. S \in Nat /\ 2 * S \in Nat /\ S > 0
  BY SNat
<1> DEFINE d == 2 * S
<1>2. a + S \in Nat /\ a + S < d
  BY <1>1
<1>3. a + S - 1 \in Nat /\ a + S - 1 < d
  BY <1>1
<1>4. a + 1 < S => a + 1 \in Nat /\ a + 1 < d /\ a + S + 1 \in Nat /\ a + S + 1 < d
  BY <1>1
<1>5. (a >= 1 => a - 1 \in Nat /\ a - 1 < d) /\ (a >= 2 => a - 2 \in Nat /\ a - 2 < d)
  BY <1>1
<1>6. d \in Nat
  BY <1>1
<1> HIDE DEF d
<1>7. \A b \in Nat : b < d => b % d = b
  BY <1>6, ModSmall
<1> QED
  <2>1. (a + S) % d = a + S
    BY <1>2, <1>7
  <2>2. (a + S - 1) % d = a + S - 1
    BY <1>3, <1>7
  <2>3. a + 1 < S => (a + 1) % d = a + 1 /\ (a + S + 1) % d = a + S + 1
    BY <1>4, <1>7
  <2>4. (a >= 1 => (a - 1) % d = a - 1) /\ (a >= 2 => (a - 2) % d = a - 2)
    BY <1>5, <1>7
  <2> QED
    BY <1>3, <2>1, <2>2, <2>3, <2>4 DEF d

(* A node given back: pushed by the thread, or left to those referring.    *)
LEMMA AddStep ==
  ASSUME IndInv, NEW t \in Threads, Add(t), TypeOK', StepOf(t)
  PROVE  IndInv'
<1>1. PICK n \in used :
        /\ used' = used \ {n}
        /\ freeListRefs' = Added(n, S)
        /\ \/ freeListRefs[n] = 0 /\ GoTo(t, "push") /\ node' = [node EXCEPT ![t] = n]
           \/ freeListRefs[n] # 0 /\ UNCHANGED <<pc, node>>
  BY DEF Add, S
<1>2. UNCHANGED <<freeListHead, freeListNext, fresh, link, refs>> /\ pc[t] = "idle"
  BY DEF Add
<1>3. n \in Nodes
  BY DEF IndInv, TypeOK
<1>4. HasList' /\ Listed' = Listed
  BY <1>2, ListStays DEF IndInv
<1>5. PICK kind \in Kinds : IsPlaced(n, kind) /\ RefsAre(n, kind)
  BY <1>3 DEF IndInv, NodesOK
<1>6. kind = "used"
  BY <1>1, <1>5 DEF IsPlaced
<1>7. ~Held(n) /\ ~Pushed(n)
  <2>1. ~Held(n)
    BY <1>5, <1>6 DEF IsPlaced
  <2> QED
    BY <2>1 DEF Held, Pushed, IsAt, Holding
<1>8. freeListRefs[n] = Count(n) /\ Count(n) \in Nat /\ Count(n) < S
  BY <1>5, <1>6, <1>7, CountFits DEF RefsAre, IndInv
<1>9. /\ freeListRefs'[n] = Count(n) + S
      /\ \A m \in Nodes \ {n} : freeListRefs'[m] = freeListRefs[m]
  <2>1. S \in Int
    BY SNat
  <2> QED
    BY <1>1, <1>3, <1>8, <2>1, AddedIs, Bits DEF IndInv
<1>10. pc \in [Threads -> Steps] /\ node \in [Threads -> Nodes \union {Null}]
  BY DEF IndInv, TypeOK
<1>11. CASE freeListRefs[n] = 0
  <2>1. pc'[t] = "push" /\ node'[t] = n
    BY <1>1, <1>10, <1>11 DEF GoTo
  <2>2. \A m \in Nodes \ {n} : Untouched(t, m)
    BY <1>1, <1>2, <1>4, <1>9, <2>1 DEF Untouched, IsAt, Referring, Keeping, Pushing
  <2>3. Held(n)' /\ Pushed(n)'
    BY <2>1 DEF Held, Pushed, IsAt, Holding, Pushing
  <2>4. Count(n)' = Count(n)
    <3>1. \A steps \in {Referring, Keeping} : ~IsAt(t, steps, n) /\ ~IsAt(t, steps, n)'
      BY <1>2, <2>1 DEF IsAt, Referring, Keeping
    <3> QED
      BY <1>4, <3>1, CountStep
  <2>5. IsPlaced(n, "thread")'
    BY <1>1, <1>2, <1>4, <1>5, <1>6, <2>3 DEF IsPlaced
  <2>6. RefsAre(n, "thread")'
    <3>1. Count(n)' = 0 /\ freeListRefs'[n] = S
      <4>1. S \in Nat
        BY SNat
      <4>2. Count(n) = 0
        BY <1>8, <1>11
      <4> QED
        BY <1>9, <2>4, <4>1, <4>2
    <3> QED
      BY <2>3, <3>1 DEF RefsAre
  <2> QED
    BY <1>2, <1>3, <1>4, <1>7, <2>1, <2>2, <2>5, <2>6, TouchStep DEF Kinds
<1>12. CASE freeListRefs[n] # 0
  <2>1. UNCHANGED <<pc, node>>
    BY <1>1, <1>12
  <2>2. \A m \in Nodes \ {n} : Untouched(t, m)
    BY <1>1, <1>2, <1>4, <1>9, <2>1 DEF Untouched, IsAt
  <2>3. ~Held(n)' /\ ~Pushed(n)' /\ Count(n)' = Count(n)
    BY <1>4, <1>7, <2>1, CountStep DEF Held, Pushed, IsAt
  <2>4. IsPlaced(n, "referred")' /\ RefsAre(n, "referred")'
    BY <1>1, <1>2, <1>4, <1>5, <1>6, <1>8, <1>9, <1>12, <2>3 DEF IsPlaced, RefsAre
  <2> QED
    BY <1>2, <1>3, <1>4, <2>1, <2>2, <2>4, TouchStep DEF Kinds, Holding, Keeping, Pushing
<1> QED
  BY <1>11, <1>12

(* The node a thread is at is in some place.                               *)
LEMMA NodeIs ==
  ASSUME IndInv, NEW t \in Threads, pc[t] # "idle"
  PROVE  \E n \in Nodes : n = node[t] /\ \E kind \in Kinds : IsPlaced(n, kind) /\ RefsAre(n, kind)
BY DEF IndInv, TypeOK, NodesOK

(* Taking a reference: the node has one already, so it is not pushed, and  *)
(* the word cannot come to mean anything else.                             *)
LEMMA AcquireStep ==
  ASSUME IndInv, NEW t \in Threads, Acquire(t), TypeOK', StepOf(t)
  PROVE  IndInv'
<1>1. pc[t] = "acquire" /\ UNCHANGED <<freeListHead, freeListNext, fresh, used, node, refs, link>>
  BY DEF Acquire
<1>2. pc \in [Threads -> Steps]
  BY DEF IndInv, TypeOK
<1>3. CASE UNCHANGED freeListRefs /\ GoTo(t, "head")
  <2>1. pc'[t] = "head"
    BY <1>2, <1>3 DEF GoTo
  <2> QED
    BY <1>1, <1>3, <2>1, QuietStep DEF Sets, Referring, Keeping, Pushing
<1>4. CASE freeListRefs[node[t]] = refs[t] /\ freeListRefs' = Added(node[t], 1) /\ GoTo(t, "next")
  <2>1. PICK n \in Nodes : n = node[t] /\ \E kind \in Kinds : IsPlaced(n, kind) /\ RefsAre(n, kind)
    BY <1>1, NodeIs
  <2>2. PICK kind \in Kinds : IsPlaced(n, kind) /\ RefsAre(n, kind)
    BY <2>1
  <2>3. ~Pushed(n)
    <3>1. REFS_MASK(freeListRefs[n]) # 0
      BY <1>1, <1>4, <2>1 DEF IndInv, LocalsOK
    <3>2. S \in Nat /\ S > 0
      BY SNat
    <3>3. S % S = 0
      BY <3>2, Z3
    <3> QED
      BY <2>2, <3>1, <3>3, PushedIs DEF REFS_MASK, S
  <2>4. pc'[t] = "next" /\ node'[t] = n
    BY <1>1, <1>2, <1>4, <2>1 DEF GoTo
  <2>5. HasList' /\ Listed' = Listed
    BY <1>1, ListStays DEF IndInv
  <2>6. /\ IsAt(t, Referring, n)' /\ ~IsAt(t, Referring, n)
        /\ \A steps \in {Keeping, Pushing, Holding} : ~IsAt(t, steps, n)' /\ ~IsAt(t, steps, n)
    BY <1>1, <2>4 DEF IsAt, Referring, Keeping, Pushing, Holding
  <2>7. Count(n) \in Nat /\ Count(n) < S /\ Count(n)' = Count(n) + 1 /\ Count(n) + 1 < S
    <3>1. pc[t] \notin Referring
      BY <1>1 DEF Referring
    <3>2. Count(n) + 1 < S /\ Count(n) < S
      BY <2>2, <3>1, CountFits DEF IndInv
    <3>3. Count(n) \in Nat /\ Count(n)' = Count(n) + 1
      BY <2>5, <2>6, CountStep
    <3> QED
      BY <3>2, <3>3
  <2>8. (Held(n)' <=> Held(n)) /\ ~Pushed(n)'
    BY <2>3, <2>6, NoHolderIs
  <2>9. /\ freeListRefs'[n] = (freeListRefs[n] + 1) % (2 * S)
        /\ \A m \in Nodes \ {n} : freeListRefs'[m] = freeListRefs[m]
    BY <1>4, <2>1, AddedIs DEF IndInv
  <2>b. Count(n) \in Nat /\ Count(n) < S
    BY <2>7
  <2>10. RefsAre(n, kind)'
    <3>s. S \in Nat
      BY SNat
    <3>1. CASE kind = "referred" /\ freeListRefs[n] = Count(n) + S
      <4>1. freeListRefs'[n] = Count(n)' + S
        <5>1. (Count(n) + S + 1) % (2 * S) = Count(n) + S + 1
          BY <2>7, <2>b, Bits
        <5>2. Count(n) + S + 1 = Count(n)' + S
          BY <2>7, <3>s
        <5> QED
          BY <2>9, <3>1, <5>1, <5>2
      <4>2. Count(n)' > 0
        BY <2>7
      <4> QED
        BY <3>1, <4>1, <4>2 DEF RefsAre
    <3>2. CASE kind # "referred" /\ freeListRefs[n] = Count(n)
      <4>1. (Count(n) + 1) % (2 * S) = Count(n) + 1
        BY <2>7, <2>b, Bits
      <4>2. freeListRefs'[n] = Count(n)'
        BY <2>7, <2>9, <3>2, <4>1
      <4> QED
        BY <2>8, <3>2, <4>2 DEF RefsAre
    <3> QED
      BY <2>2, <2>3, <3>1, <3>2 DEF RefsAre
  <2>11. IsPlaced(n, kind)'
    BY <1>1, <2>2, <2>5, <2>8 DEF IsPlaced
  <2>12. \A m \in Nodes \ {n} : Untouched(t, m)
    BY <1>1, <2>1, <2>4, <2>5, <2>9 DEF Untouched, IsAt
  <2> QED
    BY <1>1, <2>4, <2>5, <2>10, <2>11, <2>12, TouchStep DEF Holding, Keeping, Pushing
<1> QED
  BY <1>3, <1>4 DEF Acquire

(* The compare-and-exchange of try_get takes the head and puts in its      *)
(* present successor.                                                      *)
LEMMA PopStep ==
  ASSUME IndInv, NEW t \in Threads, Pop(t), TypeOK', StepOf(t)
  PROVE  IndInv'
<1>1. pc[t] = "pop" /\ UNCHANGED <<freeListRefs, freeListNext, fresh, used, node, refs, link>>
  BY DEF Pop
<1>2. pc \in [Threads -> Steps]
  BY DEF IndInv, TypeOK
<1>3. CASE UNCHANGED freeListHead /\ GoTo(t, "release")
  <2>1. pc'[t] = "release"
    BY <1>2, <1>3 DEF GoTo
  <2> QED
    BY <1>1, <1>3, <2>1, QuietStep DEF Sets, Referring, Keeping, Pushing
<1>4. CASE freeListHead = node[t] /\ freeListHead' = link[t] /\ GoTo(t, "got")
  <2>1. PICK n \in Nodes : n = node[t] /\ \E kind \in Kinds : IsPlaced(n, kind) /\ RefsAre(n, kind)
    BY <1>1, NodeIs
  <2>2. PICK kind \in Kinds : IsPlaced(n, kind) /\ RefsAre(n, kind)
    BY <2>1
  <2>3. freeListHead' = freeListNext[freeListHead]
    BY <1>1, <1>4 DEF IndInv, LocalsOK
  <2>4. HasList' /\ n \in Listed /\ Listed' = Listed \ {n}
    BY <1>1, <1>4, <2>1, <2>3, ListPops DEF IndInv
  <2>5. kind = "list" /\ ~Held(n)
    BY <2>2, <2>4 DEF IsPlaced
  <2>6. ~Pushed(n)
    BY <2>5 DEF Held, Pushed, IsAt, Holding
  <2>7. pc'[t] = "got" /\ node'[t] = n
    BY <1>1, <1>2, <1>4, <2>1 DEF GoTo
  <2>8. /\ IsAt(t, Referring, n) /\ IsAt(t, Referring, n)'
        /\ ~IsAt(t, Keeping, n) /\ IsAt(t, Keeping, n)'
        /\ ~IsAt(t, Holding, n) /\ IsAt(t, Holding, n)'
        /\ ~IsAt(t, Pushing, n)'
    BY <1>1, <2>1, <2>7 DEF IsAt, Referring, Keeping, Pushing, Holding
  <2>9. Count(n)' = Count(n)
    BY <2>4, <2>8, CountStep
  <2>10. Held(n)' /\ ~Pushed(n)'
    BY <2>6, <2>8, NoHolderIs
  <2>11. IsPlaced(n, "thread")' /\ RefsAre(n, "thread")'
    BY <1>1, <2>2, <2>4, <2>5, <2>6, <2>9, <2>10 DEF IsPlaced, RefsAre
  <2>12. \A m \in Nodes \ {n} : Untouched(t, m)
    BY <1>1, <2>1, <2>4, <2>7 DEF Untouched, IsAt
  <2> QED
    BY <1>1, <2>4, <2>5, <2>7, <2>11, <2>12, TouchStep DEF Kinds
<1> QED
  BY <1>3, <1>4 DEF Pop

(* The node popped: its references are the thread's and the list's and     *)
(* those of other threads, which stay.                                     *)
LEMMA GotStep ==
  ASSUME IndInv, NEW t \in Threads, Got(t), TypeOK', StepOf(t)
  PROVE  IndInv'
<1>1. /\ pc[t] = "got" /\ freeListRefs' = Added(node[t], -2) /\ used' = used \union {node[t]}
      /\ UNCHANGED <<freeListHead, freeListNext, fresh>>
  BY DEF Got
<1>2. pc'[t] = "idle"
  BY DEF Got, Return, GoTo, IndInv, TypeOK
<1>3. PICK n \in Nodes : n = node[t] /\ \E kind \in Kinds : IsPlaced(n, kind) /\ RefsAre(n, kind)
  BY <1>1, NodeIs
<1>4. PICK kind \in Kinds : IsPlaced(n, kind) /\ RefsAre(n, kind)
  BY <1>3
<1>5. HasList' /\ Listed' = Listed
  BY <1>1, ListStays DEF IndInv
<1>6. /\ IsAt(t, Referring, n) /\ IsAt(t, Keeping, n) /\ IsAt(t, Holding, n) /\ ~IsAt(t, Pushing, n)
      /\ \A steps \in {Referring, Keeping, Pushing, Holding} : ~IsAt(t, steps, n)'
  BY <1>1, <1>2, <1>3 DEF IsAt, Referring, Keeping, Pushing, Holding
<1>7. Held(n) /\ ~Held(n)' /\ ~Pushed(n) /\ ~Pushed(n)'
  BY <1>6, HolderIs DEF IndInv
<1>8. kind = "thread"
  BY <1>4, <1>7 DEF IsPlaced
<1>9. freeListRefs[n] = Count(n) /\ Count(n) \in Nat /\ Count(n) < S
  BY <1>4, <1>7, <1>8, CountFits DEF RefsAre, IndInv
<1>10. Count(n)' \in Nat /\ Count(n)' = Count(n) - 2 /\ Count(n) >= 2
  <2>1. Count(n) \in Nat /\ Count(n)' \in Nat /\ Count(n)' = Count(n) - 1 - 1
    BY <1>5, <1>6, CountStep
  <2> QED
    BY <2>1
<1>11. /\ freeListRefs'[n] = (Count(n) - 2) % (2 * S)
       /\ \A m \in Nodes \ {n} : freeListRefs'[m] = freeListRefs[m]
  <2>1. freeListRefs'[n] = (freeListRefs[n] + (-2)) % (2 * S)
    BY <1>1, <1>3, AddedIs DEF IndInv
  <2>2. \A m \in Nodes \ {n} : freeListRefs'[m] = freeListRefs[m]
    BY <1>1, <1>3, AddedIs DEF IndInv
  <2>3. Count(n) + (-2) = Count(n) - 2
    BY <1>9
  <2> QED
    BY <1>9, <2>1, <2>2, <2>3
<1>12. freeListRefs'[n] = Count(n)'
  BY <1>9, <1>10, <1>11, Bits
<1>13. IsPlaced(n, "used")' /\ RefsAre(n, "used")'
  BY <1>1, <1>3, <1>4, <1>5, <1>7, <1>8, <1>12 DEF IsPlaced, RefsAre
<1>14. \A m \in Nodes \ {n} : Untouched(t, m)
  BY <1>1, <1>2, <1>3, <1>5, <1>11 DEF Untouched, IsAt, Referring, Keeping, Pushing
<1> QED
  BY <1>1, <1>2, <1>5, <1>13, <1>14, TouchStep DEF Kinds, Holding, Keeping, Pushing

(* The last reference but the bit: the thread pushes the node.             *)
LEMMA ReleaseStep ==
  ASSUME IndInv, NEW t \in Threads, Release(t), TypeOK', StepOf(t)
  PROVE  IndInv'
<1>1. /\ pc[t] = "release" /\ freeListRefs' = Added(node[t], -1)
      /\ UNCHANGED <<freeListHead, freeListNext, fresh, used>>
  BY DEF Release
<1>2. pc \in [Threads -> Steps] /\ seen[t] \in Nodes \union {Null}
  BY DEF IndInv, TypeOK
<1>3. PICK n \in Nodes : n = node[t] /\ \E kind \in Kinds : IsPlaced(n, kind) /\ RefsAre(n, kind)
  BY <1>1, NodeIs
<1>4. PICK kind \in Kinds : IsPlaced(n, kind) /\ RefsAre(n, kind)
  BY <1>3
<1>5. HasList' /\ Listed' = Listed
  BY <1>1, ListStays DEF IndInv
<1>6. IsAt(t, Referring, n) /\ \A steps \in {Keeping, Pushing, Holding} : ~IsAt(t, steps, n)
  BY <1>1, <1>3 DEF IsAt, Referring, Keeping, Pushing, Holding
<1>7. ~Pushed(n)
  BY <1>4, <1>6, PushedIs
<1>8. Count(n) \in Nat /\ Count(n) < S
  BY <1>4, CountFits DEF IndInv
<1>9. /\ freeListRefs'[n] = (freeListRefs[n] + (-1)) % (2 * S)
      /\ \A m \in Nodes \ {n} : freeListRefs'[m] = freeListRefs[m]
  BY <1>1, <1>3, AddedIs DEF IndInv
<1>10. pc'[t] \in {"push", "idle", "refs"} /\ pc'[t] \notin Referring \union Keeping
  <2>1. GoTo(t, "push") \/ Loop(t, seen[t])
    BY DEF Release
  <2> QED
    BY <1>2, <2>1, LoopIs DEF IndInv, GoTo, Referring, Keeping
<1>11. Count(n)' \in Nat /\ Count(n)' = Count(n) - 1 /\ Count(n) >= 1
  <2>1. ~IsAt(t, Referring, n)' /\ ~IsAt(t, Keeping, n)'
    BY <1>10 DEF IsAt
  <2>2. Count(n) \in Nat /\ Count(n)' \in Nat /\ Count(n)' = Count(n) - 1
    BY <1>5, <1>6, <2>1, CountStep
  <2> QED
    BY <2>2
<1>12. S \in Nat /\ S > 0
  BY SNat
<1>13. CASE freeListRefs[n] = S + 1 /\ GoTo(t, "push") /\ UNCHANGED node
  <2>1. kind = "referred" /\ Count(n) = 1
    BY <1>4, <1>7, <1>8, <1>12, <1>13 DEF RefsAre
  <2>2. Count(n)' = 0 /\ freeListRefs'[n] = S
    <3>1. freeListRefs'[n] = (0 + S) % (2 * S)
      BY <1>9, <1>12, <1>13
    <3>2. (0 + S) % (2 * S) = 0 + S
      BY <1>12, Bits
    <3> QED
      BY <1>11, <1>12, <2>1, <3>1, <3>2
  <2>3. pc'[t] = "push" /\ node'[t] = n
    BY <1>2, <1>3, <1>13 DEF GoTo
  <2>4. Held(n)' /\ Pushed(n)'
    BY <2>3 DEF Held, Pushed, IsAt, Holding, Pushing
  <2>5. ~Held(n)
    BY <1>4, <2>1 DEF IsPlaced
  <2>6. IsPlaced(n, "thread")' /\ RefsAre(n, "thread")'
    BY <1>1, <1>4, <1>5, <2>1, <2>2, <2>4 DEF IsPlaced, RefsAre
  <2>7. \A m \in Nodes \ {n} : Untouched(t, m)
    BY <1>1, <1>3, <1>5, <1>9, <2>3 DEF Untouched, IsAt
  <2> QED
    BY <1>1, <1>5, <2>3, <2>5, <2>6, <2>7, TouchStep DEF Kinds
<1>14. CASE freeListRefs[n] # S + 1 /\ Loop(t, seen[t])
  <2>1. pc'[t] \in {"idle", "refs"}
    BY <1>2, <1>14, LoopIs DEF IndInv
  <2>2. \A steps \in {Referring, Keeping, Pushing, Holding} : \A m : ~IsAt(t, steps, m)'
    BY <2>1 DEF IsAt, Referring, Keeping, Pushing, Holding
  <2>3. (Held(n)' <=> Held(n)) /\ ~Pushed(n)'
    BY <1>6, <1>7, <2>2, NoHolderIs
  <2>4. RefsAre(n, kind)'
    <3>1. CASE kind = "referred" /\ freeListRefs[n] = Count(n) + S
      <4>1. Count(n)' > 0
        BY <1>8, <1>11, <1>12, <1>14, <3>1
      <4>2. freeListRefs'[n] = Count(n)' + S
        <5>1. freeListRefs'[n] = (Count(n) + S - 1) % (2 * S)
          BY <1>8, <1>9, <1>12, <3>1
        <5>2. Count(n) + S - 1 = Count(n)' + S
          BY <1>8, <1>11, <1>12
        <5> QED
          BY <1>8, <5>1, <5>2, Bits
      <4> QED
        BY <3>1, <4>1, <4>2 DEF RefsAre
    <3>2. CASE kind # "referred" /\ freeListRefs[n] = Count(n)
      <4>1. freeListRefs'[n] = (Count(n) - 1) % (2 * S)
        BY <1>8, <1>9, <3>2
      <4>2. (Count(n) - 1) % (2 * S) = Count(n) - 1
        BY <1>8, <1>11, Bits
      <4> QED
        BY <1>11, <2>3, <3>2, <4>1, <4>2 DEF RefsAre
    <3> QED
      BY <1>4, <1>7, <3>1, <3>2 DEF RefsAre
  <2>5. IsPlaced(n, kind)'
    BY <1>1, <1>4, <1>5, <2>3 DEF IsPlaced
  <2>6. \A m \in Nodes \ {n} : Untouched(t, m)
    BY <1>1, <1>3, <1>5, <1>9, <2>2 DEF Untouched, IsAt, Referring, Keeping, Pushing
  <2> QED
    BY <1>1, <1>5, <2>1, <2>4, <2>5, <2>6, TouchStep DEF Holding, Keeping, Pushing
<1> QED
  BY <1>3, <1>13, <1>14 DEF Release, S

(* The link of a node that is being pushed changes: nobody goes by it, and *)
(* the list does not lead through it.                                      *)
LEMMA LinkStep ==
  ASSUME IndInv, NEW t \in Threads, Link(t), TypeOK', StepOf(t)
  PROVE  IndInv'
<1>1. /\ pc[t] = "link" /\ freeListNext' = [freeListNext EXCEPT ![node[t]] = link[t]]
      /\ UNCHANGED <<freeListHead, freeListRefs, fresh, used, node, refs, link>>
  BY DEF Link
<1>2. pc'[t] = "count"
  BY DEF Link, GoTo, IndInv, TypeOK
<1>3. PICK n \in Nodes : n = node[t] /\ \E kind \in Kinds : IsPlaced(n, kind) /\ RefsAre(n, kind)
  BY <1>1, NodeIs
<1>4. PICK kind \in Kinds : IsPlaced(n, kind) /\ RefsAre(n, kind)
  BY <1>3
<1>5. Pushed(n) /\ IsAt(t, Holding, n)
  BY <1>1, <1>3 DEF Pushed, IsAt, Pushing, Holding
<1>6. kind = "thread" /\ \A u \in Threads : ~IsAt(u, Referring, n)
  BY <1>4, <1>5, PushedIs
<1>7. freeListNext'[n] = link[t] /\ \A m \in Nodes \ {n} : freeListNext'[m] = freeListNext[m]
  BY <1>1, <1>3 DEF IndInv, TypeOK
<1>8. HasList' /\ Listed' = Listed
  <2>1. n \notin Listed
    BY <1>4, <1>6 DEF IsPlaced
  <2>2. \A m \in Listed : freeListNext'[m] = freeListNext[m]
    BY <1>1, <1>3, <2>1 DEF IndInv, TypeOK
  <2> QED
    BY <1>1, <2>2, ListStays DEF IndInv
<1>9. NodesOK'
  <2>1. \A m : Untouched(t, m)
    BY <1>1, <1>2, <1>8 DEF Untouched, IsAt, Referring, Keeping, Pushing
  <2> QED
    BY <2>1, NodeStays DEF IndInv, NodesOK
<1>10. OneHolder'
  BY <1>1, HolderStays DEF IndInv, Holding, Pushing
<1>11. LocalsOK'
  <2> SUFFICES ASSUME NEW u \in Threads
               PROVE  /\ pc'[u] = "acquire" => REFS_MASK(refs'[u]) # 0
                      /\ pc'[u] \in {"pop", "count", "put"} => link'[u] = freeListNext'[node'[u]]
    BY DEF LocalsOK, REFS_MASK
  <2>1. CASE u = t
    BY <1>1, <1>2, <1>3, <1>7, <2>1
  <2>2. CASE u # t
    <3>1. pc'[u] = pc[u] /\ node'[u] = node[u] /\ link'[u] = link[u] /\ refs'[u] = refs[u]
      BY <2>2 DEF StepOf
    <3>2. ASSUME pc[u] \in {"pop", "count", "put"}
          PROVE  link[u] = freeListNext'[node[u]]
      <4>1. node[u] \in Nodes
        BY <3>2 DEF IndInv, TypeOK
      <4>2. node[u] # n
        BY <1>5, <1>6, <2>2, <3>2 DEF IndInv, OneHolder, IsAt, Referring, Holding, Keeping, Pushing
      <4> QED
        BY <1>7, <3>2, <4>1, <4>2 DEF IndInv, LocalsOK
    <3> QED
      BY <3>1, <3>2 DEF IndInv, LocalsOK
  <2> QED
    BY <2>1, <2>2
<1> QED
  BY <1>8, <1>9, <1>10, <1>11 DEF IndInv

(* The list's reference, and the bit is cleared.                           *)
LEMMA SetRefsStep ==
  ASSUME IndInv, NEW t \in Threads, SetRefs(t), TypeOK', StepOf(t)
  PROVE  IndInv'
<1>1. /\ pc[t] = "count" /\ freeListRefs' = [freeListRefs EXCEPT ![node[t]] = 1]
      /\ UNCHANGED <<freeListHead, freeListNext, fresh, used, node, refs, link>>
  BY DEF SetRefs
<1>2. pc'[t] = "put"
  BY DEF SetRefs, GoTo, IndInv, TypeOK
<1>3. PICK n \in Nodes : n = node[t] /\ \E kind \in Kinds : IsPlaced(n, kind) /\ RefsAre(n, kind)
  BY <1>1, NodeIs
<1>4. PICK kind \in Kinds : IsPlaced(n, kind) /\ RefsAre(n, kind)
  BY <1>3
<1>5. HasList' /\ Listed' = Listed
  BY <1>1, ListStays DEF IndInv
<1>6. /\ IsAt(t, Pushing, n) /\ IsAt(t, Holding, n) /\ ~IsAt(t, Referring, n) /\ ~IsAt(t, Keeping, n)
      /\ IsAt(t, Keeping, n)' /\ IsAt(t, Holding, n)' /\ ~IsAt(t, Referring, n)' /\ ~IsAt(t, Pushing, n)'
  BY <1>1, <1>2, <1>3 DEF IsAt, Referring, Keeping, Pushing, Holding
<1>7. Held(n)' /\ Pushed(n) /\ ~Pushed(n)'
  BY <1>6, HolderIs DEF IndInv
<1>8. kind = "thread" /\ Count(n) = 0
  BY <1>4, <1>7, PushedIs
<1>9. Count(n)' = 1
  <2>1. Count(n)' = Count(n) + 1
    BY <1>5, <1>6, CountStep
  <2> QED
    BY <1>8, <2>1
<1>10. freeListRefs'[n] = 1 /\ \A m \in Nodes \ {n} : freeListRefs'[m] = freeListRefs[m]
  BY <1>1, <1>3 DEF IndInv, TypeOK
<1>11. IsPlaced(n, "thread")' /\ RefsAre(n, "thread")'
  BY <1>1, <1>4, <1>5, <1>7, <1>8, <1>9, <1>10 DEF IsPlaced, RefsAre
<1>12. \A m \in Nodes \ {n} : Untouched(t, m)
  BY <1>1, <1>3, <1>5, <1>10 DEF Untouched, IsAt
<1>13. link'[t] = freeListNext[node'[t]]
  BY <1>1 DEF IndInv, LocalsOK
<1> QED
  BY <1>1, <1>2, <1>5, <1>11, <1>12, <1>13, TouchStep DEF Kinds, Holding, Pushing

(* The node goes before the head it leads to.                              *)
LEMMA PutStep ==
  ASSUME IndInv, NEW t \in Threads, Put(t), TypeOK', StepOf(t)
  PROVE  IndInv'
<1>1. pc[t] = "put" /\ UNCHANGED <<freeListRefs, freeListNext, fresh, used>>
  BY DEF Put
<1>2. pc \in [Threads -> Steps] /\ seen[t] \in Nodes \union {Null}
  BY DEF IndInv, TypeOK
<1>3. CASE UNCHANGED <<freeListHead, node, refs>> /\ GoTo(t, "unput")
  <2>1. pc'[t] = "unput"
    BY <1>2, <1>3 DEF GoTo
  <2> QED
    BY <1>1, <1>3, <2>1, QuietStep DEF Sets, Referring, Keeping, Pushing
<1>4. CASE freeListHead = link[t] /\ freeListHead' = node[t] /\ Loop(t, seen[t])
  <2>1. PICK n \in Nodes : n = node[t] /\ \E kind \in Kinds : IsPlaced(n, kind) /\ RefsAre(n, kind)
    BY <1>1, NodeIs
  <2>2. PICK kind \in Kinds : IsPlaced(n, kind) /\ RefsAre(n, kind)
    BY <2>1
  <2>3. pc'[t] \in {"idle", "refs"}
    BY <1>2, <1>4, LoopIs DEF IndInv
  <2>4. /\ IsAt(t, Keeping, n) /\ IsAt(t, Holding, n) /\ ~IsAt(t, Pushing, n) /\ ~IsAt(t, Referring, n)
        /\ \A steps \in {Referring, Keeping, Pushing, Holding} : ~IsAt(t, steps, n)'
    BY <1>1, <2>1, <2>3 DEF IsAt, Referring, Keeping, Pushing, Holding
  <2>5. Held(n) /\ ~Held(n)' /\ ~Pushed(n) /\ ~Pushed(n)'
    BY <2>4, HolderIs DEF IndInv
  <2>6. kind = "thread" /\ n \notin Listed
    BY <2>2, <2>5 DEF IsPlaced
  <2>7. HasList' /\ Listed' = Listed \union {n}
    <3>1. freeListNext[n] = freeListHead
      BY <1>1, <1>4, <2>1 DEF IndInv, LocalsOK
    <3> QED
      BY <1>1, <1>4, <2>1, <2>6, <3>1, ListPuts DEF IndInv
  <2>8. Count(n)' = Count(n)
    <3>1. n \in Listed'
      BY <2>7
    <3> QED
      BY <2>4, <2>6, <3>1, CountStep
  <2>9. IsPlaced(n, "list")' /\ RefsAre(n, "list")'
    BY <1>1, <2>2, <2>5, <2>6, <2>7, <2>8 DEF IsPlaced, RefsAre
  <2>10. \A m \in Nodes \ {n} : Untouched(t, m)
    BY <1>1, <2>1, <2>3, <2>7 DEF Untouched, IsAt, Referring, Keeping, Pushing
  <2> QED
    BY <1>1, <2>3, <2>7, <2>9, <2>10, TouchStep DEF Kinds, Holding, Keeping, Pushing
<1> QED
  BY <1>3, <1>4 DEF Put

(* The push failed: the list's reference is taken back, and the bit set.   *)
LEMMA UnputStep ==
  ASSUME IndInv, NEW t \in Threads, Unput(t), TypeOK', StepOf(t)
  PROVE  IndInv'
<1>1. /\ pc[t] = "unput" /\ freeListRefs' = Added(node[t], S - 1)
      /\ UNCHANGED <<freeListHead, freeListNext, fresh, used>>
  BY DEF Unput, S
<1>2. pc \in [Threads -> Steps] /\ seen[t] \in Nodes \union {Null}
  BY DEF IndInv, TypeOK
<1>3. PICK n \in Nodes : n = node[t] /\ \E kind \in Kinds : IsPlaced(n, kind) /\ RefsAre(n, kind)
  BY <1>1, NodeIs
<1>4. PICK kind \in Kinds : IsPlaced(n, kind) /\ RefsAre(n, kind)
  BY <1>3
<1>5. HasList' /\ Listed' = Listed
  BY <1>1, ListStays DEF IndInv
<1>6. /\ IsAt(t, Keeping, n) /\ IsAt(t, Holding, n) /\ ~IsAt(t, Pushing, n) /\ ~IsAt(t, Referring, n)
  BY <1>1, <1>3 DEF IsAt, Referring, Keeping, Pushing, Holding
<1>7. Held(n) /\ ~Pushed(n)
  BY <1>6, HolderIs DEF IndInv
<1>8. kind = "thread"
  BY <1>4, <1>7 DEF IsPlaced
<1>9. freeListRefs[n] = Count(n) /\ Count(n) \in Nat /\ Count(n) < S
  BY <1>4, <1>7, <1>8, CountFits DEF RefsAre, IndInv
<1>10. S \in Nat /\ S - 1 \in Int
  BY SNat
<1>11. /\ freeListRefs'[n] = Count(n) + S - 1
       /\ \A m \in Nodes \ {n} : freeListRefs'[m] = freeListRefs[m]
  <2>1. freeListRefs'[n] = (freeListRefs[n] + (S - 1)) % (2 * S)
    BY <1>1, <1>3, <1>10, AddedIs DEF IndInv
  <2>2. \A m \in Nodes \ {n} : freeListRefs'[m] = freeListRefs[m]
    BY <1>1, <1>3, <1>10, AddedIs DEF IndInv
  <2>3. Count(n) + (S - 1) = Count(n) + S - 1
    BY <1>9, <1>10
  <2> QED
    BY <1>9, <2>1, <2>2, <2>3, Bits
<1>12. pc'[t] \in {"link", "idle", "refs"} /\ pc'[t] \notin Referring \union Keeping
  <2>1. GoTo(t, "link") \/ Loop(t, seen[t])
    BY DEF Unput
  <2> QED
    BY <1>2, <2>1, LoopIs DEF IndInv, GoTo, Referring, Keeping
<1>13. Count(n)' \in Nat /\ Count(n)' = Count(n) - 1 /\ Count(n) >= 1
  <2>1. ~IsAt(t, Referring, n)' /\ ~IsAt(t, Keeping, n)'
    BY <1>12 DEF IsAt
  <2>2. Count(n) \in Nat /\ Count(n)' \in Nat /\ Count(n)' = Count(n) - 1
    BY <1>5, <1>6, <2>1, CountStep
  <2> QED
    BY <2>2
<1>14. CASE freeListRefs[n] = 1 /\ GoTo(t, "link") /\ UNCHANGED node
  <2>1. pc'[t] = "link" /\ node'[t] = n
    BY <1>2, <1>3, <1>14 DEF GoTo
  <2>2. Count(n)' = 0 /\ freeListRefs'[n] = S
    BY <1>9, <1>10, <1>11, <1>13, <1>14
  <2>3. Held(n)' /\ Pushed(n)'
    BY <2>1 DEF Held, Pushed, IsAt, Holding, Pushing
  <2>4. IsPlaced(n, "thread")' /\ RefsAre(n, "thread")'
    BY <1>1, <1>4, <1>5, <1>8, <2>2, <2>3 DEF IsPlaced, RefsAre
  <2>5. \A m \in Nodes \ {n} : Untouched(t, m)
    BY <1>1, <1>3, <1>5, <1>11, <2>1 DEF Untouched, IsAt
  <2> QED
    BY <1>1, <1>3, <1>5, <2>1, <2>4, <2>5, TouchStep DEF Kinds, Holding, Keeping
<1>15. CASE freeListRefs[n] # 1 /\ Loop(t, seen[t])
  <2>1. pc'[t] \in {"idle", "refs"}
    BY <1>2, <1>15, LoopIs DEF IndInv
  <2>2. \A steps \in {Referring, Keeping, Pushing, Holding} : \A m : ~IsAt(t, steps, m)'
    BY <2>1 DEF IsAt, Referring, Keeping, Pushing, Holding
  <2>3. ~Held(n)' /\ ~Pushed(n)'
    BY <1>6, <2>2, HolderIs DEF IndInv
  <2>4. Count(n)' > 0 /\ freeListRefs'[n] = Count(n)' + S
    BY <1>9, <1>10, <1>11, <1>13, <1>15
  <2>5. IsPlaced(n, "referred")' /\ RefsAre(n, "referred")'
    BY <1>1, <1>4, <1>5, <1>8, <2>3, <2>4 DEF IsPlaced, RefsAre
  <2>6. \A m \in Nodes \ {n} : Untouched(t, m)
    BY <1>1, <1>3, <1>5, <1>11, <2>2 DEF Untouched, IsAt, Referring, Keeping, Pushing
  <2> QED
    BY <1>1, <1>5, <2>1, <2>5, <2>6, TouchStep DEF Kinds, Holding, Keeping, Pushing
<1> QED
  BY <1>3, <1>14, <1>15 DEF Unput

(* Steps that read: calls begin and go round their loops.                  *)
LEMMA ReadStep ==
  ASSUME IndInv, NEW t \in Threads, TypeOK', StepOf(t),
         TryGet(t) \/ ReadRefs(t) \/ ReadHeadAgain(t) \/ ReadNext(t) \/ ReadHead(t)
  PROVE  IndInv'
<1>0. UNCHANGED <<freeListHead, freeListRefs, freeListNext, fresh, used>>
  BY DEF TryGet, ReadRefs, ReadHeadAgain, ReadNext, ReadHead, shared
<1>t. TypeOK /\ pc \in [Threads -> Steps] /\ freeListHead \in Nodes \union {Null}
  BY DEF IndInv, TypeOK
<1>1. CASE TryGet(t) \/ ReadHeadAgain(t)
  <2>1. pc[t] \in {"idle", "head"} /\ pc'[t] \in {"idle", "refs"}
    BY <1>t, <1>1, LoopIs DEF TryGet, ReadHeadAgain
  <2> QED
    BY <1>0, <2>1, QuietStep DEF Sets, Referring, Keeping, Pushing
<1>2. CASE ReadRefs(t)
  <2>1. pc[t] = "refs" /\ pc'[t] \in {"head", "acquire"}
    BY <1>t, <1>2 DEF ReadRefs, GoTo
  <2>2. pc'[t] = "acquire" => REFS_MASK(refs'[t]) # 0
    BY <1>t, <1>2 DEF ReadRefs, GoTo, TypeOK
  <2> QED
    BY <1>0, <2>1, <2>2, QuietStep DEF Sets, Referring, Keeping, Pushing
<1>3. CASE ReadNext(t)
  <2>1. pc[t] = "next" /\ pc'[t] = "pop" /\ node'[t] = node[t]
    BY <1>t, <1>3 DEF ReadNext, GoTo
  <2>2. link'[t] = freeListNext[node'[t]]
    BY <1>3 DEF ReadNext, IndInv, TypeOK
  <2> QED
    BY <1>0, <2>1, <2>2, QuietStep DEF Sets, Referring, Keeping, Pushing
<1>4. CASE ReadHead(t)
  <2>1. pc[t] = "push" /\ pc'[t] = "link" /\ node'[t] = node[t]
    BY <1>t, <1>4 DEF ReadHead, GoTo
  <2> QED
    BY <1>0, <2>1, QuietStep DEF Sets, Referring, Keeping, Pushing
<1> QED
  BY <1>1, <1>2, <1>3, <1>4

-----------------------------------------------------------------------------
(* At first nobody is in a call and no node is on the list.                *)
LEMMA InitOK ==
  ASSUME Init
  PROVE  IndInv
<1>1. TypeOK
  <2>1. 0 \in 0 .. 2 * S - 1
    BY SNat
  <2> QED
    BY <2>1 DEF Init, TypeOK, Steps, S
<1>2. << >> \in Lists /\ IsList(<< >>)
  <2>1. 0 \in Nat /\ << >> \in [1 .. 0 -> Nodes]
    OBVIOUS
  <2>2. 0 \in 0 .. Cardinality(Nodes)
    BY FreeListAssumption, FS_CardinalityType
  <2> QED
    BY <2>1, <2>2 DEF Lists, IsList, IsListFrom, Init
<1>3. Listed = {}
  BY <1>2, ListIs DEF Listed
<1>4. \A t \in Threads : pc[t] = "idle"
  BY DEF Init
<1>5. NodesOK
  <2> SUFFICES ASSUME NEW n \in Nodes
               PROVE  IsPlaced(n, "fresh") /\ RefsAre(n, "fresh")
    BY DEF NodesOK, Kinds
  <2>1. ~Held(n) /\ ~Pushed(n)
    BY <1>4 DEF Held, Pushed, IsAt, Holding, Keeping, Pushing
  <2>2. Count(n) = 0
    <3>1. At(Referring, n) = {} /\ At(Keeping, n) = {}
      BY <1>4 DEF At, Referring, Keeping
    <3> QED
      BY <1>3, <3>1, CountIs, FS_EmptySet
  <2> QED
    BY <1>3, <2>1, <2>2 DEF IsPlaced, RefsAre, Init
<1>6. OneHolder /\ LocalsOK
  BY <1>4 DEF OneHolder, LocalsOK, Holding, Keeping, Pushing
<1> QED
  BY <1>1, <1>2, <1>5, <1>6 DEF IndInv, HasList

(* Every step keeps the invariant.                                         *)
LEMMA StepOK ==
  ASSUME IndInv, [Next]_vars
  PROVE  IndInv'
<1>1. CASE UNCHANGED vars
  <2>0. /\ UNCHANGED <<freeListHead, freeListRefs, freeListNext, fresh, used>>
        /\ UNCHANGED <<pc, node, refs, link, seen>>
    BY <1>1 DEF vars, shared, locals
  <2>1. HasList' /\ Listed' = Listed
    BY <2>0, ListStays DEF IndInv
  <2>2. ASSUME NEW n \in Nodes
        PROVE  (Held(n)' <=> Held(n)) /\ (Pushed(n)' <=> Pushed(n)) /\ Count(n)' = Count(n)
    BY <2>0, <2>1 DEF Held, Pushed, IsAt, Count, At
  <2>3. NodesOK'
    BY <2>0, <2>1, <2>2 DEF IndInv, NodesOK, IsPlaced, RefsAre
  <2>4. TypeOK' /\ OneHolder' /\ LocalsOK'
    BY <2>0 DEF IndInv, TypeOK, OneHolder, LocalsOK, REFS_MASK
  <2> QED
    BY <2>1, <2>3, <2>4 DEF IndInv
<1>2. ASSUME NEW t \in Threads, Step(t) PROVE IndInv'
  <2>1. TypeOK' /\ StepOf(t)
    BY <1>2, TypeStep DEF IndInv
  <2> QED
    BY <1>2, <2>1, TakeFreshStep, AddStep, ReadStep, AcquireStep, PopStep, GotStep,
       ReleaseStep, LinkStep, SetRefsStep, PutStep, UnputStep DEF Step, Work
<1> QED
  BY <1>1, <1>2 DEF Next, Step

(* The invariant says that each node is in one place.                      *)
LEMMA PlacesIs ==
  ASSUME IndInv, NEW n \in Nodes
  PROVE  Cardinality(Places(n)) = 1
<1>1. PICK kind \in Kinds : IsPlaced(n, kind) /\ RefsAre(n, kind)
  BY DEF IndInv, NodesOK
<1> DEFINE Fresh    == {<<"fresh", x>> : x \in fresh \intersect {n}}
           Used     == {<<"used", x>>  : x \in used \intersect {n}}
           OnList   == {<<"list", k>>  : k \in {k \in DOMAIN List : List[k] = n}}
           Thread   == {<<"thread", t>> : t \in At(Holding, n)}
           Referred == {<<"referred", x>> : x \in {x \in {n} : freeListRefs[x] > S}}
<1>2. Places(n) = Fresh \union Used \union OnList \union Thread \union Referred
  <2>1. Holding = {"got", "push", "link", "count", "put", "unput"}
    BY DEF Holding, Keeping, Pushing
  <2> QED
    BY <2>1 DEF Places, S
<1>3. Fresh = IF kind = "fresh" THEN {<<"fresh", n>>} ELSE {}
  BY <1>1 DEF IsPlaced
<1>4. Used = IF kind = "used" THEN {<<"used", n>>} ELSE {}
  BY <1>1 DEF IsPlaced
<1>5. \E x : OnList = IF kind = "list" THEN {x} ELSE {}
  <2>1. IsList(List)
    BY DEF List, IndInv, HasList
  <2>2. CASE kind = "list"
    <3>1. PICK k \in DOMAIN List : List[k] = n
      BY <1>1, <2>2 DEF IsPlaced, Listed
    <3>2. {j \in DOMAIN List : List[j] = n} = {k}
      BY <2>1, <3>1 DEF IsList, IsListFrom
    <3>3. OnList = {<<"list", k>>}
      BY <3>2
    <3> QED
      BY <2>2, <3>3
  <2>3. CASE kind # "list"
    <3>1. {j \in DOMAIN List : List[j] = n} = {}
      BY <1>1, <2>3 DEF IsPlaced, Listed
    <3>2. OnList = {}
      BY <3>1
    <3> QED
      BY <2>3, <3>2
  <2> QED
    BY <2>2, <2>3
<1>6. \E x : Thread = IF kind = "thread" THEN {x} ELSE {}
  <2>1. CASE kind = "thread"
    <3>1. PICK t \in Threads : IsAt(t, Holding, n)
      BY <1>1, <2>1 DEF IsPlaced, Held
    <3>2. At(Holding, n) = {t}
      BY <3>1 DEF At, IsAt, IndInv, OneHolder
    <3>3. Thread = {<<"thread", t>>}
      BY <3>2
    <3> QED
      BY <2>1, <3>3
  <2>2. CASE kind # "thread"
    <3>1. At(Holding, n) = {}
      BY <1>1, <2>2 DEF IsPlaced, Held, At, IsAt
    <3>2. Thread = {}
      BY <3>1
    <3> QED
      BY <2>2, <3>2
  <2> QED
    BY <2>1, <2>2
<1>7. Referred = IF kind = "referred" THEN {<<"referred", n>>} ELSE {}
  <2>0. Count(n) \in Nat /\ Count(n) < S
    BY <1>1, CountFits DEF IndInv
  <2>1. S \in Nat
    BY SNat
  <2>2. freeListRefs[n] > S <=> kind = "referred"
    <3>1. Pushed(n) => kind = "thread"
      BY <1>1, PushedIs
    <3> QED
      BY <1>1, <2>0, <2>1, <3>1 DEF RefsAre
  <2> QED
    BY <2>2
<1>8. \E x : Places(n) = {x}
  <2> HIDE DEF Fresh, Used, OnList, Thread, Referred
  <2> QED
    BY <1>2, <1>3, <1>4, <1>5, <1>6, <1>7 DEF Kinds
<1> QED
  BY <1>8, FS_Singleton

(* ... and that the count in its word is exact.                            *)
LEMMA CountIsRefs ==
  ASSUME IndInv, NEW n \in Nodes
  PROVE  REFS_MASK(freeListRefs[n]) = Count(n)
<1>1. PICK kind \in Kinds : IsPlaced(n, kind) /\ RefsAre(n, kind)
  BY DEF IndInv, NodesOK
<1>2. Count(n) \in Nat /\ Count(n) < S
  BY <1>1, CountFits DEF IndInv
<1>3. S \in Nat
  BY SNat
<1>4. Count(n) % S = Count(n) /\ (Count(n) + S) % S = Count(n)
  BY <1>2, <1>3, ModSmall, ModOnce
<1>5. freeListRefs[n] = Count(n) + S \/ freeListRefs[n] = Count(n)
  BY <1>1, <1>2, <1>3 DEF RefsAre
<1> QED
  BY <1>4, <1>5 DEF REFS_MASK, S

-----------------------------------------------------------------------------
(* The invariant holds always.                                             *)
LEMMA Invariant == Spec => []IndInv
<1>1. Init => IndInv
  BY InitOK
<1>2. IndInv /\ [Next]_vars => IndInv'
  BY StepOK
<1> QED
  BY <1>1, <1>2, PTL DEF Spec

(* Every variable has its type: no word of references overflows its 32     *)
(* bits, and a thread in a call is at a node.                              *)
THEOREM TypeCorrect == Spec => []TypeOK
<1>1. IndInv => TypeOK
  BY DEF IndInv
<1> QED
  BY <1>1, Invariant, PTL

(* The list has an end, and each node is in one place only, whatever the   *)
(* threads do: none is handed out twice and none is lost.                  *)
THEOREM NodesStayAccounted == Spec => []NodesAccounted
<1>1. IndInv => NodesAccounted
  BY PlacesIs DEF IndInv, HasList, NodesAccounted
<1> QED
  BY <1>1, Invariant, PTL

(* The count of a node is the number of its references.                    *)
THEOREM RefsStayExact == Spec => []RefsExact
<1>1. IndInv => RefsExact
  BY CountIsRefs DEF RefsExact, Count, Referring, Keeping
<1> QED
  BY <1>1, Invariant, PTL

(* A pop that succeeds puts in the node's present successor, however often *)
(* the node was away since the thread read it, and takes no node that is   *)
(* to go back on the list.                                                 *)
THEOREM PopStaysSafe == Spec => []PopIsSafe
<1>1. ASSUME IndInv, NEW t \in Threads, pc[t] = "got"
      PROVE  freeListRefs[node[t]] < S
  <2>1. PICK n \in Nodes : n = node[t] /\ \E kind \in Kinds : IsPlaced(n, kind) /\ RefsAre(n, kind)
    BY <1>1, NodeIs
  <2>2. PICK kind \in Kinds : IsPlaced(n, kind) /\ RefsAre(n, kind)
    BY <2>1
  <2>3. IsAt(t, Holding, n) /\ ~IsAt(t, Pushing, n)
    BY <1>1, <2>1 DEF IsAt, Holding, Keeping, Pushing
  <2>4. Held(n) /\ ~Pushed(n)
    BY <1>1, <2>3 DEF IndInv, Held, Pushed, OneHolder, IsAt, Holding
  <2>5. freeListRefs[n] = Count(n)
    BY <2>2, <2>4 DEF IsPlaced, RefsAre
  <2> QED
    BY <1>1, <2>1, <2>2, <2>5, CountFits DEF IndInv
<1>2. IndInv => PopIsSafe
  BY <1>1 DEF PopIsSafe, IndInv, LocalsOK, S
<1> QED
  BY <1>2, Invariant, PTL
=============================================================================
