------------------------ MODULE ProducerTableProofs ------------------------
(***************************************************************************)
(* That ProducerTable keeps its properties, for any threads, any hash of   *)
(* their ids and any number of calls: the type invariant, OneOwner,        *)
(* OneProducer and ProducersAreRecycled.                                   *)
(*                                                                         *)
(* None of them is inductive.  The invariant, IndInv, says besides where   *)
(* the search for an id ends (SlotsOK), who is counted (CountOK), what a   *)
(* thread has found out so far (ProbeFits, StageFits, ScanFits) and who    *)
(* owns what (OwnersOK).  Its parts are lemmas in this order: the tables   *)
(* and what the three ways to change one do; the count; the types; the     *)
(* owners and the threads on their way through the list; a step of one     *)
(* thread as the others see it; then one lemma per action.                 *)
(***************************************************************************)
EXTENDS ProducerTable, FiniteSetTheorems, SequenceTheorems, WellFoundedInduction, TLAPS

(* What is entered for thread t in table h.                                *)
Keyed(t, h) == \E s \in DOMAIN tables[h].entries : tables[h].entries[s].key = t

TablesOK ==
  /\ tables \in Seq({tables[h] : h \in DOMAIN tables})
  /\ tables # << >>
  /\ \A h \in DOMAIN tables : IsTable(tables[h])

(* Slot s is on t's way through table h.                                   *)
IsReached(t, h, s) ==
  \E k \in 0 .. Capacity(h) - 1 : IsAt(t, h, k) /\ Slot(t, h, k) = s

(* The search for a thread's id ends at its entry, of which there is one.  *)
SlotsOK ==
  \A h \in DOMAIN tables : \A s \in DOMAIN tables[h].entries : \A t \in Threads :
    tables[h].entries[s].key = t =>
      /\ IsReached(t, h, s)
      /\ \A r \in DOMAIN tables[h].entries : tables[h].entries[r].key = t => r = s

-----------------------------------------------------------------------------
(* Doubling.                                                               *)
IsDoubling(f, c, n) ==
  f = [k \in 0 .. n |-> 2 * (IF k = 0 THEN c ELSE f[k - 1])]

(* A doubling is continued.                                                *)
LEMMA Extends ==
  ASSUME NEW c \in Nat, NEW n \in Nat, NEW f, IsDoubling(f, c, n)
  PROVE  \E g : IsDoubling(g, c, n + 1)
<1>1. PICK g : g = [k \in 0 .. n + 1 |-> IF k = n + 1 THEN 2 * f[n] ELSE f[k]]
  OBVIOUS
<1>2. \A k \in 0 .. n : f[k] = 2 * (IF k = 0 THEN c ELSE f[k - 1])
  BY DEF IsDoubling
<1>3. ASSUME NEW k \in 0 .. n + 1
      PROVE  g[k] = 2 * (IF k = 0 THEN c ELSE g[k - 1])
  <2>1. CASE k = n + 1
    <3>1. k # 0 /\ k - 1 = n /\ k - 1 \in 0 .. n + 1 /\ k - 1 # n + 1
      BY <2>1
    <3>2. g[k] = 2 * f[n] /\ g[k - 1] = f[n]
      BY <1>1, <2>1, <3>1
    <3> QED
      BY <3>1, <3>2
  <2>2. CASE k = 0
    <3>1. g[k] = f[k] /\ k \in 0 .. n
      BY <1>1, <2>2
    <3> QED
      BY <1>2, <2>2, <3>1
  <2>3. CASE k # n + 1 /\ k # 0
    <3>1. k \in 0 .. n /\ k - 1 \in 0 .. n + 1 /\ k - 1 # n + 1
      BY <2>3
    <3>2. g[k] = f[k] /\ g[k - 1] = f[k - 1]
      BY <1>1, <2>3, <3>1
    <3>3. f[k] = 2 * f[k - 1]
      BY <1>2, <2>3, <3>1
    <3> QED
      BY <2>3, <3>2, <3>3
  <2> QED
    BY <2>1, <2>2, <2>3
<1>4. g = [k \in 0 .. n + 1 |-> g[k]]
  BY <1>1
<1>5. IsDoubling(g, c, n + 1)
  BY <1>3, <1>4 DEF IsDoubling
<1> QED
  BY <1>5

(* There is one of every length.                                           *)
LEMMA DoublingExists ==
  ASSUME NEW c \in Nat, NEW n \in Nat
  PROVE  \E f : IsDoubling(f, c, n)
<1> SUFFICES ASSUME NEW S \in SUBSET Nat, S = {m \in Nat : ~\E f : IsDoubling(f, c, m)},
                    S # {}
             PROVE  FALSE
  BY DEF IsDoubling
<1>1. PICK m \in S : \A a \in S : ~(<<a, m>> \in OpToRel(<, Nat))
  BY NatLessThanWellFounded, WFMin
<1>2. CASE m = 0
  <2>1. [k \in 0 .. 0 |-> 2 * c] =
          [k \in 0 .. 0 |-> 2 * (IF k = 0 THEN c ELSE [j \in 0 .. 0 |-> 2 * c][k - 1])]
    OBVIOUS
  <2>2. IsDoubling([k \in 0 .. 0 |-> 2 * c], c, 0)
    BY <2>1 DEF IsDoubling
  <2> QED
    BY <1>2, <2>2
<1>3. CASE m # 0
  <2>1. m - 1 \in Nat /\ m \in Nat /\ (m - 1) + 1 = m
    BY <1>3
  <2>2. <<m - 1, m>> \in OpToRel(<, Nat)
    BY <2>1 DEF OpToRel
  <2>3. m - 1 \notin S
    BY <1>1, <2>2
  <2>4. PICK f : IsDoubling(f, c, m - 1)
    BY <2>1, <2>3
  <2> QED
    BY <2>1, <2>4, Extends
<1> QED
  BY <1>2, <1>3

(* Its values outgrow every bound: the k-th is at least 2 * (k + 1).       *)
LEMMA Doubles ==
  ASSUME NEW c \in Nat \ {0}, NEW n \in Nat, NEW f, IsDoubling(f, c, n)
  PROVE  \A k \in 0 .. n : f[k] \in Nat /\ f[k] >= 2 * (k + 1)
<1>1. \A k \in 0 .. n : f[k] = 2 * (IF k = 0 THEN c ELSE f[k - 1])
  BY DEF IsDoubling
<1>2. PICK S : S = {m \in 0 .. n : ~(f[m] \in Nat /\ f[m] >= 2 * (m + 1))}
  OBVIOUS
<1>3. SUFFICES ASSUME S # {}
                PROVE  FALSE
  BY <1>2
<1>4. PICK m \in S : \A a \in S : ~(<<a, m>> \in OpToRel(<, Nat))
  <2>1. S \in SUBSET Nat
    BY <1>2
  <2> QED
    BY <1>3, <2>1, NatLessThanWellFounded, WFMin
<1>5. CASE m = 0
  <2>1. f[0] = 2 * c
    BY <1>1
  <2> QED
    BY <1>2, <1>5, <2>1
<1>6. CASE m # 0
  <2>1. m - 1 \in 0 .. n /\ m - 1 \in Nat /\ m \in Nat /\ m - 1 < m /\ m \in 0 .. n
    BY <1>2, <1>6
  <2>2. <<m - 1, m>> \in OpToRel(<, Nat)
    BY <2>1 DEF OpToRel
  <2>3. f[m - 1] \in Nat /\ f[m - 1] >= 2 * ((m - 1) + 1)
    BY <1>2, <1>4, <2>1, <2>2
  <2>4. f[m] = 2 * f[m - 1]
    BY <1>1, <1>6, <2>1
  <2>5. f[m] \in Nat /\ f[m] >= 2 * (m + 1)
    BY <1>6, <2>1, <2>3, <2>4
  <2> QED
    BY <1>2, <2>5
<1> QED
  BY <1>5, <1>6

(* Min of a set of naturals is in it.                                      *)
LEMMA LeastIs ==
  ASSUME NEW S \in SUBSET Nat, S # {}
  PROVE  Min(S) \in S
<1>1. PICK b \in S : \A c \in S : ~(<<c, b>> \in OpToRel(<, Nat))
  BY NatLessThanWellFounded, WFMin
<1>2. \A c \in S : b <= c
  <2>1. ASSUME NEW c \in S
        PROVE  b <= c
    <3>1. b \in Nat /\ c \in Nat
      OBVIOUS
    <3>2. ~(c < b)
      BY <1>1, <3>1 DEF OpToRel
    <3> QED
      BY <3>1, <3>2
  <2> QED
    BY <2>1
<1> QED
  BY <1>2 DEF Min

(* The tables have the numbers 1 .. Main.                                  *)
LEMMA TableIs ==
  ASSUME TablesOK
  PROVE  /\ Main \in Nat \ {0} /\ DOMAIN tables = 1 .. Main
         /\ \A h \in 1 .. Main : Capacity(h) \in Nat \ {0} /\ IsTable(tables[h])
<1>1. Main \in Nat /\ DOMAIN tables = 1 .. Main
  BY DEF TablesOK, Main
<1>2. Main # 0
  BY <1>1 DEF TablesOK, Main
<1> QED
  BY <1>1, <1>2 DEF TablesOK, IsTable, Capacity

(* The new table's capacity.                                               *)
LEMMA NewCapacityIs ==
  ASSUME TablesOK, NEW n \in Nat
  PROVE  NewCapacity(n) \in Nat \ {0}
<1>1. PICK c \in Nat \ {0} : c = Capacity(Main)
  BY TableIs
<1>2. PICK f : f = CHOOSE g : IsDoubling(g, c, n)
  OBVIOUS
<1>3. IsDoubling(f, c, n)
  BY <1>2, DoublingExists
<1>4. NewCapacity(n) = Min({cap \in {f[k] : k \in 0 .. n} : n < cap \div 2})
  BY <1>1, <1>2 DEF NewCapacity, IsDoubling
<1>5. PICK S : S = {cap \in {f[k] : k \in 0 .. n} : n < cap \div 2}
  OBVIOUS
<1>6. \A k \in 0 .. n : f[k] \in Nat /\ f[k] >= 2 * (k + 1)
  BY <1>3, Doubles
<1>7. f[n] \in S
  <2>1. f[n] \in Nat /\ f[n] >= 2 * (n + 1) /\ n \in 0 .. n
    BY <1>6
  <2>2. n < f[n] \div 2
    BY <2>1
  <2> QED
    BY <1>5, <2>1, <2>2
<1>8. S \in SUBSET Nat /\ \A x \in S : x # 0
  BY <1>5, <1>6
<1> QED
  BY <1>4, <1>5, <1>7, <1>8, LeastIs

(* What any step leaves to the searches.                                   *)
TablesGrow ==
  /\ Main <= Main'
  /\ \A h \in 1 .. Main :
       /\ Capacity(h)' = Capacity(h)
       /\ \A s \in Nat : Key(h, s) # Invalid => Key(h, s)' # Invalid

(* A function on 1 .. n is a sequence.                                     *)
LEMMA SeqOf ==
  ASSUME NEW n \in Nat, NEW q, q = [i \in 1 .. n |-> q[i]]
  PROVE  /\ q \in Seq({q[i] : i \in DOMAIN q})
         /\ Len(q) = n /\ DOMAIN q = 1 .. n
<1>1. DOMAIN q = 1 .. n
  OBVIOUS
<1>2. PICK S : S = {q[i] : i \in DOMAIN q}
  OBVIOUS
<1>3. \A i \in 1 .. n : q[i] \in S
  BY <1>1, <1>2
<1>4. q \in [1 .. n -> S]
  BY <1>3
<1>5. q \in Seq(S)
  BY <1>4
<1> QED
  BY <1>1, <1>2, <1>5

(* The slots on a thread's way are slots of the table.                     *)
LEMMA SlotIs ==
  ASSUME TablesOK, NEW t \in Threads, NEW h \in 1 .. Main, NEW k \in Nat
  PROVE  Slot(t, h, k) \in 0 .. Capacity(h) - 1
<1>1. PICK c \in Nat \ {0} : c = Capacity(h)
  BY TableIs
<1>2. PICK n \in Nat : n = HashedId[t] + k
  BY TableAssumption
<1>3. n % c \in 0 .. c - 1
  OBVIOUS
<1> QED
  BY <1>1, <1>2, <1>3 DEF Slot

(* A slot of one table is written.                                         *)
LEMMA WriteIs ==
  ASSUME TablesOK, NEW h \in 1 .. Main, NEW s \in 0 .. Capacity(h) - 1,
         NEW e \in Entry, tables' = Entered(h, s, e), inactive' = inactive
  PROVE  /\ TablesOK' /\ Main' = Main
         /\ \A g \in 1 .. Main : Capacity(g)' = Capacity(g) /\ (g # h => tables'[g] = tables[g])
         /\ DOMAIN tables'[h].entries = DOMAIN tables[h].entries \union {s}
         /\ \A r \in DOMAIN tables'[h].entries :
              tables'[h].entries[r] = IF r = s THEN e ELSE tables[h].entries[r]
<1>1. PICK T : T = With(tables[h].entries, s, e)
  OBVIOUS
<1>2. /\ DOMAIN T = DOMAIN tables[h].entries \union {s}
      /\ \A r \in DOMAIN T : T[r] = IF r = s THEN e ELSE tables[h].entries[r]
      /\ T = [r \in DOMAIN T |-> T[r]]
  BY <1>1 DEF With
<1>3. tables' = [tables EXCEPT ![h].entries = T]
  BY <1>1 DEF Entered
<1>4. /\ Main \in Nat /\ DOMAIN tables = 1 .. Main /\ IsTable(tables[h])
      /\ \A g \in 1 .. Main : IsTable(tables[g]) /\ Capacity(g) \in Nat \ {0}
      /\ tables = [g \in 1 .. Main |-> tables[g]]
  BY TableIs DEF TablesOK
<1>5. PICK new : new = [tables[h] EXCEPT !.entries = T]
  OBVIOUS
<1>6. new = [capacity |-> Capacity(h), entries |-> T]
  BY <1>4, <1>5 DEF IsTable, Capacity
<1>7. tables' = [tables EXCEPT ![h] = new]
  BY <1>3, <1>5
<1>8. /\ tables' = [g \in 1 .. Main |-> tables'[g]]
      /\ \A g \in 1 .. Main : tables'[g] = IF g = h THEN new ELSE tables[g]
  BY <1>4, <1>7
<1>9. /\ tables' \in Seq({tables'[g] : g \in DOMAIN tables'})
      /\ Len(tables') = Main /\ DOMAIN tables' = 1 .. Main
  BY <1>4, <1>8, SeqOf
<1>10. Main' = Main
  BY <1>9 DEF Main
<1>11. IsTable(new)'
  <2>1. /\ new.capacity = Capacity(h) /\ new.entries = T
        /\ new = [capacity |-> new.capacity, entries |-> new.entries]
    BY <1>6
  <2>2. Entry' = Entry
    BY DEF Entry, Producers
  <2>3. DOMAIN T \subseteq 0 .. Capacity(h) - 1
    BY <1>2, <1>4 DEF IsTable, Capacity
  <2>4. \A r \in DOMAIN T : T[r] \in Entry
    BY <1>2, <1>4 DEF IsTable
  <2>5. T \in [DOMAIN T -> Entry]
    BY <1>2, <2>4
  <2> QED
    BY <1>4, <2>1, <2>2, <2>3, <2>5 DEF IsTable
<1>12. \A g \in 1 .. Main : IsTable(tables[g])'
  <2>1. ASSUME NEW g \in 1 .. Main, g # h
        PROVE  IsTable(tables[g])'
    <3>1. IsTable(tables[g]) /\ tables'[g] = tables[g]
      BY <1>4, <1>8, <2>1
    <3>2. Entry' = Entry
      BY DEF Entry, Producers
    <3> QED
      BY <3>1, <3>2 DEF IsTable
  <2>2. IsTable(tables[h])'
    BY <1>8, <1>11
  <2> QED
    BY <2>1, <2>2
<1>13. TablesOK'
  <2>1. tables' # << >>
    BY <1>4, <1>9
  <2> QED
    BY <1>9, <1>12, <2>1 DEF TablesOK
<1>14. \A g \in 1 .. Main : Capacity(g)' = Capacity(g) /\ (g # h => tables'[g] = tables[g])
  BY <1>6, <1>8 DEF Capacity
<1>15. tables'[h].entries = T
  BY <1>6, <1>8
<1> QED
  BY <1>2, <1>10, <1>13, <1>14, <1>15

(* An entry is where the search ends as long as it stays.                  *)
LEMMA ReachedStays ==
  ASSUME TablesOK, TablesGrow, NEW t \in Threads, NEW h \in 1 .. Main,
         NEW s, IsReached(t, h, s), Key(h, s)' = t
  PROVE  IsReached(t, h, s)'
<1>1. PICK k \in 0 .. Capacity(h) - 1 : IsAt(t, h, k) /\ Slot(t, h, k) = s
  BY DEF IsReached
<1>2. Capacity(h)' = Capacity(h) /\ Capacity(h) \in Nat \ {0}
  BY TableIs DEF TablesGrow
<1>3. \A i \in Nat : Slot(t, h, i)' = Slot(t, h, i)
  BY <1>2 DEF Slot
<1>4. \A i \in 0 .. k - 1 : Key(h, Slot(t, h, i))' # Invalid
  <2>1. ASSUME NEW i \in 0 .. k - 1
        PROVE  Key(h, Slot(t, h, i))' # Invalid
    <3>1. i \in Nat
      BY <1>2
    <3>2. Slot(t, h, i) \in Nat /\ Slot(t, h, i)' = Slot(t, h, i)
      BY <1>2, <1>3, <3>1, SlotIs
    <3>3. Key(h, Slot(t, h, i)) # Invalid
      BY <1>1 DEF IsAt
    <3> QED
      BY <3>2, <3>3 DEF TablesGrow
  <2> QED
    BY <2>1
<1>5. k \in Nat /\ Slot(t, h, k)' = s
  BY <1>1, <1>2, <1>3
<1>6. IsAt(t, h, k)'
  BY <1>4, <1>5 DEF IsAt
<1> QED
  BY <1>1, <1>2, <1>5, <1>6 DEF IsReached

(* The two marks of a slot are two, and no threads.                        *)
LEMMA MarksDiffer ==
  Invalid \notin Threads /\ Invalid2 \notin Threads /\ Invalid # Invalid2
<1>1. Invalid \notin Threads /\ Invalid2 \notin Threads
  BY TableAssumption
<1>2. CASE Invalid = Invalid2
  <2>1. {Null, Invalid, Invalid2} = {Null} \union {Invalid}
    BY <1>2
  <2>2. IsFiniteSet({Null}) /\ Cardinality({Null}) = 1
    BY FS_Singleton
  <2>3. Cardinality({Null} \union {Invalid}) <= 2
    BY <2>2, FS_AddElement
  <2> QED
    BY <2>1, <2>3, TableAssumption
<1> QED
  BY <1>1, <1>2

(* The keys.                                                               *)
LEMMA KeyIs ==
  ASSUME TablesOK, NEW h \in 1 .. Main, NEW s
  PROVE  /\ Key(h, s) \in Threads => s \in DOMAIN tables[h].entries
         /\ s \in DOMAIN tables[h].entries =>
              /\ Key(h, s) = tables[h].entries[s].key /\ Key(h, s) # Invalid
              /\ s \in Nat /\ s \in 0 .. Capacity(h) - 1
              /\ tables[h].entries[s] \in Entry
              /\ tables[h].entries[s] =
                   [key |-> tables[h].entries[s].key, value |-> tables[h].entries[s].value]
<1>1. IsTable(tables[h]) /\ Capacity(h) \in Nat \ {0}
  BY TableIs
<1>2. Invalid \notin Threads /\ Invalid # Invalid2
  BY MarksDiffer
<1>3. ASSUME s \in DOMAIN tables[h].entries
      PROVE  /\ tables[h].entries[s] \in Entry
             /\ s \in 0 .. Capacity(h) - 1
    BY <1>1, <1>3 DEF IsTable, Capacity
<1>4. \A e \in Entry : e = [key |-> e.key, value |-> e.value] /\ e.key # Invalid
  BY <1>2 DEF Entry
<1> QED
  BY <1>1, <1>2, <1>3, <1>4 DEF Key

(* t enters its id with producer p, where the search ends.                 *)
LEMMA EnteredIs ==
  ASSUME TablesOK, SlotsOK, NEW t \in Threads, NEW p \in Producers,
         NEW h \in 1 .. Main, NEW k \in 0 .. Capacity(h) - 1,
         Key(h, Slot(t, h, k)) \in {Invalid, Invalid2}, ~Keyed(t, h),
         \A i \in 0 .. k - 1 : Key(h, Slot(t, h, i)) # Invalid,
         tables' = Entered(h, Slot(t, h, k), [key |-> t, value |-> p]),
         inactive' = inactive
  PROVE  /\ TablesOK' /\ SlotsOK' /\ TablesGrow /\ Main' = Main
         /\ \A u \in Threads : \A g \in 1 .. Main :
              Keyed(u, g)' <=> Keyed(u, g) \/ (u = t /\ g = h)
         /\ \A u \in Threads : \A q \in Producers :
              Holds(u, q)' <=> Holds(u, q) \/ (u = t /\ q = p)
<1>1. PICK e \in Entry : e = [key |-> t, value |-> p]
  BY DEF Entry
<1>2. /\ Main \in Nat /\ DOMAIN tables = 1 .. Main
      /\ \A g \in 1 .. Main : Capacity(g) \in Nat \ {0} /\ IsTable(tables[g])
  BY TableIs
<1>3. PICK s \in 0 .. Capacity(h) - 1 : s = Slot(t, h, k)
  BY <1>2, SlotIs
<1>4. tables' = Entered(h, s, e)
  BY <1>1, <1>3
<1>5. /\ TablesOK' /\ Main' = Main
      /\ \A g \in 1 .. Main : Capacity(g)' = Capacity(g) /\ (g # h => tables'[g] = tables[g])
      /\ DOMAIN tables'[h].entries = DOMAIN tables[h].entries \union {s}
      /\ \A r \in DOMAIN tables'[h].entries :
           tables'[h].entries[r] = IF r = s THEN e ELSE tables[h].entries[r]
  BY <1>4, WriteIs
<1>6. Main' \in Nat /\ DOMAIN tables' = 1 .. Main
  <2>1. (TablesOK => Main \in Nat \ {0} /\ DOMAIN tables = 1 .. Main)'
    BY TableIs, PTL
  <2> QED
    BY <1>5, <2>1
<1>7. ASSUME NEW g \in 1 .. Main, NEW r \in DOMAIN tables[g].entries
      PROVE  /\ r \in DOMAIN tables'[g].entries
             /\ tables'[g].entries[r] = tables[g].entries[r] \/ (g = h /\ r = s)
  BY <1>5, <1>7
<1>8. ASSUME NEW g \in 1 .. Main, NEW r \in DOMAIN tables'[g].entries
      PROVE  \/ r \in DOMAIN tables[g].entries /\ tables'[g].entries[r] = tables[g].entries[r]
             \/ g = h /\ r = s /\ tables'[g].entries[r] = e
  BY <1>5, <1>8
<1>9. s \in DOMAIN tables'[h].entries /\ tables'[h].entries[s] = e
  BY <1>5
<1>10. e.key = t /\ e.value = p /\ e.key # Invalid
  BY <1>1, TableAssumption
<1>11. s \in DOMAIN tables[h].entries => tables[h].entries[s].key \notin Threads
  <2>1. s \in DOMAIN tables[h].entries => tables[h].entries[s].key \in {Invalid, Invalid2}
    BY <1>3, KeyIs
  <2> QED
    BY <2>1, TableAssumption
<1>12. TablesGrow
  <2>1. ASSUME NEW g \in 1 .. Main, NEW r \in Nat, Key(g, r) # Invalid
        PROVE  Key(g, r)' # Invalid
    <3>1. r \in DOMAIN tables[g].entries
      BY <2>1 DEF Key
    <3>2. /\ r \in DOMAIN tables'[g].entries
          /\ tables'[g].entries[r] = tables[g].entries[r] \/ tables'[g].entries[r] = e
      BY <1>7, <1>9, <3>1
    <3> QED
      BY <1>10, <2>1, <3>1, <3>2 DEF Key
  <2> QED
    BY <1>2, <1>5, <2>1 DEF TablesGrow
<1>13. \A u \in Threads : \A g \in 1 .. Main :
         Keyed(u, g)' <=> Keyed(u, g) \/ (u = t /\ g = h)
  <2>1. ASSUME NEW u \in Threads, NEW g \in 1 .. Main, Keyed(u, g)
        PROVE  Keyed(u, g)'
    BY <1>7, <1>11, <2>1 DEF Keyed
  <2>2. Keyed(t, h)'
    BY <1>9, <1>10 DEF Keyed
  <2>3. ASSUME NEW u \in Threads, NEW g \in 1 .. Main, Keyed(u, g)'
        PROVE  Keyed(u, g) \/ (u = t /\ g = h)
    BY <1>8, <1>10, <2>3 DEF Keyed
  <2> QED
    BY <2>1, <2>2, <2>3
<1>14. \A u \in Threads : \A q \in Producers :
         Holds(u, q)' <=> Holds(u, q) \/ (u = t /\ q = p)
  <2>1. ASSUME NEW u \in Threads, NEW q \in Producers, Holds(u, q)
        PROVE  Holds(u, q)'
    <3>1. PICK g \in 1 .. Main : \E r \in DOMAIN tables[g].entries :
            tables[g].entries[r] = [key |-> u, value |-> q]
      BY <1>2, <2>1 DEF Holds
    <3>2. PICK r \in DOMAIN tables[g].entries : tables[g].entries[r] = [key |-> u, value |-> q]
      BY <3>1
    <3>3. tables[g].entries[r].key = u
      BY <3>2
    <3>4. r \in DOMAIN tables'[g].entries /\ tables'[g].entries[r] = [key |-> u, value |-> q]
      BY <1>7, <1>11, <3>2, <3>3
    <3> QED
      BY <1>6, <3>4 DEF Holds
  <2>2. Holds(t, p)'
    BY <1>1, <1>6, <1>9 DEF Holds
  <2>3. ASSUME NEW u \in Threads, NEW q \in Producers, Holds(u, q)'
        PROVE  Holds(u, q) \/ (u = t /\ q = p)
    <3>1. PICK g \in 1 .. Main : \E r \in DOMAIN tables'[g].entries :
            tables'[g].entries[r] = [key |-> u, value |-> q]
      BY <1>6, <2>3 DEF Holds
    <3>2. PICK r \in DOMAIN tables'[g].entries : tables'[g].entries[r] = [key |-> u, value |-> q]
      BY <3>1
    <3>3. CASE r \in DOMAIN tables[g].entries /\ tables'[g].entries[r] = tables[g].entries[r]
      BY <1>2, <3>2, <3>3 DEF Holds
    <3>4. CASE tables'[g].entries[r] = e
      <4>1. e.key = u /\ e.value = q
        BY <3>2, <3>4
      <4> QED
        BY <1>10, <4>1
    <3> QED
      BY <1>8, <3>3, <3>4
  <2> QED
    BY <2>1, <2>2, <2>3
<1>15. SlotsOK'
  <2>1. ASSUME NEW g \in 1 .. Main, NEW r \in DOMAIN tables'[g].entries, NEW u \in Threads,
               tables'[g].entries[r].key = u
        PROVE  /\ IsReached(u, g, r)'
               /\ \A x \in DOMAIN tables'[g].entries : tables'[g].entries[x].key = u => x = r
    <3>1. Key(g, r)' = u
      BY <2>1 DEF Key
    <3>2. CASE u = t /\ g = h
      <4>1. \A x \in DOMAIN tables'[g].entries : tables'[g].entries[x].key = u => x = s
        BY <1>8, <3>2 DEF Keyed
      <4>2. r = s
        BY <2>1, <4>1
      <4>3. Capacity(h)' = Capacity(h) /\ \A i \in Nat : Slot(t, h, i)' = Slot(t, h, i)
        BY <1>5 DEF Slot
      <4>4. \A i \in 0 .. k - 1 : Key(h, Slot(t, h, i))' # Invalid
        <5>1. ASSUME NEW i \in 0 .. k - 1
              PROVE  Key(h, Slot(t, h, i))' # Invalid
          <6>1. i \in Nat
            OBVIOUS
          <6>2. Slot(t, h, i) \in 0 .. Capacity(h) - 1
            BY <6>1, SlotIs
          <6>3. Slot(t, h, i) \in Nat /\ Slot(t, h, i)' = Slot(t, h, i)
            BY <1>2, <4>3, <6>1, <6>2
          <6>4. Key(h, Slot(t, h, i)) # Invalid
            OBVIOUS
          <6> QED
            BY <1>12, <6>3, <6>4 DEF TablesGrow
        <5> QED
          BY <5>1
      <4>5. k \in Nat /\ Slot(t, h, k)' = s
        BY <1>2, <1>3, <4>3
      <4>6. IsAt(t, h, k)'
        BY <3>1, <3>2, <4>2, <4>4, <4>5 DEF IsAt
      <4> QED
        BY <3>2, <4>1, <4>2, <4>3, <4>5, <4>6 DEF IsReached
    <3>3. CASE ~(u = t /\ g = h)
      <4>1. /\ r \in DOMAIN tables[g].entries /\ tables[g].entries[r].key = u
            /\ \A x \in DOMAIN tables'[g].entries : tables'[g].entries[x].key = u =>
                 x \in DOMAIN tables[g].entries /\ tables[g].entries[x].key = u
        BY <1>8, <1>10, <2>1, <3>3
      <4>2. /\ IsReached(u, g, r)
            /\ \A x \in DOMAIN tables[g].entries : tables[g].entries[x].key = u => x = r
        BY <1>2, <4>1 DEF SlotsOK
      <4>3. IsReached(u, g, r)'
        BY <1>12, <3>1, <4>2, ReachedStays
      <4> QED
        BY <4>1, <4>2, <4>3
    <3> QED
      BY <3>2, <3>3
  <2> QED
    BY <1>6, <2>1 DEF SlotsOK
<1> QED
  BY <1>5, <1>12, <1>13, <1>14, <1>15

(* The search finds the entry if there is one.                             *)
LEMMA FoundIs ==
  ASSUME TablesOK, SlotsOK, NEW t \in Threads, NEW h \in 1 .. Main
  PROVE  /\ IsIn(t, h) <=> Keyed(t, h)
         /\ Keyed(t, h) => /\ Found(t, h) \in DOMAIN tables[h].entries
                           /\ tables[h].entries[Found(t, h)].key = t
<1>1. h \in DOMAIN tables
  BY TableIs
<1>2. ASSUME Keyed(t, h)
      PROVE  IsIn(t, h)
  <2>1. PICK s \in DOMAIN tables[h].entries : tables[h].entries[s].key = t
    BY <1>2 DEF Keyed
  <2>2. IsReached(t, h, s)
    BY <1>1, <2>1 DEF SlotsOK
  <2> QED
    BY <2>2 DEF IsReached, IsIn
<1>3. ASSUME IsIn(t, h)
      PROVE  /\ Found(t, h) \in DOMAIN tables[h].entries
             /\ tables[h].entries[Found(t, h)].key = t
  <2>1. PICK k \in 0 .. Capacity(h) - 1 : IsAt(t, h, k) /\ Found(t, h) = Slot(t, h, k)
    BY <1>3 DEF IsIn, Found
  <2>2. Key(h, Found(t, h)) = t
    BY <2>1 DEF IsAt
  <2> QED
    BY <2>2, KeyIs
<1> QED
  BY <1>2, <1>3 DEF Keyed

(* t's id is taken out of table h.                                         *)
LEMMA RemovedIs ==
  ASSUME TablesOK, SlotsOK, NEW t \in Threads, NEW h \in 1 .. Main, Keyed(t, h),
         tables' = Entered(h, Found(t, h), [key |-> Invalid2, value |-> Null]),
         inactive' = inactive
  PROVE  /\ TablesOK' /\ SlotsOK' /\ TablesGrow /\ Main' = Main
         /\ \A u \in Threads : \A g \in 1 .. Main :
              Keyed(u, g)' <=> Keyed(u, g) /\ ~(u = t /\ g = h)
         /\ \A u \in Threads : \A q \in Producers :
              /\ Holds(u, q)' => Holds(u, q)
              /\ u # t /\ Holds(u, q) => Holds(u, q)'
<1>1. PICK e \in Entry : e = [key |-> Invalid2, value |-> Null]
  BY DEF Entry
<1>2. /\ Main \in Nat /\ DOMAIN tables = 1 .. Main
      /\ \A g \in 1 .. Main : Capacity(g) \in Nat \ {0} /\ IsTable(tables[g])
  BY TableIs
<1>3. PICK s \in DOMAIN tables[h].entries : s = Found(t, h) /\ tables[h].entries[s].key = t
  BY FoundIs
<1>4. tables' = Entered(h, s, e) /\ s \in 0 .. Capacity(h) - 1
  BY <1>1, <1>3, KeyIs
<1>5. /\ TablesOK' /\ Main' = Main
      /\ \A g \in 1 .. Main : Capacity(g)' = Capacity(g) /\ (g # h => tables'[g] = tables[g])
      /\ DOMAIN tables'[h].entries = DOMAIN tables[h].entries \union {s}
      /\ \A r \in DOMAIN tables'[h].entries :
           tables'[h].entries[r] = IF r = s THEN e ELSE tables[h].entries[r]
  BY <1>4, WriteIs
<1>6. Main' \in Nat /\ DOMAIN tables' = 1 .. Main
  <2>1. (TablesOK => Main \in Nat \ {0} /\ DOMAIN tables = 1 .. Main)'
    BY TableIs, PTL
  <2> QED
    BY <1>5, <2>1
<1>7. ASSUME NEW g \in 1 .. Main, NEW r \in DOMAIN tables[g].entries
      PROVE  /\ r \in DOMAIN tables'[g].entries
             /\ \/ tables'[g].entries[r] = tables[g].entries[r] /\ ~(g = h /\ r = s)
                \/ tables'[g].entries[r] = e /\ g = h /\ r = s
  BY <1>3, <1>5, <1>7
<1>8. ASSUME NEW g \in 1 .. Main, NEW r \in DOMAIN tables'[g].entries
      PROVE  /\ r \in DOMAIN tables[g].entries
             /\ \/ tables'[g].entries[r] = tables[g].entries[r] /\ ~(g = h /\ r = s)
                \/ tables'[g].entries[r] = e /\ g = h /\ r = s
  BY <1>3, <1>5, <1>8
<1>9. e.key \notin Threads /\ e.key # Invalid
  BY <1>1, MarksDiffer
<1>10. TablesGrow
  <2>1. ASSUME NEW g \in 1 .. Main, NEW r \in Nat, Key(g, r) # Invalid
        PROVE  Key(g, r)' # Invalid
    <3>1. r \in DOMAIN tables[g].entries
      BY <2>1 DEF Key
    <3>2. /\ r \in DOMAIN tables'[g].entries
          /\ tables'[g].entries[r] = tables[g].entries[r] \/ tables'[g].entries[r] = e
      BY <1>7, <3>1
    <3> QED
      BY <1>9, <2>1, <3>1, <3>2 DEF Key
  <2> QED
    BY <1>2, <1>5, <2>1 DEF TablesGrow
<1>11. \A r \in DOMAIN tables[h].entries : tables[h].entries[r].key = t => r = s
  BY <1>2, <1>3 DEF SlotsOK
<1>12. \A u \in Threads : \A g \in 1 .. Main :
         Keyed(u, g)' <=> Keyed(u, g) /\ ~(u = t /\ g = h)
  <2>1. ASSUME NEW u \in Threads, NEW g \in 1 .. Main, Keyed(u, g), ~(u = t /\ g = h)
        PROVE  Keyed(u, g)'
    BY <1>3, <1>7, <2>1 DEF Keyed
  <2>2. ASSUME NEW u \in Threads, NEW g \in 1 .. Main, Keyed(u, g)'
        PROVE  Keyed(u, g) /\ ~(u = t /\ g = h)
    BY <1>8, <1>9, <1>11, <2>2 DEF Keyed
  <2> QED
    BY <2>1, <2>2
<1>13. ASSUME NEW u \in Threads, NEW q \in Producers, Holds(u, q)'
       PROVE  Holds(u, q)
  <2>1. PICK g \in 1 .. Main : \E r \in DOMAIN tables'[g].entries :
          tables'[g].entries[r] = [key |-> u, value |-> q]
    BY <1>6, <1>13 DEF Holds
  <2>2. PICK r \in DOMAIN tables'[g].entries : tables'[g].entries[r] = [key |-> u, value |-> q]
    BY <2>1
  <2>3. tables'[g].entries[r] # e
    BY <1>9, <2>2
  <2> QED
    BY <1>2, <1>8, <2>2, <2>3 DEF Holds
<1>14. ASSUME NEW u \in Threads, NEW q \in Producers, u # t, Holds(u, q)
       PROVE  Holds(u, q)'
  <2>1. PICK g \in 1 .. Main : \E r \in DOMAIN tables[g].entries :
          tables[g].entries[r] = [key |-> u, value |-> q]
    BY <1>2, <1>14 DEF Holds
  <2>2. PICK r \in DOMAIN tables[g].entries : tables[g].entries[r] = [key |-> u, value |-> q]
    BY <2>1
  <2>3. tables[g].entries[r].key = u
    BY <2>2
  <2>4. r \in DOMAIN tables'[g].entries /\ tables'[g].entries[r] = [key |-> u, value |-> q]
    BY <1>3, <1>7, <1>14, <2>2, <2>3
  <2> QED
    BY <1>6, <2>4 DEF Holds
<1>15. SlotsOK'
  <2>1. ASSUME NEW g \in 1 .. Main, NEW r \in DOMAIN tables'[g].entries, NEW u \in Threads,
               tables'[g].entries[r].key = u
        PROVE  /\ IsReached(u, g, r)'
               /\ \A x \in DOMAIN tables'[g].entries : tables'[g].entries[x].key = u => x = r
    <3>1. Key(g, r)' = u
      BY <2>1 DEF Key
    <3>2. /\ r \in DOMAIN tables[g].entries /\ tables[g].entries[r].key = u
          /\ \A x \in DOMAIN tables'[g].entries : tables'[g].entries[x].key = u =>
               x \in DOMAIN tables[g].entries /\ tables[g].entries[x].key = u
      BY <1>8, <1>9, <2>1
    <3>3. /\ IsReached(u, g, r)
          /\ \A x \in DOMAIN tables[g].entries : tables[g].entries[x].key = u => x = r
      BY <1>2, <3>2 DEF SlotsOK
    <3>4. IsReached(u, g, r)'
      BY <1>10, <3>1, <3>3, ReachedStays
    <3> QED
      BY <3>2, <3>3, <3>4
  <2> QED
    BY <1>6, <2>1 DEF SlotsOK
<1> QED
  BY <1>5, <1>10, <1>12, <1>13, <1>14, <1>15

(* A table is added.                                                       *)
LEMMA AppendedIs ==
  ASSUME TablesOK, SlotsOK, NEW c \in Nat \ {0},
         tables' = Append(tables, EmptyTable(c)), inactive' = inactive
  PROVE  /\ TablesOK' /\ SlotsOK' /\ TablesGrow /\ Main' = Main + 1
         /\ \A u \in Threads : \A g \in 1 .. Main : Keyed(u, g)' = Keyed(u, g)
         /\ \A u \in Threads : \A g \in 1 .. Main' : g > Main => ~Keyed(u, g)'
         /\ \A u \in Threads : \A q \in Producers : Holds(u, q)' = Holds(u, q)
<1>1. /\ Main \in Nat /\ DOMAIN tables = 1 .. Main
      /\ \A g \in 1 .. Main : Capacity(g) \in Nat \ {0} /\ IsTable(tables[g])
  BY TableIs
<1>2. PICK T : T = EmptyTable(c)
  OBVIOUS
<1>3. T = [capacity |-> c, entries |-> T.entries] /\ T.capacity = c /\ DOMAIN T.entries = {}
  BY <1>2 DEF EmptyTable
<1>4. PICK n \in Nat : n = Main + 1
  BY <1>1
<1>5. /\ Len(tables') = n /\ DOMAIN tables' = 1 .. n
      /\ \A g \in 1 .. n : tables'[g] = IF g = n THEN T ELSE tables[g]
      /\ tables' = [g \in 1 .. n |-> tables'[g]]
  <2>1. PICK S : S = {tables[g] : g \in DOMAIN tables} \union {T}
    OBVIOUS
  <2>2. tables \in Seq(S) /\ T \in S /\ Len(tables) = Main
    <3>1. {tables[g] : g \in DOMAIN tables} \subseteq S /\ T \in S
      BY <2>1
    <3>2. tables \in Seq({tables[g] : g \in DOMAIN tables}) /\ Len(tables) = Main
      BY DEF TablesOK, Main
    <3> QED
      BY <3>1, <3>2
  <2>3. tables' = Append(tables, T)
    BY <1>2
  <2>4. /\ Append(tables, T) \in Seq(S) /\ Len(Append(tables, T)) = n
        /\ \A g \in 1 .. n : Append(tables, T)[g] = IF g = n THEN T ELSE tables[g]
    BY <1>1, <1>4, <2>2
  <2>5. tables' \in Seq(S) /\ Len(tables') = n
    BY <2>3, <2>4
  <2>6. DOMAIN tables' = 1 .. n
    BY <2>5
  <2>7. PICK q \in Seq(S) : q = tables'
    BY <2>5
  <2>8. q = [g \in 1 .. n |-> q[g]]
    <3>1. q \in [1 .. n -> S]
      BY <2>5, <2>7, LenProperties
    <3> QED
      BY <3>1
  <2> QED
    BY <2>3, <2>4, <2>5, <2>6, <2>7, <2>8
<1>6. Main' = n
  BY <1>5 DEF Main
<1>7. \A g \in 1 .. n : IsTable(tables[g])'
  <2>1. Entry' = Entry
    BY DEF Entry, Producers
  <2>2. ASSUME NEW g \in 1 .. Main
        PROVE  IsTable(tables[g])'
    <3>1. tables'[g] = tables[g] /\ IsTable(tables[g])
      BY <1>1, <1>4, <1>5
    <3> QED
      BY <2>1, <3>1 DEF IsTable
  <2>3. IsTable(tables[n])'
    <3>1. tables'[n] = T
      BY <1>4, <1>5
    <3>2. T.entries \in [DOMAIN T.entries -> Entry]
      BY <1>2, <1>3 DEF EmptyTable
    <3> QED
      BY <1>3, <2>1, <3>1, <3>2 DEF IsTable
  <2> QED
    BY <1>1, <1>4, <2>2, <2>3
<1>8. TablesOK'
  <2>1. PICK q : q = tables' /\ DOMAIN q = 1 .. n
    BY <1>5
  <2>2. q = [i \in 1 .. n |-> q[i]] /\ Len(q) = n
    BY <1>5, <2>1
  <2>3. q \in Seq({q[i] : i \in DOMAIN q})
    BY <2>2, SeqOf
  <2>4. q # << >>
    BY <1>1, <1>4, <2>2
  <2>5. tables' \in Seq({tables'[g] : g \in DOMAIN tables'})
    BY <2>1, <2>3
  <2> QED
    BY <1>5, <1>7, <2>1, <2>5, <2>4 DEF TablesOK
<1>9. \A g \in 1 .. Main : tables'[g] = tables[g] /\ g \in 1 .. n
  BY <1>1, <1>4, <1>5
<1>10. TablesGrow
  BY <1>1, <1>4, <1>6, <1>9 DEF TablesGrow, Capacity, Key
<1>11. \A u \in Threads : \A g \in 1 .. Main : Keyed(u, g)' = Keyed(u, g)
  BY <1>9 DEF Keyed
<1>12. \A u \in Threads : \A g \in 1 .. Main' : g > Main => ~Keyed(u, g)'
  <2>1. ASSUME NEW u \in Threads
        PROVE  ~Keyed(u, n)'
    BY <1>3, <1>4, <1>5 DEF Keyed
  <2>2. \A g \in 1 .. Main' : g > Main => g = n
    BY <1>1, <1>4, <1>6
  <2> QED
    BY <2>1, <2>2
<1>13. \A u \in Threads : \A q \in Producers : Holds(u, q)' = Holds(u, q)
  <2>1. ASSUME NEW u \in Threads, NEW q \in Producers, Holds(u, q)
        PROVE  Holds(u, q)'
    BY <1>1, <1>5, <1>9, <2>1 DEF Holds
  <2>2. ASSUME NEW u \in Threads, NEW q \in Producers, Holds(u, q)'
        PROVE  Holds(u, q)
    <3>1. PICK g \in 1 .. n : \E r \in DOMAIN tables'[g].entries :
            tables'[g].entries[r] = [key |-> u, value |-> q]
      BY <1>5, <2>2 DEF Holds
    <3>2. g # n
      BY <1>3, <1>4, <1>5, <3>1
    <3>3. g \in 1 .. Main /\ tables'[g] = tables[g]
      BY <1>1, <1>4, <1>9, <3>2
    <3> QED
      BY <1>1, <3>1, <3>3 DEF Holds
  <2> QED
    BY <2>1, <2>2 DEF Holds
<1>14. SlotsOK'
  <2>1. ASSUME NEW g \in 1 .. n, NEW r \in DOMAIN tables'[g].entries, NEW u \in Threads,
               tables'[g].entries[r].key = u
        PROVE  /\ IsReached(u, g, r)'
               /\ \A x \in DOMAIN tables'[g].entries : tables'[g].entries[x].key = u => x = r
    <3>1. g \in 1 .. Main /\ tables'[g] = tables[g]
      <4>1. g # n
        BY <1>3, <1>4, <1>5, <2>1
      <4> QED
        BY <1>1, <1>4, <1>9, <4>1
    <3>2. Key(g, r)' = u
      BY <2>1 DEF Key
    <3>3. /\ IsReached(u, g, r)
          /\ \A x \in DOMAIN tables[g].entries : tables[g].entries[x].key = u => x = r
      BY <1>1, <2>1, <3>1 DEF SlotsOK
    <3>4. IsReached(u, g, r)'
      BY <1>10, <3>1, <3>2, <3>3, ReachedStays
    <3> QED
      BY <3>1, <3>3, <3>4
  <2> QED
    BY <1>5, <2>1 DEF SlotsOK
<1> QED
  BY <1>4, <1>6, <1>8, <1>10, <1>11, <1>12, <1>13, <1>14

(* No table changes.                                                       *)
LEMMA TablesStay ==
  ASSUME TablesOK, SlotsOK, tables' = tables, Producers \subseteq Producers'
  PROVE  /\ TablesOK' /\ SlotsOK' /\ TablesGrow /\ Main' = Main
         /\ \A u \in Threads : \A g \in 1 .. Main : Keyed(u, g)' = Keyed(u, g)
         /\ \A u, q : Holds(u, q)' = Holds(u, q)
<1>1. Main' = Main /\ Main \in Nat /\ DOMAIN tables = 1 .. Main
  BY TableIs DEF Main
<1>2. TablesOK'
  <2>1. Entry \subseteq Entry'
    BY DEF Entry
  <2>2. \A g \in 1 .. Main : IsTable(tables[g])'
    <3>1. ASSUME NEW g \in 1 .. Main
          PROVE  IsTable(tables[g])'
      <4>1. IsTable(tables[g])
        BY TableIs
      <4> QED
        BY <2>1, <4>1 DEF IsTable
    <3> QED
      BY <3>1
  <2> QED
    BY <1>1, <2>2 DEF TablesOK
<1>3. SlotsOK'
  BY DEF SlotsOK, IsReached, IsAt, Key, Slot, Capacity
<1>4. TablesGrow
  BY <1>1 DEF TablesGrow, Capacity, Key
<1> QED
  BY <1>1, <1>2, <1>3, <1>4 DEF Keyed, Holds

(* The threads that have been counted, and are not entered; those that     *)
(* have not found their id and have no producer yet.                       *)
Counted   == {"grow", "resize", "room?", "recycle", "subscribe", "insert", "uncount"}
Searching == {"count", "grow", "resize", "room?", "recycle"}

CountedThreads == {t \in Threads : pc[t] \in Counted}
CountOK == Cardinality(CountedThreads) <= count

(* A thread that probes has found no empty slot so far.                    *)
ProbeFits(t) ==
  /\ pc[t] \in {"insert", "add again"} =>
       /\ local[t].probe < Capacity(local[t].mainHash)
       /\ \A k \in 0 .. local[t].probe - 1 :
            Key(local[t].mainHash, Slot(t, local[t].mainHash, k)) # Invalid
  /\ pc[t] \notin {"insert", "add again"} => local[t].probe = 0
  /\ pc[t] \in Searching \union {"subscribe", "insert", "add again", "remove"} =>
       local[t].mainHash > 0

(* Where a thread's id and its producer are, by what it is about to do.    *)
NoEntry(t) == \A h \in 1 .. Main : ~Keyed(t, h)

StageFits(t) ==
  /\ notifier[t] = "live" <=> listener[t] # Null
  /\ local[t].producer # Null <=> pc[t] \in {"add again", "subscribe", "insert", "uncount"}
  /\ pc[t] \in Searching \union {"subscribe"} => listener[t] = Null
  /\ pc[t] \in Searching \union {"subscribe", "insert", "deactivate"} => NoEntry(t)
  /\ pc[t] = "idle" /\ listener[t] # Null => ~NoEntry(t)
  /\ pc[t] = "uncount" => ~NoEntry(t)
  /\ pc[t] = "add again" => ~NoEntry(t) /\ ~Keyed(t, local[t].mainHash)
  /\ pc[t] \in {"remove", "deactivate"} => listener[t] # Null
  /\ pc[t] = "remove" => \A h \in 1 .. Main : h > local[t].mainHash => ~Keyed(t, h)

OwnersOK ==
  /\ \A t \in Threads : \A p, q \in Producers : Owns(t, p) /\ Owns(t, q) => p = q
  /\ \A t, u \in Threads : \A p \in Producers : Owns(t, p) /\ Owns(u, p) => t = u
  /\ \A p \in Producers : inactive[p] <=> \A t \in Threads : ~Owns(t, p)

(* A thread that looks for a producer has passed those beyond ptr.  Each   *)
(* of them can be laid to the account of another thread: its owner, or one *)
(* that has none and has not passed it.                                    *)
OwnsNone(t) == \A p \in Producers : ~Owns(t, p)
Reach(t) == IF pc[t] = "recycle" THEN local[t].ptr ELSE Len(inactive)

Covers(f) ==
  /\ \A p, q \in DOMAIN f : f[p] = f[q] => p = q
  /\ \A p \in DOMAIN f : IF inactive[p] THEN OwnsNone(f[p]) /\ p <= Reach(f[p])
                                        ELSE Owns(f[p], p)
ScanFits(t) ==
  pc[t] = "recycle" =>
    \E f \in [local[t].ptr + 1 .. Len(inactive) -> Threads \ {t}] : Covers(f)

SharingOK ==
  /\ OwnersOK
  /\ \A t \in Threads : ScanFits(t)
  /\ ProducersAreRecycled

IndInv ==
  /\ TypeOK /\ SlotsOK /\ CountOK /\ SharingOK
  /\ \A t \in Threads : ProbeFits(t) /\ StageFits(t)

-----------------------------------------------------------------------------
(* What u goes by stays when another thread takes a step.                  *)
KeyedStays(u) ==
  /\ \A g \in 1 .. Main : Keyed(u, g)' <=> Keyed(u, g)
  /\ \A g \in 1 .. Main' : g > Main => ~Keyed(u, g)'

SameFor(u) ==
  /\ pc'[u] = pc[u] /\ local'[u] = local[u]
  /\ notifier'[u] = notifier[u] /\ listener'[u] = listener[u]

(* So what the invariant says of u stays true.                             *)
LEMMA OthersFit ==
  ASSUME TypeOK, TypeOK', NEW u \in Threads, TablesGrow, KeyedStays(u), SameFor(u),
         ProbeFits(u), StageFits(u)
  PROVE  ProbeFits(u)' /\ StageFits(u)'
<1>1. /\ local[u].mainHash \in 0 .. Main /\ local[u].probe \in Nat /\ Main \in Nat
      /\ Main' \in Nat /\ Main <= Main' /\ TablesOK
  <2>1. TablesOK /\ TablesOK'
    BY DEF TypeOK, TablesOK
  <2>2. (TablesOK => Main \in Nat \ {0} /\ DOMAIN tables = 1 .. Main)'
    BY TableIs, PTL
  <2>3. local[u] \in Local
    BY DEF TypeOK
  <2> QED
    BY <2>1, <2>2, <2>3, TableIs DEF Local, TablesGrow
<1>2. ProbeFits(u)'
  <2>1. PICK h \in 0 .. Main : h = local[u].mainHash
    BY <1>1
  <2>2. CASE pc[u] \notin {"insert", "add again"}
    BY <2>2 DEF ProbeFits, SameFor, Searching
  <2>3. CASE pc[u] \in {"insert", "add again"}
    <3>1. /\ h \in 1 .. Main /\ local[u].probe < Capacity(h)
          /\ \A k \in 0 .. local[u].probe - 1 : Key(h, Slot(u, h, k)) # Invalid
      <4>1. pc[u] \in Searching \union {"subscribe", "insert", "add again", "remove"}
        BY <2>3
      <4>2. h > 0
        BY <2>1, <4>1 DEF ProbeFits
      <4>3. h \in 1 .. Main
        <5>1. Main \in Nat
          BY <1>1
        <5> QED
          BY <4>2, <5>1
      <4>4. /\ local[u].probe < Capacity(local[u].mainHash)
            /\ \A k \in 0 .. local[u].probe - 1 :
                 Key(local[u].mainHash, Slot(u, local[u].mainHash, k)) # Invalid
        BY <2>3 DEF ProbeFits
      <4> QED
        BY <2>1, <4>3, <4>4
    <3>2. Capacity(h)' = Capacity(h) /\ Capacity(h) \in Nat \ {0}
      BY <1>1, <3>1, TableIs DEF TablesGrow
    <3>3. \A k \in 0 .. local[u].probe - 1 : Key(h, Slot(u, h, k))' # Invalid
      <4>1. ASSUME NEW k \in 0 .. local[u].probe - 1
            PROVE  Key(h, Slot(u, h, k))' # Invalid
        <5>1. k \in Nat
          BY <1>1
        <5>2. Slot(u, h, k) \in 0 .. Capacity(h) - 1
          BY <1>1, <3>1, <5>1, SlotIs
        <5>3. Slot(u, h, k) \in Nat /\ Slot(u, h, k)' = Slot(u, h, k)
          BY <3>2, <5>2 DEF Slot
        <5> QED
          BY <3>1, <5>3 DEF TablesGrow
      <4> QED
        BY <4>1
    <3> QED
      BY <2>1, <2>3, <3>1, <3>2, <3>3 DEF ProbeFits, SameFor
  <2> QED
    BY <2>2, <2>3
<1>3. NoEntry(u)' <=> NoEntry(u)
  BY <1>1 DEF NoEntry, KeyedStays
<1>4. pc[u] = "add again" => local[u].mainHash \in 1 .. Main
  <2>1. pc[u] = "add again" =>
          pc[u] \in Searching \union {"subscribe", "insert", "add again", "remove"}
    OBVIOUS
  <2>2. pc[u] = "add again" => local[u].mainHash > 0
    BY <2>1 DEF ProbeFits
  <2>3. PICK h \in 0 .. Main : h = local[u].mainHash
    BY <1>1
  <2>4. PICK m \in Nat : m = Main
    BY <1>1
  <2>5. h > 0 => h \in 1 .. Main
    BY <2>4
  <2> QED
    BY <2>2, <2>3, <2>5
<1>5. pc[u] = "add again" => (~Keyed(u, local[u].mainHash) => ~Keyed(u, local[u].mainHash)')
  <2>1. PICK h \in 0 .. Main : h = local[u].mainHash /\ h = local'[u].mainHash
    BY <1>1 DEF SameFor
  <2>2. h \in 1 .. Main => (Keyed(u, h)' <=> Keyed(u, h))
    BY DEF KeyedStays
  <2> QED
    BY <1>4, <2>1, <2>2 DEF Keyed
<1>6. pc[u] = "remove" => \A h \in 1 .. Main' : h > local[u].mainHash => ~Keyed(u, h)'
  BY <1>1 DEF StageFits, KeyedStays
<1> QED
  BY <1>2, <1>3, <1>5, <1>6 DEF StageFits, SameFor

-----------------------------------------------------------------------------
(* The count.                                                              *)

Moves(t, label) == pc' = [pc EXCEPT ![t] = label]

(* The step of t to label puts t among the counted threads, or not.        *)
LEMMA CountedAre ==
  ASSUME TypeOK, NEW t \in Threads, NEW label, Moves(t, label)
  PROVE  /\ IsFiniteSet(CountedThreads)
         /\ label \in Counted => CountedThreads' = CountedThreads \union {t}
         /\ label \notin Counted => CountedThreads' = CountedThreads \ {t}
<1>1. IsFiniteSet(Threads) /\ CountedThreads \in SUBSET Threads
  BY TableAssumption DEF CountedThreads
<1>2. IsFiniteSet(CountedThreads)
  BY <1>1, FS_Subset
<1>3. \A u \in Threads : pc'[u] = IF u = t THEN label ELSE pc[u]
  BY DEF TypeOK, Moves
<1>4. label \in Counted => CountedThreads' = CountedThreads \union {t}
  BY <1>3 DEF CountedThreads
<1>5. label \notin Counted => CountedThreads' = CountedThreads \ {t}
  BY <1>3 DEF CountedThreads
<1> QED
  BY <1>2, <1>4, <1>5

(* The count stays, and no thread becomes a counted one.                   *)
LEMMA CountStays ==
  ASSUME TypeOK, CountOK, NEW t \in Threads, NEW label, Moves(t, label),
         label \in Counted => pc[t] \in Counted, count' = count
  PROVE  CountOK'
<1>1. IsFiniteSet(CountedThreads) /\ count \in Nat
  BY CountedAre DEF TypeOK
<1>2. CountedThreads' \in SUBSET CountedThreads
  <2>1. pc[t] \in Counted => t \in CountedThreads
    BY DEF CountedThreads
  <2> QED
    BY <2>1, CountedAre
<1>3. /\ IsFiniteSet(CountedThreads') /\ Cardinality(CountedThreads') <= Cardinality(CountedThreads)
      /\ Cardinality(CountedThreads) \in Nat /\ Cardinality(CountedThreads') \in Nat
  BY <1>1, <1>2, FS_Subset, FS_CardinalityType
<1> QED
  BY <1>1, <1>3 DEF CountOK

(* A thread that counts itself (++implicitProducerHashCount).              *)
LEMMA CountGoesUp ==
  ASSUME TypeOK, CountOK, NEW t \in Threads, NEW label, Moves(t, label), count' = count + 1
  PROVE  CountOK' /\ count' \in Nat
<1>1. IsFiniteSet(CountedThreads) /\ count \in Nat
  BY CountedAre DEF TypeOK
<1>2. Cardinality(CountedThreads) \in Nat
  BY <1>1, FS_CardinalityType
<1>3. Cardinality(CountedThreads') <= Cardinality(CountedThreads) + 1 /\ Cardinality(CountedThreads') \in Nat
  <2>1. CASE label \in Counted
    <3>1. CountedThreads' = CountedThreads \union {t}
      BY <2>1, CountedAre
    <3>2. Cardinality(CountedThreads \union {t}) =
            IF t \in CountedThreads THEN Cardinality(CountedThreads) ELSE Cardinality(CountedThreads) + 1
      BY <1>1, FS_AddElement
    <3>3. Cardinality(CountedThreads') \in Nat
      BY <1>1, <3>1, FS_AddElement, FS_CardinalityType
    <3> QED
      BY <1>2, <3>1, <3>2, <3>3
  <2>2. CASE label \notin Counted
    <3>1. CountedThreads' = CountedThreads \ {t}
      BY <2>2, CountedAre
    <3>2. Cardinality(CountedThreads \ {t}) =
            IF t \in CountedThreads THEN Cardinality(CountedThreads) - 1 ELSE Cardinality(CountedThreads)
      BY <1>1, FS_RemoveElement
    <3>3. Cardinality(CountedThreads') \in Nat
      BY <1>1, <3>1, FS_RemoveElement, FS_CardinalityType
    <3> QED
      BY <1>2, <3>1, <3>2, <3>3
  <2> QED
    BY <2>1, <2>2
<1> QED
  BY <1>1, <1>2, <1>3 DEF CountOK

(* A counted thread takes itself out of the count: it is above 0 then.     *)
LEMMA CountGoesDown ==
  ASSUME TypeOK, CountOK, NEW t \in Threads, NEW label, Moves(t, label),
         pc[t] \in Counted, label \notin Counted, count' = count - 1
  PROVE  CountOK' /\ count' \in Nat
<1>1. IsFiniteSet(CountedThreads) /\ count \in Nat /\ t \in CountedThreads
  BY CountedAre DEF TypeOK, CountedThreads
<1>2. CountedThreads' = CountedThreads \ {t}
  BY CountedAre
<1>3. /\ Cardinality(CountedThreads') = Cardinality(CountedThreads) - 1
      /\ Cardinality(CountedThreads) \in Nat
  BY <1>1, <1>2, FS_RemoveElement, FS_CardinalityType
<1>4. Cardinality(CountedThreads') \in Nat
  BY <1>1, <1>2, FS_RemoveElement, FS_CardinalityType
<1> QED
  BY <1>1, <1>3, <1>4 DEF CountOK

-----------------------------------------------------------------------------
(* Types.                                                                  *)

Grows ==
  /\ TablesOK' /\ TablesGrow
  /\ inactive' \in Seq(BOOLEAN) /\ Len(inactive) <= Len(inactive')

(* Only the locals of t change, as the types allow.                        *)
LEMMA LocalIs ==
  ASSUME TypeOK, Grows, NEW t \in Threads, NEW l, l \in Local', local' = [local EXCEPT ![t] = l]
  PROVE  /\ local' \in [Threads -> Local']
         /\ \A u \in Threads : local'[u] = IF u = t THEN l ELSE local[u]
<1>1. local \in [Threads -> Local]
  BY DEF TypeOK
<1>2. Local \subseteq Local'
  <2>1. PICK a \in Nat : a = Main
    <3>1. TablesOK
      BY DEF TypeOK, TablesOK
    <3> QED
      BY <3>1, TableIs
  <2>2. PICK b \in Nat : b = Main'
    <3>1. (TablesOK => Main \in Nat \ {0} /\ DOMAIN tables = 1 .. Main)'
      BY TableIs, PTL
    <3> QED
      BY <3>1 DEF Grows
  <2>3. a <= b
    BY <2>1, <2>2 DEF Grows, TablesGrow
  <2>4. PICK i \in Nat : i = Len(inactive)
    BY DEF TypeOK
  <2>5. PICK j \in Nat : j = Len(inactive')
    BY DEF Grows
  <2>6. i <= j
    BY <2>4, <2>5 DEF Grows
  <2>7. 0 .. a \subseteq 0 .. b /\ 1 .. i \subseteq 1 .. j /\ 0 .. i \subseteq 0 .. j
    BY <2>3, <2>6
  <2> QED
    BY <2>1, <2>2, <2>4, <2>5, <2>7 DEF Local, Producers
<1> QED
  BY <1>1, <1>2

(* The step of t to label.                                                 *)
LEMMA PcIs ==
  ASSUME TypeOK, NEW t \in Threads, NEW label \in Labels, Moves(t, label)
  PROVE  /\ pc' \in [Threads -> Labels]
         /\ \A u \in Threads : pc'[u] = IF u = t THEN label ELSE pc[u]
BY DEF TypeOK, Moves

(* The list of producers never shrinks.                                    *)
LEMMA ProducersGrow ==
  ASSUME TypeOK, Grows
  PROVE  Producers \subseteq Producers' /\ Len(inactive) \in Nat /\ Len(inactive') \in Nat
<1>1. Len(inactive) \in Nat /\ Len(inactive') \in Nat /\ Len(inactive) <= Len(inactive')
  BY DEF TypeOK, Grows
<1> QED
  BY <1>1 DEF Producers

(* What the types come to after a step that keeps the exits.               *)
LEMMA TypesAre ==
  ASSUME TypeOK, Grows, NEW t \in Threads, NEW label \in Labels, Moves(t, label),
         NEW l, l \in Local', local' = [local EXCEPT ![t] = l],
         count' \in Nat, resizing' \in BOOLEAN, searches' \in Nat,
         exitMutex' \in Threads \union {Null},
         notifier' \in [Threads -> {"none", "live", "destroyed"}],
         listener' \in [Threads -> Producers' \union {Null}]
  PROVE  TypeOK'
<1>1. local' \in [Threads -> Local']
  BY LocalIs
<1>2. pc' \in [Threads -> Labels]
  BY PcIs
<1> QED
  BY <1>1, <1>2 DEF TypeOK, TablesOK, Grows

(* The variables of the notifiers keep their types if they stay.           *)
LEMMA ExitsStay ==
  ASSUME TypeOK, Grows, UNCHANGED exits
  PROVE  /\ exitMutex' \in Threads \union {Null}
         /\ notifier' \in [Threads -> {"none", "live", "destroyed"}]
         /\ listener' \in [Threads -> Producers' \union {Null}]
<1>1. Producers \subseteq Producers'
  BY ProducersGrow
<1> QED
  BY <1>1 DEF TypeOK, exits

(* The parts of a thread's locals.                                         *)
LEMMA LocalParts ==
  ASSUME TypeOK, NEW t \in Threads
  PROVE  /\ local[t] \in Local
         /\ local[t] = [mainHash |-> local[t].mainHash, newCount |-> local[t].newCount,
                        producer |-> local[t].producer, probe |-> local[t].probe,
                        ptr |-> local[t].ptr]
         /\ local[t].mainHash \in 0 .. Main /\ local[t].newCount \in Nat
         /\ local[t].producer \in Producers \union {Null} /\ local[t].probe \in Nat
         /\ local[t].ptr \in 0 .. Len(inactive)
<1>1. local[t] \in Local
  BY DEF TypeOK
<1> QED
  BY <1>1 DEF Local

-----------------------------------------------------------------------------
(* The owners.                                                             *)

(* A thread that is entered in a table has a producer there.               *)
LEMMA HeldIs ==
  ASSUME TablesOK, NEW t \in Threads
  PROVE  /\ NoEntry(t) => \A p : ~Holds(t, p)
         /\ ~NoEntry(t) => \E p \in Producers : Holds(t, p)
         /\ \A p \in Producers : Holds(t, p) => ~NoEntry(t)
<1>1. DOMAIN tables = 1 .. Main
  BY TableIs
<1>2. ASSUME NEW p, Holds(t, p)
      PROVE  ~NoEntry(t)
  <2>1. PICK h \in 1 .. Main : \E s \in DOMAIN tables[h].entries :
          tables[h].entries[s] = [key |-> t, value |-> p]
    BY <1>1, <1>2 DEF Holds
  <2>2. Keyed(t, h)
    BY <2>1 DEF Keyed
  <2> QED
    BY <2>2 DEF NoEntry
<1>3. ASSUME ~NoEntry(t)
      PROVE  \E p \in Producers : Holds(t, p)
  <2>1. PICK h \in 1 .. Main : Keyed(t, h)
    BY <1>3 DEF NoEntry
  <2>2. PICK s \in DOMAIN tables[h].entries : tables[h].entries[s].key = t
    BY <2>1 DEF Keyed
  <2>3. PICK e \in Entry : e = tables[h].entries[s]
    BY <2>1, <2>2, KeyIs
  <2>4. e \in [key : Threads, value : Producers]
    BY <2>2, <2>3, MarksDiffer DEF Entry
  <2>5. PICK p \in Producers : e = [key |-> t, value |-> p]
    BY <2>2, <2>3, <2>4
  <2> QED
    BY <1>1, <2>3, <2>5 DEF Holds
<1> QED
  BY <1>2, <1>3

(* A thread that looks for a producer owns none.                           *)
LEMMA OwnsNoneIs ==
  ASSUME TypeOK, NEW t \in Threads, StageFits(t),
         pc[t] \in Searching
  PROVE  OwnsNone(t)
<1>1. TablesOK
  BY DEF TypeOK, TablesOK
<1>2. local[t].producer = Null /\ listener[t] = Null /\ NoEntry(t)
  BY DEF StageFits, Searching
<1>3. \A p \in Producers : p # Null
  BY TableAssumption DEF Producers
<1> QED
  BY <1>1, <1>2, <1>3, HeldIs DEF OwnsNone, Owns

(* How far a thread is still to go through the list.                       *)
LEMMA ScanIs ==
  ASSUME TypeOK, NEW t \in Threads
  PROVE  /\ Reach(t) \in Nat /\ Reach(t) <= Len(inactive)
         /\ pc[t] # "recycle" => Reach(t) = Len(inactive)
         /\ pc[t] = "recycle" => Reach(t) = local[t].ptr
         /\ Len(inactive) \in Nat
<1>1. Len(inactive) \in Nat
  BY DEF TypeOK
<1>2. local[t].ptr \in 0 .. Len(inactive)
  BY LocalParts
<1> QED
  BY <1>1, <1>2 DEF Reach

(* The owners stay.                                                        *)
OwnersStay == \A u \in Threads : \A p \in Producers : Owns(u, p)' <=> Owns(u, p)

(* A thread that goes through the list.                                    *)
ScansOn(u) ==
  pc'[u] = "recycle" =>
    \/ local'[u].ptr = Len(inactive)
    \/ /\ pc[u] = "recycle"
       /\ \/ local'[u].ptr = local[u].ptr
          \/ /\ local[u].ptr > 0 /\ local'[u].ptr = local[u].ptr - 1
             /\ ~inactive[local[u].ptr]
             /\ OwnsNone(u)

(* No owner changes, and no thread goes further than one in use: the       *)
(* coverings stay, and one that passes a producer in use adds its owner.   *)
LEMMA QuietStep ==
  ASSUME TypeOK, SharingOK, inactive' = inactive, OwnersStay,
         \A u \in Threads : ScansOn(u),
         \A u \in Threads : \A p \in Producers : inactive[p] /\ p <= Reach(u) /\ OwnsNone(u) => p <= Reach(u)'
  PROVE  SharingOK'
<1>1. Producers' = Producers /\ Len(inactive) \in Nat
  BY DEF Producers, TypeOK
<1>2. OwnersOK'
  <2>1. \A u \in Threads : \A p, q \in Producers : Owns(u, p)' /\ Owns(u, q)' => p = q
    BY DEF OwnersStay, SharingOK, OwnersOK
  <2>2. \A t, u \in Threads : \A p \in Producers : Owns(t, p)' /\ Owns(u, p)' => t = u
    BY DEF OwnersStay, SharingOK, OwnersOK
  <2>3. \A p \in Producers : inactive[p] <=> \A t \in Threads : ~Owns(t, p)'
    BY DEF OwnersStay, SharingOK, OwnersOK
  <2> QED
    BY <1>1, <2>1, <2>2, <2>3 DEF OwnersOK
<1>3. \A u \in Threads : OwnsNone(u)' <=> OwnsNone(u)
  BY <1>1 DEF OwnsNone, OwnersStay
<1>4. ASSUME NEW u \in Threads, pc'[u] = "recycle"
      PROVE  \E f \in [local'[u].ptr + 1 .. Len(inactive) -> Threads \ {u}] : Covers(f)'
  <2>1. ASSUME NEW f, DOMAIN f \subseteq Producers, Covers(f), \A p \in DOMAIN f : f[p] \in Threads
        PROVE  Covers(f)'
    <3>1. ASSUME NEW p \in DOMAIN f
          PROVE  IF inactive[p] THEN OwnsNone(f[p])' /\ p <= Reach(f[p])' ELSE Owns(f[p], p)'
      <4>1. f[p] \in Threads /\ p \in Producers
        BY <2>1, <3>1
      <4>2. IF inactive[p] THEN OwnsNone(f[p]) /\ p <= Reach(f[p]) ELSE Owns(f[p], p)
        BY <2>1, <3>1 DEF Covers
      <4> QED
        BY <1>3, <4>1, <4>2 DEF OwnersStay
    <3>2. \A p, q \in DOMAIN f : f[p] = f[q] => p = q
      BY <2>1 DEF Covers
    <3> QED
      BY <3>1, <3>2 DEF Covers
  <2>2. CASE local'[u].ptr = Len(inactive)
    <3>1. PICK n \in Nat : n = Len(inactive)
      BY <1>1
    <3>2. PICK f : f = [p \in {} |-> u]
      OBVIOUS
    <3>3. f \in [n + 1 .. n -> Threads \ {u}]
      BY <3>2
    <3>4. Covers(f)'
      BY <3>2 DEF Covers
    <3> QED
      BY <2>2, <3>1, <3>3, <3>4
  <2>3. CASE pc[u] = "recycle" /\ local'[u].ptr = local[u].ptr
    <3>1. PICK f \in [local[u].ptr + 1 .. Len(inactive) -> Threads \ {u}] : Covers(f)
      BY <2>3 DEF SharingOK, ScanFits
    <3>2. PICK i \in 0 .. Len(inactive) : i = local[u].ptr
      BY LocalParts
    <3>3. DOMAIN f \subseteq Producers
      BY <1>1, <3>1, <3>2 DEF Producers
    <3>4. Covers(f)'
      BY <2>1, <3>1, <3>3
    <3> QED
      BY <2>3, <3>1, <3>4
  <2>4. CASE /\ pc[u] = "recycle" /\ local[u].ptr > 0 /\ local'[u].ptr = local[u].ptr - 1
             /\ ~inactive[local[u].ptr] /\ OwnsNone(u)
    <3>1. PICK f \in [local[u].ptr + 1 .. Len(inactive) -> Threads \ {u}] : Covers(f)
      BY <2>4 DEF SharingOK, ScanFits
    <3>2. PICK i \in 1 .. Len(inactive) : i = local[u].ptr
      <4>1. local[u].ptr \in 0 .. Len(inactive)
        BY LocalParts
      <4> QED
        BY <1>1, <2>4, <4>1
    <3>3. PICK n \in Nat : n = Len(inactive)
      BY <1>1
    <3>4. i \in Producers /\ ~inactive[i] /\ i \in Nat
      BY <2>4, <3>2, <3>3 DEF Producers
    <3>5. PICK o \in Threads : Owns(o, i)
      BY <3>4 DEF SharingOK, OwnersOK
    <3>6. o # u
      BY <2>4, <3>4, <3>5 DEF OwnsNone
    <3>7. f \in [i + 1 .. n -> Threads \ {u}]
      BY <3>1, <3>2, <3>3
    <3>8. PICK g : g = [p \in i .. n |-> IF p = i THEN o ELSE f[p]]
      OBVIOUS
    <3>9. /\ g \in [i .. n -> Threads \ {u}] /\ DOMAIN g = i .. n
          /\ \A p \in i .. n : g[p] = IF p = i THEN o ELSE f[p]
      BY <3>6, <3>7, <3>8
    <3>10. \A p \in i + 1 .. n : f[p] # o
      <4>1. ASSUME NEW p \in i + 1 .. n, f[p] = o
            PROVE  FALSE
        <5>1. p \in Producers /\ p # i
          BY <3>3, <3>4 DEF Producers
        <5>2. IF inactive[p] THEN OwnsNone(o) ELSE Owns(o, p)
          BY <3>1, <3>7, <4>1 DEF Covers
        <5>3. ~OwnsNone(o)
          BY <3>4, <3>5 DEF OwnsNone
        <5>4. Owns(o, p)
          BY <5>2, <5>3
        <5> QED
          BY <3>4, <3>5, <5>1, <5>4 DEF SharingOK, OwnersOK
      <4> QED
        BY <4>1
    <3>11. Covers(g)
      <4>1. \A p, q \in DOMAIN g : g[p] = g[q] => p = q
        <5>1. \A p, q \in i + 1 .. n : f[p] = f[q] => p = q
          BY <3>1, <3>7 DEF Covers
        <5>2. \A p \in i .. n : p = i \/ p \in i + 1 .. n
          BY <3>4
        <5> QED
          BY <3>9, <3>10, <5>1, <5>2
      <4>2. ASSUME NEW p \in DOMAIN g
            PROVE  IF inactive[p] THEN OwnsNone(g[p]) /\ p <= Reach(g[p]) ELSE Owns(g[p], p)
        <5>1. CASE p = i
          BY <3>4, <3>5, <3>9, <5>1
        <5>2. CASE p # i
          <6>1. p \in i + 1 .. n /\ g[p] = f[p]
            BY <3>4, <3>9, <4>2, <5>2
          <6> QED
            BY <3>1, <3>7, <6>1 DEF Covers
        <5> QED
          BY <5>1, <5>2
      <4> QED
        BY <4>1, <4>2 DEF Covers
    <3>12. DOMAIN g \subseteq Producers /\ \A p \in DOMAIN g : g[p] \in Threads
      BY <3>3, <3>4, <3>9 DEF Producers
    <3>13. Covers(g)'
      BY <2>1, <3>11, <3>12
    <3>14. i = (i - 1) + 1 /\ local'[u].ptr = i - 1
      BY <2>4, <3>2, <3>4
    <3> QED
      BY <3>3, <3>9, <3>13, <3>14
  <2> QED
    BY <1>4, <2>2, <2>3, <2>4 DEF ScansOn
<1>5. \A u \in Threads : ScanFits(u)'
  BY <1>4 DEF ScanFits
<1>6. ProducersAreRecycled'
  BY DEF SharingOK, ProducersAreRecycled
<1> QED
  BY <1>2, <1>5, <1>6 DEF SharingOK

(* A producer is marked.                                                   *)
LEMMA MarkedIs ==
  ASSUME TypeOK, NEW p \in Producers, NEW b \in BOOLEAN,
         inactive' = [inactive EXCEPT ![p] = b]
  PROVE  /\ inactive' \in Seq(BOOLEAN) /\ Len(inactive') = Len(inactive)
         /\ Producers' = Producers /\ Producers = 1 .. Len(inactive) /\ Len(inactive) \in Nat
         /\ \A q \in Producers : inactive'[q] = IF q = p THEN b ELSE inactive[q]
<1>1. inactive \in Seq(BOOLEAN) /\ p \in 1 .. Len(inactive)
  BY DEF TypeOK, Producers
<1>2. PICK g : g = [inactive EXCEPT ![p] = b]
  OBVIOUS
<1>3. /\ g \in Seq(BOOLEAN) /\ Len(g) = Len(inactive)
      /\ \A q \in 1 .. Len(inactive) : g[q] = IF q = p THEN b ELSE inactive[q]
  BY <1>1, <1>2, ExceptSeq
<1> QED
  BY <1>1, <1>2, <1>3 DEF Producers

(* t takes the inactive producer that it has come to.                      *)
LEMMA TakeStep ==
  ASSUME TypeOK, SharingOK, NEW t \in Threads, NEW p \in Producers,
         pc[t] = "recycle", local[t].ptr = p, inactive[p], OwnsNone(t),
         inactive' = [inactive EXCEPT ![p] = FALSE],
         pc'[t] # "recycle",
         \A u \in Threads : u # t => pc'[u] = pc[u] /\ local'[u] = local[u],
         \A u \in Threads : \A q \in Producers : Owns(u, q)' <=> Owns(u, q) \/ (u = t /\ q = p)
  PROVE  SharingOK'
<1>1. PICK n \in Nat : n = Len(inactive) /\ Producers = 1 .. n
  <2>1. inactive \in Seq(BOOLEAN)
    BY DEF TypeOK
  <2>2. Len(inactive) \in Nat
    BY <2>1, LenProperties
  <2> QED
    BY <2>2 DEF Producers
<1>2. /\ Len(inactive') = n /\ Producers' = 1 .. n
      /\ \A q \in 1 .. n : inactive'[q] = IF q = p THEN FALSE ELSE inactive[q]
  BY <1>1, MarkedIs
<1>3. \A u \in Threads : ~Owns(u, p)
  BY DEF SharingOK, OwnersOK
<1>4. OwnersOK'
  <2>1. \A u \in Threads : \A q, r \in Producers : Owns(u, q)' /\ Owns(u, r)' => q = r
    BY DEF SharingOK, OwnersOK, OwnsNone
  <2>2. \A s, u \in Threads : \A q \in Producers : Owns(s, q)' /\ Owns(u, q)' => s = u
    BY <1>3 DEF SharingOK, OwnersOK
  <2>3. \A q \in Producers : inactive'[q] <=> \A u \in Threads : ~Owns(u, q)'
    <3>1. ASSUME NEW q \in Producers, q # p
          PROVE  inactive'[q] <=> \A u \in Threads : ~Owns(u, q)'
      <4>1. inactive'[q] = inactive[q]
        BY <1>1, <1>2, <3>1
      <4>2. \A u \in Threads : Owns(u, q)' <=> Owns(u, q)
        BY <3>1
      <4>3. inactive[q] <=> \A u \in Threads : ~Owns(u, q)
        BY DEF SharingOK, OwnersOK
      <4> QED
        BY <4>1, <4>2, <4>3
    <3>2. Owns(t, p)' /\ inactive'[p] = FALSE
      BY <1>1, <1>2
    <3> QED
      BY <3>1, <3>2
  <2> QED
    BY <1>1, <1>2, <2>1, <2>2, <2>3 DEF OwnersOK
<1>5. \A u \in Threads : u # t => (OwnsNone(u)' <=> OwnsNone(u))
  BY <1>1, <1>2 DEF OwnsNone
<1>6. \A u \in Threads : u # t => Reach(u)' = Reach(u)
  BY <1>1, <1>2 DEF Reach
<1>7. Reach(t) = p
  BY DEF Reach
<1>8. ASSUME NEW u \in Threads, pc'[u] = "recycle"
      PROVE  \E f \in [local'[u].ptr + 1 .. Len(inactive') -> Threads \ {u}] : Covers(f)'
  <2>1. u # t /\ pc[u] = "recycle" /\ local'[u] = local[u]
    BY <1>8
  <2>2. PICK f \in [local[u].ptr + 1 .. Len(inactive) -> Threads \ {u}] : Covers(f)
    BY <2>1 DEF SharingOK, ScanFits
  <2>3. PICK i \in 0 .. n : i = local[u].ptr
    BY <1>1, LocalParts
  <2>4. f \in [i + 1 .. n -> Threads \ {u}] /\ DOMAIN f = i + 1 .. n
    BY <1>1, <2>2, <2>3
  <2>5. /\ \A q, r \in i + 1 .. n : f[q] = f[r] => q = r
        /\ \A q \in i + 1 .. n : IF inactive[q] THEN OwnsNone(f[q]) /\ q <= Reach(f[q]) ELSE Owns(f[q], q)
    BY <2>2, <2>4 DEF Covers
  <2>6. \A q \in i + 1 .. n : q \in Producers
    BY <1>1
  <2>7. ASSUME NEW q \in i + 1 .. n, f[q] = t
        PROVE  inactive[q] /\ q <= p /\ p \in i + 1 .. n
    <3>1. inactive[q]
      BY <2>5, <2>6, <2>7 DEF OwnsNone
    <3>2. q <= p
      BY <1>7, <2>5, <2>7, <3>1
    <3> QED
      BY <1>1, <3>1, <3>2
  <2>8. PICK g : g = [q \in i + 1 .. n |-> IF q = p THEN t ELSE IF f[q] = t THEN f[p] ELSE f[q]]
    OBVIOUS
  <2>9. /\ DOMAIN g = i + 1 .. n
        /\ \A q \in i + 1 .. n : g[q] = IF q = p THEN t ELSE IF f[q] = t THEN f[p] ELSE f[q]
    BY <2>8
  <2>10. \A q \in i + 1 .. n : g[q] \in Threads \ {u}
    <3>1. ASSUME NEW q \in i + 1 .. n
          PROVE  g[q] \in Threads \ {u}
      <4>1. CASE f[q] = t
        <5>1. p \in i + 1 .. n
          BY <2>7, <4>1
        <5>2. f[p] \in Threads \ {u}
          BY <2>4, <5>1
        <5>3. g[q] = t \/ g[q] = f[p]
          BY <2>9, <4>1
        <5> QED
          BY <2>1, <5>2, <5>3
      <4>2. CASE f[q] # t
        <5>1. f[q] \in Threads \ {u}
          BY <2>4
        <5>2. g[q] = t \/ g[q] = f[q]
          BY <2>9, <4>2
        <5> QED
          BY <2>1, <5>1, <5>2
      <4> QED
        BY <4>1, <4>2
    <3> QED
      BY <3>1
  <2>11. g \in [i + 1 .. n -> Threads \ {u}]
    BY <2>8, <2>10
  <2>12. \A q, r \in i + 1 .. n : g[q] = g[r] => q = r
    <3>1. ASSUME NEW q \in i + 1 .. n, NEW r \in i + 1 .. n, g[q] = g[r]
          PROVE  q = r
      <4>1. CASE q = p \/ r = p
        BY <2>5, <2>7, <2>9, <3>1, <4>1
      <4>2. CASE q # p /\ r # p
        BY <2>5, <2>7, <2>9, <3>1, <4>2
      <4> QED
        BY <4>1, <4>2
    <3> QED
      BY <3>1
  <2>13. ASSUME NEW q \in i + 1 .. n
         PROVE  IF inactive'[q] THEN OwnsNone(g[q])' /\ q <= Reach(g[q])' ELSE Owns(g[q], q)'
    <3>1. q \in 1 .. n /\ q \in Nat
      BY <1>1, <2>6
    <3>2. CASE q = p
      <4>1. g[q] = t /\ inactive'[q] = FALSE
        BY <1>2, <2>9, <3>1, <3>2
      <4> QED
        BY <3>2, <4>1
    <3>3. CASE q # p /\ f[q] = t
      <4>1. inactive[q] /\ q <= p /\ p \in i + 1 .. n
        BY <2>7, <3>3
      <4>2. inactive'[q] = inactive[q] /\ g[q] = f[p]
        BY <1>2, <2>9, <3>1, <3>3
      <4>3. f[p] # t /\ f[p] \in Threads
        BY <2>4, <2>5, <3>3, <4>1
      <4>4. OwnsNone(f[p]) /\ p <= Reach(f[p])
        BY <2>5, <4>1
      <4>5. OwnsNone(f[p])' /\ Reach(f[p])' = Reach(f[p])
        BY <1>5, <1>6, <4>3, <4>4
      <4>6. q <= Reach(f[p])
        <5>1. PICK m \in Nat : m = Reach(f[p])
          BY <4>3, ScanIs
        <5> QED
          BY <1>1, <3>1, <4>1, <4>4, <5>1
      <4> QED
        BY <4>1, <4>2, <4>5, <4>6
    <3>4. CASE q # p /\ f[q] # t
      <4>1. inactive'[q] = inactive[q] /\ g[q] = f[q] /\ f[q] \in Threads
        BY <1>2, <2>4, <2>9, <3>1, <3>4
      <4>2. IF inactive[q] THEN OwnsNone(f[q]) /\ q <= Reach(f[q]) ELSE Owns(f[q], q)
        BY <2>5
      <4>3. (OwnsNone(f[q])' <=> OwnsNone(f[q])) /\ Reach(f[q])' = Reach(f[q])
        BY <1>5, <1>6, <3>4, <4>1
      <4>4. Owns(f[q], q)' <=> Owns(f[q], q)
        BY <2>6, <3>4, <4>1
      <4>5. CASE inactive[q]
        <5>1. OwnsNone(f[q])' /\ q <= Reach(f[q])'
          BY <4>2, <4>3, <4>5
        <5>2. inactive'[q]
          BY <4>1, <4>5
        <5> QED
          BY <4>1, <5>1, <5>2
      <4>6. CASE ~inactive[q]
        BY <4>1, <4>2, <4>4, <4>6
      <4> QED
        BY <4>5, <4>6
    <3> QED
      BY <3>2, <3>3, <3>4
  <2>14. Covers(g)'
    BY <2>9, <2>12, <2>13 DEF Covers
  <2> QED
    BY <1>2, <2>1, <2>3, <2>11, <2>14
<1>9. \A u \in Threads : ScanFits(u)'
  BY <1>8 DEF ScanFits
<1>10. ProducersAreRecycled'
  BY <1>1, <1>2 DEF SharingOK, ProducersAreRecycled
<1> QED
  BY <1>4, <1>9, <1>10 DEF SharingOK

(* t adds a producer: all that there are belong to other threads.          *)
LEMMA CreateStep ==
  ASSUME TypeOK, SharingOK, NEW t \in Threads,
         pc[t] = "recycle", local[t].ptr = 0, OwnsNone(t),
         inactive' = Append(inactive, FALSE),
         pc'[t] # "recycle",
         \A u \in Threads : u # t => pc'[u] = pc[u] /\ local'[u] = local[u],
         \A u \in Threads : \A q \in Producers' : Owns(u, q)' <=>
           (q \in Producers /\ Owns(u, q)) \/ (u = t /\ q = Len(inactive'))
  PROVE  SharingOK'
<1>1. PICK n \in Nat : n = Len(inactive) /\ Producers = 1 .. n
  <2>1. inactive \in Seq(BOOLEAN)
    BY DEF TypeOK
  <2>2. Len(inactive) \in Nat
    BY <2>1, LenProperties
  <2> QED
    BY <2>2 DEF Producers
<1>2. /\ Len(inactive') = n + 1 /\ Producers' = 1 .. n + 1
      /\ \A q \in 1 .. n : inactive'[q] = inactive[q] /\ q # n + 1
      /\ inactive'[n + 1] = FALSE
  <2>1. inactive \in Seq(BOOLEAN) /\ FALSE \in BOOLEAN
    BY DEF TypeOK
  <2>2. /\ Len(Append(inactive, FALSE)) = Len(inactive) + 1
        /\ \A i \in 1 .. Len(inactive) : Append(inactive, FALSE)[i] = inactive[i]
        /\ Append(inactive, FALSE)[Len(inactive) + 1] = FALSE
    BY <2>1, AppendProperties
  <2>3. Len(inactive') = n + 1
    BY <1>1, <2>2
  <2>4. Producers' = 1 .. n + 1
    BY <2>3 DEF Producers
  <2>5. \A q \in 1 .. n : inactive'[q] = inactive[q] /\ q # n + 1
    BY <1>1, <2>2
  <2>6. inactive'[n + 1] = FALSE
    BY <1>1, <2>2
  <2> QED
    BY <2>3, <2>4, <2>5, <2>6
<1>3. \A q \in 1 .. n + 1 : q \in 1 .. n \/ q = n + 1
  OBVIOUS
<1>4. \A u \in Threads : \A q \in 1 .. n : Owns(u, q)' <=> Owns(u, q)
  BY <1>1, <1>2
<1>5. \A u \in Threads : Owns(u, n + 1)' <=> u = t
  <2>1. n + 1 \in Producers' /\ n + 1 \notin Producers
    BY <1>1, <1>2
  <2> QED
    BY <1>2, <2>1
<1>6. \A q \in 1 .. n : ~Owns(t, q)
  BY <1>1 DEF OwnsNone
<1>7. OwnersOK'
  <2>1. \A u \in Threads : \A q, r \in 1 .. n + 1 : Owns(u, q)' /\ Owns(u, r)' => q = r
    BY <1>1, <1>3, <1>4, <1>5, <1>6 DEF SharingOK, OwnersOK
  <2>2. \A s, u \in Threads : \A q \in 1 .. n + 1 : Owns(s, q)' /\ Owns(u, q)' => s = u
    BY <1>1, <1>3, <1>4, <1>5 DEF SharingOK, OwnersOK
  <2>3. \A q \in 1 .. n + 1 : inactive'[q] <=> \A u \in Threads : ~Owns(u, q)'
    <3>1. ASSUME NEW q \in 1 .. n
          PROVE  inactive'[q] <=> \A u \in Threads : ~Owns(u, q)'
      <4>1. inactive[q] <=> \A u \in Threads : ~Owns(u, q)
        BY <1>1 DEF SharingOK, OwnersOK
      <4>2. \A u \in Threads : Owns(u, q)' <=> Owns(u, q)
        BY <1>4
      <4>3. inactive'[q] = inactive[q]
        BY <1>2
      <4> QED
        BY <4>1, <4>2, <4>3
    <3>2. ASSUME NEW q \in 1 .. n + 1, q = n + 1
          PROVE  inactive'[q] <=> \A u \in Threads : ~Owns(u, q)'
      <4>1. Owns(t, q)'
        BY <1>5, <3>2
      <4>2. inactive'[q] = FALSE
        BY <1>2, <3>2
      <4> QED
        BY <4>1, <4>2
    <3> QED
      BY <1>3, <3>1, <3>2
  <2> QED
    BY <1>2, <2>1, <2>2, <2>3 DEF OwnersOK
<1>8. \A u \in Threads : u # t => (OwnsNone(u)' <=> OwnsNone(u))
  BY <1>1, <1>2, <1>3, <1>4, <1>5 DEF OwnsNone
<1>9. \A u \in Threads : u # t => Reach(u) <= Reach(u)' /\ Reach(u) \in Nat /\ Reach(u)' \in Nat
  <2>1. ASSUME NEW u \in Threads, u # t
        PROVE  Reach(u) <= Reach(u)' /\ Reach(u) \in Nat /\ Reach(u)' \in Nat
    <3>1. Reach(u) \in Nat
      BY ScanIs
    <3>2. pc'[u] = pc[u] /\ local'[u] = local[u]
      BY <2>1
    <3>3. CASE pc[u] = "recycle"
      <4>1. Reach(u)' = Reach(u)
        BY <3>2, <3>3 DEF Reach
      <4> QED
        BY <3>1, <4>1
    <3>4. CASE pc[u] # "recycle"
      <4>1. Reach(u)' = n + 1 /\ Reach(u) = n
        BY <1>1, <1>2, <3>2, <3>4 DEF Reach
      <4> QED
        BY <4>1
    <3> QED
      BY <3>3, <3>4
  <2> QED
    BY <2>1
<1>10. Reach(t) = 0
  BY DEF Reach
<1>11. ASSUME NEW u \in Threads, pc'[u] = "recycle"
       PROVE  \E f \in [local'[u].ptr + 1 .. Len(inactive') -> Threads \ {u}] : Covers(f)'
  <2>1. u # t /\ pc[u] = "recycle" /\ local'[u] = local[u]
    BY <1>11
  <2>2. PICK f \in [local[u].ptr + 1 .. Len(inactive) -> Threads \ {u}] : Covers(f)
    BY <2>1 DEF SharingOK, ScanFits
  <2>3. PICK i \in 0 .. n : i = local[u].ptr
    BY <1>1, LocalParts
  <2>4. f \in [i + 1 .. n -> Threads \ {u}] /\ DOMAIN f = i + 1 .. n
    BY <1>1, <2>2, <2>3
  <2>5. /\ \A q, r \in i + 1 .. n : f[q] = f[r] => q = r
        /\ \A q \in i + 1 .. n : IF inactive[q] THEN OwnsNone(f[q]) /\ q <= Reach(f[q]) ELSE Owns(f[q], q)
    BY <2>2, <2>4 DEF Covers
  <2>6. \A q \in i + 1 .. n : q \in 1 .. n /\ q # 0 /\ q \in Nat
    OBVIOUS
  <2>7. \A q \in i + 1 .. n : f[q] # t
    <3>1. ASSUME NEW q \in i + 1 .. n, f[q] = t
          PROVE  FALSE
      <4>1. inactive[q]
        BY <1>6, <2>5, <2>6, <3>1
      <4>2. q <= 0
        BY <1>10, <2>5, <3>1, <4>1
      <4> QED
        BY <2>6, <4>2
    <3> QED
      BY <3>1
  <2>8. PICK g : g = [q \in i + 1 .. n + 1 |-> IF q = n + 1 THEN t ELSE f[q]]
    OBVIOUS
  <2>9. /\ DOMAIN g = i + 1 .. n + 1
        /\ \A q \in i + 1 .. n + 1 : g[q] = IF q = n + 1 THEN t ELSE f[q]
        /\ \A q \in i + 1 .. n + 1 : q # n + 1 => q \in i + 1 .. n
    BY <2>8
  <2>10. \A q \in i + 1 .. n + 1 : g[q] \in Threads \ {u}
    BY <2>1, <2>4, <2>9
  <2>11. g \in [i + 1 .. n + 1 -> Threads \ {u}]
    BY <2>8, <2>10
  <2>12. \A q, r \in i + 1 .. n + 1 : g[q] = g[r] => q = r
    BY <2>5, <2>7, <2>9
  <2>13. ASSUME NEW q \in i + 1 .. n + 1
         PROVE  IF inactive'[q] THEN OwnsNone(g[q])' /\ q <= Reach(g[q])' ELSE Owns(g[q], q)'
    <3>1. CASE q = n + 1
      BY <1>2, <1>5, <2>9, <3>1
    <3>2. CASE q # n + 1
      <4>1. q \in i + 1 .. n /\ q \in 1 .. n /\ q \in Nat
        BY <2>6, <2>9, <3>2
      <4>2. inactive'[q] = inactive[q] /\ g[q] = f[q] /\ f[q] \in Threads /\ f[q] # t
        BY <1>2, <2>4, <2>7, <2>9, <3>2, <4>1
      <4>3. IF inactive[q] THEN OwnsNone(f[q]) /\ q <= Reach(f[q]) ELSE Owns(f[q], q)
        BY <2>5, <4>1
      <4>4. (OwnsNone(f[q])' <=> OwnsNone(f[q])) /\ (q <= Reach(f[q]) => q <= Reach(f[q])')
        <5>1. OwnsNone(f[q])' <=> OwnsNone(f[q])
          BY <1>8, <4>2
        <5>2. PICK x \in Nat : x = Reach(f[q])
          BY <1>9, <4>2
        <5>3. PICK y \in Nat : y = Reach(f[q])'
          BY <1>9, <4>2
        <5>4. x <= y
          BY <1>9, <4>2, <5>2, <5>3
        <5>5. q <= x => q <= y
          BY <4>1, <5>4
        <5> QED
          BY <5>1, <5>2, <5>3, <5>5
      <4>5. Owns(f[q], q)' <=> Owns(f[q], q)
        BY <1>4, <4>1, <4>2
      <4> QED
        BY <4>2, <4>3, <4>4, <4>5
    <3> QED
      BY <3>1, <3>2
  <2>14. Covers(g)'
    BY <2>9, <2>12, <2>13 DEF Covers
  <2> QED
    BY <1>2, <2>1, <2>3, <2>11, <2>14
<1>12. \A u \in Threads : ScanFits(u)'
  BY <1>11 DEF ScanFits
<1>13. ProducersAreRecycled'
  <2>1. PICK f \in [1 .. n -> Threads \ {t}] : Covers(f)
    <3>1. PICK f \in [0 + 1 .. n -> Threads \ {t}] : Covers(f)
      BY <1>1 DEF SharingOK, ScanFits
    <3> QED
      BY <3>1
  <2>2. f \in Injection(1 .. n, Threads \ {t})
    BY <2>1 DEF Covers, Injection, IsInjective
  <2>3. IsFiniteSet(Threads) /\ IsFiniteSet(Threads \ {t}) /\ Cardinality(Threads \ {t}) = Cardinality(Threads) - 1
    BY TableAssumption, FS_RemoveElement
  <2>4. Cardinality(1 .. n) <= Cardinality(Threads \ {t})
    BY <2>2, <2>3, FS_Injection
  <2>5. Cardinality(1 .. n) = n
    <3>1. Cardinality(1 .. n) = IF 1 > n THEN 0 ELSE n - 1 + 1
      BY FS_Interval
    <3> QED
      BY <3>1
  <2>6. PICK c \in Nat : c = Cardinality(Threads)
    BY <2>3, FS_CardinalityType
  <2>7. n + 1 <= c
    BY <2>3, <2>4, <2>5, <2>6
  <2> QED
    BY <1>2, <2>6, <2>7 DEF ProducersAreRecycled
<1> QED
  BY <1>7, <1>12, <1>13 DEF SharingOK

(* t gives its producer back.                                              *)
LEMMA GiveBackStep ==
  ASSUME TypeOK, SharingOK, NEW t \in Threads, NEW p \in Producers, Owns(t, p),
         inactive' = [inactive EXCEPT ![p] = TRUE],
         pc[t] # "recycle", pc'[t] # "recycle",
         \A u \in Threads : u # t => pc'[u] = pc[u] /\ local'[u] = local[u],
         \A u \in Threads : \A q \in Producers : Owns(u, q)' <=> Owns(u, q) /\ u # t
  PROVE  SharingOK'
<1>1. PICK n \in Nat : n = Len(inactive) /\ Producers = 1 .. n
  <2>1. inactive \in Seq(BOOLEAN)
    BY DEF TypeOK
  <2>2. Len(inactive) \in Nat
    BY <2>1, LenProperties
  <2> QED
    BY <2>2 DEF Producers
<1>2. /\ Len(inactive') = n /\ Producers' = 1 .. n
      /\ \A q \in 1 .. n : inactive'[q] = IF q = p THEN TRUE ELSE inactive[q]
  BY <1>1, MarkedIs
<1>3. /\ \A q \in Producers : Owns(t, q) => q = p
      /\ \A u \in Threads : Owns(u, p) => u = t
  BY DEF SharingOK, OwnersOK
<1>4. OwnersOK'
  <2>1. \A u \in Threads : \A q, r \in Producers : Owns(u, q)' /\ Owns(u, r)' => q = r
    BY DEF SharingOK, OwnersOK
  <2>2. \A s, u \in Threads : \A q \in Producers : Owns(s, q)' /\ Owns(u, q)' => s = u
    BY DEF SharingOK, OwnersOK
  <2>3. \A q \in Producers : inactive'[q] <=> \A u \in Threads : ~Owns(u, q)'
    <3>1. ASSUME NEW q \in Producers, q # p
          PROVE  inactive'[q] <=> \A u \in Threads : ~Owns(u, q)'
      <4>1. inactive'[q] = inactive[q]
        BY <1>1, <1>2, <3>1
      <4>2. \A u \in Threads : Owns(u, q)' <=> Owns(u, q)
        BY <1>3, <3>1
      <4>3. inactive[q] <=> \A u \in Threads : ~Owns(u, q)
        BY DEF SharingOK, OwnersOK
      <4> QED
        BY <4>1, <4>2, <4>3
    <3>2. (\A u \in Threads : ~Owns(u, p)') /\ inactive'[p] = TRUE
      BY <1>1, <1>2, <1>3
    <3> QED
      BY <3>1, <3>2
  <2> QED
    BY <1>1, <1>2, <2>1, <2>2, <2>3 DEF OwnersOK
<1>5. OwnsNone(t)' /\ \A u \in Threads : OwnsNone(u) => OwnsNone(u)'
  BY <1>1, <1>2 DEF OwnsNone
<1>6. \A u \in Threads : Reach(u)' = Reach(u)
  BY <1>1, <1>2 DEF Reach
<1>7. ASSUME NEW u \in Threads, pc'[u] = "recycle"
      PROVE  \E f \in [local'[u].ptr + 1 .. Len(inactive') -> Threads \ {u}] : Covers(f)'
  <2>1. u # t /\ pc[u] = "recycle" /\ local'[u] = local[u]
    BY <1>7
  <2>2. PICK f \in [local[u].ptr + 1 .. Len(inactive) -> Threads \ {u}] : Covers(f)
    BY <2>1 DEF SharingOK, ScanFits
  <2>3. PICK i \in 0 .. n : i = local[u].ptr
    BY <1>1, LocalParts
  <2>4. f \in [i + 1 .. n -> Threads \ {u}] /\ DOMAIN f = i + 1 .. n
    BY <1>1, <2>2, <2>3
  <2>5. ASSUME NEW q \in i + 1 .. n
        PROVE  IF inactive'[q] THEN OwnsNone(f[q])' /\ q <= Reach(f[q])' ELSE Owns(f[q], q)'
    <3>1. q \in 1 .. n /\ q \in Producers /\ f[q] \in Threads /\ q <= n
      <4>1. f[q] \in Threads \ {u}
        BY <2>4
      <4>2. q \in 1 .. n /\ q <= n
        BY <2>3
      <4> QED
        BY <1>1, <4>1, <4>2
    <3>2. IF inactive[q] THEN OwnsNone(f[q]) /\ q <= Reach(f[q]) ELSE Owns(f[q], q)
      BY <2>2, <2>4 DEF Covers
    <3>3. CASE q = p
      <4>1. f[q] = t /\ inactive'[q]
        <5>1. ~inactive[p]
          BY DEF SharingOK, OwnersOK
        <5> QED
          BY <1>2, <1>3, <3>1, <3>2, <3>3, <5>1
      <4>2. Reach(t) = n
        BY <1>1, ScanIs
      <4> QED
        BY <1>5, <1>6, <3>1, <4>1, <4>2
    <3>4. CASE q # p
      <4>1. inactive'[q] = inactive[q]
        BY <1>2, <3>1, <3>4
      <4>2. Owns(f[q], q) => Owns(f[q], q)'
        BY <1>3, <3>1, <3>4
      <4> QED
        BY <1>5, <1>6, <3>1, <3>2, <4>1, <4>2
    <3> QED
      BY <3>3, <3>4
  <2>6. Covers(f)'
    BY <2>2, <2>4, <2>5 DEF Covers
  <2> QED
    BY <1>2, <2>1, <2>2, <2>3, <2>4, <2>6
<1>8. \A u \in Threads : ScanFits(u)'
  BY <1>7 DEF ScanFits
<1>9. ProducersAreRecycled'
  BY <1>1, <1>2 DEF SharingOK, ProducersAreRecycled
<1> QED
  BY <1>4, <1>8, <1>9 DEF SharingOK

-----------------------------------------------------------------------------
(* A step of t.                                                            *)

(* The rest of the types.                                                  *)
RestOK ==
  /\ count' \in Nat /\ resizing' \in BOOLEAN /\ searches' \in Nat
  /\ exitMutex' \in Threads \union {Null}
  /\ notifier' \in [Threads -> {"none", "live", "destroyed"}]
  /\ listener' \in [Threads -> Producers' \union {Null}]

(* What t does is not about any other thread.                              *)
OthersStay(t) ==
  \A u \in Threads : u # t =>
    /\ KeyedStays(u)
    /\ notifier'[u] = notifier[u] /\ listener'[u] = listener[u]
    /\ \A p \in Producers : Holds(u, p)' <=> Holds(u, p)

(* t goes on to label, with the locals l.                                  *)
StepsTo(t, label, l) ==
  /\ label \in Labels /\ Moves(t, label)
  /\ l \in Local' /\ local' = [local EXCEPT ![t] = l]

(* Where t is after its step; the other threads stay where they are.       *)
LEMMA StepIs ==
  ASSUME TypeOK, Grows, NEW t \in Threads, NEW label, NEW l, StepsTo(t, label, l)
  PROVE  /\ pc'[t] = label /\ local'[t] = l
         /\ \A u \in Threads : u # t => pc'[u] = pc[u] /\ local'[u] = local[u]
<1>1. \A u \in Threads : pc'[u] = IF u = t THEN label ELSE pc[u]
  BY PcIs DEF StepsTo
<1>2. \A u \in Threads : local'[u] = IF u = t THEN l ELSE local[u]
  BY LocalIs DEF StepsTo
<1> QED
  BY <1>1, <1>2

(* A step of t keeps the invariant if it keeps what the invariant says of  *)
(* the tables, of the sharing, of the count and of t.                      *)
LEMMA FitStep ==
  ASSUME IndInv, Grows, SlotsOK', RestOK, CountOK', NEW t \in Threads,
         NEW label, NEW l, StepsTo(t, label, l), OthersStay(t), ProbeFits(t)', StageFits(t)',
         SharingOK'
  PROVE  IndInv'
<1>1. TypeOK
  BY DEF IndInv
<1>2. TypeOK'
  BY <1>1, TypesAre DEF StepsTo, RestOK
<1>3. \A u \in Threads : u # t => SameFor(u)
  BY <1>1, StepIs DEF OthersStay, SameFor
<1>4. ASSUME NEW u \in Threads, u # t
      PROVE  ProbeFits(u)' /\ StageFits(u)'
  <2>1. KeyedStays(u) /\ SameFor(u) /\ TablesGrow /\ ProbeFits(u) /\ StageFits(u)
    BY <1>3, <1>4 DEF OthersStay, Grows, IndInv
  <2> QED
    BY <1>1, <1>2, <2>1, OthersFit
<1>5. \A u \in Threads : ProbeFits(u)' /\ StageFits(u)'
  BY <1>4
<1> QED
  BY <1>2, <1>5 DEF IndInv

(* The others own what they owned.                                         *)
LEMMA OthersOwn ==
  ASSUME TypeOK, Grows, NEW t \in Threads, NEW label, NEW l, StepsTo(t, label, l), OthersStay(t)
  PROVE  \A u \in Threads : u # t => \A p \in Producers : Owns(u, p)' <=> Owns(u, p)
BY StepIs DEF OthersStay, Owns

(* Nothing about the owners changes.                                       *)
LEMMA QuietAction ==
  ASSUME IndInv, TablesOK', TablesGrow, SlotsOK', inactive' = inactive, RestOK, CountOK', NEW t \in Threads,
         NEW label, NEW l, StepsTo(t, label, l), OthersStay(t), ProbeFits(t)', StageFits(t)',
         \A p \in Producers : Owns(t, p)' <=> Owns(t, p),
         ScansOn(t),
         \A p \in Producers : inactive[p] /\ p <= Reach(t) /\ OwnsNone(t) => p <= Reach(t)'
  PROVE  IndInv'
<1>1. TypeOK /\ SharingOK
  BY DEF IndInv
<1>2. Grows
  <2>1. Len(inactive) \in Nat /\ inactive \in Seq(BOOLEAN)
    BY <1>1 DEF TypeOK
  <2> QED
    BY <2>1 DEF Grows
<1>3. OwnersStay
  BY <1>1, <1>2, OthersOwn DEF OwnersStay
<1>4. \A u \in Threads : u # t => pc'[u] = pc[u] /\ local'[u] = local[u]
  BY <1>1, <1>2, StepIs
<1>5. \A u \in Threads : ScansOn(u)
  BY <1>4 DEF ScansOn
<1>6. \A u \in Threads : u # t => Reach(u)' = Reach(u)
  BY <1>4 DEF Reach
<1>7. \A u \in Threads : \A p \in Producers : inactive[p] /\ p <= Reach(u) /\ OwnsNone(u) => p <= Reach(u)'
  BY <1>6
<1>8. SharingOK'
  BY <1>1, <1>3, <1>5, <1>7, QuietStep
<1> QED
  BY <1>2, <1>8, FitStep

(* What t finds after a step that leaves the tables alone.                 *)
Arrives(t, label, l) ==
  /\ pc'[t] = label /\ local'[t] = l
  /\ NoEntry(t)' <=> NoEntry(t)
  /\ Main' = Main /\ \A g \in 1 .. Main : Keyed(t, g)' <=> Keyed(t, g)

(* Nothing but t's own variables and the counters changes.                 *)
LEMMA CalmAction ==
  ASSUME IndInv, tables' = tables, inactive' = inactive, RestOK, CountOK', NEW t \in Threads,
         NEW label, NEW l, label \in Labels, Moves(t, label), l \in Local, local' = [local EXCEPT ![t] = l],
         \A u \in Threads : u # t => notifier'[u] = notifier[u] /\ listener'[u] = listener[u],
         Arrives(t, label, l) => ProbeFits(t)' /\ StageFits(t)',
         \A p \in Producers : l.producer = p \/ listener'[t] = p \/ Holds(t, p) <=> Owns(t, p),
         label = "recycle" => 
           \/ l.ptr = Len(inactive)
           \/ /\ pc[t] = "recycle" /\ local[t].ptr > 0 /\ l.ptr = local[t].ptr - 1
              /\ ~inactive[local[t].ptr]
  PROVE  IndInv'
<1>1. TypeOK /\ SharingOK /\ SlotsOK /\ TablesOK /\ StageFits(t)
  BY DEF IndInv, TypeOK, TablesOK
<1>2. Producers' = Producers
  BY DEF Producers
<1>3. /\ TablesOK' /\ SlotsOK' /\ TablesGrow /\ Main' = Main
      /\ \A u \in Threads : \A g \in 1 .. Main : Keyed(u, g)' = Keyed(u, g)
      /\ \A u, q : Holds(u, q)' = Holds(u, q)
  BY <1>1, <1>2, TablesStay
<1>4. Main \in Nat
  BY <1>1, TableIs
<1>5. \A u \in Threads : KeyedStays(u)
  BY <1>3, <1>4 DEF KeyedStays
<1>6. OthersStay(t)
  BY <1>3, <1>5 DEF OthersStay
<1>7. StepsTo(t, label, l)
  BY <1>2, <1>3 DEF StepsTo, Local
<1>8. Grows
  <2>1. Len(inactive) \in Nat /\ inactive \in Seq(BOOLEAN)
    BY <1>1 DEF TypeOK
  <2> QED
    BY <1>3, <2>1 DEF Grows
<1>9. pc'[t] = label /\ local'[t] = l
  BY <1>1, <1>7, <1>8, StepIs
<1>10. ProbeFits(t)' /\ StageFits(t)'
  <2>1. NoEntry(t)' <=> NoEntry(t)
    BY <1>3 DEF NoEntry
  <2> QED
    BY <1>3, <1>9, <2>1 DEF Arrives
<1>11. \A p \in Producers : Owns(t, p)' <=> Owns(t, p)
  <2>1. ASSUME NEW p \in Producers
        PROVE  Owns(t, p)' <=> l.producer = p \/ listener'[t] = p \/ Holds(t, p)
    BY <1>3, <1>9 DEF Owns
  <2> QED
    BY <2>1
<1>12. pc[t] = "recycle" => OwnsNone(t)
  BY <1>1, OwnsNoneIs DEF Searching
<1>13. ScansOn(t)
  BY <1>9, <1>12 DEF ScansOn
<1>14. \A p \in Producers : inactive[p] /\ p <= Reach(t) /\ OwnsNone(t) => p <= Reach(t)'
  <2>1. PICK n \in Nat : n = Len(inactive) /\ Producers = 1 .. n
    BY <1>1 DEF TypeOK, Producers
  <2>2. CASE label # "recycle" \/ l.ptr = Len(inactive)
    <3>1. Reach(t)' = n
      BY <1>9, <2>1, <2>2 DEF Reach
    <3> QED
      BY <2>1, <3>1
  <2>3. CASE /\ label = "recycle" /\ pc[t] = "recycle" /\ local[t].ptr > 0 /\ l.ptr = local[t].ptr - 1
             /\ ~inactive[local[t].ptr]
    <3>1. PICK i \in 0 .. n : i = local[t].ptr
      BY <1>1, <2>1, LocalParts
    <3>2. Reach(t) = i /\ Reach(t)' = i - 1 /\ i > 0
      BY <1>9, <2>3, <3>1 DEF Reach
    <3>3. \A p \in Producers : inactive[p] => p # i
      BY <2>3, <3>1
    <3>4. \A p \in 1 .. n : p <= i /\ p # i => p <= i - 1
      OBVIOUS
    <3> QED
      BY <2>1, <3>2, <3>3, <3>4
  <2> QED
    BY <2>2, <2>3
<1> QED
  BY <1>3, <1>6, <1>7, <1>10, <1>11, <1>13, <1>14, QuietAction

-----------------------------------------------------------------------------
(* What a thread has to find where it neither probes nor removes.          *)
LEMMA PlainFits ==
  ASSUME NEW t \in Threads, NEW label, NEW l, pc'[t] = label, local'[t] = l,
         label \notin {"insert", "add again", "remove"}, l.probe = 0,
         label \in Searching \union {"subscribe"} =>
           l.mainHash > 0 /\ listener'[t] = Null /\ NoEntry(t)',
         notifier'[t] = "live" <=> listener'[t] # Null,
         l.producer # Null <=> label \in {"subscribe", "uncount"},
         label = "deactivate" => NoEntry(t)' /\ listener'[t] # Null,
         label = "idle" /\ listener'[t] # Null => ~NoEntry(t)',
         label = "uncount" => ~NoEntry(t)'
  PROVE  ProbeFits(t)' /\ StageFits(t)'
<1>1. ProbeFits(t)'
  BY DEF ProbeFits
<1>2. StageFits(t)'
  BY DEF StageFits
<1> QED
  BY <1>1, <1>2

(* A thread that looks for a producer is entered nowhere, and subscribed   *)
(* to nothing.                                                             *)
LEMMA SearchingIs ==
  ASSUME IndInv, NEW t \in Threads, pc[t] \in Searching
  PROVE  /\ local[t].producer = Null /\ listener[t] = Null /\ NoEntry(t)
         /\ local[t].probe = 0 /\ local[t].mainHash > 0
         /\ notifier[t] # "live"
BY DEF IndInv, ProbeFits, StageFits, Searching

(* A thread goes on with its search for a producer.                        *)
LEMMA SearchingStep ==
  ASSUME IndInv, tables' = tables, inactive' = inactive, UNCHANGED exits,
         count' \in Nat, resizing' \in BOOLEAN, searches' \in Nat, CountOK', NEW t \in Threads,
         pc[t] \in Searching, NEW label \in Searching, Moves(t, label),
         NEW l \in Local, local' = [local EXCEPT ![t] = l],
         l.probe = local[t].probe, l.producer = local[t].producer, l.mainHash > 0,
         label = "recycle" => 
           \/ l.ptr = Len(inactive)
           \/ /\ pc[t] = "recycle" /\ local[t].ptr > 0 /\ l.ptr = local[t].ptr - 1
              /\ ~inactive[local[t].ptr]
  PROVE  IndInv'
<1>1. RestOK
  BY DEF IndInv, TypeOK, RestOK, exits, Producers
<1>2. listener' = listener /\ notifier' = notifier
  BY DEF exits
<1>3. label \in Labels
  BY DEF Searching, Labels
<1>4. Arrives(t, label, l) => ProbeFits(t)' /\ StageFits(t)'
  <2>1. ASSUME Arrives(t, label, l)
        PROVE  ProbeFits(t)' /\ StageFits(t)'
    <3>1. pc'[t] = label /\ local'[t] = l /\ NoEntry(t)'
      BY <2>1, SearchingIs DEF Arrives
    <3>2. label \notin {"insert", "add again", "remove", "subscribe", "uncount", "deactivate", "idle"}
      BY DEF Searching
    <3>3. listener'[t] = Null /\ notifier'[t] # "live" /\ l.producer = Null /\ l.probe = 0
      BY <1>2, SearchingIs
    <3> QED
      BY <3>1, <3>2, <3>3, PlainFits
  <2> QED
    BY <2>1
<1>5. \A p \in Producers : l.producer = p \/ listener'[t] = p \/ Holds(t, p) <=> Owns(t, p)
  BY <1>2 DEF Owns
<1> QED
  BY <1>1, <1>2, <1>3, <1>4, <1>5, CalmAction

(* Locals that are updated.                                                *)
Hashes == 0 .. Main
Places == 0 .. Len(inactive)

OfHash(l, h) == [l EXCEPT !.mainHash = h]
OfCount(l, n) == [l EXCEPT !.newCount = n]
OfProducer(l, p) == [l EXCEPT !.producer = p]
OfProbe(l, k) == [l EXCEPT !.probe = k]
OfPtr(l, i) == [l EXCEPT !.ptr = i]
StartOf(l, i) == [l EXCEPT !.ptr = i, !.newCount = 0]
FoundAs(l, h, p) == [l EXCEPT !.mainHash = h, !.producer = p]
DoneOf(l) == [l EXCEPT !.mainHash = 0, !.probe = 0]

SameBut(l, r, hash, newCount, producer, probe, ptr) ==
  /\ hash \/ l.mainHash = r.mainHash
  /\ newCount \/ l.newCount = r.newCount
  /\ producer \/ l.producer = r.producer
  /\ probe \/ l.probe = r.probe
  /\ ptr \/ l.ptr = r.ptr

(* Updating a local keeps the types and the other locals.                  *)
LEMMA UpdatedIs ==
  ASSUME TypeOK, NEW t \in Threads, NEW l, l = local[t]
  PROVE  /\ \A h \in Hashes : LET r == OfHash(l, h) IN
              r \in Local /\ r.mainHash = h /\ SameBut(r, l, TRUE, FALSE, FALSE, FALSE, FALSE)
         /\ \A n \in Nat : LET r == OfCount(l, n) IN
              r \in Local /\ r.newCount = n /\ SameBut(r, l, FALSE, TRUE, FALSE, FALSE, FALSE)
         /\ \A p \in Producers : LET r == OfProducer(l, p) IN
              r \in Local /\ r.producer = p /\ SameBut(r, l, FALSE, FALSE, TRUE, FALSE, FALSE)
         /\ \A k \in Nat : LET r == OfProbe(l, k) IN
              r \in Local /\ r.probe = k /\ SameBut(r, l, FALSE, FALSE, FALSE, TRUE, FALSE)
         /\ \A i \in Places : LET r == OfPtr(l, i) IN
              r \in Local /\ r.ptr = i /\ SameBut(r, l, FALSE, FALSE, FALSE, FALSE, TRUE)
         /\ \A i \in Places : LET r == StartOf(l, i) IN
              r \in Local /\ r.ptr = i /\ SameBut(r, l, FALSE, TRUE, FALSE, FALSE, TRUE)
         /\ \A h \in Hashes : \A p \in Producers : LET r == FoundAs(l, h, p) IN
              /\ r \in Local /\ r.mainHash = h /\ r.producer = p
              /\ SameBut(r, l, TRUE, FALSE, TRUE, FALSE, FALSE)
         /\ LET r == DoneOf(l) IN
              r \in Local /\ r.probe = 0 /\ SameBut(r, l, TRUE, FALSE, FALSE, TRUE, FALSE)
<1>1. PICK H : H = Hashes
  OBVIOUS
<1>2. PICK I : I = Places
  OBVIOUS
<1>3. PICK P : P = Producers \union {Null} /\ \A p \in Producers : p \in P
  OBVIOUS
<1>4. l \in [mainHash : H, newCount : Nat, producer : P, probe : Nat, ptr : I]
  BY <1>1, <1>2, <1>3, LocalParts DEF Local, Hashes, Places
<1>5. Local = [mainHash : H, newCount : Nat, producer : P, probe : Nat, ptr : I]
  BY <1>1, <1>2, <1>3 DEF Local, Hashes, Places
<1>6. 0 \in H
  <2>1. TablesOK
    BY DEF TypeOK, TablesOK
  <2>2. PICK m \in Nat : m = Main
    BY <2>1, TableIs
  <2> QED
    BY <1>1, <2>2 DEF Hashes
<1>7. 0 \in Nat
  OBVIOUS
<1>8. ASSUME NEW h \in H, NEW r, r = OfHash(l, h)
     PROVE  r \in Local /\ r.mainHash = h /\ SameBut(r, l, TRUE, FALSE, FALSE, FALSE, FALSE)
  BY <1>3, <1>4, <1>5, <1>6, <1>7, <1>8 DEF OfHash, SameBut
<1>9. ASSUME NEW n \in Nat, NEW r, r = OfCount(l, n)
     PROVE  r \in Local /\ r.newCount = n /\ SameBut(r, l, FALSE, TRUE, FALSE, FALSE, FALSE)
  BY <1>3, <1>4, <1>5, <1>6, <1>7, <1>9 DEF OfCount, SameBut
<1>10. ASSUME NEW p \in Producers, NEW r, r = OfProducer(l, p)
     PROVE  r \in Local /\ r.producer = p /\ SameBut(r, l, FALSE, FALSE, TRUE, FALSE, FALSE)
  BY <1>3, <1>4, <1>5, <1>6, <1>7, <1>10 DEF OfProducer, SameBut
<1>11. ASSUME NEW k \in Nat, NEW r, r = OfProbe(l, k)
     PROVE  r \in Local /\ r.probe = k /\ SameBut(r, l, FALSE, FALSE, FALSE, TRUE, FALSE)
  BY <1>3, <1>4, <1>5, <1>6, <1>7, <1>11 DEF OfProbe, SameBut
<1>12. ASSUME NEW i \in I, NEW r, r = OfPtr(l, i)
     PROVE  r \in Local /\ r.ptr = i /\ SameBut(r, l, FALSE, FALSE, FALSE, FALSE, TRUE)
  BY <1>3, <1>4, <1>5, <1>6, <1>7, <1>12 DEF OfPtr, SameBut
<1>13. ASSUME NEW i \in I, NEW r, r = StartOf(l, i)
     PROVE  r \in Local /\ r.ptr = i /\ SameBut(r, l, FALSE, TRUE, FALSE, FALSE, TRUE)
  BY <1>3, <1>4, <1>5, <1>6, <1>7, <1>13 DEF StartOf, SameBut
<1>14. ASSUME NEW h \in H, NEW p \in Producers, NEW r, r = FoundAs(l, h, p)
     PROVE  r \in Local /\ r.mainHash = h /\ r.producer = p /\ SameBut(r, l, TRUE, FALSE, TRUE, FALSE, FALSE)
  BY <1>3, <1>4, <1>5, <1>6, <1>7, <1>14 DEF FoundAs, SameBut
<1>15. ASSUME NEW r, r = DoneOf(l)
     PROVE  r \in Local /\ r.probe = 0 /\ SameBut(r, l, TRUE, FALSE, FALSE, TRUE, FALSE)
  BY <1>3, <1>4, <1>5, <1>6, <1>7, <1>15 DEF DoneOf, SameBut
<1> QED
  BY <1>1, <1>2, <1>8, <1>9, <1>10, <1>11, <1>12, <1>13, <1>14, <1>15

(* CountEntry: the entry is counted before a place for it is looked for.   *)
LEMMA CountEntryOK ==
  ASSUME IndInv, UNCHANGED searches, NEW t \in Threads, CountEntry(t)
  PROVE  IndInv'
<1>1. TypeOK /\ CountOK
  BY DEF IndInv
<1>2. PICK label \in {"grow", "room?"} : Moves(t, label)
  BY DEF CountEntry, Go, Moves
<1>3. CountOK' /\ count' \in Nat
  BY <1>1, <1>2, CountGoesUp DEF CountEntry
<1>4. PICK l : l = OfCount(local[t], count')
  OBVIOUS
<1>5. /\ l \in Local /\ l.mainHash = local[t].mainHash /\ l.producer = local[t].producer
      /\ l.probe = local[t].probe
  BY <1>1, <1>3, <1>4, UpdatedIs DEF SameBut
<1>6. local' = [local EXCEPT ![t] = l]
  BY <1>4 DEF CountEntry, OfCount
<1>7. /\ tables' = tables /\ inactive' = inactive /\ UNCHANGED exits /\ resizing' \in BOOLEAN
      /\ searches' \in Nat
  BY <1>1 DEF CountEntry, TypeOK
<1>8. pc[t] \in Searching /\ label \in Searching /\ label # "recycle"
  BY <1>2 DEF CountEntry, Searching
<1>9. l.mainHash > 0
  BY <1>5, <1>8, SearchingIs
<1> QED
  BY <1>2, <1>3, <1>5, <1>6, <1>7, <1>8, <1>9, SearchingStep

(* TakeResizeFlag: resizing is no part of the invariant.                   *)
LEMMA TakeResizeFlagOK ==
  ASSUME IndInv, UNCHANGED searches, NEW t \in Threads, TakeResizeFlag(t)
  PROVE  IndInv'
<1>1. TypeOK /\ CountOK
  BY DEF IndInv
<1>2. PICK label \in {"resize", "room?"} : Moves(t, label)
  BY DEF TakeResizeFlag, Go, Moves
<1>3. pc[t] \in Searching /\ pc[t] \in Counted /\ label \in Searching /\ label # "recycle"
  BY <1>2 DEF TakeResizeFlag, Searching, Counted
<1>4. CountOK' /\ count' \in Nat
  BY <1>1, <1>2, <1>3, CountStays DEF TakeResizeFlag, TypeOK
<1>5. PICK l \in Local : l = local[t]
  BY <1>1, LocalParts
<1>6. local' = [local EXCEPT ![t] = l]
  BY <1>1, <1>5 DEF TakeResizeFlag, TypeOK
<1>7. /\ tables' = tables /\ inactive' = inactive /\ UNCHANGED exits /\ resizing' \in BOOLEAN
      /\ searches' \in Nat
  BY <1>1 DEF TakeResizeFlag, TypeOK
<1>8. l.mainHash > 0
  BY <1>3, <1>5, SearchingIs
<1> QED
  BY <1>2, <1>3, <1>4, <1>5, <1>6, <1>7, <1>8, SearchingStep

(* Room: to the list of producers, from its end, or back to wait.          *)
LEMMA RoomOK ==
  ASSUME IndInv, UNCHANGED searches, NEW t \in Threads, Room(t)
  PROVE  IndInv'
<1>1. TypeOK /\ CountOK /\ TablesOK
  BY DEF IndInv, TypeOK, TablesOK
<1>2. PICK m \in Nat \ {0} : m = Main
  BY <1>1, TableIs
<1>3. PICK n \in Nat : n = Len(inactive)
  BY <1>1 DEF TypeOK
<1>4. pc[t] \in Searching /\ pc[t] \in Counted
  BY DEF Room, Searching, Counted
<1>5. /\ tables' = tables /\ inactive' = inactive /\ UNCHANGED exits /\ resizing' \in BOOLEAN
      /\ searches' \in Nat /\ count' = count /\ count' \in Nat
  BY <1>1 DEF Room, TypeOK, queue
<1>6. CASE local[t].newCount < Half(local[t].mainHash) + Capacity(local[t].mainHash) \div 4
  <2>1. PICK l : l = StartOf(local[t], n)
    OBVIOUS
  <2>2. /\ l \in Local /\ l.mainHash = local[t].mainHash /\ l.producer = local[t].producer
        /\ l.probe = local[t].probe /\ l.ptr = n
    <3>1. n \in Places
      BY <1>3 DEF Places
    <3> QED
      BY <1>1, <2>1, <3>1, UpdatedIs DEF SameBut
  <2>3. local' = [local EXCEPT ![t] = l] /\ Moves(t, "recycle")
    BY <1>3, <1>6, <2>1 DEF Room, Go, Moves, StartOf
  <2>4. CountOK'
    BY <1>1, <1>4, <1>5, <2>3, CountStays
  <2>5. l.mainHash > 0
    BY <1>4, <2>2, SearchingIs
  <2>6. "recycle" \in Searching
    BY DEF Searching
  <2> QED
    BY <1>3, <1>4, <1>5, <2>2, <2>3, <2>4, <2>5, <2>6, SearchingStep
<1>7. CASE ~(local[t].newCount < Half(local[t].mainHash) + Capacity(local[t].mainHash) \div 4)
  <2>1. PICK l : l = OfHash(local[t], m)
    OBVIOUS
  <2>2. /\ l \in Local /\ l.mainHash = m /\ l.producer = local[t].producer
        /\ l.probe = local[t].probe
    <3>1. m \in Hashes
      BY <1>2 DEF Hashes
    <3> QED
      BY <1>1, <2>1, <3>1, UpdatedIs DEF SameBut
  <2>3. PICK label \in {"grow", "room?"} : Moves(t, label)
    BY <1>7 DEF Room, Go, Moves
  <2>4. local' = [local EXCEPT ![t] = l]
    BY <1>2, <1>7, <2>1 DEF Room, OfHash
  <2>5. CountOK'
    BY <1>1, <1>4, <1>5, <2>3, CountStays
  <2>6. label \in Searching /\ label # "recycle"
    BY <2>3 DEF Searching
  <2>7. l.mainHash > 0
    BY <1>2, <2>2
  <2> QED
    BY <1>4, <1>5, <2>2, <2>3, <2>4, <2>5, <2>6, <2>7, SearchingStep
<1> QED
  BY <1>6, <1>7

(* t goes on to the next producer, as the one it has come to is in use.    *)
LEMMA PassOK ==
  ASSUME IndInv, UNCHANGED searches, NEW t \in Threads, Recycle(t), ~inactive[local[t].ptr]
  PROVE  IndInv'
<1>1. TypeOK /\ CountOK
  BY DEF IndInv
<1>2. PICK n \in Nat : n = Len(inactive)
  BY <1>1 DEF TypeOK
<1>3. pc[t] = "recycle" /\ local[t].ptr > 0 /\ inactive' = inactive /\ pc' = pc
      /\ local' = [local EXCEPT ![t].ptr = @ - 1]
  BY DEF Recycle
<1>4. PICK i \in 1 .. n : i = local[t].ptr
  <2>1. PICK j \in 0 .. n : j = local[t].ptr
    BY <1>1, <1>2, LocalParts
  <2> QED
    BY <1>3, <2>1
<1>5. PICK l : l = OfPtr(local[t], i - 1)
  OBVIOUS
<1>6. /\ l \in Local /\ l.mainHash = local[t].mainHash /\ l.producer = local[t].producer
      /\ l.probe = local[t].probe /\ l.ptr = i - 1
  <2>1. i - 1 \in Places
    BY <1>2 DEF Places
  <2> QED
    BY <1>1, <1>5, <2>1, UpdatedIs DEF SameBut
<1>7. local' = [local EXCEPT ![t] = l]
  BY <1>3, <1>4, <1>5 DEF OfPtr
<1>8. pc[t] \in Searching /\ pc[t] \in Counted /\ "recycle" \in Searching
  BY <1>3 DEF Searching, Counted
<1>9. Moves(t, "recycle")
  BY <1>1, <1>3 DEF Moves, TypeOK
<1>10. /\ tables' = tables /\ UNCHANGED exits /\ resizing' \in BOOLEAN
       /\ searches' \in Nat /\ count' = count /\ count' \in Nat
  BY <1>1 DEF Recycle, TypeOK
<1>11. CountOK'
  BY <1>1, <1>8, <1>9, <1>10, CountStays
<1>12. l.mainHash > 0
  BY <1>6, <1>8, SearchingIs
<1>13. local[t].ptr > 0 /\ l.ptr = local[t].ptr - 1 /\ ~inactive[local[t].ptr]
  BY <1>3, <1>4, <1>6
<1> QED
  BY <1>3, <1>6, <1>7, <1>8, <1>9, <1>10, <1>11, <1>12, <1>13, SearchingStep

(* The holder of the flag finds that the newest table will do.             *)
LEMMA NoResizeOK ==
  ASSUME IndInv, UNCHANGED searches, NEW t \in Threads, Resize(t), UNCHANGED tables
  PROVE  IndInv'
<1>1. TypeOK /\ CountOK /\ TablesOK
  BY DEF IndInv, TypeOK, TablesOK
<1>2. PICK m \in Nat \ {0} : m = Main
  BY <1>1, TableIs
<1>3. PICK l : l = OfHash(local[t], m)
  OBVIOUS
<1>4. /\ l \in Local /\ l.mainHash = m /\ l.producer = local[t].producer
      /\ l.probe = local[t].probe
  <2>1. m \in Hashes
    BY <1>2 DEF Hashes
  <2> QED
    BY <1>1, <1>3, <2>1, UpdatedIs DEF SameBut
<1>5. local' = [local EXCEPT ![t] = l]
  BY <1>2, <1>3 DEF Resize, OfHash, Main
<1>6. pc[t] \in Searching /\ pc[t] \in Counted /\ "room?" \in Searching /\ Moves(t, "room?")
  BY DEF Resize, Searching, Counted, Go, Moves
<1>7. /\ inactive' = inactive /\ UNCHANGED exits /\ resizing' \in BOOLEAN
      /\ searches' \in Nat /\ count' = count /\ count' \in Nat
  BY <1>1 DEF Resize, TypeOK
<1>8. CountOK'
  BY <1>1, <1>6, <1>7, CountStays
<1>9. l.mainHash > 0
  BY <1>2, <1>4
<1> QED
  BY <1>4, <1>5, <1>6, <1>7, <1>8, <1>9, SearchingStep

(* The locals of a thread that is in no function.                          *)
LEMMA NoLocalsIs ==
  ASSUME TablesOK
  PROVE  /\ NoLocals.producer = Null /\ NoLocals.probe = 0
         /\ Len(inactive) \in Nat => NoLocals \in Local
<1>1. PICK m \in Nat : m = Main
  BY TableIs
<1> QED
  BY <1>1 DEF NoLocals, Local

(* A thread gives up.                                                      *)
LEMMA GivesUpOK ==
  ASSUME IndInv, UNCHANGED searches, NEW t \in Threads, ResizeFails(t) \/ CreateFails(t)
  PROVE  IndInv'
<1>1. TypeOK /\ CountOK /\ TablesOK /\ Len(inactive) \in Nat
  BY DEF IndInv, TypeOK, TablesOK
<1>2. /\ Moves(t, "idle") /\ local' = [local EXCEPT ![t] = NoLocals]
      /\ tables' = tables /\ inactive' = inactive /\ UNCHANGED exits /\ count' = count - 1
      /\ resizing' \in BOOLEAN /\ searches' \in Nat
  BY <1>1 DEF ResizeFails, CreateFails, Return, Go, Moves, TypeOK
<1>3. pc[t] \in Counted /\ pc[t] \in Searching /\ "idle" \notin Counted /\ "idle" \in Labels
  BY DEF ResizeFails, CreateFails, Counted, Searching, Labels
<1>4. CountOK' /\ count' \in Nat
  BY <1>1, <1>2, <1>3, CountGoesDown
<1>5. RestOK
  BY <1>1, <1>2, <1>4 DEF TypeOK, RestOK, exits, Producers
<1>6. PICK l \in Local : l = NoLocals /\ l.producer = Null /\ l.probe = 0
  BY <1>1, NoLocalsIs
<1>7. listener' = listener /\ notifier' = notifier /\ local[t].producer = Null
      /\ listener[t] = Null /\ notifier[t] # "live"
  BY <1>2, <1>3, SearchingIs DEF exits
<1>8. Arrives(t, "idle", l) => ProbeFits(t)' /\ StageFits(t)'
  <2>1. ASSUME Arrives(t, "idle", l)
        PROVE  ProbeFits(t)' /\ StageFits(t)'
    <3>1. pc'[t] = "idle" /\ local'[t] = l
      BY <2>1 DEF Arrives
    <3>2. "idle" \notin Searching \union {"subscribe"}
      BY DEF Searching
    <3> QED
      BY <1>6, <1>7, <3>1, <3>2, PlainFits
  <2> QED
    BY <2>1
<1>9. \A p \in Producers : l.producer = p \/ listener'[t] = p \/ Holds(t, p) <=> Owns(t, p)
  BY <1>6, <1>7 DEF Owns
<1>10. local' = [local EXCEPT ![t] = l]
  BY <1>2, <1>6
<1> QED
  BY <1>2, <1>3, <1>4, <1>5, <1>6, <1>7, <1>8, <1>9, <1>10, CalmAction

(* A slot that was given back has been counted already.                    *)
LEMMA UncountOK ==
  ASSUME IndInv, UNCHANGED searches, NEW t \in Threads, Uncount(t)
  PROVE  IndInv'
<1>1. TypeOK /\ CountOK /\ TablesOK /\ Len(inactive) \in Nat /\ StageFits(t) /\ SharingOK
  BY DEF IndInv, TypeOK, TablesOK
<1>2. /\ Moves(t, "idle") /\ local' = [local EXCEPT ![t] = NoLocals]
      /\ tables' = tables /\ inactive' = inactive /\ UNCHANGED exits /\ count' = count - 1
      /\ resizing' \in BOOLEAN /\ searches' \in Nat /\ pc[t] = "uncount"
  BY <1>1 DEF Uncount, Return, Go, Moves, TypeOK
<1>3. pc[t] \in Counted /\ "idle" \notin Counted /\ "idle" \in Labels
  BY <1>2 DEF Counted, Labels
<1>4. CountOK' /\ count' \in Nat
  BY <1>1, <1>2, <1>3, CountGoesDown
<1>5. RestOK
  BY <1>1, <1>2, <1>4 DEF TypeOK, RestOK, exits, Producers
<1>6. PICK l \in Local : l = NoLocals /\ l.producer = Null /\ l.probe = 0
  BY <1>1, NoLocalsIs
<1>7. /\ listener' = listener /\ notifier' = notifier /\ ~NoEntry(t)
      /\ notifier[t] = "live" <=> listener[t] # Null
      /\ local[t].producer # Null
  BY <1>1, <1>2 DEF exits, StageFits
<1>8. Arrives(t, "idle", l) => ProbeFits(t)' /\ StageFits(t)'
  <2>1. ASSUME Arrives(t, "idle", l)
        PROVE  ProbeFits(t)' /\ StageFits(t)'
    <3>1. pc'[t] = "idle" /\ local'[t] = l /\ ~NoEntry(t)'
      BY <1>7, <2>1 DEF Arrives
    <3>2. "idle" \notin Searching \union {"subscribe"}
      BY DEF Searching
    <3> QED
      BY <1>6, <1>7, <3>1, <3>2, PlainFits
  <2> QED
    BY <2>1
<1>9. \A p \in Producers : l.producer = p \/ listener'[t] = p \/ Holds(t, p) <=> Owns(t, p)
  <2>1. PICK q \in Producers : Holds(t, q)
    BY <1>1, <1>7, HeldIs
  <2>2. local[t].producer = q
    <3>1. PICK r \in Producers : r = local[t].producer
      BY <1>1, <1>7, LocalParts
    <3>2. Owns(t, r) /\ Owns(t, q)
      BY <2>1, <3>1 DEF Owns
    <3> QED
      BY <1>1, <3>1, <3>2 DEF SharingOK, OwnersOK
  <2>3. \A p \in Producers : l.producer # p
    BY <1>6, TableAssumption DEF Producers
  <2> QED
    BY <1>7, <2>1, <2>2, <2>3 DEF Owns
<1>10. local' = [local EXCEPT ![t] = l]
  BY <1>2, <1>6
<1> QED
  BY <1>2, <1>3, <1>4, <1>5, <1>6, <1>7, <1>8, <1>9, <1>10, CalmAction

(* There is no slot before the first.                                      *)
LEMMA NoneBefore == \A k \in 0 .. 0 - 1 : FALSE
<1>1. \A n \in Nat : \A k \in 0 .. n - 1 : n > 0
  OBVIOUS
<1> QED
  BY <1>1

AtFirst(t) ==
  /\ pc[t] \in {"insert", "add again"}
  /\ local[t].probe = 0 /\ local[t].mainHash > 0 /\ 0 < Capacity(local[t].mainHash)

(* A thread that is at the first slot has passed none.                     *)
LEMMA ProbesFirst ==
  ASSUME NEW t \in Threads, AtFirst(t)
  PROVE  ProbeFits(t)
<1>1. PICK n \in Nat : n = 0 /\ \A k \in 0 .. n - 1 : FALSE
  BY NoneBefore
<1>2. local[t].probe = n /\ n < Capacity(local[t].mainHash)
  BY <1>1 DEF AtFirst
<1>3. \A k \in 0 .. local[t].probe - 1 : FALSE
  BY <1>1, <1>2
<1>4. pc[t] \in {"insert", "add again"} /\ local[t].mainHash > 0
  BY DEF AtFirst
<1> QED
  BY <1>2, <1>3, <1>4 DEF ProbeFits

(* Subscribe: the producer taken becomes the listener of the notifier, if  *)
(* the notifier still lives.                                               *)
LEMMA SubscribeOK ==
  ASSUME IndInv, UNCHANGED searches, NEW t \in Threads, Subscribe(t)
  PROVE  IndInv'
<1>1. /\ TypeOK /\ CountOK /\ TablesOK /\ Len(inactive) \in Nat /\ StageFits(t) /\ ProbeFits(t)
  BY DEF IndInv, TypeOK, TablesOK
<1>2. PICK l : l = OfPtr(local[t], 0)
  OBVIOUS
<1>3. /\ l \in Local /\ l.mainHash = local[t].mainHash /\ l.producer = local[t].producer
      /\ l.probe = local[t].probe
  <2>1. 0 \in Places
    BY <1>1 DEF Places
  <2> QED
    BY <1>1, <1>2, <2>1, UpdatedIs DEF SameBut
<1>4. /\ Moves(t, "insert") /\ local' = [local EXCEPT ![t] = l]
      /\ tables' = tables /\ inactive' = inactive /\ count' = count /\ count' \in Nat
      /\ resizing' \in BOOLEAN /\ searches' \in Nat /\ exitMutex' = exitMutex /\ pc[t] = "subscribe"
  BY <1>1, <1>2 DEF Subscribe, Go, Moves, TypeOK, OfPtr, queue
<1>5. pc[t] \in Counted /\ "insert" \in Labels
  BY <1>4 DEF Counted, Labels
<1>6. CountOK'
  BY <1>1, <1>4, <1>5, CountStays
<1>7. /\ local[t].producer \in Producers /\ local[t].producer # Null /\ listener[t] = Null /\ NoEntry(t)
      /\ local[t].probe = 0 /\ local[t].mainHash > 0
  <2>1. local[t].producer # Null /\ listener[t] = Null /\ NoEntry(t)
    BY <1>1, <1>4 DEF StageFits
  <2>2. local[t].probe = 0 /\ local[t].mainHash > 0
    BY <1>1, <1>4 DEF ProbeFits
  <2> QED
    BY <1>1, <2>1, <2>2, LocalParts
<1>8. PICK p \in Producers : p = local[t].producer /\ p # Null
  BY <1>7
<1>9. \/ notifier[t] = "destroyed" /\ notifier' = notifier /\ listener' = listener
      \/ notifier' = [notifier EXCEPT ![t] = "live"] /\ listener' = [listener EXCEPT ![t] = p]
  BY <1>8 DEF Subscribe
<1>10. /\ notifier' \in [Threads -> {"none", "live", "destroyed"}]
       /\ listener' \in [Threads -> Producers \union {Null}]
       /\ \A u \in Threads : u # t => notifier'[u] = notifier[u] /\ listener'[u] = listener[u]
       /\ \/ notifier'[t] = "destroyed" /\ listener'[t] = Null
          \/ notifier'[t] = "live" /\ listener'[t] = p
  BY <1>1, <1>7, <1>9 DEF TypeOK
<1>11. RestOK
  BY <1>1, <1>4, <1>10 DEF TypeOK, RestOK, Producers
<1>12. Arrives(t, "insert", l) => ProbeFits(t)' /\ StageFits(t)'
  <2>1. ASSUME Arrives(t, "insert", l)
        PROVE  ProbeFits(t)' /\ StageFits(t)'
    <3>1. pc'[t] = "insert" /\ local'[t] = l /\ NoEntry(t)'
      BY <1>7, <2>1 DEF Arrives
    <3>2. l.probe = 0 /\ l.producer # Null /\ l.mainHash > 0
      BY <1>3, <1>7
    <3>3. 0 < Capacity(l.mainHash)'
      <4>1. PICK h \in 0 .. Main : h = l.mainHash
        BY <1>1, <1>3, LocalParts
      <4>2. PICK m \in Nat : m = Main
        BY <1>1, TableIs
      <4>3. h \in 1 .. Main
        BY <3>2, <4>1, <4>2
      <4>4. Capacity(h) \in Nat \ {0} /\ Capacity(h)' = Capacity(h)
        BY <1>1, <1>4, <4>3, TableIs DEF Capacity
      <4> QED
        BY <4>1, <4>4
    <3>4. ProbeFits(t)'
      <4>1. AtFirst(t)'
        BY <3>1, <3>2, <3>3 DEF AtFirst
      <4>2. (AtFirst(t) => ProbeFits(t))'
        BY ProbesFirst, PTL
      <4> QED
        BY <4>1, <4>2
    <3>5. StageFits(t)'
      <4>1. "insert" \notin Searching
        BY DEF Searching
      <4> QED
        BY <1>8, <1>10, <3>1, <3>2, <4>1 DEF StageFits
    <3> QED
      BY <3>4, <3>5
  <2> QED
    BY <2>1
<1>13. \A q \in Producers : l.producer = q \/ listener'[t] = q \/ Holds(t, q) <=> Owns(t, q)
  <2>1. \A q \in Producers : q # Null
    BY TableAssumption DEF Producers
  <2> QED
    BY <1>3, <1>7, <1>8, <1>10, <2>1 DEF Owns
<1> QED
  BY <1>3, <1>4, <1>5, <1>6, <1>10, <1>11, <1>12, <1>13, CalmAction

(* Exit: from the newest table on.                                         *)
LEMMA ExitOK ==
  ASSUME IndInv, UNCHANGED searches, NEW t \in Threads, Exit(t)
  PROVE  IndInv'
<1>1. /\ TypeOK /\ CountOK /\ TablesOK /\ StageFits(t) /\ ProbeFits(t)
  BY DEF IndInv, TypeOK, TablesOK
<1>2. PICK m \in Nat \ {0} : m = Main
  BY <1>1, TableIs
<1>3. PICK l : l = OfHash(local[t], m)
  OBVIOUS
<1>4. /\ l \in Local /\ l.mainHash = m /\ l.producer = local[t].producer
      /\ l.probe = local[t].probe
  <2>1. m \in Hashes
    BY <1>2 DEF Hashes
  <2> QED
    BY <1>1, <1>3, <2>1, UpdatedIs DEF SameBut
<1>5. /\ Moves(t, "remove") /\ local' = [local EXCEPT ![t] = l]
      /\ tables' = tables /\ inactive' = inactive /\ count' = count /\ count' \in Nat
      /\ resizing' \in BOOLEAN /\ searches' \in Nat /\ exitMutex' = t /\ pc[t] = "idle"
      /\ listener' = listener /\ notifier' = notifier /\ notifier[t] = "live"
  BY <1>1, <1>2, <1>3 DEF Exit, Go, Moves, TypeOK, OfHash, queue
<1>6. "remove" \notin Counted /\ "remove" \in Labels
  BY DEF Counted, Labels
<1>7. CountOK'
  BY <1>1, <1>5, <1>6, CountStays
<1>8. RestOK
  BY <1>1, <1>5 DEF TypeOK, RestOK, Producers
<1>9. listener[t] # Null /\ local[t].producer = Null /\ local[t].probe = 0
  BY <1>1, <1>5 DEF StageFits, ProbeFits
<1>10. Arrives(t, "remove", l) => ProbeFits(t)' /\ StageFits(t)'
  <2>1. ASSUME Arrives(t, "remove", l)
        PROVE  ProbeFits(t)' /\ StageFits(t)'
    <3>1. pc'[t] = "remove" /\ local'[t] = l /\ Main' = Main
      BY <2>1 DEF Arrives
    <3>2. l.mainHash = m /\ l.mainHash > 0 /\ l.probe = 0 /\ l.producer = Null
      BY <1>2, <1>4, <1>9
    <3>3. ProbeFits(t)'
      BY <3>1, <3>2 DEF ProbeFits
    <3>4. "remove" \notin Searching
      BY DEF Searching
    <3>5. \A h \in 1 .. Main' : ~(h > l.mainHash)
      BY <1>2, <3>1, <3>2
    <3>6. StageFits(t)'
      BY <1>5, <1>9, <3>1, <3>2, <3>4, <3>5 DEF StageFits
    <3> QED
      BY <3>3, <3>6
  <2> QED
    BY <2>1
<1>11. \A p \in Producers : l.producer = p \/ listener'[t] = p \/ Holds(t, p) <=> Owns(t, p)
  BY <1>4, <1>5 DEF Owns
<1> QED
  BY <1>4, <1>5, <1>6, <1>7, <1>8, <1>10, <1>11, CalmAction

(* Restart: a new notifier, without a listener.                            *)
LEMMA RestartOK ==
  ASSUME IndInv, UNCHANGED searches, NEW t \in Threads, Restart(t)
  PROVE  IndInv'
<1>1. /\ TypeOK /\ CountOK /\ TablesOK /\ StageFits(t) /\ ProbeFits(t)
  BY DEF IndInv, TypeOK, TablesOK
<1>2. PICK l \in Local : l = local[t]
  BY <1>1, LocalParts
<1>3. /\ Moves(t, "idle") /\ local' = [local EXCEPT ![t] = l]
      /\ tables' = tables /\ inactive' = inactive /\ count' = count /\ count' \in Nat
      /\ resizing' \in BOOLEAN /\ searches' \in Nat /\ exitMutex' = exitMutex /\ pc[t] = "idle"
      /\ listener' = listener /\ notifier' = [notifier EXCEPT ![t] = "none"] /\ notifier[t] = "destroyed"
  BY <1>1, <1>2 DEF Restart, Moves, TypeOK, queue
<1>4. "idle" \notin Counted /\ "idle" \in Labels
  BY DEF Counted, Labels
<1>5. CountOK'
  BY <1>1, <1>3, <1>4, CountStays
<1>6. /\ notifier' \in [Threads -> {"none", "live", "destroyed"}] /\ notifier'[t] = "none"
      /\ \A u \in Threads : u # t => notifier'[u] = notifier[u] /\ listener'[u] = listener[u]
  BY <1>1, <1>3 DEF TypeOK
<1>7. RestOK
  BY <1>1, <1>3, <1>6 DEF TypeOK, RestOK, Producers
<1>8. listener[t] = Null /\ local[t].producer = Null /\ local[t].probe = 0
  BY <1>1, <1>3 DEF StageFits, ProbeFits
<1>9. Arrives(t, "idle", l) => ProbeFits(t)' /\ StageFits(t)'
  <2>1. ASSUME Arrives(t, "idle", l)
        PROVE  ProbeFits(t)' /\ StageFits(t)'
    <3>1. pc'[t] = "idle" /\ local'[t] = l
      BY <2>1 DEF Arrives
    <3>2. "idle" \notin Searching \union {"subscribe"}
      BY DEF Searching
    <3>3. notifier'[t] # "live" /\ listener'[t] = Null /\ l.producer = Null /\ l.probe = 0
      BY <1>2, <1>3, <1>6, <1>8
    <3> QED
      BY <3>1, <3>2, <3>3, PlainFits
  <2> QED
    BY <2>1
<1>10. \A p \in Producers : l.producer = p \/ listener'[t] = p \/ Holds(t, p) <=> Owns(t, p)
  BY <1>2, <1>3 DEF Owns
<1> QED
  BY <1>3, <1>4, <1>5, <1>6, <1>7, <1>9, <1>10, CalmAction

-----------------------------------------------------------------------------
(* The search.                                                             *)

(* Max of a set of numbers up to n is in it.                               *)
LEMMA GreatestIs ==
  ASSUME NEW n \in Nat, NEW S \in SUBSET (1 .. n), S # {}
  PROVE  Max(S) \in S
<1>1. PICK R : R = {n - x : x \in S}
  OBVIOUS
<1>2. R \in SUBSET Nat /\ R # {}
  <2>1. ASSUME NEW y \in R
        PROVE  y \in Nat
    <3>1. PICK x \in S : y = n - x
      BY <1>1
    <3>2. x \in 1 .. n
      OBVIOUS
    <3> QED
      BY <3>1, <3>2
  <2> QED
    BY <1>1, <2>1
<1>3. PICK b \in R : \A c \in R : ~(<<c, b>> \in OpToRel(<, Nat))
  BY <1>2, NatLessThanWellFounded, WFMin
<1>4. PICK x \in S : b = n - x
  BY <1>1, <1>3
<1>5. \A y \in S : y <= x
  <2>1. ASSUME NEW y \in S
        PROVE  y <= x
    <3>1. n - y \in R /\ n - y \in Nat /\ b \in Nat
      BY <1>1, <1>2, <1>3
    <3>2. ~(n - y < b)
      BY <1>3, <3>1 DEF OpToRel
    <3>3. x \in 1 .. n /\ y \in 1 .. n
      OBVIOUS
    <3> QED
      BY <1>4, <3>2, <3>3
  <2> QED
    BY <2>1
<1> QED
  BY <1>5 DEF Max

(* Call: in no table, or found in an older one, with the producer that is  *)
(* entered there.                                                          *)
LEMMA CallOK ==
  ASSUME IndInv, NEW t \in Threads, Call(t)
  PROVE  IndInv'
<1>1. /\ TypeOK /\ CountOK /\ TablesOK /\ SlotsOK /\ SharingOK /\ StageFits(t) /\ ProbeFits(t)
  BY DEF IndInv, TypeOK, TablesOK
<1>2. PICK m \in Nat \ {0} : m = Main /\ DOMAIN tables = 1 .. m
  BY <1>1, TableIs
<1>3. PICK hashes : hashes = {h \in 1 .. Main : IsIn(t, h)}
  OBVIOUS
<1>4. \A h \in 1 .. m : h \in hashes <=> Keyed(t, h)
  BY <1>1, <1>2, <1>3, FoundIs
<1>5. /\ tables' = tables /\ inactive' = inactive /\ count' = count /\ count' \in Nat
      /\ resizing' \in BOOLEAN /\ exitMutex' = exitMutex /\ pc[t] = "idle"
      /\ listener' = listener /\ notifier' = notifier
      /\ resizing' = resizing
  BY <1>1 DEF Call, TypeOK, queue, exits
<1>6. local[t].producer = Null /\ local[t].probe = 0
  BY <1>1, <1>5 DEF StageFits, ProbeFits
<1>7. CASE hashes = {}
  <2>1. PICK l : l = OfHash(local[t], m)
    OBVIOUS
  <2>2. /\ l \in Local /\ l.mainHash = m /\ l.producer = local[t].producer
        /\ l.probe = local[t].probe
    <3>1. m \in Hashes
      BY <1>2 DEF Hashes
    <3> QED
      BY <1>1, <2>1, <3>1, UpdatedIs DEF SameBut
  <2>3. Moves(t, "count") /\ local' = [local EXCEPT ![t] = l] /\ searches' \in Nat
    <3>1. /\ searches' = searches + 1 /\ Go(t, "count")
          /\ local' = [local EXCEPT ![t].mainHash = Main]
      BY <1>3, <1>7 DEF Call
    <3>2. searches \in Nat
      BY <1>1 DEF TypeOK
    <3> QED
      BY <1>2, <2>1, <3>1, <3>2 DEF Go, Moves, OfHash
  <2>4. NoEntry(t)
    BY <1>2, <1>4, <1>7 DEF NoEntry
  <2>5. listener[t] = Null /\ notifier[t] # "live"
    BY <1>1, <1>5, <2>4 DEF StageFits
  <2>6. "count" \notin Counted /\ "count" \in Labels
    BY DEF Counted, Labels
  <2>7. CountOK'
    BY <1>1, <1>5, <2>3, <2>6, CountStays
  <2>8. RestOK
    BY <1>1, <1>5, <2>3 DEF TypeOK, RestOK, Producers
  <2>9. Arrives(t, "count", l) => ProbeFits(t)' /\ StageFits(t)'
    <3>1. ASSUME Arrives(t, "count", l)
          PROVE  ProbeFits(t)' /\ StageFits(t)'
      <4>1. pc'[t] = "count" /\ local'[t] = l /\ NoEntry(t)'
        BY <2>4, <3>1 DEF Arrives
      <4>2. l.mainHash > 0 /\ l.probe = 0 /\ l.producer = Null
        BY <1>2, <1>6, <2>2
      <4>3. listener'[t] = Null /\ notifier'[t] # "live"
        BY <1>5, <2>5
      <4> QED
        BY <4>1, <4>2, <4>3, PlainFits
    <3> QED
      BY <3>1
  <2>10. \A p \in Producers : l.producer = p \/ listener'[t] = p \/ Holds(t, p) <=> Owns(t, p)
    BY <1>5, <2>2 DEF Owns
  <2> QED
    BY <1>5, <2>2, <2>3, <2>6, <2>7, <2>8, <2>9, <2>10, CalmAction
<1>8. CASE hashes # {}
  <2>1. PICK h \in 1 .. m : h = Max(hashes) /\ h \in hashes
    <3>1. hashes \in SUBSET (1 .. m)
      BY <1>2, <1>3
    <3> QED
      BY <1>8, <3>1, GreatestIs
  <2>2. /\ Found(t, h) \in DOMAIN tables[h].entries
        /\ tables[h].entries[Found(t, h)].key = t
    BY <1>1, <1>2, <1>4, <2>1, FoundIs
  <2>3. PICK e \in Entry : e = tables[h].entries[Found(t, h)]
    BY <1>1, <1>2, <2>1, <2>2, KeyIs
  <2>4. e \in [key : Threads, value : Producers] /\ e.key = t
    BY <2>2, <2>3, MarksDiffer DEF Entry
  <2>5. PICK p \in Producers : p = e.value /\ e = [key |-> t, value |-> p]
    BY <2>4
  <2>6. Holds(t, p)
    BY <1>2, <2>1, <2>2, <2>3, <2>5 DEF Holds
  <2>7. PICK l : l = FoundAs(local[t], m, p)
    OBVIOUS
  <2>8. l \in Local /\ l.mainHash = m /\ l.producer = p /\ l.probe = local[t].probe
    <3>1. m \in Hashes
      BY <1>2 DEF Hashes
    <3> QED
      BY <1>1, <2>7, <3>1, UpdatedIs DEF SameBut
  <2>9. /\ Moves(t, "add again") /\ searches' \in Nat /\ Main \notin hashes
        /\ local' = [local EXCEPT ![t].mainHash = Main,
                                  ![t].producer = tables[h].entries[Found(t, h)].value]
    BY <1>1, <1>3, <1>8, <2>1 DEF Call, Go, Moves, TypeOK
  <2>10. local' = [local EXCEPT ![t] = l]
    BY <1>2, <2>3, <2>5, <2>7, <2>9 DEF FoundAs
  <2>11. ~NoEntry(t) /\ ~Keyed(t, m)
    <3>1. Keyed(t, h) /\ h \in 1 .. Main
      BY <1>2, <1>4, <2>1
    <3>2. m \in 1 .. m /\ m \notin hashes
      <4>1. Main \notin hashes
        BY <2>9
      <4> QED
        BY <1>2, <4>1
    <3>3. ~Keyed(t, m)
      BY <1>4, <3>2
    <3> QED
      BY <3>1, <3>3 DEF NoEntry
  <2>12. "add again" \notin Counted /\ "add again" \in Labels
    BY DEF Counted, Labels
  <2>13. CountOK'
    BY <1>1, <1>5, <2>9, <2>12, CountStays
  <2>14. RestOK
    BY <1>1, <1>5, <2>9 DEF TypeOK, RestOK, Producers
  <2>15. p # Null
    BY TableAssumption DEF Producers
  <2>16. Arrives(t, "add again", l) => ProbeFits(t)' /\ StageFits(t)'
    <3>1. ASSUME Arrives(t, "add again", l)
          PROVE  ProbeFits(t)' /\ StageFits(t)'
      <4>1. pc'[t] = "add again" /\ local'[t] = l /\ ~NoEntry(t)'
        BY <2>11, <3>1 DEF Arrives
      <4>2. l.mainHash = m /\ l.mainHash > 0 /\ l.probe = 0 /\ l.producer # Null
        BY <1>2, <1>6, <2>8, <2>15
      <4>3. 0 < Capacity(l.mainHash)'
        <5>1. m \in 1 .. Main
          BY <1>2
        <5>2. Capacity(m) \in Nat \ {0} /\ Capacity(m)' = Capacity(m)
          BY <1>1, <1>5, <5>1, TableIs DEF Capacity
        <5> QED
          BY <4>2, <5>2
      <4>4. ~Keyed(t, m)'
        BY <1>5, <2>11 DEF Keyed
      <4>5. ProbeFits(t)'
        <5>1. l.probe = 0 /\ l.mainHash > 0
          BY <4>2
        <5>2. pc'[t] = "add again" /\ local'[t] = l
          BY <4>1
        <5>3. AtFirst(t)'
          BY <4>3, <5>1, <5>2 DEF AtFirst
        <5>4. (AtFirst(t) => ProbeFits(t))'
          BY ProbesFirst, PTL
        <5> QED
          BY <5>3, <5>4
      <4>6. "add again" \notin Searching
        BY DEF Searching
      <4>7. notifier'[t] = "live" <=> listener'[t] # Null
        BY <1>1, <1>5 DEF StageFits
      <4>8. ~Keyed(t, local[t].mainHash)'
        BY <4>1, <4>2, <4>4 DEF Keyed
      <4>9. StageFits(t)'
        BY <4>1, <4>2, <4>6, <4>7, <4>8 DEF StageFits
      <4> QED
        BY <4>5, <4>9
    <3> QED
      BY <3>1
  <2>17. \A q \in Producers : l.producer = q \/ listener'[t] = q \/ Holds(t, q) <=> Owns(t, q)
    <3>1. \A q \in Producers : q # Null
      BY TableAssumption DEF Producers
    <3> QED
      BY <1>5, <1>6, <2>6, <2>8, <3>1 DEF Owns
  <2> QED
    BY <1>5, <2>8, <2>9, <2>10, <2>12, <2>13, <2>14, <2>16, <2>17, CalmAction
<1> QED
  BY <1>7, <1>8

-----------------------------------------------------------------------------
(* The loop that enters an id.                                             *)

IsProbing(t) == pc[t] \in {"insert", "add again"}

(* What the invariant says of a thread that enters its id.                 *)
LEMMA ProbingIs ==
  ASSUME IndInv, NEW t \in Threads, IsProbing(t)
  PROVE  /\ local[t].mainHash \in 1 .. Main /\ local[t].probe \in Nat
         /\ local[t].probe < Capacity(local[t].mainHash)
         /\ Capacity(local[t].mainHash) \in Nat \ {0}
         /\ \A k \in 0 .. local[t].probe - 1 :
              Key(local[t].mainHash, Slot(t, local[t].mainHash, k)) # Invalid
         /\ ~Keyed(t, local[t].mainHash)
         /\ local[t].producer \in Producers /\ local[t].producer # Null
         /\ (notifier[t] = "live" <=> listener[t] # Null)
         /\ (pc[t] = "insert" => NoEntry(t))
         /\ (pc[t] = "add again" => ~NoEntry(t))
<1>1. /\ TypeOK /\ TablesOK /\ StageFits(t) /\ ProbeFits(t)
  BY DEF IndInv, TypeOK, TablesOK
<1>2. PICK m \in Nat : m = Main
  BY <1>1, TableIs
<1>3. PICK h \in 0 .. m : h = local[t].mainHash
  BY <1>1, <1>2, LocalParts
<1>4. h > 0
  <2>1. pc[t] \in Searching \union {"subscribe", "insert", "add again", "remove"}
    BY DEF IsProbing
  <2> QED
    BY <1>1, <1>3, <2>1 DEF ProbeFits
<1>5. h \in 1 .. Main
  BY <1>2, <1>4
<1>6. Capacity(h) \in Nat \ {0}
  BY <1>1, <1>5, TableIs
<1>7. /\ local[t].probe < Capacity(local[t].mainHash)
      /\ \A k \in 0 .. local[t].probe - 1 :
           Key(local[t].mainHash, Slot(t, local[t].mainHash, k)) # Invalid
  BY <1>1 DEF ProbeFits, IsProbing
<1>8. /\ local[t].producer # Null
      /\ (notifier[t] = "live" <=> listener[t] # Null)
      /\ pc[t] = "insert" => NoEntry(t)
      /\ pc[t] = "add again" => ~NoEntry(t) /\ ~Keyed(t, local[t].mainHash)
  BY <1>1 DEF StageFits, IsProbing
<1>9. ~Keyed(t, local[t].mainHash)
  BY <1>3, <1>5, <1>8 DEF NoEntry, IsProbing
<1>10. local[t].producer \in Producers \union {Null} /\ local[t].probe \in Nat
  BY <1>1, LocalParts
<1>11. local[t].mainHash \in 1 .. Main
  BY <1>3, <1>5
<1>12. Capacity(local[t].mainHash) \in Nat \ {0}
  BY <1>3, <1>6
<1>13. local[t].producer \in Producers /\ local[t].probe \in Nat
  BY <1>8, <1>10
<1> QED
  BY <1>7, <1>8, <1>9, <1>11, <1>12, <1>13

(* On to the next slot.                                                    *)
LEMMA NextSlotIs ==
  ASSUME NEW c \in Nat \ {0}, NEW k \in Nat, k < c
  PROVE  /\ (k + 1) % c \in Nat /\ (k + 1) % c < c
         /\ \A i \in 0 .. ((k + 1) % c) - 1 : i \in 0 .. k - 1 \/ i = k
<1>1. CASE k + 1 < c
  <2>1. (k + 1) % c = k + 1
    BY <1>1
  <2> QED
    BY <1>1, <2>1
<1>2. CASE k + 1 = c
  <2>1. (k + 1) % c = 0
    BY <1>2
  <2>2. PICK n \in Nat : n = 0
    OBVIOUS
  <2>3. \A i \in 0 .. n - 1 : FALSE
    BY <2>2, NoneBefore
  <2> QED
    BY <2>1, <2>2, <2>3
<1> QED
  BY <1>1, <1>2

(* NextSlot: the slot passed is not empty, so the search will pass it too. *)
LEMMA NextSlotOK ==
  ASSUME IndInv, UNCHANGED <<searches, count, resizing, inactive, exits>>, NEW t \in Threads,
         IsProbing(t), NextSlot(t)
  PROVE  IndInv'
<1>1. /\ TypeOK /\ CountOK /\ TablesOK
  BY DEF IndInv, TypeOK, TablesOK
<1>2. PICK h \in 1 .. Main : h = local[t].mainHash
  BY ProbingIs
<1>3. PICK k \in Nat : k = local[t].probe
  BY ProbingIs
<1>4. PICK c \in Nat \ {0} : c = Capacity(h) /\ k < c
  BY <1>2, <1>3, ProbingIs
<1>5. PICK j \in Nat : j = (k + 1) % c /\ j < c /\ \A i \in 0 .. j - 1 : i \in 0 .. k - 1 \/ i = k
  BY <1>4, NextSlotIs
<1>6. PICK l : l = OfProbe(local[t], j)
  OBVIOUS
<1>7. /\ l \in Local /\ l.mainHash = h /\ l.producer = local[t].producer
      /\ l.probe = j
  BY <1>1, <1>2, <1>6, UpdatedIs DEF SameBut
<1>8. local' = [local EXCEPT ![t] = l]
  BY <1>2, <1>3, <1>4, <1>5, <1>6 DEF NextSlot, OfProbe
<1>9. PICK label : label = pc[t]
  OBVIOUS
<1>10. /\ Moves(t, label)
       /\ tables' = tables /\ inactive' = inactive /\ count' = count /\ count' \in Nat
       /\ resizing' \in BOOLEAN /\ searches' \in Nat /\ exitMutex' = exitMutex
       /\ listener' = listener /\ notifier' = notifier
  BY <1>1, <1>9 DEF NextSlot, Moves, TypeOK, exits
<1>11. label \in Labels /\ label \notin Searching /\ label # "recycle"
  BY <1>9 DEF Labels, Searching, IsProbing
<1>12. CountOK'
  BY <1>1, <1>9, <1>10, CountStays
<1>13. RestOK
  BY <1>1, <1>10 DEF TypeOK, RestOK, Producers
<1>14. Key(h, Slot(t, h, k)) # Invalid
  BY <1>2, <1>3 DEF NextSlot, ProbedKey, ProbedSlot
<1>15. \A i \in 0 .. j - 1 : Key(h, Slot(t, h, i)) # Invalid
  BY <1>2, <1>3, <1>5, <1>14, ProbingIs
<1>16. Arrives(t, label, l) => ProbeFits(t)' /\ StageFits(t)'
  <2>1. ASSUME Arrives(t, label, l)
        PROVE  ProbeFits(t)' /\ StageFits(t)'
    <3>1. /\ pc'[t] = label /\ local'[t] = l
          /\ (NoEntry(t)' <=> NoEntry(t))
          /\ (Keyed(t, h)' <=> Keyed(t, h))
      BY <2>1 DEF Arrives
    <3>2. local'[t].mainHash = h /\ local'[t].probe = j /\ local'[t].producer # Null
      <4>1. local[t].producer # Null
        BY ProbingIs
      <4>2. l.mainHash = h /\ l.probe = j /\ l.producer # Null
        BY <1>7, <4>1
      <4> QED
        BY <3>1, <4>2
    <3>3. ProbeFits(t)'
      <4>1. Capacity(h)' = c /\ \A i : Key(h, Slot(t, h, i))' = Key(h, Slot(t, h, i))
        BY <1>4, <1>10 DEF Capacity, Key, Slot
      <4>2. local'[t].probe < Capacity(local[t].mainHash)'
        <5>1. j < c
          BY <1>5
        <5> QED
          BY <3>2, <4>1, <5>1
      <4>3. \A i \in 0 .. local'[t].probe - 1 :
              Key(local[t].mainHash, Slot(t, local[t].mainHash, i))' # Invalid
        BY <1>15, <3>2, <4>1
      <4>4. local'[t].mainHash > 0
        BY <3>2
      <4>5. pc'[t] \in {"insert", "add again"}
        BY <1>9, <3>1 DEF IsProbing
      <4> QED
        BY <4>2, <4>3, <4>4, <4>5 DEF ProbeFits
    <3>4. ~Keyed(t, local[t].mainHash)'
      <4>1. ~Keyed(t, h)
        BY <1>2, ProbingIs
      <4> QED
        BY <3>1, <3>2, <4>1 DEF Keyed
    <3>5. StageFits(t)'
      <4>1. pc'[t] = label /\ local'[t].producer # Null /\ (NoEntry(t)' <=> NoEntry(t))
        BY <3>1, <3>2
      <4>2. /\ notifier'[t] = "live" <=> listener'[t] # Null
            /\ label = "insert" => NoEntry(t)
            /\ label = "add again" => ~NoEntry(t)
        BY <1>9, <1>10, ProbingIs
      <4>3. label = "insert" \/ label = "add again"
        BY <1>9 DEF IsProbing
      <4>4. label \notin Searching \union {"subscribe"}
        BY <4>3 DEF Searching
      <4> QED
        BY <3>4, <4>1, <4>2, <4>3, <4>4 DEF StageFits
    <3> QED
      BY <3>3, <3>5
  <2> QED
    BY <2>1
<1>17. \A p \in Producers : l.producer = p \/ listener'[t] = p \/ Holds(t, p) <=> Owns(t, p)
  BY <1>7, <1>10 DEF Owns
<1> QED
  BY <1>7, <1>8, <1>10, <1>11, <1>12, <1>13, <1>16, <1>17, CalmAction

(* The id is entered.                                                      *)
LEMMA EnterIdIs ==
  ASSUME IndInv, inactive' = inactive, UNCHANGED exits, NEW t \in Threads,
         IsProbing(t), EnterId(t)
  PROVE  /\ TablesOK' /\ SlotsOK' /\ TablesGrow /\ Main' = Main /\ OthersStay(t)
         /\ ~NoEntry(t)'
         /\ \A q \in Producers : Holds(t, q)' <=> Holds(t, q) \/ q = local[t].producer
<1>1. /\ TypeOK /\ TablesOK /\ SlotsOK
  BY DEF IndInv, TypeOK, TablesOK
<1>2. PICK h \in 1 .. Main : h = local[t].mainHash
  BY ProbingIs
<1>3. PICK k \in 0 .. Capacity(h) - 1 : k = local[t].probe
  <2>1. PICK c \in Nat \ {0} : c = Capacity(h)
    BY <1>2, ProbingIs
  <2>2. PICK i \in Nat : i = local[t].probe
    BY ProbingIs
  <2>3. i < c
    BY <1>2, <2>1, <2>2, ProbingIs
  <2>4. i \in 0 .. c - 1
    BY <2>3
  <2> QED
    BY <2>1, <2>2, <2>4
<1>4. PICK p \in Producers : p = local[t].producer
  BY ProbingIs
<1>5. /\ Key(h, Slot(t, h, k)) \in {Invalid, Invalid2}
      /\ tables' = Entered(h, Slot(t, h, k), [key |-> t, value |-> p])
  BY <1>2, <1>3, <1>4 DEF EnterId, ProbedKey, ProbedSlot
<1>6. ~Keyed(t, h) /\ \A i \in 0 .. k - 1 : Key(h, Slot(t, h, i)) # Invalid
  BY <1>2, <1>3, ProbingIs
<1>7. /\ TablesOK' /\ SlotsOK' /\ TablesGrow /\ Main' = Main
      /\ \A u \in Threads : \A g \in 1 .. Main :
           Keyed(u, g)' <=> Keyed(u, g) \/ (u = t /\ g = h)
      /\ \A u \in Threads : \A q \in Producers :
           Holds(u, q)' <=> Holds(u, q) \/ (u = t /\ q = p)
  BY <1>1, <1>5, <1>6, EnteredIs
<1>8. ~NoEntry(t)'
  <2>1. Keyed(t, h)' /\ h \in 1 .. Main'
    BY <1>7
  <2> QED
    BY <2>1 DEF NoEntry
<1>9. OthersStay(t)
  <2>1. Main \in Nat
    BY <1>1, TableIs
  <2>2. \A u \in Threads : u # t => KeyedStays(u)
    BY <1>7, <2>1 DEF KeyedStays
  <2> QED
    BY <1>7, <2>2 DEF OthersStay, exits
<1> QED
  BY <1>4, <1>7, <1>8, <1>9

(* The thread has its producer, and returns.                               *)
LEMMA EnterIdReturns ==
  ASSUME IndInv, inactive' = inactive, UNCHANGED <<searches, count, resizing, exits>>, NEW t \in Threads,
         IsProbing(t), EnterId(t), Return(t)
  PROVE  IndInv'
<1>1. /\ TypeOK /\ CountOK /\ TablesOK /\ Len(inactive) \in Nat
  BY DEF IndInv, TypeOK, TablesOK
<1>2. /\ TablesOK' /\ SlotsOK' /\ TablesGrow /\ Main' = Main /\ OthersStay(t)
      /\ ~NoEntry(t)'
      /\ \A q \in Producers : Holds(t, q)' <=> Holds(t, q) \/ q = local[t].producer
  BY EnterIdIs
<1>3. PICK l \in Local : l = NoLocals /\ l.producer = Null /\ l.probe = 0
  BY <1>1, NoLocalsIs
<1>4. "idle" \notin Counted /\ "idle" \in Labels /\ "idle" \notin Searching \union {"subscribe"}
  BY DEF Counted, Labels, Searching
<1>5. Local' = Local /\ Producers' = Producers
  BY <1>2 DEF Local, Producers
<1>6. StepsTo(t, "idle", l) /\ Moves(t, "idle")
  BY <1>3, <1>4, <1>5 DEF StepsTo, Return, Go, Moves
<1>7. CountOK'
  BY <1>1, <1>4, <1>6, CountStays
<1>8. RestOK
  BY <1>1, <1>5 DEF TypeOK, RestOK, exits
<1>9. Grows
  BY <1>1, <1>2 DEF Grows, TypeOK
<1>10. pc'[t] = "idle" /\ local'[t] = l
  BY <1>1, <1>6, <1>9, StepIs
<1>11. notifier' = notifier /\ listener' = listener /\ (notifier[t] = "live" <=> listener[t] # Null)
  BY ProbingIs DEF exits
<1>12. ProbeFits(t)' /\ StageFits(t)'
  BY <1>2, <1>3, <1>4, <1>10, <1>11, PlainFits
<1>13. \A p \in Producers : Owns(t, p)' <=> Owns(t, p)
  <2>1. \A p \in Producers : p # Null
    BY TableAssumption DEF Producers
  <2> QED
    BY <1>2, <1>3, <1>10, <1>11, <2>1 DEF Owns
<1>14. ScansOn(t)
  BY <1>10 DEF ScansOn
<1>15. \A p \in Producers : p <= Reach(t)'
  BY <1>1, <1>10 DEF Reach, Producers
<1> QED
  BY <1>2, <1>6, <1>7, <1>8, <1>12, <1>13, <1>14, <1>15, QuietAction

(* AddAgain: the id is entered in the newest table as well.                *)
LEMMA AddAgainOK ==
  ASSUME IndInv, UNCHANGED searches, NEW t \in Threads, AddAgain(t)
  PROVE  IndInv'
<1>1. /\ IsProbing(t)
      /\ UNCHANGED <<searches, count, resizing, inactive, exits>>
      /\ (EnterId(t) /\ Return(t)) \/ NextSlot(t)
  BY DEF AddAgain, IsProbing
<1> QED
  BY <1>1, NextSlotOK, EnterIdReturns

(* Insert: the id is entered; a slot that was given back is uncounted.     *)
LEMMA InsertOK ==
  ASSUME IndInv, UNCHANGED searches, NEW t \in Threads, Insert(t)
  PROVE  IndInv'
<1>1. /\ pc[t] = "insert" /\ IsProbing(t)
      /\ UNCHANGED <<searches, count, resizing, inactive, exits>>
  BY DEF Insert, IsProbing
<1>2. \/ EnterId(t) /\ Return(t)
      \/ NextSlot(t)
      \/ /\ EnterId(t) /\ Go(t, "uncount")
         /\ local' = [local EXCEPT ![t].mainHash = 0, ![t].probe = 0]
  BY DEF Insert
<1>3. CASE EnterId(t) /\ Return(t)
  BY <1>1, <1>3, EnterIdReturns
<1>4. CASE NextSlot(t)
  BY <1>1, <1>4, NextSlotOK
<1>5. CASE /\ EnterId(t) /\ Go(t, "uncount")
           /\ local' = [local EXCEPT ![t].mainHash = 0, ![t].probe = 0]
  <2>1. /\ TypeOK /\ CountOK /\ TablesOK /\ Len(inactive) \in Nat
    BY DEF IndInv, TypeOK, TablesOK
  <2>2. /\ TablesOK' /\ SlotsOK' /\ TablesGrow /\ Main' = Main /\ OthersStay(t)
        /\ ~NoEntry(t)'
        /\ \A q \in Producers : Holds(t, q)' <=> Holds(t, q) \/ q = local[t].producer
    BY <1>1, <1>5, EnterIdIs
  <2>3. PICK l : l = DoneOf(local[t])
    OBVIOUS
  <2>4. l \in Local /\ l.probe = 0 /\ l.producer = local[t].producer
    BY <2>1, <2>3, UpdatedIs DEF SameBut
  <2>5. local' = [local EXCEPT ![t] = l]
    BY <1>5, <2>3 DEF DoneOf
  <2>6. "uncount" \in Counted /\ "uncount" \in Labels /\ "uncount" \notin Searching \union {"subscribe"}
        /\ pc[t] \in Counted
    BY <1>1 DEF Counted, Labels, Searching
  <2>7. Local' = Local /\ Producers' = Producers
    BY <1>1, <2>2 DEF Local, Producers
  <2>8. StepsTo(t, "uncount", l) /\ Moves(t, "uncount")
    BY <1>5, <2>4, <2>5, <2>6, <2>7 DEF StepsTo, Go, Moves
  <2>9. CountOK'
    BY <1>1, <2>1, <2>6, <2>8, CountStays
  <2>10. RestOK
    BY <1>1, <2>1, <2>7 DEF TypeOK, RestOK, exits
  <2>11. Grows
    BY <1>1, <2>1, <2>2 DEF Grows, TypeOK
  <2>12. pc'[t] = "uncount" /\ local'[t] = l
    BY <2>1, <2>8, <2>11, StepIs
  <2>13. /\ notifier' = notifier /\ listener' = listener /\ (notifier[t] = "live" <=> listener[t] # Null)
         /\ local[t].producer # Null
    BY <1>1, ProbingIs DEF exits
  <2>14. ProbeFits(t)' /\ StageFits(t)'
    BY <2>2, <2>4, <2>6, <2>12, <2>13, PlainFits
  <2>15. \A p \in Producers : Owns(t, p)' <=> Owns(t, p)
    BY <2>2, <2>4, <2>12, <2>13 DEF Owns
  <2>16. ScansOn(t)
    BY <2>12 DEF ScansOn
  <2>17. \A p \in Producers : p <= Reach(t)'
    BY <1>1, <2>1, <2>12 DEF Reach, Producers
  <2> QED
    BY <1>1, <2>2, <2>8, <2>9, <2>10, <2>14, <2>15, <2>16, <2>17, QuietAction
<1> QED
  BY <1>2, <1>3, <1>4, <1>5

-----------------------------------------------------------------------------
(* The holder of the flag adds a table.                                    *)
LEMMA AddTableOK ==
  ASSUME IndInv, UNCHANGED searches, NEW t \in Threads, Resize(t),
         Crowded(Main, local[t].newCount)
  PROVE  IndInv'
<1>1. TypeOK /\ CountOK /\ TablesOK /\ SlotsOK /\ Len(inactive) \in Nat
  BY DEF IndInv, TypeOK, TablesOK
<1>2. PICK c \in Nat \ {0} : c = NewCapacity(local[t].newCount)
  BY <1>1, LocalParts, NewCapacityIs
<1>3. /\ tables' = Append(tables, EmptyTable(c)) /\ inactive' = inactive
      /\ UNCHANGED exits /\ count' = count /\ count' \in Nat /\ resizing' \in BOOLEAN
      /\ searches' \in Nat /\ Moves(t, "room?") /\ pc[t] = "resize"
      /\ local' = [local EXCEPT ![t].mainHash = Len(tables')]
  BY <1>1, <1>2 DEF Resize, TypeOK, Go, Moves
<1>4. PICK m \in Nat \ {0} : m = Main
  BY <1>1, TableIs
<1>5. /\ TablesOK' /\ SlotsOK' /\ TablesGrow /\ Main' = m + 1
      /\ \A u \in Threads : \A g \in 1 .. Main : Keyed(u, g)' = Keyed(u, g)
      /\ \A u \in Threads : \A g \in 1 .. Main' : g > Main => ~Keyed(u, g)'
      /\ \A u \in Threads : \A q \in Producers : Holds(u, q)' = Holds(u, q)
  BY <1>1, <1>3, <1>4, AppendedIs
<1>6. /\ local[t].producer = Null /\ listener[t] = Null /\ NoEntry(t)
      /\ local[t].probe = 0 /\ notifier[t] # "live" /\ pc[t] \in Counted
  BY <1>3, SearchingIs DEF Searching, Counted
<1>7. PICK l : l = OfHash(local[t], m + 1)
  OBVIOUS
<1>8. l \in Local' /\ l.mainHash = m + 1 /\ l.producer = local[t].producer /\ l.probe = local[t].probe
  <2>1. PICK r : /\ r = local[t]
                 /\ r = [mainHash |-> r.mainHash, newCount |-> r.newCount, producer |-> r.producer,
                         probe |-> r.probe, ptr |-> r.ptr]
                 /\ r.newCount \in Nat /\ r.producer \in Producers \union {Null}
                 /\ r.probe \in Nat /\ r.ptr \in 0 .. Len(inactive)
    BY <1>1, LocalParts
  <2>2. l = [mainHash |-> m + 1, newCount |-> r.newCount, producer |-> r.producer,
             probe |-> r.probe, ptr |-> r.ptr]
    BY <1>7, <2>1 DEF OfHash
  <2>3. m + 1 \in 0 .. Main'
    BY <1>5
  <2>4. Producers' = Producers /\ Len(inactive)' = Len(inactive)
    BY <1>3 DEF Producers
  <2> QED
    BY <2>1, <2>2, <2>3, <2>4 DEF Local
<1>9. StepsTo(t, "room?", l)
  <2>1. local' = [local EXCEPT ![t] = l]
    <3>1. Len(tables') = m + 1
      BY <1>5 DEF Main
    <3> QED
      BY <1>3, <1>7, <3>1 DEF OfHash
  <2> QED
    BY <1>3, <1>8, <2>1 DEF StepsTo, Labels
<1>10. CountOK'
  BY <1>1, <1>3, <1>6, CountStays
<1>11. RestOK
  BY <1>1, <1>3 DEF TypeOK, RestOK, Producers, exits
<1>12. Grows
  BY <1>1, <1>3, <1>5 DEF Grows, TypeOK
<1>13. pc'[t] = "room?" /\ local'[t] = l
  BY <1>1, <1>9, <1>12, StepIs
<1>14. NoEntry(t)'
  <2>1. ASSUME NEW g \in 1 .. Main'
        PROVE  ~Keyed(t, g)'
    <3>1. CASE g > Main
      BY <1>5, <3>1
    <3>2. CASE ~(g > Main)
      <4>1. g \in 1 .. Main
        BY <1>4, <1>5, <3>2
      <4> QED
        BY <1>5, <1>6, <4>1 DEF NoEntry
    <3> QED
      BY <3>1, <3>2
  <2> QED
    BY <2>1 DEF NoEntry
<1>15. OthersStay(t)
  BY <1>3, <1>5 DEF OthersStay, KeyedStays, exits
<1>16. notifier' = notifier /\ listener' = listener
  BY <1>3 DEF exits
<1>17. ProbeFits(t)' /\ StageFits(t)'
  <2>1. l.probe = 0 /\ l.mainHash > 0 /\ l.producer = Null
    BY <1>4, <1>6, <1>8
  <2>2. notifier'[t] # "live" /\ listener'[t] = Null
    BY <1>6, <1>16
  <2> QED
    BY <1>13, <1>14, <2>1, <2>2, PlainFits
<1>18. \A p \in Producers : Owns(t, p)' <=> Owns(t, p)
  BY <1>5, <1>8, <1>13, <1>16 DEF Owns
<1>19. ScansOn(t)
  BY <1>13 DEF ScansOn
<1>20. \A p \in Producers : p <= Reach(t)'
  BY <1>1, <1>3, <1>13 DEF Reach, Producers
<1> QED
  BY <1>3, <1>5, <1>9, <1>10, <1>11, <1>15, <1>17, <1>18, <1>19, <1>20, QuietAction

(* Resize.                                                                 *)
LEMMA ResizeOK ==
  ASSUME IndInv, UNCHANGED searches, NEW t \in Threads, Resize(t)
  PROVE  IndInv'
<1>1. CASE Crowded(Main, local[t].newCount)
  BY <1>1, AddTableOK
<1>2. CASE ~Crowded(Main, local[t].newCount)
  <2>1. UNCHANGED tables
    BY <1>2 DEF Resize
  <2> QED
    BY <2>1, NoResizeOK
<1> QED
  BY <1>1, <1>2

-----------------------------------------------------------------------------
(* An exit takes the thread's id out of a table.                           *)
LEMMA RemovesOne ==
  ASSUME IndInv, inactive' = inactive, NEW t \in Threads, NEW h \in 1 .. Main,
         IF IsIn(t, h)
           THEN tables' = Entered(h, Found(t, h), [key |-> Invalid2, value |-> Null])
           ELSE UNCHANGED tables
  PROVE  /\ TablesOK' /\ SlotsOK' /\ TablesGrow /\ Main' = Main
         /\ \A u \in Threads : \A g \in 1 .. Main :
              Keyed(u, g)' <=> Keyed(u, g) /\ ~(u = t /\ g = h)
         /\ \A u \in Threads : \A q \in Producers :
              /\ Holds(u, q)' => Holds(u, q)
              /\ u # t /\ Holds(u, q) => Holds(u, q)'
<1>1. TablesOK /\ SlotsOK
  BY DEF IndInv, TypeOK, TablesOK
<1>2. CASE IsIn(t, h)
  <2>1. Keyed(t, h)
    BY <1>1, <1>2, FoundIs
  <2>2. tables' = Entered(h, Found(t, h), [key |-> Invalid2, value |-> Null])
    BY <1>2
  <2> QED
    BY <1>1, <2>1, <2>2, RemovedIs
<1>3. CASE ~IsIn(t, h)
  <2>1. ~Keyed(t, h)
    BY <1>1, <1>3, FoundIs
  <2>2. tables' = tables /\ Producers \subseteq Producers'
    BY <1>3 DEF Producers
  <2> QED
    BY <1>1, <2>1, <2>2, TablesStay
<1> QED
  BY <1>2, <1>3

(* Remove: the tables that the exit has been through have not the id.      *)
LEMMA RemoveOK ==
  ASSUME IndInv, UNCHANGED searches, NEW t \in Threads, Remove(t)
  PROVE  IndInv'
<1>1. /\ TypeOK /\ CountOK /\ TablesOK /\ SlotsOK /\ Len(inactive) \in Nat
      /\ StageFits(t) /\ ProbeFits(t) /\ SharingOK
  BY DEF IndInv, TypeOK, TablesOK
<1>2. pc[t] = "remove" /\ inactive' = inactive /\ UNCHANGED exits
      /\ count' = count /\ resizing' = resizing /\ searches' = searches
  BY DEF Remove
<1>3. PICK m \in Nat \ {0} : m = Main
  BY <1>1, TableIs
<1>4. PICK h \in 1 .. m : h = local[t].mainHash
  <2>1. PICK g \in 0 .. m : g = local[t].mainHash
    BY <1>1, <1>3, LocalParts
  <2>2. g > 0
    BY <1>1, <1>2, <2>1 DEF ProbeFits
  <2> QED
    BY <2>1, <2>2
<1>5. /\ TablesOK' /\ SlotsOK' /\ TablesGrow /\ Main' = m
      /\ \A u \in Threads : \A g \in 1 .. m :
           Keyed(u, g)' <=> Keyed(u, g) /\ ~(u = t /\ g = h)
      /\ \A u \in Threads : \A q \in Producers :
           /\ Holds(u, q)' => Holds(u, q)
           /\ u # t /\ Holds(u, q) => Holds(u, q)'
  <2>1. IF IsIn(t, h)
          THEN tables' = Entered(h, Found(t, h), [key |-> Invalid2, value |-> Null])
          ELSE UNCHANGED tables
    BY <1>4 DEF Remove
  <2> QED
    BY <1>2, <1>3, <2>1, RemovesOne
<1>6. PICK label : /\ Moves(t, label)
                   /\ (label = "remove" /\ h > 1) \/ (label = "deactivate" /\ h = 1)
  <2>1. Moves(t, IF h > 1 THEN "remove" ELSE "deactivate")
    BY <1>4 DEF Remove, Go, Moves
  <2>2. CASE h > 1
    BY <2>1, <2>2
  <2>3. CASE h = 1
    BY <2>1, <2>3
  <2> QED
    BY <2>2, <2>3
<1>7. PICK l : l = OfHash(local[t], h - 1)
  OBVIOUS
<1>8. /\ l \in Local /\ l.mainHash = h - 1 /\ l.producer = local[t].producer
      /\ l.probe = local[t].probe
  <2>1. h - 1 \in Hashes
    BY <1>3 DEF Hashes
  <2> QED
    BY <1>1, <1>7, <2>1, UpdatedIs DEF SameBut
<1>9. StepsTo(t, label, l)
  <2>1. local' = [local EXCEPT ![t] = l]
    BY <1>4, <1>7 DEF Remove, OfHash
  <2>2. Local' = Local
    BY <1>2, <1>3, <1>5 DEF Local, Producers
  <2>3. label \in Labels
    BY <1>6 DEF Labels
  <2> QED
    BY <1>6, <1>8, <2>1, <2>2, <2>3 DEF StepsTo
<1>10. label \notin Counted /\ label \notin Searching \union {"subscribe"} /\ label # "recycle"
  BY <1>6 DEF Counted, Searching
<1>11. CountOK'
  BY <1>1, <1>2, <1>6, <1>10, CountStays
<1>12. RestOK
  BY <1>1, <1>2 DEF TypeOK, RestOK, Producers, exits
<1>13. Grows
  BY <1>1, <1>2, <1>5 DEF Grows, TypeOK
<1>14. pc'[t] = label /\ local'[t] = l
  BY <1>1, <1>9, <1>13, StepIs
<1>15. OthersStay(t)
  BY <1>2, <1>3, <1>5 DEF OthersStay, KeyedStays, exits
<1>16. notifier' = notifier /\ listener' = listener
  BY <1>2 DEF exits
<1>17. /\ listener[t] # Null /\ local[t].producer = Null /\ local[t].probe = 0
       /\ (notifier[t] = "live" <=> listener[t] # Null)
       /\ \A g \in 1 .. m : g > h => ~Keyed(t, g)
  BY <1>1, <1>2, <1>3, <1>4 DEF StageFits, ProbeFits
<1>18. \A g \in 1 .. m : g > h - 1 => ~Keyed(t, g)'
  <2>1. ASSUME NEW g \in 1 .. m, g > h - 1
        PROVE  ~Keyed(t, g)'
    <3>1. g = h \/ g > h
      BY <2>1
    <3> QED
      BY <1>5, <1>17, <3>1
  <2> QED
    BY <2>1
<1>19. /\ notifier'[t] = "live" /\ listener'[t] # Null /\ l.producer = Null /\ l.probe = 0
       /\ pc'[t] = label /\ local'[t] = l
  BY <1>8, <1>14, <1>16, <1>17
<1>20. ASSUME label = "deactivate"
       PROVE  ProbeFits(t)' /\ StageFits(t)'
  <2>1. NoEntry(t)'
    <3>1. \A g \in 1 .. m : g > h - 1
      BY <1>6, <1>20
    <3> QED
      BY <1>5, <1>18, <3>1 DEF NoEntry
  <2>2. label \notin {"insert", "add again", "remove", "idle", "uncount", "subscribe"}
    BY <1>20
  <2>3. label \notin Searching \union {"subscribe"}
    BY <1>10
  <2> QED
    BY <1>19, <1>20, <2>1, <2>2, <2>3, PlainFits
<1>21. ASSUME label = "remove"
       PROVE  ProbeFits(t)' /\ StageFits(t)'
  <2>1. ProbeFits(t)'
    <3>1. l.mainHash > 0
      BY <1>6, <1>8, <1>21
    <3> QED
      BY <1>19, <1>21, <3>1 DEF ProbeFits
  <2>2. \A g \in 1 .. Main' : g > l.mainHash => ~Keyed(t, g)'
    BY <1>5, <1>8, <1>18
  <2>3. StageFits(t)'
    BY <1>10, <1>19, <1>21, <2>2 DEF StageFits
  <2> QED
    BY <2>1, <2>3
<1>22. ProbeFits(t)' /\ StageFits(t)'
  BY <1>6, <1>20, <1>21
<1>23. \A p \in Producers : Owns(t, p)' <=> Owns(t, p)
  <2>1. PICK r \in Producers : r = listener[t]
    BY <1>1, <1>17 DEF TypeOK
  <2>2. Owns(t, r)
    BY <2>1 DEF Owns
  <2>3. \A p \in Producers : Holds(t, p) => p = r
    BY <1>1, <2>1, <2>2 DEF Owns, SharingOK, OwnersOK
  <2> QED
    BY <1>5, <1>16, <1>17, <1>19, <2>1, <2>3 DEF Owns
<1>24. ScansOn(t)
  BY <1>10, <1>14 DEF ScansOn
<1>25. \A p \in Producers : p <= Reach(t)'
  BY <1>1, <1>2, <1>10, <1>14 DEF Reach, Producers
<1> QED
  BY <1>2, <1>5, <1>9, <1>11, <1>12, <1>15, <1>22, <1>23, <1>24, <1>25, QuietAction

-----------------------------------------------------------------------------
(* A producer changes hands.                                               *)

(* t takes the inactive producer that it has come to.                      *)
LEMMA TakeOK ==
  ASSUME IndInv, UNCHANGED searches, NEW t \in Threads, Recycle(t), inactive[local[t].ptr]
  PROVE  IndInv'
<1>1. TypeOK /\ CountOK /\ TablesOK /\ SlotsOK /\ SharingOK /\ StageFits(t)
  BY DEF IndInv, TypeOK, TablesOK
<1>2. PICK n \in Nat : n = Len(inactive)
  BY <1>1 DEF TypeOK
<1>3. PICK p \in 1 .. n : p = local[t].ptr
  <2>1. PICK i \in 0 .. n : i = local[t].ptr
    BY <1>1, <1>2, LocalParts
  <2> QED
    BY <2>1 DEF Recycle
<1>4. p \in Producers /\ inactive[p] /\ p # Null
  BY <1>2, <1>3, TableAssumption DEF Producers
<1>5. /\ pc[t] = "recycle" /\ inactive' = [inactive EXCEPT ![p] = FALSE]
      /\ tables' = tables /\ UNCHANGED exits /\ count' = count /\ resizing' = resizing
      /\ Moves(t, "subscribe")
  BY <1>3 DEF Recycle, Go, Moves
<1>6. /\ inactive' \in Seq(BOOLEAN) /\ Len(inactive') = n
      /\ Producers' = Producers
  BY <1>2, <1>4, <1>5, <1>1, MarkedIs
<1>7. /\ TablesOK' /\ SlotsOK' /\ TablesGrow /\ Main' = Main
      /\ \A u \in Threads : \A g \in 1 .. Main : Keyed(u, g)' = Keyed(u, g)
      /\ \A u, q : Holds(u, q)' = Holds(u, q)
  BY <1>1, <1>5, <1>6, TablesStay
<1>8. /\ local[t].producer = Null /\ listener[t] = Null /\ NoEntry(t)
      /\ local[t].probe = 0 /\ local[t].mainHash > 0 /\ notifier[t] # "live"
      /\ pc[t] \in Counted /\ pc[t] \in Searching
  BY <1>5, SearchingIs DEF Searching, Counted
<1>9. PICK l : l = OfProducer(local[t], p)
  OBVIOUS
<1>10. /\ l \in Local /\ l.mainHash = local[t].mainHash /\ l.producer = p
       /\ l.probe = local[t].probe
  BY <1>1, <1>4, <1>9, UpdatedIs DEF SameBut
<1>11. StepsTo(t, "subscribe", l)
  <2>1. local' = [local EXCEPT ![t] = l]
    BY <1>3, <1>9 DEF Recycle, OfProducer
  <2>2. Local' = Local
    BY <1>2, <1>6, <1>7 DEF Local
  <2> QED
    BY <1>5, <1>10, <2>1, <2>2 DEF StepsTo, Labels
<1>12. CountOK'
  BY <1>1, <1>5, <1>8, CountStays
<1>13. RestOK
  BY <1>1, <1>5, <1>6 DEF TypeOK, RestOK, exits
<1>14. Grows
  BY <1>2, <1>6, <1>7 DEF Grows
<1>15. /\ pc'[t] = "subscribe" /\ local'[t] = l
       /\ \A u \in Threads : u # t => pc'[u] = pc[u] /\ local'[u] = local[u]
  BY <1>1, <1>11, <1>14, StepIs
<1>16. OthersStay(t)
  <2>1. PICK m \in Nat : m = Main /\ m = Main'
    BY <1>1, <1>7, TableIs
  <2>2. \A u \in Threads : KeyedStays(u)
    BY <1>7, <2>1 DEF KeyedStays
  <2> QED
    BY <1>5, <1>7, <2>2 DEF OthersStay, exits
<1>17. notifier' = notifier /\ listener' = listener /\ NoEntry(t)'
  BY <1>5, <1>7, <1>8 DEF exits, NoEntry
<1>18. ProbeFits(t)' /\ StageFits(t)'
  <2>1. l.probe = 0 /\ l.mainHash > 0 /\ l.producer # Null
    BY <1>4, <1>8, <1>10
  <2>2. notifier'[t] # "live" /\ listener'[t] = Null
    BY <1>8, <1>17
  <2> QED
    BY <1>15, <1>17, <2>1, <2>2, PlainFits
<1>19. OwnsNone(t)
  BY <1>1, <1>8, OwnsNoneIs
<1>20. \A u \in Threads : \A q \in Producers : Owns(u, q)' <=> Owns(u, q) \/ (u = t /\ q = p)
  <2>1. \A u \in Threads : u # t => \A q \in Producers : Owns(u, q)' <=> Owns(u, q)
    BY <1>1, <1>11, <1>14, <1>16, OthersOwn
  <2>2. \A q \in Producers : Owns(t, q)' <=> q = p
    <3>1. ASSUME NEW q \in Producers
          PROVE  Owns(t, q)' <=> q = p
      <4>1. ~Owns(t, q)
        BY <1>19 DEF OwnsNone
      <4>2. listener'[t] # q /\ ~Holds(t, q)'
        BY <1>7, <1>17, <4>1 DEF Owns
      <4> QED
        BY <1>10, <1>15, <4>2 DEF Owns
    <3> QED
      BY <3>1
  <2> QED
    BY <1>19, <2>1, <2>2 DEF OwnsNone
<1>21. SharingOK'
  <2>1. local[t].ptr = p /\ pc'[t] # "recycle"
    BY <1>3, <1>15
  <2> QED
    BY <1>1, <1>4, <1>5, <1>15, <1>19, <1>20, <2>1, TakeStep
<1> QED
  BY <1>7, <1>11, <1>12, <1>13, <1>14, <1>16, <1>18, <1>21, FitStep

(* Recycle.                                                                *)
LEMMA RecycleOK ==
  ASSUME IndInv, UNCHANGED searches, NEW t \in Threads, Recycle(t)
  PROVE  IndInv'
BY PassOK, TakeOK

(* t adds a producer.                                                      *)
LEMMA CreateOK ==
  ASSUME IndInv, UNCHANGED searches, NEW t \in Threads, Create(t)
  PROVE  IndInv'
<1>1. TypeOK /\ CountOK /\ TablesOK /\ SlotsOK /\ SharingOK /\ StageFits(t)
  BY DEF IndInv, TypeOK, TablesOK
<1>2. PICK n \in Nat : n = Len(inactive)
  BY <1>1 DEF TypeOK
<1>3. /\ pc[t] = "recycle" /\ local[t].ptr = 0 /\ inactive' = Append(inactive, FALSE)
      /\ tables' = tables /\ UNCHANGED exits /\ count' = count /\ resizing' = resizing
      /\ Moves(t, "subscribe") /\ local' = [local EXCEPT ![t].producer = Len(inactive')]
  BY DEF Create, Go, Moves
<1>4. inactive' \in Seq(BOOLEAN) /\ Len(inactive') = n + 1
  BY <1>1, <1>2, <1>3 DEF TypeOK
<1>5. /\ Producers = 1 .. n /\ Producers' = 1 .. n + 1 /\ Producers \subseteq Producers'
      /\ n + 1 \in Producers' /\ n + 1 \notin Producers
  BY <1>2, <1>4 DEF Producers
<1>6. /\ TablesOK' /\ SlotsOK' /\ TablesGrow /\ Main' = Main
      /\ \A u \in Threads : \A g \in 1 .. Main : Keyed(u, g)' = Keyed(u, g)
      /\ \A u, q : Holds(u, q)' = Holds(u, q)
  BY <1>1, <1>3, <1>5, TablesStay
<1>7. /\ local[t].producer = Null /\ listener[t] = Null /\ NoEntry(t)
      /\ local[t].probe = 0 /\ local[t].mainHash > 0 /\ notifier[t] # "live"
      /\ pc[t] \in Counted /\ pc[t] \in Searching
  BY <1>3, SearchingIs DEF Searching, Counted
<1>8. n + 1 # Null
  BY <1>2, TableAssumption
<1>9. PICK l : l = OfProducer(local[t], n + 1)
  OBVIOUS
<1>10. /\ l \in Local' /\ l.mainHash = local[t].mainHash /\ l.producer = n + 1
       /\ l.probe = local[t].probe
  <2>1. PICK r : /\ r = local[t]
                 /\ r = [mainHash |-> r.mainHash, newCount |-> r.newCount, producer |-> r.producer,
                         probe |-> r.probe, ptr |-> r.ptr]
                 /\ r.newCount \in Nat /\ r.mainHash \in 0 .. Main
                 /\ r.probe \in Nat /\ r.ptr \in 0 .. n
    BY <1>1, <1>2, LocalParts
  <2>2. l = [mainHash |-> r.mainHash, newCount |-> r.newCount, producer |-> n + 1,
             probe |-> r.probe, ptr |-> r.ptr]
    BY <1>9, <2>1 DEF OfProducer
  <2>3. r.mainHash \in 0 .. Main' /\ r.ptr \in 0 .. Len(inactive)'
    BY <1>2, <1>4, <1>6, <2>1
  <2> QED
    BY <1>5, <2>1, <2>2, <2>3 DEF Local
<1>11. StepsTo(t, "subscribe", l)
  <2>1. local' = [local EXCEPT ![t] = l]
    BY <1>3, <1>4, <1>9 DEF OfProducer
  <2> QED
    BY <1>3, <1>10, <2>1 DEF StepsTo, Labels
<1>12. CountOK'
  BY <1>1, <1>3, <1>7, CountStays
<1>13. RestOK
  BY <1>1, <1>3, <1>5 DEF TypeOK, RestOK, exits
<1>14. Grows
  BY <1>2, <1>4, <1>6 DEF Grows
<1>15. /\ pc'[t] = "subscribe" /\ local'[t] = l
       /\ \A u \in Threads : u # t => pc'[u] = pc[u] /\ local'[u] = local[u]
  BY <1>1, <1>11, <1>14, StepIs
<1>16. OthersStay(t)
  <2>1. PICK m \in Nat : m = Main /\ m = Main'
    BY <1>1, <1>6, TableIs
  <2>2. \A u \in Threads : KeyedStays(u)
    BY <1>6, <2>1 DEF KeyedStays
  <2> QED
    BY <1>3, <1>6, <2>2 DEF OthersStay, exits
<1>17. notifier' = notifier /\ listener' = listener /\ NoEntry(t)'
  BY <1>3, <1>6, <1>7 DEF exits, NoEntry
<1>18. ProbeFits(t)' /\ StageFits(t)'
  <2>1. l.probe = 0 /\ l.mainHash > 0 /\ l.producer # Null
    BY <1>7, <1>8, <1>10
  <2>2. notifier'[t] # "live" /\ listener'[t] = Null
    BY <1>7, <1>17
  <2> QED
    BY <1>15, <1>17, <2>1, <2>2, PlainFits
<1>19. OwnsNone(t)
  BY <1>1, <1>7, OwnsNoneIs
<1>20. \A u \in Threads : ~Owns(u, n + 1)
  <2>1. ASSUME NEW u \in Threads
        PROVE  ~Owns(u, n + 1)
    <3>1. local[u].producer # n + 1
      BY <1>1, <1>5, <1>8, LocalParts
    <3>2. listener[u] # n + 1
      BY <1>1, <1>5, <1>8 DEF TypeOK
    <3>3. ~Holds(u, n + 1)
      <4>1. ASSUME Holds(u, n + 1)
            PROVE  FALSE
        <5>1. PICK h \in DOMAIN tables : \E s \in DOMAIN tables[h].entries :
                tables[h].entries[s] = [key |-> u, value |-> n + 1]
          BY <4>1 DEF Holds
        <5>2. PICK s \in DOMAIN tables[h].entries :
                tables[h].entries[s] = [key |-> u, value |-> n + 1]
          BY <5>1
        <5>3. h \in 1 .. Main
          BY <1>1, TableIs
        <5>4. PICK e \in Entry : e = [key |-> u, value |-> n + 1]
          BY <1>1, <5>2, <5>3, KeyIs
        <5>5. e.value \in Producers \union {Null} /\ e.value = n + 1
          BY <5>4 DEF Entry
        <5> QED
          BY <1>5, <1>8, <5>5
      <4> QED
        BY <4>1
    <3> QED
      BY <3>1, <3>2, <3>3 DEF Owns
  <2> QED
    BY <2>1
<1>21. \A u \in Threads : \A q \in Producers' : Owns(u, q)' <=>
         (q \in Producers /\ Owns(u, q)) \/ (u = t /\ q = Len(inactive'))
  <2>1. ASSUME NEW u \in Threads, u # t, NEW q \in Producers'
        PROVE  Owns(u, q)' <=> q \in Producers /\ Owns(u, q)
    <3>1. Owns(u, q)' <=> Owns(u, q)
      BY <1>6, <1>15, <1>17, <2>1 DEF Owns
    <3>2. q = n + 1 \/ q \in Producers
      BY <1>2, <1>5
    <3> QED
      BY <1>20, <3>1, <3>2
  <2>2. ASSUME NEW q \in Producers'
        PROVE  Owns(t, q)' <=> q = n + 1
    <3>1. Owns(t, q)' <=> q = n + 1 \/ listener[t] = q \/ Holds(t, q)
      BY <1>6, <1>10, <1>15, <1>17 DEF Owns
    <3>2. q = n + 1 \/ q \in Producers
      BY <1>2, <1>5
    <3>3. ~Owns(t, q)
      BY <1>19, <1>20, <3>2 DEF OwnsNone
    <3> QED
      BY <3>1, <3>3 DEF Owns
  <2>3. \A q \in Producers : ~Owns(t, q)
    BY <1>19 DEF OwnsNone
  <2> QED
    BY <1>4, <2>1, <2>2, <2>3
<1>22. SharingOK'
  <2>1. pc'[t] # "recycle"
    BY <1>15
  <2> QED
    BY <1>1, <1>3, <1>15, <1>19, <1>21, <2>1, CreateStep
<1> QED
  BY <1>6, <1>11, <1>12, <1>13, <1>14, <1>16, <1>18, <1>22, FitStep

(* t gives its producer back.                                              *)
LEMMA DeactivateOK ==
  ASSUME IndInv, UNCHANGED searches, NEW t \in Threads, Deactivate(t)
  PROVE  IndInv'
<1>1. TypeOK /\ CountOK /\ TablesOK /\ SlotsOK /\ SharingOK /\ StageFits(t) /\ Len(inactive) \in Nat
  BY DEF IndInv, TypeOK, TablesOK
<1>2. /\ pc[t] = "deactivate" /\ inactive' = [inactive EXCEPT ![listener[t]] = TRUE]
      /\ listener' = [listener EXCEPT ![t] = Null]
      /\ notifier' = [notifier EXCEPT ![t] = "destroyed"]
      /\ exitMutex' = Null /\ Moves(t, "idle") /\ local' = [local EXCEPT ![t] = NoLocals]
      /\ tables' = tables /\ count' = count /\ resizing' = resizing
  BY DEF Deactivate, Return, Go, Moves
<1>3. listener[t] # Null /\ NoEntry(t) /\ local[t].producer = Null
  BY <1>1, <1>2 DEF StageFits, Searching
<1>4. PICK p \in Producers : p = listener[t]
  BY <1>1, <1>3 DEF TypeOK
<1>5. inactive' = [inactive EXCEPT ![p] = TRUE] /\ Owns(t, p)
  BY <1>2, <1>4 DEF Owns
<1>6. /\ inactive' \in Seq(BOOLEAN) /\ Len(inactive') = Len(inactive)
      /\ Producers' = Producers
  BY <1>1, <1>5, MarkedIs
<1>7. /\ TablesOK' /\ SlotsOK' /\ TablesGrow /\ Main' = Main
      /\ \A u \in Threads : \A g \in 1 .. Main : Keyed(u, g)' = Keyed(u, g)
      /\ \A u, q : Holds(u, q)' = Holds(u, q)
  BY <1>1, <1>2, <1>6, TablesStay
<1>8. PICK l \in Local : l = NoLocals /\ l.producer = Null /\ l.probe = 0
  BY <1>1, NoLocalsIs
<1>9. "idle" \notin Counted /\ "idle" \in Labels /\ "idle" \notin Searching \union {"subscribe"}
  BY DEF Counted, Labels, Searching
<1>10. StepsTo(t, "idle", l)
  <2>1. Local' = Local
    BY <1>6, <1>7 DEF Local
  <2> QED
    BY <1>2, <1>8, <1>9, <2>1 DEF StepsTo
<1>11. CountOK'
  BY <1>1, <1>2, <1>9, CountStays
<1>12. /\ listener' \in [Threads -> Producers \union {Null}] /\ listener'[t] = Null
       /\ notifier' \in [Threads -> {"none", "live", "destroyed"}] /\ notifier'[t] = "destroyed"
       /\ \A u \in Threads : u # t => notifier'[u] = notifier[u] /\ listener'[u] = listener[u]
  BY <1>1, <1>2 DEF TypeOK
<1>13. RestOK
  BY <1>1, <1>2, <1>6, <1>12 DEF TypeOK, RestOK
<1>14. Grows
  BY <1>1, <1>6, <1>7 DEF Grows
<1>15. /\ pc'[t] = "idle" /\ local'[t] = l
       /\ \A u \in Threads : u # t => pc'[u] = pc[u] /\ local'[u] = local[u]
  BY <1>1, <1>10, <1>14, StepIs
<1>16. OthersStay(t)
  <2>1. PICK m \in Nat : m = Main /\ m = Main'
    BY <1>1, <1>7, TableIs
  <2>2. \A u \in Threads : KeyedStays(u)
    BY <1>7, <2>1 DEF KeyedStays
  <2> QED
    BY <1>7, <1>12, <2>2 DEF OthersStay
<1>17. ProbeFits(t)' /\ StageFits(t)'
  <2>1. notifier'[t] # "live" /\ listener'[t] = Null
    BY <1>12
  <2> QED
    BY <1>8, <1>9, <1>15, <2>1, PlainFits
<1>18. \A u \in Threads : \A q \in Producers : Owns(u, q)' <=> Owns(u, q) /\ u # t
  <2>1. \A u \in Threads : u # t => \A q \in Producers : Owns(u, q)' <=> Owns(u, q)
    BY <1>1, <1>10, <1>14, <1>16, OthersOwn
  <2>2. ASSUME NEW q \in Producers
        PROVE  ~Owns(t, q)'
    <3>1. q # Null
      BY TableAssumption DEF Producers
    <3>2. ~Holds(t, q)'
      BY <1>1, <1>3, <1>7, HeldIs
    <3> QED
      BY <1>8, <1>12, <1>15, <3>1, <3>2 DEF Owns
  <2> QED
    BY <2>1, <2>2
<1>19. SharingOK'
  <2>1. pc[t] # "recycle" /\ pc'[t] # "recycle"
    BY <1>2, <1>15
  <2> QED
    BY <1>1, <1>5, <1>15, <1>18, <2>1, GiveBackStep
<1> QED
  BY <1>7, <1>10, <1>11, <1>13, <1>14, <1>16, <1>17, <1>19, FitStep

-----------------------------------------------------------------------------
(* The invariant.                                                          *)

(* The first table.                                                        *)
LEMMA InitialTable ==
  ASSUME Init
  PROVE  /\ DOMAIN tables = {1} /\ Len(tables) = 1 /\ tables # << >>
         /\ tables \in Seq({tables[h] : h \in DOMAIN tables})
         /\ IsTable(tables[1]) /\ DOMAIN tables[1].entries = {}
<1>1. PICK T : T = EmptyTable(InitialCapacity)
  OBVIOUS
<1>2. IsTable(T) /\ DOMAIN T.entries = {}
  <2>1. InitialCapacity \in Nat \ {0}
    BY TableAssumption
  <2>2. T = [capacity |-> InitialCapacity, entries |-> [s \in {} |-> Null]]
    BY <1>1 DEF EmptyTable
  <2> QED
    BY <2>1, <2>2 DEF IsTable
<1>3. tables = <<T>>
  BY <1>1 DEF Init
<1>4. DOMAIN tables = {1} /\ Len(tables) = 1 /\ tables # << >> /\ tables[1] = T
  BY <1>3
<1>5. tables \in Seq({tables[h] : h \in DOMAIN tables})
  <2>1. T \in {tables[h] : h \in DOMAIN tables}
    BY <1>4
  <2> QED
    BY <1>3, <2>1
<1> QED
  BY <1>2, <1>4, <1>5

(* The initial states.                                                     *)
LEMMA InitOK ==
  ASSUME Init
  PROVE  IndInv
<1>1. /\ count = 0 /\ resizing = FALSE /\ inactive = << >> /\ exitMutex = Null /\ searches = 0
      /\ notifier = [t \in Threads |-> "none"] /\ listener = [t \in Threads |-> Null]
      /\ pc = [t \in Threads |-> "idle"] /\ local = [t \in Threads |-> NoLocals]
  BY DEF Init
<1>2. \A h \in DOMAIN tables : h = 1
  BY InitialTable
<1>3. TablesOK
  BY <1>2, InitialTable DEF TablesOK
<1>4. Len(inactive) = 0 /\ Producers = {}
  BY <1>1 DEF Producers
<1>5. NoLocals \in Local
  BY <1>3, <1>4, NoLocalsIs
<1>6. TypeOK
  <2>1. count \in Nat /\ resizing \in BOOLEAN /\ searches \in Nat /\ exitMutex \in Threads \union {Null}
    BY <1>1
  <2>2. inactive \in Seq(BOOLEAN)
    BY <1>1
  <2>3. /\ notifier \in [Threads -> {"none", "live", "destroyed"}]
        /\ listener \in [Threads -> Producers \union {Null}]
        /\ pc \in [Threads -> Labels]
    BY <1>1 DEF Labels
  <2>4. local \in [Threads -> Local]
    BY <1>1, <1>5
  <2> QED
    BY <1>3, <2>1, <2>2, <2>3, <2>4 DEF TypeOK, TablesOK
<1>7. SlotsOK
  BY <1>2, InitialTable DEF SlotsOK
<1>8. CountOK
  <2>1. CountedThreads = {}
    BY <1>1 DEF CountedThreads, Counted
  <2> QED
    BY <1>1, <2>1, FS_EmptySet DEF CountOK
<1>9. \A t \in Threads : pc[t] = "idle" /\ local[t].producer = Null /\ local[t].probe = 0
                         /\ notifier[t] = "none" /\ listener[t] = Null
  BY <1>1 DEF NoLocals
<1>10. \A t \in Threads : ProbeFits(t) /\ StageFits(t)
  BY <1>9 DEF ProbeFits, StageFits, Searching
<1>11. SharingOK
  <2>1. OwnersOK
    BY <1>4 DEF OwnersOK
  <2>2. \A t \in Threads : ScanFits(t)
    BY <1>9 DEF ScanFits
  <2>3. ProducersAreRecycled
    <3>1. Cardinality(Threads) \in Nat
      BY TableAssumption, FS_CardinalityType
    <3> QED
      BY <1>4, <3>1 DEF ProducersAreRecycled
  <2> QED
    BY <2>1, <2>2, <2>3 DEF SharingOK
<1> QED
  BY <1>6, <1>7, <1>8, <1>10, <1>11 DEF IndInv

(* Every step.                                                             *)
LEMMA NextOK ==
  ASSUME IndInv, [Next]_vars
  PROVE  IndInv'
<1>1. TypeOK /\ SlotsOK /\ CountOK /\ SharingOK /\ \A t \in Threads : ProbeFits(t) /\ StageFits(t)
  BY DEF IndInv
<1>2. ASSUME NEW t \in Threads, Call(t)
      PROVE  IndInv'
  BY <1>2, CallOK
<1>3. ASSUME NEW t \in Threads, UNCHANGED searches, Step(t)
      PROVE  IndInv'
  <2>1. CASE AddAgain(t) \/ Insert(t)
    BY <1>3, <2>1, AddAgainOK, InsertOK
  <2>2. CASE CountEntry(t) \/ TakeResizeFlag(t) \/ Room(t)
    BY <1>3, <2>2, CountEntryOK, TakeResizeFlagOK, RoomOK
  <2>3. CASE Resize(t)
    BY <1>3, <2>3, ResizeOK
  <2>4. CASE ResizeFails(t) \/ CreateFails(t)
    BY <1>3, <2>4, GivesUpOK
  <2>5. CASE Recycle(t) \/ Create(t)
    BY <1>3, <2>5, RecycleOK, CreateOK
  <2>6. CASE Subscribe(t) \/ Uncount(t)
    BY <1>3, <2>6, SubscribeOK, UncountOK
  <2>7. CASE Remove(t) \/ Deactivate(t)
    BY <1>3, <2>7, RemoveOK, DeactivateOK
  <2> QED
    BY <1>3, <2>1, <2>2, <2>3, <2>4, <2>5, <2>6, <2>7 DEF Step
<1>4. ASSUME NEW t \in Threads, UNCHANGED searches, Exit(t) \/ Restart(t)
      PROVE  IndInv'
  BY <1>4, ExitOK, RestartOK
<1>5. ASSUME UNCHANGED vars
      PROVE  IndInv'
  <2>1. /\ UNCHANGED <<tables, count, resizing, inactive, exitMutex, notifier, listener, searches>>
        /\ UNCHANGED <<pc, local>>
    BY <1>5 DEF vars, queue, exits
  <2>2. Main' = Main /\ Producers' = Producers /\ Local' = Local /\ Entry' = Entry
    BY <2>1 DEF Main, Producers, Local, Entry
  <2>3. /\ \A t, h : Keyed(t, h)' = Keyed(t, h)
        /\ \A t, p : Owns(t, p)' = Owns(t, p)
        /\ \A h, s : Key(h, s)' = Key(h, s)
        /\ \A t, h, k : Slot(t, h, k)' = Slot(t, h, k)
        /\ \A h : Capacity(h)' = Capacity(h)
    BY <2>1 DEF Keyed, Owns, Holds, Key, Slot, Capacity
  <2>4. TypeOK'
    BY <1>1, <2>1, <2>2 DEF TypeOK, IsTable
  <2>5. SlotsOK'
    <3>1. \A t, h, s : IsReached(t, h, s)' = IsReached(t, h, s)
      BY <2>3 DEF IsReached, IsAt
    <3> QED
      BY <1>1, <2>1, <3>1 DEF SlotsOK
  <2>6. CountOK'
    BY <1>1, <2>1 DEF CountOK, CountedThreads
  <2>7. \A t \in Threads : ProbeFits(t)' /\ StageFits(t)'
    <3>1. \A t : NoEntry(t)' = NoEntry(t)
      BY <2>2, <2>3 DEF NoEntry
    <3>2. \A t \in Threads : ProbeFits(t)'
      BY <1>1, <2>1, <2>3 DEF ProbeFits
    <3>3. \A t \in Threads : StageFits(t)'
      BY <1>1, <2>1, <2>2, <2>3, <3>1 DEF StageFits
    <3> QED
      BY <3>2, <3>3
  <2>8. SharingOK'
    <3>1. \A t : OwnsNone(t)' = OwnsNone(t) /\ Reach(t)' = Reach(t)
      BY <2>1, <2>2, <2>3 DEF OwnsNone, Reach
    <3>2. \A f : Covers(f)' = Covers(f)
      BY <2>1, <2>3, <3>1 DEF Covers
    <3>3. \A t \in Threads : ScanFits(t)'
      BY <1>1, <2>1, <3>2 DEF ScanFits, SharingOK
    <3>4. OwnersOK' /\ ProducersAreRecycled'
      BY <1>1, <2>1, <2>2, <2>3 DEF OwnersOK, SharingOK, ProducersAreRecycled
    <3> QED
      BY <3>3, <3>4 DEF SharingOK
  <2> QED
    BY <2>4, <2>5, <2>6, <2>7, <2>8 DEF IndInv
<1> QED
  BY <1>2, <1>3, <1>4, <1>5 DEF Next

(* The invariant.                                                          *)
LEMMA Invariant == Spec => []IndInv
<1>1. Init => IndInv
  BY InitOK
<1>2. IndInv /\ [Next]_vars => IndInv'
  BY NextOK
<1> QED
  BY <1>1, <1>2, PTL DEF Spec

-----------------------------------------------------------------------------
(* The type invariant: the tables are tables, of entries that name         *)
(* producers there are; and implicitProducerHashCount, which is taken back *)
(* whenever a counted thread gives up or reuses a slot, is never below 0.  *)
THEOREM TypeCorrect == Spec => []TypeOK
<1>1. IndInv => TypeOK
  BY DEF IndInv
<1> QED
  BY <1>1, Invariant, PTL

(* OneOwner: a producer that is not inactive is one thread's, an inactive  *)
(* one nobody's, for any number of threads, any hash of their ids and any  *)
(* initial capacity.                                                       *)
THEOREM ProducersStayOwned == Spec => []OneOwner
<1>1. ASSUME IndInv
      PROVE  OneOwner
  <2>1. ASSUME NEW p \in Producers
        PROVE  Cardinality({t \in Threads : Owns(t, p)}) = IF inactive[p] THEN 0 ELSE 1
    <3>1. CASE inactive[p]
      <4>1. {t \in Threads : Owns(t, p)} = {}
        BY <1>1, <3>1 DEF IndInv, SharingOK, OwnersOK
      <4> QED
        BY <3>1, <4>1, FS_EmptySet
    <3>2. CASE ~inactive[p]
      <4>1. PICK t \in Threads : Owns(t, p)
        BY <1>1, <3>2 DEF IndInv, SharingOK, OwnersOK
      <4>2. \A u \in Threads : Owns(u, p) => u = t
        BY <1>1, <4>1 DEF IndInv, SharingOK, OwnersOK
      <4>3. {u \in Threads : Owns(u, p)} = {t}
        BY <4>1, <4>2
      <4> QED
        BY <3>2, <4>3, FS_Singleton
    <3> QED
      BY <3>1, <3>2
  <2> QED
    BY <2>1 DEF OneOwner
<1> QED
  BY <1>1, Invariant, PTL

(* OneProducer: a thread never misses its own entry and takes a second     *)
(* producer, however the ids collide and the tables grow.                  *)
THEOREM ThreadsKeepTheirProducer == Spec => []OneProducer
<1>1. ASSUME IndInv
      PROVE  OneProducer
  <2>1. ASSUME NEW t \in Threads
        PROVE  Cardinality({p \in Producers : Owns(t, p)}) <= 1
    <3>1. \A p, q \in Producers : Owns(t, p) /\ Owns(t, q) => p = q
      BY <1>1 DEF IndInv, SharingOK, OwnersOK
    <3>2. CASE {p \in Producers : Owns(t, p)} = {}
      BY <3>2, FS_EmptySet
    <3>3. CASE {p \in Producers : Owns(t, p)} # {}
      <4>1. PICK p : p \in {q \in Producers : Owns(t, q)}
        BY <3>3
      <4>2. {q \in Producers : Owns(t, q)} = {p}
        BY <3>1, <4>1
      <4> QED
        BY <4>2, FS_Singleton
    <3> QED
      BY <3>2, <3>3
  <2> QED
    BY <2>1 DEF OneProducer
<1> QED
  BY <1>1, Invariant, PTL

(* ProducersAreRecycled: producerListTail's list is no longer than there   *)
(* are threads at a time.                                                  *)
THEOREM ListStaysShort == Spec => []ProducersAreRecycled
<1>1. IndInv => ProducersAreRecycled
  BY DEF IndInv, SharingOK
<1> QED
  BY <1>1, Invariant, PTL
=============================================================================
