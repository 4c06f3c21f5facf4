----------------------- MODULE ImplicitProducerLemmas -----------------------
(***************************************************************************)
(* The inductive invariant of one producer's queue and its lemmas: the     *)
(* arithmetic of index_t, the counters (of both kinds of producer), and    *)
(* the steps of the enqueueing thread.                                     *)
(***************************************************************************)
EXTENDS ImplicitProducerProperties, Functions, FiniteSetTheorems, SequenceTheorems, TLAPS

-----------------------------------------------------------------------------
(* Division.                                                               *)

LEMMA Division == ASSUME NEW x \in Int, NEW N \in Nat \ {0}
   PROVE x % N \in 0 .. N - 1 /\ x \div N \in Int /\ x = N * (x \div N) + (x % N)
  OBVIOUS
LEMMA DivisionUnique == ASSUME NEW N \in Nat \ {0}, NEW k \in Int, NEW r \in 0 .. N - 1
   PROVE (N * k + r) % N = r /\ (N * k + r) \div N = k
  OBVIOUS
LEMMA ModShift == ASSUME NEW x \in Int, NEW N \in Nat \ {0}, NEW k \in Int PROVE (N * k + x) % N = x % N
<1>1. PICK q \in Int, r \in 0 .. N - 1 : x = N * q + r
  BY Division
<1>2. N * k + x = N * (k + q) + r
  BY <1>1
<1>3. k + q \in Int
  OBVIOUS
<1>4. x % N = r
  BY <1>1, DivisionUnique
<1>5. (N * (k + q) + r) % N = r
  BY <1>3, DivisionUnique
<1> QED BY <1>2, <1>4, <1>5

LEMMA ModAdd == ASSUME NEW x \in Int, NEW y \in Int, NEW N \in Nat \ {0} PROVE ((x % N) + y) % N = (x + y) % N
<1>1. PICK q \in Int, r \in 0 .. N - 1 : x = N * q + r
  BY Division
<1>2. x % N = r
  BY <1>1, DivisionUnique
<1>3. x + y = N * q + (r + y)
  BY <1>1
<1>4. r + y \in Int
  BY <1>1
<1>5. (N * q + (r + y)) % N = (r + y) % N
  BY <1>1, <1>4, ModShift
<1> QED BY <1>2, <1>3, <1>5

LEMMA ModSub == ASSUME NEW x \in Int, NEW y \in Int, NEW N \in Nat \ {0} PROVE (x - (y % N)) % N = (x - y) % N
<1>1. PICK q \in Int, r \in 0 .. N - 1 : y = N * q + r
  BY Division
<1>2. y % N = r
  BY <1>1, DivisionUnique
<1>3. x - r = N * q + (x - y)
  BY <1>1
<1>4. x - y \in Int
  OBVIOUS
<1>5. (N * q + (x - y)) % N = (x - y) % N
  BY <1>1, <1>4, ModShift
<1> QED BY <1>2, <1>3, <1>5

LEMMA ModSmall == ASSUME NEW x \in Int, NEW N \in Nat \ {0}
  PROVE /\ x \in 0 .. N - 1 => x % N = x
        /\ x \in -N .. -1 => x % N = x + N
<1>1. x \in 0 .. N - 1 => x % N = x
  OBVIOUS
<1>2. ASSUME x \in -N .. -1 PROVE x % N = x + N
  <2>1. x = N * (-1) + (x + N) /\ x + N \in 0 .. N - 1
    BY <1>2
  <2> QED BY <2>1, DivisionUnique
<1> QED BY <1>1, <1>2

LEMMA ModSame == ASSUME NEW x \in Int, NEW y \in Int, NEW N \in Nat \ {0}, x % N = y % N, x - y < N, y - x < N PROVE x = y
<1>1. PICK k \in Int, q \in Int, r \in 0 .. N - 1 : x = N * q + r /\ y = N * k + r
  BY Division
<1>2. x - y = N * (q - k)
  BY <1>1
<1>3. q - k = 0
  BY <1>2
<1> QED BY <1>1, <1>3

LEMMA ModMod == ASSUME NEW x \in Int, NEW M \in Nat \ {0}, NEW k \in Nat \ {0}
  PROVE (x % (M * k)) % M = x % M
<1>0. M * k \in Nat \ {0}
  OBVIOUS
<1>1. PICK q \in Int, r \in 0 .. M * k - 1 : x = (M * k) * q + r
  BY <1>0, Division
<1>2. PICK p \in Int : p = k * q /\ (M * k) * q = M * p
  OBVIOUS
<1>3. x % (M * k) = r
  BY <1>0, <1>1, DivisionUnique
<1>4. (M * p + r) % M = r % M
  <2>1. r \in Int
    BY <1>0, <1>1
  <2> QED BY <2>1, <1>2, ModShift
<1> QED BY <1>1, <1>2, <1>3, <1>4

-----------------------------------------------------------------------------
(* Sums over dequeuers.                                                    *)

Counts == [Dequeuers -> 0 .. MaxBulk]

Units(n, cs) == {x \in cs \X (1 .. MaxBulk) : x[2] <= n[x[1]]}

LEMMA UnitsFinite ==
  ASSUME NEW n \in Counts, NEW cs \in SUBSET Dequeuers
  PROVE  /\ IsFiniteSet(Units(n, cs))
         /\ Total(n, cs) = Cardinality(Units(n, cs))
         /\ Total(n, cs) \in Nat
         /\ Total(n, cs) <= Cardinality(Dequeuers) * MaxBulk
<1>1. /\ IsFiniteSet(Dequeuers) /\ MaxBulk \in Nat
  BY QueueAssumption
<1>2. /\ IsFiniteSet(1 .. MaxBulk) /\ Cardinality(1 .. MaxBulk) = MaxBulk
  BY <1>1, FS_Interval
<1>3. /\ IsFiniteSet(Dequeuers \X (1 .. MaxBulk))
      /\ Cardinality(Dequeuers \X (1 .. MaxBulk)) = Cardinality(Dequeuers) * MaxBulk
  BY <1>1, <1>2, FS_Product
<1>4. Units(n, cs) \subseteq Dequeuers \X (1 .. MaxBulk)
  BY DEF Units
<1>5. /\ IsFiniteSet(Units(n, cs))
      /\ Cardinality(Units(n, cs)) <= Cardinality(Dequeuers) * MaxBulk
  BY <1>3, <1>4, FS_Subset
<1>6. Total(n, cs) = Cardinality(Units(n, cs))
  BY DEF Total, Units
<1> QED BY <1>5, <1>6, FS_CardinalityType

LEMMA TotalOfNone ==
  ASSUME NEW n \in Counts, NEW cs \in SUBSET Dequeuers, \A c \in cs : n[c] = 0
  PROVE  Total(n, cs) = 0
<1>1. Units(n, cs) = {}
  BY QueueAssumption DEF Units, Counts
<1> QED BY <1>1, UnitsFinite, FS_EmptySet

LEMMA TotalAgrees ==
  ASSUME NEW n \in Counts, NEW m \in Counts, NEW cs \in SUBSET Dequeuers,
         \A c \in cs : n[c] = m[c]
  PROVE  Total(n, cs) = Total(m, cs)
<1>1. Units(n, cs) = Units(m, cs)
  BY DEF Units
<1> QED BY <1>1, UnitsFinite

LEMMA TotalMonotonic ==
  ASSUME NEW n \in Counts, NEW m \in Counts,
         NEW cs \in SUBSET Dequeuers, NEW ds \in SUBSET Dequeuers,
         cs \subseteq ds, \A c \in cs : n[c] <= m[c]
  PROVE  Total(n, cs) <= Total(m, ds)
<1>1. Units(n, cs) \subseteq Units(m, ds)
  BY QueueAssumption DEF Units, Counts
<1> QED BY <1>1, UnitsFinite, FS_Subset

LEMMA TotalAdds ==
  ASSUME NEW n \in Counts, NEW cs \in SUBSET Dequeuers,
         NEW c \in Dequeuers, c \notin cs
  PROVE  Total(n, cs \union {c}) = Total(n, cs) + n[c]
<1> DEFINE own == {c} \X (1 .. n[c])
<1>0. MaxBulk \in Nat /\ n[c] \in 0 .. MaxBulk
  BY QueueAssumption DEF Counts
<1>1. Units(n, cs \union {c}) = Units(n, cs) \union own
  BY <1>0 DEF Units
<1>2. Units(n, cs) \intersect own = {}
  BY DEF Units
<1>3. IsFiniteSet(1 .. n[c]) /\ Cardinality(1 .. n[c]) = n[c]
  <2>1. 1 \in Int /\ n[c] \in Int
    BY <1>0
  <2>2. /\ IsFiniteSet(1 .. n[c])
        /\ Cardinality(1 .. n[c]) = IF 1 > n[c] THEN 0 ELSE n[c] - 1 + 1
    BY <2>1, FS_Interval
  <2> QED BY <1>0, <2>2
<1>4. IsFiniteSet({c}) /\ Cardinality({c}) = 1
  BY FS_Singleton
<1>5. IsFiniteSet(own) /\ Cardinality(own) = 1 * n[c]
  BY <1>3, <1>4, FS_Product
<1>6. /\ IsFiniteSet(Units(n, cs)) /\ Cardinality(Units(n, cs)) \in Nat
      /\ Total(n, cs) = Cardinality(Units(n, cs))
      /\ Total(n, cs \union {c}) = Cardinality(Units(n, cs \union {c}))
  BY UnitsFinite
<1> HIDE DEF own
<1>7. Cardinality(Units(n, cs) \union own) =
        Cardinality(Units(n, cs)) + Cardinality(own) - Cardinality({})
  BY <1>2, <1>5, <1>6, FS_Union
<1>8. Cardinality({}) = 0
  BY FS_EmptySet
<1>9. Total(n, cs \union {c}) = Cardinality(Units(n, cs) \union own)
  BY <1>1, <1>6
<1>10. Cardinality(own) = n[c] /\ n[c] \in Nat
  BY <1>0, <1>5
<1> QED BY <1>6, <1>7, <1>8, <1>9, <1>10

(* What one dequeuer's number makes of the sum.                            *)
LEMMA TotalChanges ==
  ASSUME NEW n \in Counts, NEW m \in Counts, NEW cs \in SUBSET Dequeuers,
         NEW c \in cs, \A d \in cs \ {c} : n[d] = m[d]
  PROVE  Total(m, cs) = Total(n, cs) - n[c] + m[c]
<1> DEFINE ds == cs \ {c}
<1>1. cs = ds \union {c} /\ c \notin ds /\ ds \in SUBSET Dequeuers /\ c \in Dequeuers
  OBVIOUS
<1>2. Total(n, ds) = Total(m, ds)
  BY <1>1, TotalAgrees
<1>3. Total(n, ds \union {c}) = Total(n, ds) + n[c]
  BY <1>1, TotalAdds
<1>4. Total(m, ds \union {c}) = Total(m, ds) + m[c]
  BY <1>1, TotalAdds
<1>5. Total(n, ds) \in Nat /\ n[c] \in Nat /\ m[c] \in Nat
  BY <1>1, UnitsFinite, QueueAssumption DEF Counts
<1> HIDE DEF ds
<1> QED BY <1>1, <1>2, <1>3, <1>4, <1>5

(* Two parts of what there is of a third.                                  *)
LEMMA TotalOfParts ==
  ASSUME NEW n \in Counts, NEW m \in Counts, NEW k \in Counts,
         NEW cs \in SUBSET Dequeuers,
         \A c \in Dequeuers : n[c] <= k[c],
         \A c \in cs : n[c] = 0 /\ m[c] <= k[c]
  PROVE  Total(n, Dequeuers) + Total(m, cs) <= Total(k, Dequeuers)
<1> DEFINE N == Units(n, Dequeuers)
           M == Units(m, cs)
           K == Units(k, Dequeuers)
<1>0. Dequeuers \in SUBSET Dequeuers /\ MaxBulk \in Nat
  BY QueueAssumption
<1>1. N \union M \subseteq K
  BY <1>0 DEF Units, Counts
<1>2. N \intersect M = {}
  BY <1>0 DEF Units, Counts
<1>3. /\ IsFiniteSet(N) /\ Total(n, Dequeuers) = Cardinality(N)
      /\ IsFiniteSet(M) /\ Total(m, cs) = Cardinality(M)
      /\ IsFiniteSet(K) /\ Total(k, Dequeuers) = Cardinality(K)
  BY <1>0, UnitsFinite
<1> HIDE DEF N, M, K
<1>4. Cardinality(N \union M) = Cardinality(N) + Cardinality(M) - Cardinality({})
  BY <1>2, <1>3, FS_Union
<1>5. Cardinality(N \union M) <= Cardinality(K)
  BY <1>1, <1>3, FS_Subset
<1>6. Cardinality({}) = 0 /\ Cardinality(N) \in Nat /\ Cardinality(M) \in Nat
  BY <1>3, FS_EmptySet, FS_CardinalityType
<1> QED BY <1>3, <1>4, <1>5, <1>6

-----------------------------------------------------------------------------
(* Arithmetic of index_t: indices and counts that do not wrap, modulo      *)
(* IndexT.                                                                 *)

Half == IndexT \div 2

LEMMA Widths ==
  /\ IndexT \in Nat \ {0} /\ BlockSize \in Nat \ {0, 1}
  /\ Half \in Nat \ {0} /\ IndexT = 2 * Half /\ BlockSize < Half
  /\ \E k \in Nat \ {0} : IndexT = BlockSize * k
<1>1. /\ IndexT \in Nat \ {0} /\ BlockSize \in Nat \ {0, 1}
      /\ IndexT > 2 * BlockSize /\ IndexT % (2 * BlockSize) = 0
  BY QueueAssumption
<1>2. 2 * BlockSize \in Nat \ {0}
  BY <1>1
<1>3. PICK q \in Int : IndexT = (2 * BlockSize) * q
  BY <1>1, <1>2, Division
<1>4. q > 0
  BY <1>1, <1>3
<1>5. IndexT = 2 * (BlockSize * q) /\ BlockSize * q \in Nat
  BY <1>1, <1>3, <1>4
<1>6. Half = BlockSize * q
  BY <1>5 DEF Half
<1>7. IndexT = BlockSize * (2 * q) /\ 2 * q \in Nat \ {0}
  BY <1>1, <1>3, <1>4
<1> QED BY <1>1, <1>5, <1>6, <1>7

LEMMA PlusOf ==
  ASSUME NEW x \in Int, NEW y \in Int
  PROVE  Plus(x % IndexT, y) = (x + y) % IndexT
BY Widths, ModAdd DEF Plus

LEMMA PlusOfBoth ==
  ASSUME NEW x \in Int, NEW y \in Int
  PROVE  Plus(x % IndexT, y % IndexT) = (x + y) % IndexT
<1>1. y % IndexT \in Int /\ x % IndexT \in Int
  BY Widths, Division
<1>2. ((x % IndexT) + (y % IndexT)) % IndexT = (x + (y % IndexT)) % IndexT
  BY <1>1, Widths, ModAdd
<1>3. ((y % IndexT) + x) % IndexT = (y + x) % IndexT
  BY Widths, ModAdd
<1>4. (y % IndexT) + x = x + (y % IndexT) /\ y + x = x + y
  BY <1>1
<1> QED BY <1>2, <1>3, <1>4 DEF Plus

LEMMA MinusOf ==
  ASSUME NEW x \in Int, NEW y \in Int
  PROVE  Minus(x % IndexT, y % IndexT) = (x - y) % IndexT
<1>1. y % IndexT \in Int /\ x % IndexT \in Int
  BY Widths, Division
<1>2. ((x % IndexT) - (y % IndexT)) % IndexT = ((x % IndexT) - y) % IndexT
  BY <1>1, Widths, ModSub
<1>3. ((x % IndexT) + (-y)) % IndexT = (x + (-y)) % IndexT
  <2>1. PICK z \in Int : z = -y
    OBVIOUS
  <2>2. ((x % IndexT) + z) % IndexT = (x + z) % IndexT
    BY Widths, ModAdd
  <2> QED BY <2>1, <2>2
<1>4. (x % IndexT) + (-y) = (x % IndexT) - y /\ x + (-y) = x - y
  BY <1>1
<1> QED BY <1>2, <1>3, <1>4 DEF Minus

LEMMA IndexType ==
  ASSUME NEW x \in Int
  PROVE  x % IndexT \in Indices
BY Widths, Division DEF Indices

LEMMA Unwrapped ==
  ASSUME NEW x \in Int
  PROVE  /\ x \in 0 .. IndexT - 1 => x % IndexT = x
         /\ x \in -IndexT .. -1 => x % IndexT = x + IndexT
BY Widths, ModSmall

(* Whether head is behind x, that is not half the range further.           *)
LEMMA LessOf ==
  ASSUME NEW h \in Int, NEW x \in Int, x - h \in -Half .. IndexT
  PROVE  CircularLess(h % IndexT, x % IndexT) <=> x - h \in 1 .. Half - 1
<1>1. Minus(h % IndexT, x % IndexT) = (h - x) % IndexT
  BY MinusOf
<1>2. CASE h - x \in 0 .. Half
  BY <1>1, <1>2, Widths, Unwrapped DEF CircularLess, Half
<1>3. CASE h - x \in -IndexT .. -1
  BY <1>1, <1>3, Widths, Unwrapped DEF CircularLess, Half
<1> QED BY <1>2, <1>3, Widths

LEMMA AvailableType ==
  ASSUME NEW tail, NEW count, NEW max \in Nat, Minus(tail, count) \in Nat
  PROVE  Available(tail, count, max) \in 0 .. max
BY DEF Available

(* x is what there is: it may be less than nothing.                        *)
LEMMA AvailableOf ==
  ASSUME NEW tail, NEW count, NEW max \in Nat, NEW x \in Int, x >= -Half, x < IndexT,
         Minus(tail, count) = x % IndexT
  PROVE  /\ Available(tail, count, max) \in 0 .. max
         /\ Available(tail, count, max) > 0 => Available(tail, count, max) <= x
         /\ x <= 0 => Available(tail, count, max) = 0
         /\ x > 0 /\ x < Half =>
              Available(tail, count, max) = IF x < max THEN x ELSE max
<1> DEFINE n == Minus(tail, count)
<1>0. n \in 0 .. IndexT - 1
  BY IndexType DEF Indices
<1>1. x >= 0 => n = x
  BY Unwrapped, Widths
<1>2. x < 0 => n = x + IndexT
  BY Unwrapped, Widths
<1>3. CircularLess(0, n) <=> n \in 1 .. Half - 1
  <2>1. 0 % IndexT = 0 /\ n % IndexT = n
    BY <1>0, Unwrapped, Widths
  <2> HIDE DEF n
  <2>2. CircularLess(0 % IndexT, n % IndexT) <=> n - 0 \in 1 .. Half - 1
    BY <1>0, LessOf, Widths
  <2> QED BY <1>0, <2>1, <2>2
<1>4. Available(tail, count, max) =
        IF ~CircularLess(0, n) THEN 0 ELSE IF n < max THEN n ELSE max
  BY DEF Available
<1> HIDE DEF n
<1> QED BY <1>0, <1>1, <1>2, <1>3, <1>4, Widths

-----------------------------------------------------------------------------
(* The counters.  There are indices and counts that never wrapped, of      *)
(* which the variables have what is left modulo IndexT: T, H, C and O of   *)
(* the four counters, and what each dequeue read of tailIndex (since), of  *)
(* dequeueOvercommit (ovc) and of dequeueOptimisticCount (tick) as it      *)
(* claimed.  late has the dequeues that claimed earlier than one that      *)
(* was granted something, and have not looked again themselves.            *)

Unwrappings ==
  [T : Nat, H : Nat, C : Nat, O : Nat, since : [Dequeuers -> Nat],
   ovc : [Dequeuers -> Nat], tick : [Dequeuers -> Nat], late : SUBSET Dequeuers]

Pcs == {"idle", "overcommit", "count", "claim", "recheck", "takeback", "head",
        "index", "key", "base", "block", "free"}

Call ==
  [pc : Pcs, since : Int, tail : Int, overcommit : Int, count : Int, index : Int,
   left : 0 .. MaxBulk, header : Int, at : Int, block : Blocks \union {Null},
   got : Seq(Int \union {Null})]

(* The items of an enqueue in progress were counted for those claiming.    *)
IsEnqueueing == enq.pc \notin {"idle", "destroyed"}

Stall == IF IsEnqueueing THEN MaxStall ELSE MaxStall + MaxCount

CountersUnwrap(a) ==
  /\ tailIndex = a.T % IndexT
  /\ headIndex = a.H % IndexT
  /\ dequeueOptimisticCount = a.C % IndexT
  /\ dequeueOvercommit = a.O % IndexT
  /\ a.H <= a.T /\ a.T - a.H < Half

(* What a dequeue knows of the counters.                                   *)
SinceFits(a, c) ==
  deq[c].pc \in {"overcommit", "count", "claim", "recheck"} =>
    /\ deq[c].since = a.since[c] % IndexT
    /\ a.since[c] <= a.T /\ a.T <= a.since[c] + Stall

TailFits(a, c) ==
  deq[c].pc \in {"overcommit", "count"} => deq[c].tail = deq[c].since

OvercommitFits(a, c) ==
  /\ deq[c].pc \in {"count", "claim", "recheck"} =>
       deq[c].overcommit = a.ovc[c] % IndexT /\ a.ovc[c] <= a.O
  /\ deq[c].pc \in {"count", "claim"} => a.O <= a.ovc[c] + MaxStall

TicketFits(a, c) ==
  deq[c].pc = "recheck" =>
    /\ deq[c].count = a.tick[c] % IndexT
    /\ a.tick[c] + deq[c].left <= a.C
    /\ a.since[c] - (a.tick[c] - a.ovc[c]) < Half
    /\ (a.tick[c] - a.ovc[c]) - a.T <= Half

LeftFits(c) ==
  /\ deq[c].pc \in {"claim", "recheck", "head"} => deq[c].left > 0
  /\ deq[c].pc = "takeback" => deq[c].count \in 1 .. MaxBulk - deq[c].left

Rechecking == {c \in Dequeuers : deq[c].pc = "recheck"}

TicketsApart(a) ==
  \A c, e \in Rechecking :
    c # e => \/ a.tick[c] + deq[c].left <= a.tick[e]
             \/ a.tick[e] + deq[e].left <= a.tick[c]

Lefts      == [c \in Dequeuers |-> deq[c].left]
AllClaimed == [c \in Dequeuers |-> Claimed(c)]
AllGranted == [c \in Dequeuers |-> Granted(c)]

Balanced(a) == a.C = a.O + a.H + Total(AllClaimed, Dequeuers)

Earlier(a, c) == {e \in Rechecking : a.tick[e] < a.tick[c]}

(* What is granted is there, for those as well that are late ...           *)
GrantsFit(a) ==
  /\ a.late \subseteq Rechecking
  /\ a.H + Total(AllGranted, Dequeuers) + Total(Lefts, a.late) <= a.T

(* ... and one that is not late goes for what comes after the grants and   *)
(* the claims before its own.                                              *)
OthersFit(a) ==
  \A c \in Rechecking \ a.late :
    /\ a.late \subseteq Earlier(a, c)
    /\ a.H + Total(AllGranted, Dequeuers) + Total(Lefts, Earlier(a, c))
         <= a.tick[c] - a.ovc[c]

DequeueFits(a, c) ==
  /\ SinceFits(a, c) /\ TailFits(a, c) /\ OvercommitFits(a, c)
  /\ TicketFits(a, c) /\ LeftFits(c)

CountersFit(a) ==
  /\ deq \in [Dequeuers -> Call]
  /\ CountersUnwrap(a)
  /\ \A c \in Dequeuers : DequeueFits(a, c)
  /\ TicketsApart(a)
  /\ Balanced(a)
  /\ GrantsFit(a)
  /\ OthersFit(a)

LEMMA CountsOf ==
  ASSUME deq \in [Dequeuers -> Call], \A c \in Dequeuers : LeftFits(c)
  PROVE  Lefts \in Counts /\ AllClaimed \in Counts /\ AllGranted \in Counts
<1>1. ASSUME NEW c \in Dequeuers
      PROVE  /\ deq[c].left \in 0 .. MaxBulk
             /\ deq[c].pc = "takeback" => deq[c].count \in 1 .. MaxBulk - deq[c].left
  BY DEF Call, LeftFits
<1>2. MaxBulk \in Nat
  BY QueueAssumption
<1> QED BY <1>1, <1>2 DEF Counts, Lefts, AllClaimed, AllGranted, Claimed, Granted

LEMMA CountsOfNext ==
  ASSUME deq' \in [Dequeuers -> Call], \A c \in Dequeuers : LeftFits(c)'
  PROVE  Lefts' \in Counts /\ AllClaimed' \in Counts /\ AllGranted' \in Counts
<1>1. ASSUME NEW c \in Dequeuers
      PROVE  /\ deq'[c].left \in 0 .. MaxBulk
             /\ deq'[c].pc = "takeback" => deq'[c].count \in 1 .. MaxBulk - deq'[c].left
  BY DEF Call, LeftFits
<1>2. MaxBulk \in Nat
  BY QueueAssumption
<1> QED BY <1>1, <1>2 DEF Counts, Lefts, AllClaimed, AllGranted, Claimed, Granted

(* What the sums become when one dequeue has a step.                       *)
LEMMA SumsOfStep ==
  ASSUME deq \in [Dequeuers -> Call], \A d \in Dequeuers : LeftFits(d),
         deq' \in [Dequeuers -> Call], \A d \in Dequeuers : LeftFits(d)',
         NEW c \in Dequeuers, \A d \in Dequeuers \ {c} : deq'[d] = deq[d]
  PROVE  /\ Total(AllClaimed, Dequeuers)' =
              Total(AllClaimed, Dequeuers) - Claimed(c) + Claimed(c)'
         /\ Total(AllGranted, Dequeuers)' =
              Total(AllGranted, Dequeuers) - Granted(c) + Granted(c)'
         /\ \A cs \in SUBSET Dequeuers :
              c \notin cs => Total(Lefts, cs)' = Total(Lefts, cs)
         /\ Total(AllClaimed, Dequeuers) \in Nat
         /\ Total(AllGranted, Dequeuers) \in Nat
         /\ \A cs \in SUBSET Dequeuers : Total(Lefts, cs) \in Nat
         /\ Claimed(c) \in Nat /\ Claimed(c)' \in Nat
         /\ Granted(c) \in Nat /\ Granted(c)' \in Nat
<1>1. Lefts \in Counts /\ AllClaimed \in Counts /\ AllGranted \in Counts
  BY CountsOf
<1>2. Lefts' \in Counts /\ AllClaimed' \in Counts /\ AllGranted' \in Counts
  BY CountsOfNext
<1>3. /\ \A d \in Dequeuers \ {c} : AllClaimed[d] = AllClaimed'[d]
      /\ \A d \in Dequeuers \ {c} : AllGranted[d] = AllGranted'[d]
      /\ \A d \in Dequeuers \ {c} : Lefts[d] = Lefts'[d]
  BY DEF AllClaimed, AllGranted, Lefts, Claimed, Granted
<1>4. /\ AllClaimed[c] = Claimed(c) /\ AllClaimed'[c] = Claimed(c)'
      /\ AllGranted[c] = Granted(c) /\ AllGranted'[c] = Granted(c)'
  BY DEF AllClaimed, AllGranted
<1>5. Dequeuers \in SUBSET Dequeuers
  OBVIOUS
<1>6. Total(AllClaimed', Dequeuers) = Total(AllClaimed, Dequeuers) - Claimed(c) + Claimed(c)'
  BY <1>1, <1>2, <1>3, <1>4, <1>5, TotalChanges
<1>7. Total(AllGranted', Dequeuers) = Total(AllGranted, Dequeuers) - Granted(c) + Granted(c)'
  BY <1>1, <1>2, <1>3, <1>4, <1>5, TotalChanges
<1>8. ASSUME NEW cs \in SUBSET Dequeuers, c \notin cs
      PROVE  Total(Lefts', cs) = Total(Lefts, cs)
  BY <1>1, <1>2, <1>3, <1>8, TotalAgrees
<1>9. /\ Total(AllClaimed, Dequeuers) \in Nat /\ Total(AllGranted, Dequeuers) \in Nat
      /\ \A cs \in SUBSET Dequeuers : Total(Lefts, cs) \in Nat
  BY <1>1, <1>5, UnitsFinite
<1>10. /\ Claimed(c) \in Nat /\ Claimed(c)' \in Nat
       /\ Granted(c) \in Nat /\ Granted(c)' \in Nat
  BY <1>1, <1>2, <1>4, QueueAssumption DEF Counts
<1>11. /\ Total(AllClaimed, Dequeuers)' = Total(AllClaimed', Dequeuers)
       /\ Total(AllGranted, Dequeuers)' = Total(AllGranted', Dequeuers)
       /\ \A cs \in SUBSET Dequeuers : Total(Lefts, cs)' = Total(Lefts', cs)
  BY DEF Total
<1> QED BY <1>6, <1>7, <1>8, <1>9, <1>10, <1>11

LEMMA UnwrappingType ==
  ASSUME NEW a \in Unwrappings
  PROVE  /\ a.T \in Nat /\ a.H \in Nat /\ a.C \in Nat /\ a.O \in Nat
         /\ a.since \in [Dequeuers -> Nat] /\ a.ovc \in [Dequeuers -> Nat]
         /\ a.tick \in [Dequeuers -> Nat] /\ a.late \in SUBSET Dequeuers
         /\ \A c \in Dequeuers : a.since[c] \in Nat /\ a.ovc[c] \in Nat /\ a.tick[c] \in Nat
BY DEF Unwrappings

LEMMA Bounds ==
  /\ MaxStall \in Nat /\ MaxCount \in Nat \ {0} /\ MaxBulk \in Nat \ {0}
  /\ MaxStall + MaxCount <= Half
  /\ MaxStall + Cardinality(Dequeuers) * MaxBulk <= Half
  /\ Stall \in Nat /\ Stall <= MaxStall + MaxCount
  /\ Stall' \in Nat /\ Stall' <= MaxStall + MaxCount
BY QueueAssumption DEF Half, Stall

LEMMA CallType ==
  ASSUME NEW d \in Call
  PROVE  /\ d.pc \in Pcs /\ d.since \in Int /\ d.tail \in Int /\ d.overcommit \in Int
         /\ d.count \in Int /\ d.index \in Int /\ d.left \in Nat /\ d.left <= MaxBulk
         /\ d.left \in 0 .. MaxBulk
         /\ d.header \in Int /\ d.at \in Int /\ d.block \in Blocks \union {Null}
         /\ d.got \in Seq(Int \union {Null})
BY QueueAssumption DEF Call

(* A dequeue that has no step, while the counters advance.                 *)
LEMMA OtherFits ==
  ASSUME NEW a \in Unwrappings, NEW b \in Unwrappings, NEW d \in Dequeuers,
         deq \in [Dequeuers -> Call],
         DequeueFits(a, d), deq'[d] = deq[d],
         b.since[d] = a.since[d], b.ovc[d] = a.ovc[d], b.tick[d] = a.tick[d],
         a.T <= b.T, a.C <= b.C, a.O <= b.O,
         deq[d].pc \in {"overcommit", "count", "claim", "recheck"} =>
           b.T <= a.since[d] + Stall',
         deq[d].pc \in {"count", "claim"} => b.O <= a.ovc[d] + MaxStall
  PROVE  DequeueFits(b, d)'
<1>1. /\ a.T \in Nat /\ a.C \in Nat /\ a.O \in Nat /\ a.since[d] \in Nat
      /\ a.ovc[d] \in Nat /\ a.tick[d] \in Nat
      /\ b.T \in Nat /\ b.C \in Nat /\ b.O \in Nat
  BY UnwrappingType
<1>2. deq[d].left \in Nat /\ deq[d].pc \in Pcs /\ deq[d].count \in Int
  BY CallType
<1>3. SinceFits(b, d)'
  BY <1>1, Bounds DEF DequeueFits, SinceFits
<1>4. TailFits(b, d)'
  BY DEF DequeueFits, TailFits
<1>5. OvercommitFits(b, d)'
  BY <1>1, Bounds DEF DequeueFits, OvercommitFits
<1>6. TicketFits(b, d)'
  BY <1>1, <1>2, Widths DEF DequeueFits, TicketFits
<1>7. LeftFits(d)'
  BY DEF DequeueFits, LeftFits
<1> QED BY <1>3, <1>4, <1>5, <1>6, <1>7 DEF DequeueFits

LEMMA QuietSums ==
  ASSUME deq' = deq
  PROVE  /\ Total(AllClaimed, Dequeuers)' = Total(AllClaimed, Dequeuers)
         /\ Total(AllGranted, Dequeuers)' = Total(AllGranted, Dequeuers)
         /\ \A cs \in SUBSET Dequeuers : Total(Lefts, cs)' = Total(Lefts, cs)
         /\ Rechecking' = Rechecking
BY DEF Total, AllClaimed, AllGranted, Lefts, Claimed, Granted, Rechecking

(* The enqueueing thread begins an enqueue, or puts n items in the queue,  *)
(* or has a step in between.                                               *)
LEMMA EnqueueingFits ==
  ASSUME NEW a \in Unwrappings, CountersFit(a), NEW n \in Nat,
         tailIndex' = Plus(tailIndex, n), deq' = deq,
         UNCHANGED <<headIndex, dequeueOptimisticCount, dequeueOvercommit>>,
         a.T + n - a.H < Half,
         \A c \in Dequeuers :
           deq[c].pc \in {"overcommit", "count", "claim", "recheck"} =>
             a.T + n <= a.since[c] + Stall'
  PROVE  \E b \in Unwrappings : b.T = a.T + n /\ b.H = a.H /\ CountersFit(b)'
<1>0. /\ a.T \in Nat /\ a.H \in Nat /\ a.C \in Nat /\ a.O \in Nat
      /\ \A c \in Dequeuers : a.since[c] \in Nat /\ a.ovc[c] \in Nat /\ a.tick[c] \in Nat
  BY UnwrappingType
<1>1. PICK b \in Unwrappings :
         /\ b.T = a.T + n /\ b.H = a.H /\ b.C = a.C /\ b.O = a.O
         /\ b.since = a.since /\ b.ovc = a.ovc /\ b.tick = a.tick /\ b.late = a.late
  <2>1. [a EXCEPT !.T = @ + n] \in Unwrappings
    BY <1>0 DEF Unwrappings
  <2> QED BY <2>1 DEF Unwrappings
<1>2. deq' \in [Dequeuers -> Call]
  BY DEF CountersFit
<1>3. CountersUnwrap(b)'
  <2>1. tailIndex = a.T % IndexT
    BY DEF CountersFit, CountersUnwrap
  <2>2. Plus(a.T % IndexT, n) = (a.T + n) % IndexT
    <3>1. a.T \in Int /\ n \in Int
      BY <1>0
    <3> QED BY <3>1, PlusOf
  <2>3. tailIndex' = (a.T + n) % IndexT
    BY <2>1, <2>2
  <2> QED BY <1>0, <1>1, <2>3 DEF CountersFit, CountersUnwrap
<1>4. ASSUME NEW d \in Dequeuers PROVE DequeueFits(b, d)'
  <2>1. deq'[d] = deq[d] /\ DequeueFits(a, d) /\ deq \in [Dequeuers -> Call]
    BY DEF CountersFit
  <2>2. deq[d].pc \in {"count", "claim"} => b.O <= a.ovc[d] + MaxStall
    BY <1>1, <2>1 DEF DequeueFits, OvercommitFits
  <2> QED BY <1>0, <1>1, <2>1, <2>2, OtherFits
<1>5. TicketsApart(b)'
  BY <1>1, QuietSums DEF CountersFit, TicketsApart
<1>6. Balanced(b)'
  BY <1>0, <1>1, QuietSums DEF CountersFit, Balanced
<1>7. /\ Lefts \in Counts /\ AllGranted \in Counts
  BY CountsOf DEF CountersFit, DequeueFits
<1>8. /\ Total(AllGranted, Dequeuers) \in Nat /\ Total(Lefts, a.late) \in Nat
  <2>1. Dequeuers \in SUBSET Dequeuers /\ a.late \in SUBSET Dequeuers
    BY UnwrappingType
  <2> QED BY <1>7, <2>1, UnitsFinite
<1>9. GrantsFit(b)'
  BY <1>0, <1>1, <1>8, QuietSums, UnwrappingType DEF CountersFit, GrantsFit
<1>10. OthersFit(b)'
  <2>1. ASSUME NEW c \in Rechecking PROVE Earlier(b, c)' = Earlier(a, c) /\ Earlier(a, c) \in SUBSET Dequeuers
    BY <1>1, QuietSums DEF Earlier, Rechecking
  <2> QED BY <2>1, <1>1, QuietSums DEF CountersFit, OthersFit
<1> QED BY <1>1, <1>2, <1>3, <1>4, <1>5, <1>6, <1>9, <1>10 DEF CountersFit

(* A step of a dequeue that has claimed nothing and claims nothing in it.  *)
Quiet(d) == d.pc \in {"idle", "index", "key", "base", "block", "free"}

Unclaimed(d) == Quiet(d) \/ d.pc \in {"overcommit", "count", "claim"}

LEMMA UnclaimedFits ==
  ASSUME NEW a \in Unwrappings, CountersFit(a), NEW b \in Unwrappings, NEW c \in Dequeuers,
         deq' \in [Dequeuers -> Call], \A d \in Dequeuers \ {c} : deq'[d] = deq[d],
         Unclaimed(deq[c]), Unclaimed(deq'[c]),
         UNCHANGED <<counters, enq>>,
         b.T = a.T, b.H = a.H, b.C = a.C, b.O = a.O, b.tick = a.tick, b.late = a.late,
         \A d \in Dequeuers \ {c} : b.since[d] = a.since[d] /\ b.ovc[d] = a.ovc[d],
         DequeueFits(b, c)'
  PROVE  CountersFit(b)'
<1>0. /\ a.T \in Nat /\ a.H \in Nat /\ a.C \in Nat /\ a.O \in Nat
      /\ \A d \in Dequeuers : a.since[d] \in Nat /\ a.ovc[d] \in Nat /\ a.tick[d] \in Nat
      /\ a.late \in SUBSET Dequeuers
  BY UnwrappingType
<1>1. CountersUnwrap(b)'
  BY DEF CountersFit, CountersUnwrap, counters
<1>2. ASSUME NEW d \in Dequeuers PROVE DequeueFits(b, d)'
  <2>1. CASE d = c
    BY <2>1
  <2>2. CASE d # c
    <3>1. Stall' = Stall
      BY DEF Stall, IsEnqueueing
    <3>2. DequeueFits(a, d) /\ deq'[d] = deq[d] /\ deq \in [Dequeuers -> Call]
      BY <2>2 DEF CountersFit
    <3>3. deq[d].pc \in {"overcommit", "count", "claim", "recheck"} => b.T <= a.since[d] + Stall'
      BY <3>1, <3>2 DEF DequeueFits, SinceFits
    <3>4. deq[d].pc \in {"count", "claim"} => b.O <= a.ovc[d] + MaxStall
      BY <3>2 DEF DequeueFits, OvercommitFits
    <3> QED BY <1>0, <2>2, <3>2, <3>3, <3>4, OtherFits
  <2> QED BY <2>1, <2>2
<1>3. Rechecking' = Rechecking /\ c \notin Rechecking
  BY DEF Rechecking, Unclaimed, Quiet
<1>4. TicketsApart(b)'
  <2>1. \A e \in Rechecking : deq'[e].left = deq[e].left
    BY <1>3 DEF Rechecking
  <2> QED BY <1>3, <2>1 DEF CountersFit, TicketsApart
<1>5. /\ Total(AllClaimed, Dequeuers)' = Total(AllClaimed, Dequeuers)
      /\ Total(AllGranted, Dequeuers)' = Total(AllGranted, Dequeuers)
      /\ \A cs \in SUBSET Dequeuers : c \notin cs => Total(Lefts, cs)' = Total(Lefts, cs)
  <2>1. Claimed(c) = 0 /\ Claimed(c)' = 0 /\ Granted(c) = 0 /\ Granted(c)' = 0
    BY DEF Claimed, Granted, Unclaimed, Quiet
  <2>2. deq \in [Dequeuers -> Call] /\ \A d \in Dequeuers : LeftFits(d) /\ LeftFits(d)'
    BY <1>2 DEF CountersFit, DequeueFits
  <2> QED BY <2>1, <2>2, SumsOfStep
<1>6. Balanced(b)'
  BY <1>5 DEF CountersFit, Balanced
<1>7. GrantsFit(b)'
  BY <1>0, <1>3, <1>5 DEF CountersFit, GrantsFit
<1>8. OthersFit(b)'
  <2>1. ASSUME NEW d \in Rechecking
        PROVE  /\ Earlier(b, d)' = Earlier(a, d) /\ Earlier(a, d) \in SUBSET Dequeuers
               /\ c \notin Earlier(a, d) /\ b.ovc[d] = a.ovc[d]
    BY <1>3 DEF Earlier, Rechecking
  <2> QED BY <2>1, <1>3, <1>5 DEF CountersFit, OthersFit
<1> QED BY <1>1, <1>2, <1>4, <1>6, <1>7, <1>8 DEF CountersFit

LEMMA OutsideFits ==
  ASSUME NEW a \in Unwrappings, CountersFit(a), NEW c \in Dequeuers,
         deq' \in [Dequeuers -> Call], \A d \in Dequeuers \ {c} : deq'[d] = deq[d],
         Quiet(deq[c]), Quiet(deq'[c]),
         UNCHANGED <<counters, enq>>
  PROVE  CountersFit(a)'
<1>1. DequeueFits(a, c)'
  BY DEF Quiet, DequeueFits, SinceFits, TailFits, OvercommitFits, TicketFits, LeftFits
<1> QED BY <1>1, UnclaimedFits DEF Unclaimed

-----------------------------------------------------------------------------
(* The steps by which a dequeue claims its items.                          *)

LEMMA IdleType == Idle \in Call
<1>1. Idle.got = << >> /\ << >> \in Seq(Int \union {Null})
  BY DEF Idle
<1> QED BY <1>1, QueueAssumption DEF Idle, Call, Pcs

LEMMA StepOf ==
  ASSUME deq \in [Dequeuers -> Call], NEW c \in Dequeuers, NEW r \in Call,
         deq' = [deq EXCEPT ![c] = r]
  PROVE  /\ deq' \in [Dequeuers -> Call] /\ deq'[c] = r
         /\ \A d \in Dequeuers \ {c} : deq'[d] = deq[d]
OBVIOUS

LEMMA ReadTailFits ==
  ASSUME NEW a \in Unwrappings, CountersFit(a), NEW c \in Dequeuers, ReadTail(c)
  PROVE  \E b \in Unwrappings : b.T = a.T /\ b.H = a.H /\ CountersFit(b)'
<1>0. /\ a.T \in Nat /\ a.since \in [Dequeuers -> Nat]
  BY UnwrappingType
<1>1. PICK b \in Unwrappings :
         /\ b.T = a.T /\ b.H = a.H /\ b.C = a.C /\ b.O = a.O
         /\ b.since = [a.since EXCEPT ![c] = a.T]
         /\ b.ovc = a.ovc /\ b.tick = a.tick /\ b.late = a.late
  <2>1. [a EXCEPT !.since = [@ EXCEPT ![c] = a.T]] \in Unwrappings
    BY <1>0 DEF Unwrappings
  <2> QED BY <2>1 DEF Unwrappings
<1>2. deq \in [Dequeuers -> Call] /\ tailIndex \in Int /\ tailIndex = a.T % IndexT
  BY <1>0, IndexType DEF CountersFit, CountersUnwrap, Indices
<1>3. /\ deq'[c] = [deq[c] EXCEPT !.pc = "overcommit", !.tail = tailIndex, !.since = tailIndex]
      /\ \A d \in Dequeuers \ {c} : deq'[d] = deq[d]
      /\ deq' \in [Dequeuers -> Call]
  <2>1. PICK r : r = [deq[c] EXCEPT !.pc = "overcommit", !.tail = tailIndex, !.since = tailIndex]
    OBVIOUS
  <2>2. deq[c] \in Call
    BY <1>2
  <2>3. r \in Call
    BY <1>2, <2>1, <2>2 DEF Call, Pcs
  <2>4. deq' = [deq EXCEPT ![c] = r]
    BY <1>2, <2>1 DEF ReadTail
  <2> QED BY <1>2, <2>1, <2>3, <2>4, StepOf
<1>4. /\ deq'[c].pc = "overcommit" /\ deq'[c].tail = tailIndex /\ deq'[c].since = tailIndex
  BY <1>2, <1>3 DEF Call
<1>5. DequeueFits(b, c)'
  BY <1>0, <1>1, <1>2, <1>4, Bounds
     DEF DequeueFits, SinceFits, TailFits, OvercommitFits, TicketFits, LeftFits, ReadTail, counters
<1>6. Unclaimed(deq[c]) /\ Unclaimed(deq'[c])
  BY <1>4 DEF ReadTail, Unclaimed, Quiet
<1>7. UNCHANGED <<counters, enq>>
  BY DEF ReadTail
<1>8. \A d \in Dequeuers \ {c} : b.since[d] = a.since[d] /\ b.ovc[d] = a.ovc[d]
  BY <1>0, <1>1
<1> QED BY <1>1, <1>3, <1>5, <1>6, <1>7, <1>8, UnclaimedFits

LEMMA ReadOvercommitFits ==
  ASSUME NEW a \in Unwrappings, CountersFit(a), NEW c \in Dequeuers, ReadOvercommit(c)
  PROVE  \E b \in Unwrappings : b.T = a.T /\ b.H = a.H /\ CountersFit(b)'
<1>0. /\ a.T \in Nat /\ a.O \in Nat /\ a.ovc \in [Dequeuers -> Nat]
  BY UnwrappingType
<1>1. PICK b \in Unwrappings :
         /\ b.T = a.T /\ b.H = a.H /\ b.C = a.C /\ b.O = a.O
         /\ b.ovc = [a.ovc EXCEPT ![c] = a.O]
         /\ b.since = a.since /\ b.tick = a.tick /\ b.late = a.late
  <2>1. [a EXCEPT !.ovc = [@ EXCEPT ![c] = a.O]] \in Unwrappings
    BY <1>0 DEF Unwrappings
  <2> QED BY <2>1 DEF Unwrappings
<1>2. /\ deq \in [Dequeuers -> Call]
      /\ dequeueOvercommit \in Int /\ dequeueOvercommit = a.O % IndexT
  BY <1>0, IndexType DEF CountersFit, CountersUnwrap, Indices
<1>3. /\ deq'[c] = [deq[c] EXCEPT !.pc = "count", !.overcommit = dequeueOvercommit]
      /\ \A d \in Dequeuers \ {c} : deq'[d] = deq[d]
      /\ deq' \in [Dequeuers -> Call]
  <2>1. PICK r : r = [deq[c] EXCEPT !.pc = "count", !.overcommit = dequeueOvercommit]
    OBVIOUS
  <2>2. deq[c] \in Call
    BY <1>2
  <2>3. r \in Call
    BY <1>2, <2>1, <2>2 DEF Call, Pcs
  <2>4. deq' = [deq EXCEPT ![c] = r]
    BY <1>2, <2>1 DEF ReadOvercommit
  <2> QED BY <1>2, <2>1, <2>3, <2>4, StepOf
<1>4. /\ deq'[c].pc = "count" /\ deq'[c].tail = deq[c].tail /\ deq'[c].since = deq[c].since
      /\ deq'[c].overcommit = dequeueOvercommit
  BY <1>2, <1>3 DEF Call
<1>5. DequeueFits(b, c)'
  <2>1. DequeueFits(a, c) /\ deq[c].pc = "overcommit" /\ Stall' = Stall
    BY DEF CountersFit, ReadOvercommit, Stall, IsEnqueueing
  <2> QED BY <2>1, <1>0, <1>1, <1>2, <1>4, Bounds
     DEF DequeueFits, SinceFits, TailFits, OvercommitFits, TicketFits, LeftFits
<1>6. Unclaimed(deq[c]) /\ Unclaimed(deq'[c])
  BY <1>4 DEF ReadOvercommit, Unclaimed, Quiet
<1>7. UNCHANGED <<counters, enq>>
  BY DEF ReadOvercommit
<1>8. \A d \in Dequeuers \ {c} : b.since[d] = a.since[d] /\ b.ovc[d] = a.ovc[d]
  BY <1>0, <1>1
<1> QED BY <1>1, <1>3, <1>5, <1>6, <1>7, <1>8, UnclaimedFits

LEMMA ReadCountFits ==
  ASSUME NEW a \in Unwrappings, CountersFit(a), NEW c \in Dequeuers, ReadCount(c)
  PROVE  CountersFit(a)'
<1>0. deq \in [Dequeuers -> Call] /\ deq[c].pc = "count" /\ DequeueFits(a, c)
  BY DEF CountersFit, ReadCount
<1>1. UNCHANGED <<counters, enq>> /\ Stall' = Stall
  BY DEF ReadCount, Stall, IsEnqueueing
<1>2. CASE Return(c)
  <2>1. deq' \in [Dequeuers -> Call] /\ deq'[c] = Idle /\ Idle.pc = "idle"
        /\ \A d \in Dequeuers \ {c} : deq'[d] = deq[d]
    BY <1>0, <1>2, IdleType DEF Return, Idle
  <2>2. DequeueFits(a, c)'
    BY <2>1 DEF DequeueFits, SinceFits, TailFits, OvercommitFits, TicketFits, LeftFits
  <2> QED BY <1>0, <1>1, <2>1, <2>2, UnclaimedFits DEF Unclaimed, Quiet
<1>3. CASE ~Return(c)
  <2>1. PICK n \in 1 .. MaxBulk :
           deq' = [deq EXCEPT ![c].pc = "claim", ![c].left = n, ![c].tail = 0]
    <3>1. PICK max \in 1 .. MaxBulk :
            LET n == Available(deq[c].tail,
                          Minus(dequeueOptimisticCount, deq[c].overcommit), max) IN
              n # 0 /\ deq' = [deq EXCEPT ![c].pc = "claim", ![c].left = n, ![c].tail = 0]
      BY <1>3 DEF ReadCount
    <3> DEFINE n == Available(deq[c].tail,
                          Minus(dequeueOptimisticCount, deq[c].overcommit), max)
    <3>2. n \in 0 .. max
      <4>1. PICK k : k = Minus(dequeueOptimisticCount, deq[c].overcommit)
        OBVIOUS
      <4>2. dequeueOptimisticCount \in Int /\ deq[c].overcommit \in Int /\ deq[c].tail \in Int
        BY <1>0, CallType, UnwrappingType, IndexType DEF CountersFit, CountersUnwrap, Indices
      <4>3. k \in Int
        BY <4>1, <4>2, IndexType DEF Minus, Indices
      <4>4. Minus(deq[c].tail, k) \in Nat
        BY <4>2, <4>3, IndexType DEF Minus, Indices
      <4>5. max \in Nat
        OBVIOUS
      <4> QED BY <4>1, <4>4, <4>5, AvailableType
    <3> HIDE DEF n
    <3>3. n \in 1 .. MaxBulk
      BY <3>1, <3>2, Bounds DEF n
    <3> QED BY <3>1, <3>3 DEF n
  <2>2. /\ deq'[c] = [deq[c] EXCEPT !.pc = "claim", !.left = n, !.tail = 0]
        /\ \A d \in Dequeuers \ {c} : deq'[d] = deq[d]
        /\ deq' \in [Dequeuers -> Call]
    <3>1. PICK r : r = [deq[c] EXCEPT !.pc = "claim", !.left = n, !.tail = 0]
      OBVIOUS
    <3>2. deq[c] \in Call /\ n \in 0 .. MaxBulk /\ "claim" \in Pcs /\ 0 \in Int
      BY <1>0, Bounds DEF Pcs
    <3>3. r \in Call
      BY <3>1, <3>2 DEF Call
    <3>4. deq' = [deq EXCEPT ![c] = r]
      BY <1>0, <2>1, <3>1
    <3> QED BY <1>0, <3>1, <3>3, <3>4, StepOf
  <2>3. /\ deq'[c].pc = "claim" /\ deq'[c].left = n /\ deq'[c].since = deq[c].since
        /\ deq'[c].overcommit = deq[c].overcommit
    BY <1>0, <2>2 DEF Call
  <2>4. DequeueFits(a, c)'
    BY <1>0, <1>1, <2>3
       DEF DequeueFits, SinceFits, TailFits, OvercommitFits, TicketFits, LeftFits
  <2>5. Unclaimed(deq[c]) /\ Unclaimed(deq'[c])
    BY <1>0, <2>3 DEF Unclaimed, Quiet
  <2> QED BY <1>1, <2>2, <2>4, <2>5, UnclaimedFits
<1> QED BY <1>2, <1>3

LEMMA ClaimFits ==
  ASSUME NEW a \in Unwrappings, CountersFit(a), NEW c \in Dequeuers, Claim(c)
  PROVE  \E b \in Unwrappings : b.T = a.T /\ b.H = a.H /\ CountersFit(b)'
<1>0. /\ a.T \in Nat /\ a.H \in Nat /\ a.C \in Nat /\ a.O \in Nat
      /\ a.tick \in [Dequeuers -> Nat] /\ a.late \in SUBSET Dequeuers
      /\ \A d \in Dequeuers : a.since[d] \in Nat /\ a.ovc[d] \in Nat /\ a.tick[d] \in Nat
  BY UnwrappingType
<1>1. /\ deq \in [Dequeuers -> Call] /\ deq[c].pc = "claim"
      /\ deq[c].left \in 1 .. MaxBulk
      /\ \A d \in Dequeuers : DequeueFits(a, d) /\ LeftFits(d)
  <2>1. deq \in [Dequeuers -> Call] /\ deq[c].pc = "claim"
        /\ \A d \in Dequeuers : DequeueFits(a, d) /\ LeftFits(d)
    BY DEF CountersFit, Claim, DequeueFits
  <2>2. deq[c].left \in Nat /\ deq[c].left <= MaxBulk
    BY <2>1, CallType
  <2> QED BY <2>1, <2>2, Bounds DEF LeftFits
<1> DEFINE left == deq[c].left
<1>2. PICK b \in Unwrappings :
         /\ b.T = a.T /\ b.H = a.H /\ b.C = a.C + left /\ b.O = a.O
         /\ b.ovc = a.ovc /\ b.since = a.since /\ b.late = a.late
         /\ b.tick = [a.tick EXCEPT ![c] = a.C]
  <2>1. left \in Nat
    BY <1>1, Bounds
  <2> HIDE DEF left
  <2>2. PICK tick \in [Dequeuers -> Nat] : tick = [a.tick EXCEPT ![c] = a.C]
    BY <1>0
  <2>3. PICK C \in Nat : C = a.C + left
    BY <1>0, <2>1
  <2>4. [a EXCEPT !.tick = tick, !.C = C] \in Unwrappings
    BY DEF Unwrappings
  <2> QED BY <2>2, <2>3, <2>4 DEF Unwrappings
<1>3. b.tick[c] = a.C /\ \A d \in Dequeuers \ {c} : b.tick[d] = a.tick[d]
  BY <1>0, <1>2
<1>4. /\ dequeueOptimisticCount \in Int /\ dequeueOptimisticCount = a.C % IndexT
      /\ dequeueOptimisticCount' = (a.C + left) % IndexT
  <2>1. dequeueOptimisticCount = a.C % IndexT
    BY DEF CountersFit, CountersUnwrap
  <2>2. a.C \in Int /\ left \in Int
    BY <1>0, <1>1, Bounds
  <2>3. dequeueOptimisticCount' = Plus(dequeueOptimisticCount, left)
    BY DEF Claim
  <2> HIDE DEF left
  <2>4. Plus(a.C % IndexT, left) = (a.C + left) % IndexT
    BY <2>2, PlusOf
  <2> QED BY <2>1, <2>2, <2>3, <2>4, IndexType DEF Indices
<1>5. /\ deq'[c] = [deq[c] EXCEPT !.pc = "recheck", !.count = dequeueOptimisticCount]
      /\ \A d \in Dequeuers \ {c} : deq'[d] = deq[d]
      /\ deq' \in [Dequeuers -> Call]
  <2>1. PICK r : r = [deq[c] EXCEPT !.pc = "recheck", !.count = dequeueOptimisticCount]
    OBVIOUS
  <2>2. deq[c] \in Call /\ "recheck" \in Pcs
    BY <1>1 DEF Pcs
  <2>3. r \in Call
    BY <1>4, <2>1, <2>2 DEF Call
  <2>4. deq' = [deq EXCEPT ![c] = r]
    BY <1>1, <2>1 DEF Claim
  <2> QED BY <1>1, <2>1, <2>3, <2>4, StepOf
<1>6. /\ deq'[c].pc = "recheck" /\ deq'[c].count = dequeueOptimisticCount
      /\ deq'[c].left = left /\ deq'[c].since = deq[c].since
      /\ deq'[c].overcommit = deq[c].overcommit
  BY <1>1, <1>5 DEF Call
<1>7. /\ UNCHANGED <<tailIndex, headIndex, dequeueOvercommit, enq>> /\ Stall' = Stall
  BY DEF Claim, Stall, IsEnqueueing
<1>8. CountersUnwrap(b)'
  BY <1>0, <1>2, <1>4, <1>7 DEF CountersFit, CountersUnwrap
<1>9. Lefts \in Counts /\ AllClaimed \in Counts /\ AllGranted \in Counts
  BY <1>1, CountsOf
<1>10. Rechecking' = Rechecking \union {c} /\ c \notin Rechecking
  <2>1. c \notin Rechecking /\ c \in Rechecking'
    BY <1>1, <1>6 DEF Rechecking
  <2>2. \A d \in Dequeuers \ {c} : d \in Rechecking' <=> d \in Rechecking
    BY <1>5 DEF Rechecking
  <2>3. Rechecking' \subseteq Dequeuers /\ Rechecking \subseteq Dequeuers
    BY DEF Rechecking
  <2> QED BY <2>1, <2>2, <2>3
<1>11. ASSUME NEW e \in Rechecking
       PROVE  e # c /\ e \in Dequeuers /\ deq'[e] = deq[e] /\ a.tick[e] + deq[e].left <= a.C
              /\ deq[e].left > 0 /\ deq[e].left \in Nat /\ a.tick[e] < a.C
  <2>1. e # c /\ e \in Dequeuers /\ deq[e].pc = "recheck"
    BY <1>1 DEF Rechecking
  <2>2. deq[e].left \in Nat
    BY <1>1, <2>1, CallType
  <2> QED BY <1>0, <1>1, <1>5, <2>1, <2>2 DEF DequeueFits, TicketFits, LeftFits
<1>12. /\ Total(AllClaimed, Dequeuers) \in Nat
       /\ Total(AllClaimed, Dequeuers) <= Cardinality(Dequeuers) * MaxBulk
       /\ Total(AllGranted, Dequeuers) \in Nat
       /\ \A cs \in SUBSET Dequeuers : Total(Lefts, cs) \in Nat
  BY <1>9, UnitsFinite
<1>13. /\ a.C = a.O + a.H + Total(AllClaimed, Dequeuers)
       /\ a.ovc[c] <= a.O /\ a.O <= a.ovc[c] + MaxStall
       /\ a.since[c] <= a.T /\ a.T <= a.since[c] + Stall
       /\ a.H <= a.T /\ a.T - a.H < Half
  BY <1>1 DEF CountersFit, Balanced, CountersUnwrap, DequeueFits, OvercommitFits, SinceFits
<1>14. DequeueFits(b, c)'
  <2>1. TicketFits(b, c)'
    <3>1. a.since[c] - (a.C - a.ovc[c]) < Half
      BY <1>0, <1>12, <1>13, Widths, Bounds
    <3>2. (a.C - a.ovc[c]) - a.T <= Half
      <4>1. Cardinality(Dequeuers) * MaxBulk \in Int
        BY Bounds, QueueAssumption, FS_CardinalityType
      <4> QED BY <4>1, <1>0, <1>12, <1>13, Widths, Bounds
    <3> QED BY <1>2, <1>3, <1>4, <1>6, <3>1, <3>2, <1>0, <1>1 DEF TicketFits
  <2>2. SinceFits(b, c)' /\ TailFits(b, c)' /\ OvercommitFits(b, c)'
    BY <1>0, <1>1, <1>2, <1>6, <1>7 DEF DequeueFits, SinceFits, TailFits, OvercommitFits
  <2>3. LeftFits(c)'
    BY <1>1, <1>6 DEF LeftFits
  <2> QED BY <2>1, <2>2, <2>3 DEF DequeueFits
<1>15. ASSUME NEW d \in Dequeuers PROVE DequeueFits(b, d)'
  <2>1. CASE d = c
    BY <1>14, <2>1
  <2>2. CASE d # c
    <3>1. DequeueFits(a, d) /\ deq'[d] = deq[d]
      BY <1>1, <1>5, <2>2
    <3>2. deq[d].pc \in {"overcommit", "count", "claim", "recheck"} => b.T <= a.since[d] + Stall'
      BY <1>2, <1>7, <3>1 DEF DequeueFits, SinceFits
    <3>3. deq[d].pc \in {"count", "claim"} => b.O <= a.ovc[d] + MaxStall
      BY <1>2, <3>1 DEF DequeueFits, OvercommitFits
    <3>4. a.C <= b.C /\ a.T <= b.T /\ a.O <= b.O
      BY <1>0, <1>1, <1>2
    <3>5. b.since[d] = a.since[d] /\ b.ovc[d] = a.ovc[d] /\ b.tick[d] = a.tick[d]
      BY <1>2, <1>3, <2>2
    <3> QED BY <1>1, <3>1, <3>2, <3>3, <3>4, <3>5, OtherFits
  <2> QED BY <2>1, <2>2
<1>16. TicketsApart(b)'
  <2>1. ASSUME NEW d \in Rechecking', NEW e \in Rechecking', d # e
        PROVE  \/ b.tick[d] + deq'[d].left <= b.tick[e]
               \/ b.tick[e] + deq'[e].left <= b.tick[d]
    <3>1. CASE d = c
      BY <1>3, <1>10, <1>11, <2>1, <3>1
    <3>2. CASE e = c
      BY <1>3, <1>10, <1>11, <2>1, <3>2
    <3>3. CASE d # c /\ e # c
      <4>1. d \in Rechecking /\ e \in Rechecking
        BY <1>10, <3>3
      <4> QED BY <1>3, <1>11, <2>1, <3>3, <4>1 DEF CountersFit, TicketsApart
    <3> QED BY <3>1, <3>2, <3>3
  <2> QED BY <2>1 DEF TicketsApart
<1>17. /\ Claimed(c) = 0 /\ Claimed(c)' = left /\ Granted(c) = 0 /\ Granted(c)' = 0
  BY <1>1, <1>6 DEF Claimed, Granted
<1>18. /\ Total(AllClaimed, Dequeuers)' = Total(AllClaimed, Dequeuers) + left
       /\ Total(AllGranted, Dequeuers)' = Total(AllGranted, Dequeuers)
       /\ \A cs \in SUBSET Dequeuers : c \notin cs => Total(Lefts, cs)' = Total(Lefts, cs)
  <2>1. \A d \in Dequeuers : LeftFits(d)'
    BY <1>15 DEF DequeueFits
  <2>2. left \in Nat
    BY <1>1, Bounds
  <2> QED BY <1>1, <1>5, <1>12, <1>17, <2>1, <2>2, SumsOfStep
<1>19. Balanced(b)'
  BY <1>0, <1>1, <1>2, <1>12, <1>13, <1>18, Bounds DEF Balanced
<1>20. GrantsFit(b)'
  <2>1. c \notin a.late
    BY <1>10 DEF CountersFit, GrantsFit
  <2> QED BY <2>1, <1>0, <1>2, <1>10, <1>18 DEF CountersFit, GrantsFit
<1>21. OthersFit(b)'
  <2>1. Earlier(b, c)' = Rechecking
    BY <1>3, <1>10, <1>11, <1>0 DEF Earlier
  <2>2. ASSUME NEW d \in Rechecking
        PROVE  Earlier(b, d)' = Earlier(a, d) /\ Earlier(a, d) \in SUBSET Dequeuers /\ c \notin Earlier(a, d)
    <3>1. ~(a.C < a.tick[d]) /\ d # c /\ d \in Dequeuers
      BY <1>0, <1>11
    <3>2. b.tick[d] = a.tick[d] /\ b.tick[c] = a.C
      BY <1>3, <3>1
    <3>3. \A e \in Rechecking : b.tick[e] = a.tick[e]
      BY <1>3, <1>11
    <3> QED BY <1>10, <3>1, <3>2, <3>3 DEF Earlier, Rechecking
  <2>3. Rechecking \in SUBSET Dequeuers /\ c \notin Rechecking /\ a.late \subseteq Rechecking
    BY <1>10 DEF Rechecking, CountersFit, GrantsFit
  <2>4. Total(AllGranted, Dequeuers) + Total(Lefts, Rechecking) <= Total(AllClaimed, Dequeuers)
    <3>1. \A d \in Dequeuers : AllGranted[d] <= AllClaimed[d]
      <4>1. ASSUME NEW d \in Dequeuers PROVE Granted(d) <= Claimed(d)
        <5>1. deq[d].left \in Nat /\ LeftFits(d)
          BY <1>1, CallType
        <5> QED BY <5>1, Bounds DEF Granted, Claimed, LeftFits
      <4> QED BY <4>1 DEF AllGranted, AllClaimed
    <3>2. \A d \in Rechecking : AllGranted[d] = 0 /\ Lefts[d] <= AllClaimed[d]
      <4>1. ASSUME NEW d \in Rechecking PROVE AllGranted[d] = 0 /\ Lefts[d] <= AllClaimed[d]
        <5>1. d \in Dequeuers /\ deq[d].pc = "recheck" /\ deq[d].left \in Nat
          BY <1>11 DEF Rechecking
        <5> QED BY <5>1 DEF Granted, Claimed, AllGranted, AllClaimed, Lefts
      <4> QED BY <4>1
    <3> QED BY <1>9, <2>3, <3>1, <3>2, TotalOfParts
  <2>5. a.H + Total(AllGranted, Dequeuers) + Total(Lefts, Rechecking) <= a.C - a.ovc[c]
    BY <1>0, <1>12, <1>13, <2>3, <2>4
  <2>6. ASSUME NEW d \in (Rechecking \ a.late)'
        PROVE  /\ b.late \subseteq Earlier(b, d)'
               /\ b.H + Total(AllGranted, Dequeuers)' + Total(Lefts, Earlier(b, d))'
                    <= b.tick[d] - b.ovc[d]
    <3>1. CASE d = c
      BY <1>2, <1>3, <1>18, <2>1, <2>3, <2>5, <3>1
    <3>2. CASE d # c
      <4>1. d \in Rechecking \ a.late /\ d \in Dequeuers
        BY <1>10, <3>2, <1>11
      <4>2. /\ a.late \subseteq Earlier(a, d)
            /\ a.H + Total(AllGranted, Dequeuers) + Total(Lefts, Earlier(a, d))
                 <= a.tick[d] - a.ovc[d]
        BY <4>1 DEF CountersFit, OthersFit
      <4>3. Total(Lefts, Earlier(b, d))' = Total(Lefts', Earlier(a, d))
        BY <2>2, <4>1 DEF Total
      <4>4. Total(Lefts', Earlier(a, d)) = Total(Lefts, Earlier(a, d))
        <5>1. Total(Lefts, Earlier(a, d)) \in Nat
          BY <1>12, <2>2, <4>1
        <5>2. PICK cs \in SUBSET Dequeuers : cs = Earlier(a, d) /\ c \notin cs
          BY <2>2, <4>1
        <5>3. Total(Lefts, cs)' = Total(Lefts, cs)
          BY <1>18, <5>2
        <5> QED BY <5>2, <5>3 DEF Total
      <4>5. b.late = a.late /\ b.H = a.H /\ b.tick[d] = a.tick[d] /\ b.ovc[d] = a.ovc[d]
        BY <1>2, <1>3, <3>2, <4>1
      <4>6. Total(AllGranted, Dequeuers)' = Total(AllGranted, Dequeuers)
        BY <1>18
      <4> QED BY <2>2, <4>1, <4>2, <4>3, <4>4, <4>5, <4>6
    <3> QED BY <3>1, <3>2
  <2> QED BY <2>6, <1>2 DEF OthersFit
<1> QED BY <1>2, <1>5, <1>8, <1>15, <1>16, <1>19, <1>20, <1>21 DEF CountersFit

(* The steps after it: c is not the last to have looked again, if it looks *)
(* again, and the others stay as they are.                                 *)
LEMMA OthersStay ==
  ASSUME NEW a \in Unwrappings, CountersFit(a), NEW b \in Unwrappings, NEW c \in Dequeuers,
         deq' \in [Dequeuers -> Call], \A d \in Dequeuers \ {c} : deq'[d] = deq[d],
         b.T = a.T, b.C = a.C, a.O <= b.O,
         b.since = a.since, b.ovc = a.ovc, b.tick = a.tick, Stall' = Stall,
         \A d \in Dequeuers : deq[d].pc \in {"count", "claim"} => b.O <= a.ovc[d] + MaxStall,
         deq'[c].pc # "recheck", DequeueFits(b, c)'
  PROVE  /\ \A d \in Dequeuers : DequeueFits(b, d)'
         /\ Rechecking' = Rechecking \ {c}
         /\ TicketsApart(b)'
         /\ \A d \in Rechecking \ {c} :
              /\ Earlier(b, d)' = Earlier(a, d) \ {c}
              /\ Earlier(a, d) \in SUBSET Dequeuers
<1>0. /\ a.T \in Nat /\ a.C \in Nat /\ a.O \in Nat /\ b.O \in Nat
      /\ deq \in [Dequeuers -> Call] /\ \A d \in Dequeuers : DequeueFits(a, d)
  BY UnwrappingType DEF CountersFit
<1>1. ASSUME NEW d \in Dequeuers PROVE DequeueFits(b, d)'
  <2>1. CASE d = c
    BY <2>1
  <2>2. CASE d # c
    <3>1. deq[d].pc \in {"overcommit", "count", "claim", "recheck"} => b.T <= a.since[d] + Stall'
      BY <1>0 DEF DequeueFits, SinceFits
    <3> QED BY <1>0, <2>2, <3>1, OtherFits
  <2> QED BY <2>1, <2>2
<1>2. Rechecking' = Rechecking \ {c}
  <2>1. c \notin Rechecking'
    BY DEF Rechecking
  <2>2. \A d \in Dequeuers \ {c} : d \in Rechecking' <=> d \in Rechecking
    BY DEF Rechecking
  <2>3. Rechecking' \subseteq Dequeuers /\ Rechecking \subseteq Dequeuers
    BY DEF Rechecking
  <2> QED BY <2>1, <2>2, <2>3
<1>3. TicketsApart(b)'
  <2>1. \A e \in Rechecking' : e \in Rechecking /\ deq'[e].left = deq[e].left
    BY <1>2 DEF Rechecking
  <2> QED BY <2>1 DEF CountersFit, TicketsApart
<1>4. ASSUME NEW d \in Rechecking \ {c}
      PROVE  Earlier(b, d)' = Earlier(a, d) \ {c} /\ Earlier(a, d) \in SUBSET Dequeuers
  BY <1>2 DEF Earlier, Rechecking
<1> QED BY <1>1, <1>2, <1>3, <1>4

LEMMA AdvanceHeadFits ==
  ASSUME NEW a \in Unwrappings, CountersFit(a), NEW c \in Dequeuers, AdvanceHead(c)
  PROVE  /\ a.H + deq[c].left <= a.T
         /\ \E b \in Unwrappings : b.T = a.T /\ b.H = a.H + deq[c].left /\ CountersFit(b)'
<1>0. /\ a.T \in Nat /\ a.H \in Nat /\ a.C \in Nat /\ a.O \in Nat
      /\ a.late \in SUBSET Dequeuers
      /\ \A d \in Dequeuers : a.since[d] \in Nat /\ a.ovc[d] \in Nat /\ a.tick[d] \in Nat
  BY UnwrappingType
<1>1. /\ deq \in [Dequeuers -> Call] /\ deq[c].pc = "head"
      /\ deq[c].left \in 1 .. MaxBulk
      /\ \A d \in Dequeuers : DequeueFits(a, d) /\ LeftFits(d)
  <2>1. deq \in [Dequeuers -> Call] /\ deq[c].pc = "head"
        /\ \A d \in Dequeuers : DequeueFits(a, d) /\ LeftFits(d)
    BY DEF CountersFit, AdvanceHead, DequeueFits
  <2>2. deq[c].left \in Nat /\ deq[c].left <= MaxBulk
    BY <2>1, CallType
  <2> QED BY <2>1, <2>2, Bounds DEF LeftFits
<1> DEFINE left == deq[c].left
<1>2. left \in Nat
  BY <1>1, Bounds
<1>3. /\ headIndex \in Int /\ headIndex = a.H % IndexT
      /\ headIndex' = (a.H + left) % IndexT
  <2>1. headIndex = a.H % IndexT
    BY DEF CountersFit, CountersUnwrap
  <2>2. a.H \in Int /\ left \in Int
    BY <1>0, <1>2
  <2>3. headIndex' = Plus(headIndex, left)
    BY DEF AdvanceHead
  <2> HIDE DEF left
  <2>4. Plus(a.H % IndexT, left) = (a.H + left) % IndexT
    BY <2>2, PlusOf
  <2> QED BY <2>1, <2>2, <2>3, <2>4, IndexType DEF Indices
<1>4. PICK b \in Unwrappings :
         /\ b.T = a.T /\ b.H = a.H + left /\ b.C = a.C /\ b.O = a.O
         /\ b.ovc = a.ovc /\ b.since = a.since /\ b.late = a.late /\ b.tick = a.tick
  <2>1. PICK H \in Nat : H = a.H + left
    BY <1>0, <1>2
  <2>2. [a EXCEPT !.H = H] \in Unwrappings
    BY DEF Unwrappings
  <2> QED BY <2>1, <2>2 DEF Unwrappings
<1>5. /\ deq'[c] = [deq[c] EXCEPT !.pc = "index", !.index = headIndex]
      /\ \A d \in Dequeuers \ {c} : deq'[d] = deq[d]
      /\ deq' \in [Dequeuers -> Call]
  <2>1. PICK r : r = [deq[c] EXCEPT !.pc = "index", !.index = headIndex]
    OBVIOUS
  <2>2. deq[c] \in Call /\ "index" \in Pcs
    BY <1>1 DEF Pcs
  <2>3. r \in Call
    BY <1>3, <2>1, <2>2 DEF Call
  <2>4. deq' = [deq EXCEPT ![c] = r]
    BY <1>1, <2>1 DEF AdvanceHead
  <2> QED BY <1>1, <2>1, <2>3, <2>4, StepOf
<1>6. deq'[c].pc = "index"
  BY <1>1, <1>5 DEF Call
<1>7. /\ UNCHANGED <<tailIndex, dequeueOptimisticCount, dequeueOvercommit, enq>>
      /\ Stall' = Stall
  BY DEF AdvanceHead, Stall, IsEnqueueing
<1>8. DequeueFits(b, c)'
  BY <1>6 DEF DequeueFits, SinceFits, TailFits, OvercommitFits, TicketFits, LeftFits
<1>9. /\ \A d \in Dequeuers : DequeueFits(b, d)'
      /\ Rechecking' = Rechecking \ {c} /\ TicketsApart(b)'
      /\ \A d \in Rechecking \ {c} :
              /\ Earlier(b, d)' = Earlier(a, d) \ {c}
              /\ Earlier(a, d) \in SUBSET Dequeuers
  <2>1. \A d \in Dequeuers : deq[d].pc \in {"count", "claim"} => b.O <= a.ovc[d] + MaxStall
    BY <1>1, <1>4 DEF DequeueFits, OvercommitFits
  <2>2. deq'[c].pc # "recheck" /\ a.O <= b.O
    BY <1>0, <1>4, <1>6
  <2> HIDE DEF left
  <2> QED BY <1>4, <1>5, <1>7, <1>8, <2>1, <2>2, OthersStay
<1>10. c \notin Rechecking
  BY <1>1 DEF Rechecking
<1>11. /\ Claimed(c) = left /\ Claimed(c)' = 0 /\ Granted(c) = left /\ Granted(c)' = 0
  BY <1>1, <1>6 DEF Claimed, Granted
<1>12. /\ Total(AllClaimed, Dequeuers)' = Total(AllClaimed, Dequeuers) - left
       /\ Total(AllGranted, Dequeuers)' = Total(AllGranted, Dequeuers) - left
       /\ \A cs \in SUBSET Dequeuers : c \notin cs => Total(Lefts, cs)' = Total(Lefts, cs)
       /\ Total(AllClaimed, Dequeuers) \in Nat
       /\ Total(AllGranted, Dequeuers) \in Nat
       /\ \A cs \in SUBSET Dequeuers : Total(Lefts, cs) \in Nat
  <2>1. \A d \in Dequeuers : LeftFits(d)'
    BY <1>9 DEF DequeueFits
  <2>2. /\ Total(AllClaimed, Dequeuers) \in Nat /\ Total(AllGranted, Dequeuers) \in Nat
        /\ \A cs \in SUBSET Dequeuers : Total(Lefts, cs) \in Nat
        /\ Total(AllClaimed, Dequeuers)' =
              Total(AllClaimed, Dequeuers) - Claimed(c) + Claimed(c)'
        /\ Total(AllGranted, Dequeuers)' =
              Total(AllGranted, Dequeuers) - Granted(c) + Granted(c)'
        /\ \A cs \in SUBSET Dequeuers : c \notin cs => Total(Lefts, cs)' = Total(Lefts, cs)
    BY <1>1, <1>5, <2>1, SumsOfStep
  <2> HIDE DEF left
  <2> QED BY <1>2, <1>11, <2>2
<1>13. left <= Total(AllGranted, Dequeuers)
  <2>1. \A d \in Dequeuers : LeftFits(d)'
    BY <1>9 DEF DequeueFits
  <2>2. AllGranted' \in Counts /\ Dequeuers \in SUBSET Dequeuers
    BY <1>5, <2>1, CountsOfNext
  <2>3. Total(AllGranted', Dequeuers) \in Nat
    BY <2>2, UnitsFinite
  <2>4. Total(AllGranted, Dequeuers)' \in Nat
    BY <2>3 DEF Total
  <2> HIDE DEF left
  <2> QED BY <1>2, <1>12, <2>4
<1>14. /\ a.late \subseteq Rechecking
       /\ a.H + Total(AllGranted, Dequeuers) + Total(Lefts, a.late) <= a.T
       /\ Total(Lefts, a.late) \in Nat
  BY <1>0, <1>12 DEF CountersFit, GrantsFit
<1>15. a.H + left <= a.T
  <2> HIDE DEF left
  <2> QED BY <1>0, <1>2, <1>12, <1>13, <1>14
<1>16. CountersUnwrap(b)'
  <2> HIDE DEF left
  <2> QED BY <1>0, <1>2, <1>3, <1>4, <1>7, <1>15, Widths DEF CountersFit, CountersUnwrap
<1>17. Balanced(b)'
  <2> HIDE DEF left
  <2> QED BY <1>0, <1>2, <1>4, <1>12 DEF Balanced, CountersFit
<1>18. GrantsFit(b)'
  <2> HIDE DEF left
  <2>1. c \notin a.late /\ a.late \in SUBSET Dequeuers
    BY <1>0, <1>10, <1>14
  <2>2. Total(Lefts, a.late)' = Total(Lefts, a.late)
    BY <2>1, <1>12
  <2>3. a.H + left + (Total(AllGranted, Dequeuers) - left) + Total(Lefts, a.late) <= a.T
    BY <1>0, <1>2, <1>12, <1>14
  <2> QED BY <2>2, <2>3, <1>4, <1>9, <1>10, <1>12, <1>14 DEF GrantsFit
<1>19. OthersFit(b)'
  <2> HIDE DEF left
  <2>1. ASSUME NEW d \in (Rechecking \ a.late)'
        PROVE  /\ b.late \subseteq Earlier(b, d)'
               /\ b.H + Total(AllGranted, Dequeuers)' + Total(Lefts, Earlier(b, d))'
                    <= b.tick[d] - b.ovc[d]
    <3>1. d \in Rechecking \ a.late /\ d # c /\ d \in Dequeuers
      BY <1>9, <1>10 DEF Rechecking
    <3>2. PICK cs \in SUBSET Dequeuers : cs = Earlier(a, d) /\ c \notin cs
      BY <1>9, <1>10, <3>1 DEF Earlier
    <3>3. Earlier(b, d)' = cs
      BY <1>9, <3>1, <3>2
    <3>4. Total(Lefts, Earlier(b, d))' = Total(Lefts, cs)' /\ Total(Lefts, cs)' = Total(Lefts, cs)
      BY <3>2, <3>3, <1>12 DEF Total
    <3>5. /\ a.late \subseteq cs
          /\ a.H + Total(AllGranted, Dequeuers) + Total(Lefts, cs) <= a.tick[d] - a.ovc[d]
          /\ Total(Lefts, cs) \in Nat
      BY <3>1, <3>2, <1>12 DEF CountersFit, OthersFit
    <3>6. a.H + left + (Total(AllGranted, Dequeuers) - left) + Total(Lefts, cs)
            <= a.tick[d] - a.ovc[d]
      BY <1>0, <1>2, <1>12, <3>1, <3>5
    <3> QED BY <3>3, <3>4, <3>5, <3>6, <1>4, <1>12
  <2> QED BY <2>1, <1>4 DEF OthersFit
<1> QED BY <1>4, <1>5, <1>9, <1>15, <1>16, <1>17, <1>18, <1>19 DEF CountersFit

LEMMA TakeBackFits ==
  ASSUME NEW a \in Unwrappings, CountersFit(a), NEW c \in Dequeuers, TakeBack(c)
  PROVE  \E b \in Unwrappings : b.T = a.T /\ b.H = a.H /\ CountersFit(b)'
<1>0. /\ a.T \in Nat /\ a.H \in Nat /\ a.C \in Nat /\ a.O \in Nat
      /\ a.late \in SUBSET Dequeuers
      /\ \A d \in Dequeuers : a.since[d] \in Nat /\ a.ovc[d] \in Nat /\ a.tick[d] \in Nat
  BY UnwrappingType
<1>1. /\ deq \in [Dequeuers -> Call] /\ deq[c].pc = "takeback"
      /\ deq[c].left \in Nat /\ deq[c].left <= MaxBulk
      /\ deq[c].count \in Nat /\ deq[c].count + deq[c].left <= MaxBulk
      /\ deq[c].count <= MaxBulk
      /\ \A d \in Dequeuers : DequeueFits(a, d) /\ LeftFits(d)
  <2>1. deq \in [Dequeuers -> Call] /\ deq[c].pc = "takeback"
        /\ \A d \in Dequeuers : DequeueFits(a, d) /\ LeftFits(d)
    BY DEF CountersFit, TakeBack, DequeueFits
  <2>2. deq[c].left \in Nat /\ deq[c].left <= MaxBulk
    BY <2>1, CallType
  <2> QED BY <2>1, <2>2, Bounds DEF LeftFits
<1> DEFINE n == deq[c].count
<1>3. /\ dequeueOvercommit = a.O % IndexT
      /\ dequeueOvercommit' = (a.O + n) % IndexT
  <2>1. dequeueOvercommit = a.O % IndexT
    BY DEF CountersFit, CountersUnwrap
  <2>2. a.O \in Int /\ n \in Int
    BY <1>0, <1>1
  <2>3. dequeueOvercommit' = Plus(dequeueOvercommit, n)
    BY DEF TakeBack
  <2> HIDE DEF n
  <2>4. Plus(a.O % IndexT, n) = (a.O + n) % IndexT
    BY <2>2, PlusOf
  <2> QED BY <2>1, <2>2, <2>3, <2>4
<1>4. PICK b \in Unwrappings :
         /\ b.T = a.T /\ b.H = a.H /\ b.C = a.C /\ b.O = a.O + n
         /\ b.ovc = a.ovc /\ b.since = a.since /\ b.late = a.late /\ b.tick = a.tick
  <2>1. PICK O \in Nat : O = a.O + n
    BY <1>0, <1>1
  <2>2. [a EXCEPT !.O = O] \in Unwrappings
    BY DEF Unwrappings
  <2> QED BY <2>1, <2>2 DEF Unwrappings
<1>5. PICK r \in Call : /\ deq' = [deq EXCEPT ![c] = r]
                        /\ \/ deq[c].left = 0 /\ r.pc = "idle"
                           \/ r.pc = "head" /\ r.left = deq[c].left /\ deq[c].left > 0
  <2>1. CASE deq[c].left = 0 /\ Return(c)
    BY <2>1, IdleType DEF Return, Idle
  <2>2. CASE deq[c].left # 0 /\ deq' = [deq EXCEPT ![c].pc = "head", ![c].count = 0]
    <3>1. PICK r : r = [deq[c] EXCEPT !.pc = "head", !.count = 0]
      OBVIOUS
    <3>2. deq[c] \in Call /\ "head" \in Pcs /\ 0 \in Int
      BY <1>1 DEF Pcs
    <3>3. r \in Call
      BY <3>1, <3>2 DEF Call
    <3>4. deq' = [deq EXCEPT ![c] = r]
      BY <2>2, <3>1
    <3>5. r.pc = "head" /\ r.left = deq[c].left
      BY <3>1, <3>2 DEF Call
    <3>6. deq[c].left > 0
      BY <1>1, <2>2
    <3> QED BY <3>3, <3>4, <3>5, <3>6
  <2> QED BY <2>1, <2>2 DEF TakeBack, ToHeadOrReturn
<1>6. /\ deq'[c] = r /\ \A d \in Dequeuers \ {c} : deq'[d] = deq[d]
      /\ deq' \in [Dequeuers -> Call]
  BY <1>1, <1>5, StepOf
<1>7. /\ UNCHANGED <<tailIndex, headIndex, dequeueOptimisticCount, enq>>
      /\ Stall' = Stall
  BY DEF TakeBack, Stall, IsEnqueueing
<1>8. DequeueFits(b, c)'
  BY <1>5, <1>6
     DEF DequeueFits, SinceFits, TailFits, OvercommitFits, TicketFits, LeftFits
<1>9. /\ \A d \in Dequeuers : DequeueFits(b, d)'
      /\ Rechecking' = Rechecking \ {c} /\ TicketsApart(b)'
      /\ \A d \in Rechecking \ {c} :
              /\ Earlier(b, d)' = Earlier(a, d) \ {c}
              /\ Earlier(a, d) \in SUBSET Dequeuers
  <2>1. ASSUME NEW d \in Dequeuers, deq[d].pc \in {"count", "claim"}
        PROVE  b.O <= a.ovc[d] + MaxStall
    <3>1. /\ deq[d].overcommit = a.ovc[d] % IndexT /\ a.ovc[d] <= a.O
          /\ a.O <= a.ovc[d] + MaxStall
      BY <1>1, <2>1 DEF DequeueFits, OvercommitFits
    <3>2. Minus(dequeueOvercommit, deq[d].overcommit) = (a.O - a.ovc[d]) % IndexT
      <4>1. a.O \in Int /\ a.ovc[d] \in Int
        BY <1>0
      <4> QED BY <4>1, <3>1, <1>3, MinusOf
    <3>3. (a.O - a.ovc[d]) % IndexT = a.O - a.ovc[d]
      <4>1. a.O - a.ovc[d] \in 0 .. IndexT - 1
        BY <1>0, <3>1, Bounds, Widths
      <4> QED BY <4>1, Unwrapped
    <3>4. Minus(dequeueOvercommit, deq[d].overcommit) + n <= MaxStall
      <4>1. d \in Claiming
        BY <2>1 DEF Claiming, Busy
      <4> QED BY <2>1, <4>1 DEF TakeBack, MayTakeBack
    <3>5. n \in Nat
      BY <1>1
    <3> HIDE DEF n
    <3> QED BY <1>0, <1>4, <3>1, <3>2, <3>3, <3>4, <3>5, Bounds
  <2>2. deq'[c].pc # "recheck" /\ a.O <= b.O
    BY <1>0, <1>1, <1>4, <1>5, <1>6
  <2> HIDE DEF n
  <2> QED BY <1>4, <1>6, <1>7, <1>8, <2>1, <2>2, OthersStay
<1>10. c \notin Rechecking
  BY <1>1 DEF Rechecking
<1>11. /\ Claimed(c) = deq[c].left + n /\ Claimed(c)' = deq[c].left
       /\ Granted(c) = deq[c].left /\ Granted(c)' = deq[c].left
  BY <1>1, <1>5, <1>6 DEF Claimed, Granted
<1>12. /\ Total(AllClaimed, Dequeuers)' = Total(AllClaimed, Dequeuers) - n
       /\ Total(AllGranted, Dequeuers)' = Total(AllGranted, Dequeuers)
       /\ \A cs \in SUBSET Dequeuers : c \notin cs => Total(Lefts, cs)' = Total(Lefts, cs)
       /\ Total(AllClaimed, Dequeuers) \in Nat
       /\ Total(AllGranted, Dequeuers) \in Nat
       /\ \A cs \in SUBSET Dequeuers : Total(Lefts, cs) \in Nat
  <2>1. \A d \in Dequeuers : LeftFits(d)'
    BY <1>9 DEF DequeueFits
  <2>2. /\ Total(AllClaimed, Dequeuers) \in Nat /\ Total(AllGranted, Dequeuers) \in Nat
        /\ \A cs \in SUBSET Dequeuers : Total(Lefts, cs) \in Nat
        /\ Total(AllClaimed, Dequeuers)' =
              Total(AllClaimed, Dequeuers) - Claimed(c) + Claimed(c)'
        /\ Total(AllGranted, Dequeuers)' =
              Total(AllGranted, Dequeuers) - Granted(c) + Granted(c)'
        /\ \A cs \in SUBSET Dequeuers : c \notin cs => Total(Lefts, cs)' = Total(Lefts, cs)
    BY <1>1, <1>6, <2>1, SumsOfStep
  <2>3. n \in Nat
    BY <1>1
  <2> HIDE DEF n
  <2> QED BY <1>1, <1>11, <2>2, <2>3
<1>13. n \in Nat
  BY <1>1
<1> HIDE DEF n
<1>14. CountersUnwrap(b)'
  BY <1>3, <1>4, <1>7 DEF CountersFit, CountersUnwrap
<1>15. Balanced(b)'
  BY <1>0, <1>4, <1>7, <1>12, <1>13 DEF Balanced, CountersFit
<1>16. a.late \subseteq Rechecking \ {c}
  BY <1>10 DEF CountersFit, GrantsFit
<1>17. GrantsFit(b)'
  BY <1>0, <1>4, <1>9, <1>12, <1>16 DEF GrantsFit, CountersFit
<1>18. OthersFit(b)'
  <2>1. ASSUME NEW d \in (Rechecking \ a.late)'
        PROVE  /\ b.late \subseteq Earlier(b, d)'
               /\ b.H + Total(AllGranted, Dequeuers)' + Total(Lefts, Earlier(b, d))'
                    <= b.tick[d] - b.ovc[d]
    <3>1. d \in Rechecking \ a.late /\ d # c /\ d \in Dequeuers
      BY <1>9, <1>10 DEF Rechecking
    <3>2. PICK cs \in SUBSET Dequeuers : cs = Earlier(a, d) /\ c \notin cs
      BY <1>9, <1>10, <3>1 DEF Earlier
    <3>3. Earlier(b, d)' = cs
      BY <1>9, <3>1, <3>2
    <3>4. Total(Lefts, Earlier(b, d))' = Total(Lefts, cs)' /\ Total(Lefts, cs)' = Total(Lefts, cs)
      BY <3>2, <3>3, <1>12 DEF Total
    <3>5. /\ a.late \subseteq cs
          /\ a.H + Total(AllGranted, Dequeuers) + Total(Lefts, cs) <= a.tick[d] - a.ovc[d]
      BY <3>1, <3>2 DEF CountersFit, OthersFit
    <3> QED BY <3>3, <3>4, <3>5, <1>4, <1>12
  <2> QED BY <2>1, <1>4 DEF OthersFit
<1> QED BY <1>4, <1>6, <1>9, <1>14, <1>15, <1>17, <1>18 DEF CountersFit

LEMMA RecheckFits ==
  ASSUME NEW a \in Unwrappings, CountersFit(a), NEW c \in Dequeuers, Recheck(c)
  PROVE  \E b \in Unwrappings : b.T = a.T /\ b.H = a.H /\ CountersFit(b)'
<1>0. /\ a.T \in Nat /\ a.H \in Nat /\ a.C \in Nat /\ a.O \in Nat
      /\ a.late \in SUBSET Dequeuers
      /\ \A d \in Dequeuers : a.since[d] \in Nat /\ a.ovc[d] \in Nat /\ a.tick[d] \in Nat
  BY UnwrappingType
<1>1. /\ deq \in [Dequeuers -> Call] /\ deq[c].pc = "recheck"
      /\ deq[c].left \in 1 .. MaxBulk /\ deq[c].left \in Nat
      /\ \A d \in Dequeuers : DequeueFits(a, d) /\ LeftFits(d)
  <2>1. deq \in [Dequeuers -> Call] /\ deq[c].pc = "recheck"
        /\ \A d \in Dequeuers : DequeueFits(a, d) /\ LeftFits(d)
    BY DEF CountersFit, Recheck, DequeueFits
  <2>2. deq[c].left \in Nat /\ deq[c].left <= MaxBulk
    BY <2>1, CallType
  <2> QED BY <2>1, <2>2, Bounds DEF LeftFits
<1> DEFINE n == Available(tailIndex, Minus(deq[c].count, deq[c].overcommit), deq[c].left)
           r == [deq[c] EXCEPT !.pc = IF n < deq[c].left THEN "takeback" ELSE "head",
                        !.left = n, !.since = 0,
                        !.count = deq[c].left - n,
                        !.overcommit = 0]
<1>2. n \in 0 .. deq[c].left /\ (n > 0 => n <= a.T - (a.tick[c] - a.ovc[c]))
  <2>1. /\ deq[c].count = a.tick[c] % IndexT
        /\ a.since[c] - (a.tick[c] - a.ovc[c]) < Half
        /\ (a.tick[c] - a.ovc[c]) - a.T <= Half
        /\ deq[c].overcommit = a.ovc[c] % IndexT
        /\ a.T <= a.since[c] + Stall
        /\ tailIndex = a.T % IndexT
    BY <1>1 DEF DequeueFits, TicketFits, OvercommitFits, SinceFits, CountersFit, CountersUnwrap
  <2>2. PICK y \in Int : y = a.tick[c] - a.ovc[c]
    BY <1>0
  <2>3. Minus(deq[c].count, deq[c].overcommit) = y % IndexT
    <3>1. a.tick[c] \in Int /\ a.ovc[c] \in Int
      BY <1>0
    <3> QED BY <2>1, <2>2, <3>1, MinusOf
  <2>4. PICK x \in Int : x = a.T - y /\ x >= -Half /\ x < IndexT
    BY <1>0, <2>1, <2>2, Bounds, Widths
  <2>5. Minus(tailIndex, y % IndexT) = x % IndexT
    <3>1. a.T \in Int
      BY <1>0
    <3> QED BY <2>1, <2>4, <3>1, MinusOf
  <2>6. /\ Available(tailIndex, y % IndexT, deq[c].left) \in 0 .. deq[c].left
        /\ Available(tailIndex, y % IndexT, deq[c].left) > 0
             => Available(tailIndex, y % IndexT, deq[c].left) <= x
    BY <1>1, <2>4, <2>5, AvailableOf
  <2> QED BY <2>2, <2>3, <2>4, <2>6
<1>3. deq' = [deq EXCEPT ![c] = r]
  BY <1>1 DEF Recheck
<1>4. UNCHANGED <<counters, enq>> /\ Stall' = Stall
  BY DEF Recheck, Stall, IsEnqueueing
<1> HIDE DEF n
<1>5. /\ r \in Call
      /\ r.pc = IF n < deq[c].left THEN "takeback" ELSE "head"
      /\ r.left = n /\ r.count = deq[c].left - n
  <2>1. deq[c] \in Call /\ "takeback" \in Pcs /\ "head" \in Pcs /\ 0 \in Int
    BY <1>1 DEF Pcs
  <2>2. n \in 0 .. MaxBulk /\ deq[c].left - n \in Int
    BY <1>1, <1>2, Bounds
  <2> QED BY <2>1, <2>2 DEF Call
<1> HIDE DEF r
<1>6. /\ deq'[c] = r /\ \A d \in Dequeuers \ {c} : deq'[d] = deq[d]
      /\ deq' \in [Dequeuers -> Call]
  BY <1>1, <1>3, <1>5, StepOf
<1>7. PICK late \in SUBSET Dequeuers :
         late = IF n = 0 \/ c \in a.late THEN a.late \ {c} ELSE Earlier(a, c)
  BY <1>0 DEF Earlier, Rechecking
<1>8. PICK b \in Unwrappings :
         /\ b.T = a.T /\ b.H = a.H /\ b.C = a.C /\ b.O = a.O
         /\ b.ovc = a.ovc /\ b.since = a.since /\ b.late = late /\ b.tick = a.tick
  <2>1. [a EXCEPT !.late = late] \in Unwrappings
    BY <1>7 DEF Unwrappings
  <2> QED BY <2>1 DEF Unwrappings
<1>9. DequeueFits(b, c)'
  <2>1. deq[c].left - n > 0 \/ ~(n < deq[c].left)
    BY <1>1, <1>2
  <2> QED BY <1>1, <1>2, <1>5, <1>6, Bounds
     DEF DequeueFits, SinceFits, TailFits, OvercommitFits, TicketFits, LeftFits
<1>10. /\ \A d \in Dequeuers : DequeueFits(b, d)'
       /\ Rechecking' = Rechecking \ {c} /\ TicketsApart(b)'
       /\ \A d \in Rechecking \ {c} :
              /\ Earlier(b, d)' = Earlier(a, d) \ {c}
              /\ Earlier(a, d) \in SUBSET Dequeuers
  <2>1. \A d \in Dequeuers : deq[d].pc \in {"count", "claim"} => b.O <= a.ovc[d] + MaxStall
    BY <1>1, <1>8 DEF DequeueFits, OvercommitFits
  <2>2. deq'[c].pc # "recheck" /\ a.O <= b.O
    BY <1>0, <1>5, <1>6, <1>8
  <2> QED BY <1>4, <1>6, <1>8, <1>9, <2>1, <2>2, OthersStay
<1>11. c \in Rechecking
  BY <1>1 DEF Rechecking
<1>12. /\ Claimed(c) = deq[c].left /\ Claimed(c)' = deq[c].left
       /\ Granted(c) = 0 /\ Granted(c)' = n
  BY <1>1, <1>2, <1>5, <1>6 DEF Claimed, Granted
<1>13. /\ Total(AllClaimed, Dequeuers)' = Total(AllClaimed, Dequeuers)
       /\ Total(AllGranted, Dequeuers)' = Total(AllGranted, Dequeuers) + n
       /\ \A cs \in SUBSET Dequeuers : c \notin cs => Total(Lefts, cs)' = Total(Lefts, cs)
       /\ Total(AllClaimed, Dequeuers) \in Nat
       /\ Total(AllGranted, Dequeuers) \in Nat
       /\ \A cs \in SUBSET Dequeuers : Total(Lefts, cs) \in Nat
  <2>1. \A d \in Dequeuers : LeftFits(d)'
    BY <1>10 DEF DequeueFits
  <2>2. /\ Total(AllClaimed, Dequeuers) \in Nat /\ Total(AllGranted, Dequeuers) \in Nat
        /\ \A cs \in SUBSET Dequeuers : Total(Lefts, cs) \in Nat
        /\ Total(AllClaimed, Dequeuers)' =
              Total(AllClaimed, Dequeuers) - Claimed(c) + Claimed(c)'
        /\ Total(AllGranted, Dequeuers)' =
              Total(AllGranted, Dequeuers) - Granted(c) + Granted(c)'
        /\ \A cs \in SUBSET Dequeuers : c \notin cs => Total(Lefts, cs)' = Total(Lefts, cs)
    BY <1>1, <1>6, <2>1, SumsOfStep
  <2> QED BY <1>1, <1>2, <1>12, <2>2
<1>14. \A cs \in SUBSET Dequeuers :
         c \notin cs => Total(Lefts, cs \union {c}) = Total(Lefts, cs) + deq[c].left
  <2>1. Lefts \in Counts
    BY <1>1, CountsOf
  <2>2. Lefts[c] = deq[c].left
    BY DEF Lefts
  <2> QED BY <2>1, <2>2, TotalAdds
<1>15. CountersUnwrap(b)'
  BY <1>4, <1>8 DEF CountersFit, CountersUnwrap, counters
<1>16. Balanced(b)'
  BY <1>8, <1>13 DEF Balanced, CountersFit
<1>17. /\ a.late \subseteq Rechecking
       /\ a.H + Total(AllGranted, Dequeuers) + Total(Lefts, a.late) <= a.T
  BY DEF CountersFit, GrantsFit
<1>18. c \notin a.late =>
         /\ a.late \subseteq Earlier(a, c)
         /\ a.H + Total(AllGranted, Dequeuers) + Total(Lefts, Earlier(a, c))
              <= a.tick[c] - a.ovc[c]
  BY <1>11 DEF CountersFit, OthersFit
<1>19. Earlier(a, c) \in SUBSET Dequeuers /\ c \notin Earlier(a, c)
       /\ Earlier(a, c) \subseteq Rechecking
  BY <1>0 DEF Earlier, Rechecking
<1>20. late \subseteq Rechecking \ {c} /\ a.late \ {c} \subseteq late
  BY <1>17, <1>18, <1>19, <1>7
<1>21. a.H + Total(AllGranted, Dequeuers) + n + Total(Lefts, late) <= a.T
  <2>1. CASE c \in a.late
    <3>1. PICK cs \in SUBSET Dequeuers : cs = late /\ c \notin cs /\ a.late = cs \union {c}
      BY <1>7, <1>20, <2>1, <1>7
    <3>2. Total(Lefts, a.late) = Total(Lefts, late) + deq[c].left
      BY <1>14, <3>1
    <3> QED BY <1>0, <1>1, <1>2, <1>7, <1>13, <1>17, <3>2
  <2>2. CASE c \notin a.late /\ n = 0
    <3>1. late = a.late
      BY <2>2, <1>7
    <3> QED BY <1>0, <1>13, <1>17, <2>2, <3>1
  <2>3. CASE c \notin a.late /\ n # 0
    <3>1. late = Earlier(a, c)
      BY <2>3, <1>7
    <3>2. n > 0
      BY <1>1, <1>2, <2>3
    <3> QED BY <1>0, <1>1, <1>2, <1>7, <1>13, <1>18, <2>3, <3>1, <3>2
  <2> QED BY <2>1, <2>2, <2>3
<1>22. GrantsFit(b)'
  <2>1. Total(Lefts, late)' = Total(Lefts, late)
    BY <1>7, <1>13, <1>20
  <2>2. a.H + (Total(AllGranted, Dequeuers) + n) + Total(Lefts, late) <= a.T
    BY <1>0, <1>1, <1>2, <1>7, <1>13, <1>21
  <2> QED BY <2>1, <2>2, <1>8, <1>10, <1>13, <1>20 DEF GrantsFit
<1>23. OthersFit(b)'
  <2>1. ASSUME NEW d \in (Rechecking \ late)'
        PROVE  /\ b.late \subseteq Earlier(b, d)'
               /\ b.H + Total(AllGranted, Dequeuers)' + Total(Lefts, Earlier(b, d))'
                    <= b.tick[d] - b.ovc[d]
    <3>1. d \in Rechecking /\ d # c /\ d \in Dequeuers /\ d \notin a.late /\ d \notin late
      BY <1>10, <1>20 DEF Rechecking
    <3>2. PICK cs \in SUBSET Dequeuers : cs = Earlier(b, d)' /\ cs = Earlier(a, d) \ {c}
      BY <1>10, <3>1
    <3>3. /\ a.late \subseteq Earlier(a, d)
          /\ a.H + Total(AllGranted, Dequeuers) + Total(Lefts, Earlier(a, d))
               <= a.tick[d] - a.ovc[d]
      BY <3>1 DEF CountersFit, OthersFit
    <3>4. Total(Lefts, Earlier(b, d))' = Total(Lefts, cs)
      <4>1. Total(Lefts, cs)' = Total(Lefts, cs)
        BY <1>13, <3>2
      <4> QED BY <4>1, <3>2 DEF Total
    <3>5. Total(Lefts, cs) \in Nat /\ Total(Lefts, Earlier(a, d)) \in Nat
      BY <1>10, <1>13, <3>1
    <3>6. CASE c \in Earlier(a, d)
      <4>1. late \subseteq cs
        <5>1. CASE late = Earlier(a, c)
          <6>1. \A e \in Earlier(a, c) : e \in Earlier(a, d)
            BY <3>6, <1>0 DEF Earlier, Rechecking
          <6> QED BY <6>1, <5>1, <3>2, <1>19
        <5>2. CASE late = a.late \ {c}
          BY <5>2, <3>2, <3>3
        <5> QED BY <5>1, <5>2, <1>7
      <4>2. Total(Lefts, Earlier(a, d)) = Total(Lefts, cs) + deq[c].left
        <5>1. Earlier(a, d) = cs \union {c} /\ c \notin cs
          BY <3>2, <3>6
        <5> QED BY <5>1, <1>14, <3>2
      <4>3. a.H + (Total(AllGranted, Dequeuers) + n) + Total(Lefts, cs) <= a.tick[d] - a.ovc[d]
        BY <1>0, <1>1, <1>2, <1>13, <3>1, <3>3, <3>5, <4>2
      <4> QED BY <4>1, <4>3, <3>2, <3>4, <1>8, <1>13
    <3>7. CASE c \notin Earlier(a, d)
      <4>1. a.tick[d] < a.tick[c]
        <5>1. a.tick[d] + deq[d].left <= a.tick[c] \/ a.tick[c] + deq[c].left <= a.tick[d]
          BY <1>11, <3>1 DEF CountersFit, TicketsApart
        <5>2. deq[d].left > 0 /\ deq[c].left > 0 /\ deq[d].left \in Nat
          <6>1. deq[d].pc = "recheck" /\ deq[d].left \in Nat
            BY <1>1, <3>1, CallType DEF Rechecking
          <6> QED BY <6>1, <1>1, <3>1 DEF LeftFits
        <5>3. ~(a.tick[c] < a.tick[d])
          BY <1>11, <3>7 DEF Earlier
        <5> QED BY <5>1, <5>2, <5>3, <1>0, <1>1, <3>1
      <4>2. d \in Earlier(a, c)
        BY <3>1, <4>1 DEF Earlier
      <4>3. c \notin a.late
        BY <3>3, <3>7
      <4>4. n = 0
        BY <3>1, <4>2, <4>3, <1>7
      <4>5. late = a.late /\ cs = Earlier(a, d)
        BY <4>3, <4>4, <3>2, <3>7, <1>7
      <4> QED BY <4>4, <4>5, <3>2, <3>3, <3>4, <1>8, <1>13
    <3> QED BY <3>6, <3>7
  <2> QED BY <2>1, <1>8 DEF OthersFit
<1> QED BY <1>6, <1>8, <1>10, <1>15, <1>16, <1>22, <1>23 DEF CountersFit

-----------------------------------------------------------------------------
(* Together.                                                               *)

LEMMA InitFits ==
  ASSUME InitBase
  PROVE  \E a \in Unwrappings : a.T = 0 /\ a.H = 0 /\ CountersFit(a)
<1>1. PICK zeros \in [Dequeuers -> Nat] : zeros = [c \in Dequeuers |-> 0]
  OBVIOUS
<1>2. PICK a \in Unwrappings :
        /\ a.T = 0 /\ a.H = 0 /\ a.C = 0 /\ a.O = 0 /\ a.late = {}
        /\ a.since = zeros /\ a.ovc = zeros /\ a.tick = zeros
  <2>1. [T |-> 0, H |-> 0, C |-> 0, O |-> 0, since |-> zeros, ovc |-> zeros,
         tick |-> zeros, late |-> {}] \in Unwrappings
    BY DEF Unwrappings
  <2> QED BY <2>1
<1>3. deq \in [Dequeuers -> Call] /\ \A c \in Dequeuers : deq[c].pc = "idle"
  <2>1. Idle.pc = "idle"
    BY DEF Idle
  <2> QED BY <2>1, IdleType DEF InitBase
<1>4. \A c \in Dequeuers : DequeueFits(a, c) /\ LeftFits(c)
  BY <1>3 DEF DequeueFits, SinceFits, TailFits, OvercommitFits, TicketFits, LeftFits
<1>5. CountersUnwrap(a)
  <2>1. 0 % IndexT = 0
    BY Widths, Unwrapped
  <2> QED BY <1>2, <2>1, Widths DEF CountersUnwrap, InitBase
<1>6. Rechecking = {}
  BY <1>3 DEF Rechecking
<1>7. Lefts \in Counts /\ AllClaimed \in Counts /\ AllGranted \in Counts
  BY <1>3, <1>4, CountsOf
<1>8. /\ Total(AllClaimed, Dequeuers) = 0 /\ Total(AllGranted, Dequeuers) = 0
      /\ Total(Lefts, {}) = 0
  <2>1. \A c \in Dequeuers : AllClaimed[c] = 0 /\ AllGranted[c] = 0
    BY <1>3 DEF AllClaimed, AllGranted, Claimed, Granted
  <2>2. Dequeuers \in SUBSET Dequeuers /\ {} \in SUBSET Dequeuers
    OBVIOUS
  <2> QED BY <1>7, <2>1, <2>2, TotalOfNone
<1>9. TicketsApart(a) /\ Balanced(a) /\ GrantsFit(a) /\ OthersFit(a)
  BY <1>2, <1>6, <1>8 DEF TicketsApart, Balanced, GrantsFit, OthersFit
<1> QED BY <1>2, <1>3, <1>4, <1>5, <1>9 DEF CountersFit

LEMMA ClaimItemsFits ==
  ASSUME NEW a \in Unwrappings, CountersFit(a), NEW c \in Dequeuers, ClaimItems(c)
  PROVE  \E b \in Unwrappings :
           /\ b.T = a.T
           /\ b.H = IF AdvanceHead(c) THEN a.H + deq[c].left ELSE a.H
           /\ CountersFit(b)'
<1>1. CASE AdvanceHead(c)
  BY <1>1, AdvanceHeadFits
<1>2. ASSUME ReadTail(c) \/ ReadOvercommit(c) \/ ReadCount(c) \/ Claim(c) \/ Recheck(c)
               \/ TakeBack(c)
      PROVE  ~AdvanceHead(c)
  BY <1>2 DEF AdvanceHead, ReadTail, ReadOvercommit, ReadCount, Claim, Recheck, TakeBack
<1> QED
  BY <1>1, <1>2, ReadTailFits, ReadOvercommitFits, ReadCountFits, ClaimFits, RecheckFits,
     TakeBackFits DEF ClaimItems

LEMMA CountersFitAgree ==
  ASSUME NEW a \in Unwrappings, CountersFit(a)
  PROVE  CountersAgree
<1>0. a.T \in Int /\ a.H \in Int /\ a.C \in Int /\ a.O \in Int /\ a.late \in SUBSET Dequeuers
  BY UnwrappingType
<1>1. /\ Lefts \in Counts /\ AllClaimed \in Counts /\ AllGranted \in Counts
      /\ Dequeuers \in SUBSET Dequeuers
  BY CountsOf DEF CountersFit, DequeueFits
<1>2. PICK s \in Nat : s = Total(AllClaimed, Dequeuers)
  BY <1>1, UnitsFinite
<1>3. Minus(dequeueOptimisticCount, dequeueOvercommit) = (a.C - a.O) % IndexT
  BY <1>0, MinusOf DEF CountersFit, CountersUnwrap
<1>4. Plus(headIndex, s) = (a.H + s) % IndexT
  <2>1. headIndex = a.H % IndexT /\ s \in Int
    BY DEF CountersFit, CountersUnwrap
  <2> QED BY <1>0, <2>1, PlusOf
<1>5. a.C - a.O = a.H + s
  BY <1>0, <1>2 DEF CountersFit, Balanced
<1>6. Minus(tailIndex, headIndex) = a.T - a.H
  <2>1. Minus(tailIndex, headIndex) = (a.T - a.H) % IndexT
    BY <1>0, MinusOf DEF CountersFit, CountersUnwrap
  <2>2. a.T - a.H \in 0 .. IndexT - 1
    BY <1>0, Widths DEF CountersFit, CountersUnwrap
  <2> QED BY <2>1, <2>2, Unwrapped
<1>7. /\ Total(Lefts, a.late) \in Nat /\ Total(AllGranted, Dequeuers) \in Nat
      /\ a.H + Total(AllGranted, Dequeuers) + Total(Lefts, a.late) <= a.T
  BY <1>0, <1>1, UnitsFinite DEF CountersFit, GrantsFit
<1>8. Total(AllGranted, Dequeuers) <= a.T - a.H /\ a.T - a.H <= Half
  BY <1>0, <1>7, Widths DEF CountersFit, CountersUnwrap
<1> QED BY <1>2, <1>3, <1>4, <1>5, <1>6, <1>8
        DEF CountersAgree, AllClaimed, AllGranted, Half

-----------------------------------------------------------------------------
(* Blocks by their numbers: block B has the items from B * BlockSize on,   *)
(* and Key(B) is its base.                                                 *)

Key(B) == (B * BlockSize) % IndexT

(* How many blocks the items before t are in.                              *)
BlocksTo(t) == (t + BlockSize - 1) \div BlockSize

LEMMA SlotOf ==
  ASSUME NEW x \in Int
  PROVE  Slot(x % IndexT) = x % BlockSize
<1>1. PICK k \in Nat \ {0} : IndexT = BlockSize * k
  BY Widths
<1>2. (x % (BlockSize * k)) % BlockSize = x % BlockSize
  BY Widths, ModMod
<1> QED BY <1>1, <1>2 DEF Slot

LEMMA InBlock ==
  ASSUME NEW x \in Int
  PROVE  /\ x \div BlockSize \in Int /\ x % BlockSize \in 0 .. BlockSize - 1
         /\ x = (x \div BlockSize) * BlockSize + (x % BlockSize)
         /\ x >= 0 => x \div BlockSize >= 0
<1>1. PICK q \in Int, r \in 0 .. BlockSize - 1 :
         q = x \div BlockSize /\ r = x % BlockSize /\ x = BlockSize * q + r
  BY Widths, Division
<1>2. BlockSize * q = q * BlockSize
  BY <1>1, Widths
<1>3. x >= 0 => q >= 0
  BY <1>1, Widths
<1> QED BY <1>1, <1>2, <1>3

LEMMA NumberUnique ==
  ASSUME NEW B \in Int, NEW s \in 0 .. BlockSize - 1
  PROVE  (B * BlockSize + s) \div BlockSize = B /\ (B * BlockSize + s) % BlockSize = s
<1>1. /\ (BlockSize * B + s) \div BlockSize = B /\ (BlockSize * B + s) % BlockSize = s
  BY Widths, DivisionUnique
<1>2. BlockSize * B = B * BlockSize
  BY Widths
<1> QED BY <1>1, <1>2

LEMMA KeyType ==
  ASSUME NEW B \in Int
  PROVE  Key(B) \in Indices /\ Key(B) \in Int /\ B * BlockSize \in Int
<1>1. B * BlockSize \in Int
  BY Widths
<1> QED BY <1>1, IndexType DEF Key, Indices

LEMMA BaseOf ==
  ASSUME NEW x \in Int
  PROVE  BlockBase(x % IndexT) = Key(x \div BlockSize)
<1>1. PICK q \in Int, r \in 0 .. BlockSize - 1 :
         q = x \div BlockSize /\ r = x % BlockSize /\ x = q * BlockSize + r
  BY InBlock
<1>2. PICK k \in Nat \ {0} : IndexT = BlockSize * k
  BY Widths
<1>3. PICK p \in Int, s \in 0 .. IndexT - 1 : s = x % IndexT /\ x = IndexT * p + s
  <2>1. /\ x % IndexT \in 0 .. IndexT - 1 /\ x \div IndexT \in Int
        /\ x = IndexT * (x \div IndexT) + (x % IndexT)
    BY Widths, Division
  <2> QED BY <2>1
<1>4. (x % IndexT) % BlockSize = r
  BY <1>1, SlotOf DEF Slot
<1>5. PICK m \in Int : s = m * BlockSize + r
  BY <1>3, <1>4, InBlock
<1>6. s - r \in 0 .. IndexT - 1
  <2>0. s \in Int /\ s >= 0 /\ s < IndexT /\ r \in Int /\ r >= 0 /\ r < BlockSize
        /\ m * BlockSize \in Int /\ BlockSize \in Int
    BY <1>1, <1>3, <1>5, Widths
  <2>1. m >= 0
    <3>1. m * BlockSize > -BlockSize
      BY <2>0, <1>5
    <3> QED BY <3>1, <1>5, Widths
  <2>2. m * BlockSize >= 0
    BY <2>1, Widths
  <2>3. s - r = m * BlockSize /\ s - r < IndexT /\ s - r \in Int /\ IndexT \in Int
    BY <2>0, <1>5, Widths
  <2> QED BY <2>2, <2>3
<1>7. q * BlockSize = IndexT * p + (s - r)
  <2>1. q * BlockSize \in Int /\ IndexT * p \in Int /\ s \in Int /\ r \in Int
    BY <1>1, <1>3, Widths
  <2>2. q * BlockSize + r = IndexT * p + s
    BY <1>1, <1>3
  <2> QED BY <2>1, <2>2
<1>8. (IndexT * p + (s - r)) % IndexT = s - r
  BY <1>6, Widths, DivisionUnique
<1> QED BY <1>1, <1>3, <1>4, <1>7, <1>8 DEF Key, BlockBase, Slot

LEMMA KeyPlus ==
  ASSUME NEW B \in Int
  PROVE  Plus(Key(B), BlockSize) = Key(B + 1)
<1>1. B * BlockSize \in Int /\ (B + 1) * BlockSize = B * BlockSize + BlockSize
      /\ BlockSize \in Int
  BY Widths
<1>2. Plus((B * BlockSize) % IndexT, BlockSize) = (B * BlockSize + BlockSize) % IndexT
  BY <1>1, PlusOf
<1> QED BY <1>1, <1>2 DEF Key

LEMMA KeyBase ==
  ASSUME NEW B \in Int
  PROVE  BlockBase(Key(B)) = Key(B) /\ Key(B) # 1
<1>1. PICK x \in Int : x = B * BlockSize
  BY Widths
<1>2. x \div BlockSize = B /\ x % BlockSize = 0
  <2>1. 0 \in 0 .. BlockSize - 1 /\ B * BlockSize + 0 = x
    BY <1>1, Widths
  <2> QED BY <2>1, NumberUnique
<1>3. BlockBase(x % IndexT) = Key(B)
  BY <1>2, BaseOf
<1>4. Slot(x % IndexT) = 0
  BY <1>2, SlotOf
<1>5. Slot(1) = 1
  BY Widths, ModSmall DEF Slot
<1> QED BY <1>1, <1>3, <1>4, <1>5 DEF Key

LEMMA KeySame ==
  ASSUME NEW B \in Int, NEW C \in Int, Key(B) = Key(C),
         (B - C) * BlockSize < IndexT, (C - B) * BlockSize < IndexT
  PROVE  B = C
<1>1. PICK x \in Int, y \in Int : x = B * BlockSize /\ y = C * BlockSize
  BY Widths
<1>2. (B - C) * BlockSize = x - y /\ (C - B) * BlockSize = y - x
  BY <1>1, Widths
<1>3. x = y
  BY <1>1, <1>2, Widths, ModSame DEF Key
<1>4. (B - C) * BlockSize = 0
  BY <1>1, <1>2, <1>3
<1> QED BY <1>4, Widths

(* Where the block of an item is, seen from that of another block.         *)
LEMMA PositionOf ==
  ASSUME NEW K \in Int, NEW x \in Int, NEW off \in Int, NEW size \in Nat \ {0},
         (x \div BlockSize) - K < MaxCapacity, K - (x \div BlockSize) < MaxCapacity
  PROVE  PositionFrom((K + off) % size, Key(K), x % IndexT, size)
           = ((x \div BlockSize) + off) % size
<1>1. PICK B \in Int : B = x \div BlockSize /\ B - K < MaxCapacity /\ K - B < MaxCapacity
  BY InBlock
<1>2. PICK d \in Int : d = B - K /\ d < MaxCapacity /\ -d < MaxCapacity
  <2>1. -(B - K) = K - B
    OBVIOUS
  <2> QED BY <1>1, <2>1
<1>3. PICK y \in Int : y = d * BlockSize
  BY <1>2, Widths
<1>4. y < Half /\ y >= -Half
  <2>1. MaxCapacity * BlockSize <= Half
    <3>1. 2 * BlockSize * MaxCapacity = 2 * (MaxCapacity * BlockSize)
          /\ MaxCapacity * BlockSize \in Int
      BY QueueAssumption
    <3> QED BY <3>1, Widths, QueueAssumption
  <2>2. d * BlockSize <= MaxCapacity * BlockSize - BlockSize
    <3>1. d + 1 <= MaxCapacity
      BY <1>2, QueueAssumption
    <3>2. (d + 1) * BlockSize <= MaxCapacity * BlockSize
      BY <3>1, <1>2, QueueAssumption, Widths
    <3>3. (d + 1) * BlockSize = d * BlockSize + BlockSize
      BY <1>2, Widths
    <3>4. d * BlockSize \in Int /\ MaxCapacity * BlockSize \in Int
      BY <1>2, Widths, QueueAssumption
    <3> QED BY <3>2, <3>3, <3>4, Widths
  <2>3. -(d * BlockSize) <= MaxCapacity * BlockSize
    <3>1. (-d) * BlockSize <= MaxCapacity * BlockSize
      BY <1>2, QueueAssumption, Widths
    <3>2. (-d) * BlockSize = -(d * BlockSize)
      BY <1>2, Widths
    <3> QED BY <3>1, <3>2
  <2>4. MaxCapacity * BlockSize \in Int
    BY Widths, QueueAssumption
  <2> QED BY <1>3, <2>1, <2>2, <2>3, <2>4, Widths
<1>5. Minus(BlockBase(x % IndexT), Key(K)) = y % IndexT
  <2>1. BlockBase(x % IndexT) = (B * BlockSize) % IndexT
    BY <1>1, BaseOf DEF Key
  <2>2. B * BlockSize \in Int /\ K * BlockSize \in Int
        /\ B * BlockSize - K * BlockSize = y
    BY <1>1, <1>2, <1>3, Widths
  <2> QED BY <2>1, <2>2, MinusOf DEF Key
<1>6. Signed(y % IndexT) = y
  <2>1. CASE y >= 0
    BY <2>1, <1>4, Widths, Unwrapped DEF Signed, Half
  <2>2. CASE y < 0
    <3>1. y % IndexT = y + IndexT
      BY <2>2, <1>4, Widths, Unwrapped
    <3> QED BY <3>1, <2>2, <1>4, Widths DEF Signed, Half
  <2> QED BY <2>1, <2>2
<1>7. y \div BlockSize = d
  <2>1. 0 \in 0 .. BlockSize - 1 /\ d * BlockSize + 0 = y
    BY <1>2, <1>3, Widths
  <2> QED BY <2>1, <1>2, NumberUnique
<1>8. (((K + off) % size) + d) % size = ((K + off) + d) % size
  <2>1. PICK z \in Int : z = K + off
    OBVIOUS
  <2> QED BY <2>1, <1>2, ModAdd
<1>9. (K + off) + d = B + off
  BY <1>1, <1>2
<1> QED BY <1>1, <1>5, <1>6, <1>7, <1>8, <1>9 DEF PositionFrom

LEMMA BlocksHold ==
  ASSUME NEW t \in Nat
  PROVE  /\ BlocksTo(t) \in Nat
         /\ t <= BlocksTo(t) * BlockSize /\ BlocksTo(t) * BlockSize < t + BlockSize
<1>1. PICK q \in Int, r \in 0 .. BlockSize - 1 :
         q = (t + BlockSize - 1) \div BlockSize /\ t + BlockSize - 1 = q * BlockSize + r
         /\ q >= 0
  <2>1. t + BlockSize - 1 \in Int /\ t + BlockSize - 1 >= 0
    BY Widths
  <2> QED BY <2>1, InBlock
<1>2. q * BlockSize \in Int
  BY Widths
<1>3. t <= q * BlockSize /\ q * BlockSize < t + BlockSize
  BY <1>1, <1>2, Widths
<1> QED BY <1>1, <1>3 DEF BlocksTo

LEMMA BlockBefore ==
  ASSUME NEW t \in Nat, NEW B \in Int
  PROVE  B < BlocksTo(t) <=> B * BlockSize < t
<1>1. PICK m \in Nat : /\ m = BlocksTo(t)
                       /\ t <= m * BlockSize /\ m * BlockSize < t + BlockSize
  BY BlocksHold
<1>2. m * BlockSize \in Int /\ B * BlockSize \in Int
  BY Widths
<1>3. ASSUME B < m PROVE B * BlockSize < t
  <2>1. B + 1 <= m
    BY <1>3
  <2>2. (B + 1) * BlockSize <= m * BlockSize
    BY <2>1, Widths
  <2>3. (B + 1) * BlockSize = B * BlockSize + BlockSize
    BY Widths
  <2> QED BY <1>1, <1>2, <2>2, <2>3, Widths
<1>4. ASSUME B >= m PROVE B * BlockSize >= t
  <2>1. B * BlockSize >= m * BlockSize
    BY <1>4, Widths
  <2> QED BY <1>1, <1>2, <2>1
<1> QED BY <1>1, <1>2, <1>3, <1>4

LEMMA ItemBefore ==
  ASSUME NEW t \in Nat, NEW i \in Nat
  PROVE  i \div BlockSize < BlocksTo(t) <=> i < BlocksTo(t) * BlockSize
<1>1. PICK q \in Int, r \in 0 .. BlockSize - 1 :
        q = i \div BlockSize /\ i = q * BlockSize + r
  BY InBlock
<1>2. PICK m \in Nat : m = BlocksTo(t)
  BY BlocksHold
<1>3. q * BlockSize \in Int /\ m * BlockSize \in Int
  BY Widths
<1>4. ASSUME q < m PROVE i < m * BlockSize
  <2>1. (q + 1) * BlockSize <= m * BlockSize
    BY <1>4, Widths
  <2>2. (q + 1) * BlockSize = q * BlockSize + BlockSize
    BY Widths
  <2> QED BY <1>1, <1>3, <2>1, <2>2, Widths
<1>5. ASSUME q >= m PROVE i >= m * BlockSize
  <2>1. q * BlockSize >= m * BlockSize
    BY <1>5, Widths
  <2> QED BY <1>1, <1>3, <2>1
<1> QED BY <1>1, <1>2, <1>4, <1>5, <1>3

LEMMA BlocksMonotonic ==
  ASSUME NEW s \in Nat, NEW t \in Nat, s <= t
  PROVE  BlocksTo(s) <= BlocksTo(t)
<1>1. BlocksTo(s) \in Nat /\ BlocksTo(t) \in Nat
  BY BlocksHold
<1>2. ASSUME BlocksTo(t) < BlocksTo(s) PROVE FALSE
  <2>1. BlocksTo(t) * BlockSize < s
    BY <1>1, <1>2, BlockBefore
  <2>2. BlocksTo(t) * BlockSize \in Int /\ t <= BlocksTo(t) * BlockSize
    BY <1>1, Widths, BlocksHold
  <2> QED BY <2>1, <2>2
<1> QED BY <1>1, <1>2

LEMMA BlocksToWhole ==
  ASSUME NEW t \in Nat
  PROVE  /\ t % BlockSize = 0 => /\ BlocksTo(t) * BlockSize = t
                                 /\ BlocksTo(t) = t \div BlockSize
         /\ t % BlockSize # 0 => BlocksTo(t) = (t \div BlockSize) + 1
<1>1. PICK q \in Int, r \in 0 .. BlockSize - 1 :
        q = t \div BlockSize /\ r = t % BlockSize /\ t = q * BlockSize + r
  BY InBlock
<1>2. PICK m \in Nat : m = BlocksTo(t)
  BY BlocksHold
<1>3. q * BlockSize \in Int /\ m * BlockSize \in Int /\ (q + 1) * BlockSize \in Int
      /\ (q + 1) * BlockSize = q * BlockSize + BlockSize /\ q + 1 \in Int
  BY Widths
<1>4. CASE r = 0
  <2>1. ~(q < m)
    BY <1>1, <1>2, <1>3, <1>4, BlockBefore
  <2>2. q - 1 < m
    <3>1. (q - 1) * BlockSize = q * BlockSize - BlockSize /\ q - 1 \in Int
      BY Widths
    <3>2. (q - 1) * BlockSize < t
      BY <1>1, <1>3, <1>4, <3>1, Widths
    <3> QED BY <1>2, <3>1, <3>2, BlockBefore
  <2>3. q = m
    BY <2>1, <2>2
  <2> QED BY <1>1, <1>2, <1>3, <1>4, <2>3
<1>5. CASE r # 0
  <2>1. q < m
    BY <1>1, <1>2, <1>3, <1>5, BlockBefore
  <2>2. ~(q + 1 < m)
    <3>1. ~((q + 1) * BlockSize < t)
      BY <1>1, <1>3, Widths
    <3> QED BY <1>2, <1>3, <3>1, BlockBefore
  <2>3. m = q + 1
    BY <2>1, <2>2
  <2> QED BY <1>1, <1>2, <1>5, <2>3
<1> QED BY <1>4, <1>5

LEMMA SlotAhead ==
  ASSUME NEW t \in Int, NEW k \in Int
  PROVE  Slot((t % IndexT) + k) = (t + k) % BlockSize
<1>1. PICK s \in Int : s = t % IndexT
  BY Widths, Division
<1>2. (s + k) % IndexT = (t + k) % IndexT
  BY <1>1, Widths, ModAdd
<1>3. Slot((s + k) % IndexT) = (s + k) % BlockSize
  <2>1. s + k \in Int
    BY <1>1
  <2> QED BY <2>1, SlotOf
<1>4. Slot((t + k) % IndexT) = (t + k) % BlockSize
  <2>1. t + k \in Int
    OBVIOUS
  <2> QED BY <2>1, SlotOf
<1> QED BY <1>1, <1>2, <1>3, <1>4 DEF Slot

LEMMA NeededOf ==
  ASSUME NEW t \in Nat, NEW n \in Nat, tailIndex = t % IndexT
  PROVE  Needed(n) = BlocksTo(t + n) - BlocksTo(t)
<1> DEFINE S == BlocksTo(t) .. BlocksTo(t + n) - 1
           K == {k \in 0 .. n - 1 : Slot(tailIndex + k) = 0}
           f == [B \in S |-> B * BlockSize - t]
<1>0. /\ BlocksTo(t) \in Nat /\ BlocksTo(t + n) \in Nat /\ t + n \in Nat
      /\ BlocksTo(t) <= BlocksTo(t + n)
  BY BlocksHold, BlocksMonotonic
<1>1. \A k \in 0 .. n - 1 : Slot(tailIndex + k) = (t + k) % BlockSize
  BY SlotAhead
<1>2. ASSUME NEW B \in S
      PROVE  /\ B * BlockSize - t \in K
             /\ B * BlockSize \in Int
  <2>1. B \in Int /\ B * BlockSize \in Int
    BY <1>0, Widths
  <2>2. B * BlockSize < t + n
    BY <1>0, <2>1, BlockBefore
  <2>3. ~(B * BlockSize < t)
    BY <1>0, <2>1, BlockBefore
  <2>4. B * BlockSize - t \in 0 .. n - 1
    BY <2>1, <2>2, <2>3
  <2>5. (t + (B * BlockSize - t)) % BlockSize = 0
    <3>1. t + (B * BlockSize - t) = B * BlockSize + 0
      BY <2>1
    <3>2. 0 \in 0 .. BlockSize - 1
      BY Widths
    <3> QED BY <2>1, <3>1, <3>2, NumberUnique
  <2> QED BY <1>1, <2>1, <2>4, <2>5
<1>3. f \in [S -> K]
  BY <1>2
<1>4. f \in Injection(S, K)
  <2>1. ASSUME NEW B \in S, NEW C \in S, f[B] = f[C] PROVE B = C
    <3>1. B * BlockSize = C * BlockSize
      BY <1>2, <2>1
    <3>2. B \in Int /\ C \in Int
      BY <1>0
    <3>3. (B * BlockSize + 0) \div BlockSize = B /\ (C * BlockSize + 0) \div BlockSize = C
      BY <3>2, NumberUnique, Widths
    <3> QED BY <3>1, <3>3
  <2> QED BY <1>3, <2>1 DEF Injection, IsInjective
<1>5. \A k \in K : \E B \in S : f[B] = k
  <2>1. ASSUME NEW k \in K PROVE \E B \in S : f[B] = k
    <3>1. (t + k) % BlockSize = 0 /\ k \in 0 .. n - 1
      BY <1>1
    <3>2. PICK B \in Int : t + k = B * BlockSize
      <4>1. t + k \in Int
        BY <3>1
      <4>2. t + k = ((t + k) \div BlockSize) * BlockSize + ((t + k) % BlockSize)
            /\ (t + k) \div BlockSize \in Int
        BY <4>1, InBlock
      <4>3. ((t + k) \div BlockSize) * BlockSize \in Int
        BY <4>2, Widths
      <4> QED BY <3>1, <4>2, <4>3
    <3>3. B * BlockSize < t + n /\ ~(B * BlockSize < t) /\ B * BlockSize \in Int
      BY <3>1, <3>2, Widths
    <3>4. B < BlocksTo(t + n) /\ ~(B < BlocksTo(t))
      BY <1>0, <3>2, <3>3, BlockBefore
    <3>5. B \in S
      BY <1>0, <3>4
    <3>6. B * BlockSize - t = k
      BY <3>1, <3>2, <3>3
    <3> QED BY <3>5, <3>6
  <2> QED BY <2>1
<1>6. f \in Bijection(S, K)
  BY <1>3, <1>4, <1>5 DEF Bijection, Surjection
<1>7. /\ IsFiniteSet(S) /\ Cardinality(S) = BlocksTo(t + n) - BlocksTo(t)
  <2>1. BlocksTo(t) \in Int /\ BlocksTo(t + n) - 1 \in Int
    BY <1>0
  <2>2. /\ IsFiniteSet(S)
        /\ Cardinality(S) = IF BlocksTo(t) > BlocksTo(t + n) - 1 THEN 0
                            ELSE BlocksTo(t + n) - 1 - BlocksTo(t) + 1
    BY <2>1, FS_Interval
  <2> QED BY <1>0, <2>2
<1>8. ExistsBijection(S, K)
  BY <1>6 DEF ExistsBijection
<1> HIDE DEF S
<1>9. Cardinality(K) = Cardinality(S)
  BY <1>7, <1>8, FS_Bijection
<1> QED BY <1>7, <1>9 DEF Needed

LEMMA BaseBeforeOf ==
  ASSUME NEW t \in Nat, tailIndex = t % IndexT
  PROVE  BaseBefore = Key(BlocksTo(t) - 1)
<1>1. Minus(tailIndex, 1) = (t - 1) % IndexT
  <2>1. 1 % IndexT = 1
    BY Widths, ModSmall
  <2>2. t \in Int /\ 1 \in Int
    OBVIOUS
  <2> QED BY <2>1, <2>2, MinusOf
<1>2. BlockBase((t - 1) % IndexT) = Key((t - 1) \div BlockSize)
  BY BaseOf
<1>3. PICK m \in Int : m = BlocksTo(t) - 1 /\ t <= (m + 1) * BlockSize
                       /\ (m + 1) * BlockSize < t + BlockSize
  BY BlocksHold
<1>4. (m + 1) * BlockSize = m * BlockSize + BlockSize /\ m * BlockSize \in Int
  BY Widths
<1>5. PICK s \in Int : s = t - 1 - m * BlockSize /\ s \in 0 .. BlockSize - 1
  BY <1>3, <1>4, Widths
<1>6. t - 1 = m * BlockSize + s
  BY <1>4, <1>5
<1>7. (t - 1) \div BlockSize = m
  BY <1>5, <1>6, NumberUnique
<1> QED BY <1>1, <1>2, <1>3, <1>7 DEF BaseBefore

LEMMA LeewayOf ==
  ASSUME NEW h \in Nat, NEW B \in Int, headIndex = h % IndexT,
         (B + 1) * BlockSize - h >= -Half, (B + 1) * BlockSize - h <= IndexT
  PROVE  HasLeeway(Key(B)) <=> (B + 1) * BlockSize - h \in 1 .. Half - 1
<1>1. Plus(Key(B), BlockSize) = ((B + 1) * BlockSize) % IndexT
  BY KeyPlus DEF Key
<1>2. PICK x \in Int : x = (B + 1) * BlockSize
  BY Widths
<1>3. x - h \in -Half .. IndexT
  BY <1>2, Widths
<1>4. CircularLess(h % IndexT, x % IndexT) <=> x - h \in 1 .. Half - 1
  BY <1>3, LessOf
<1> QED BY <1>1, <1>2, <1>4 DEF HasLeeway

-----------------------------------------------------------------------------
(* The enqueueing thread.  Block numbers below BlocksTo(a.T) are in the    *)
(* queue; those from there to Top(a) have an entry for the enqueue in      *)
(* progress, all but the last one, while it is inserted, a block as well.  *)

EnqPcs == {"idle", "index", "inserted", "undo", "destroyed"}

Enqueuing ==
  [pc : EnqPcs, count : Nat, need : Nat, base : Int, start : Blocks \union {Null},
   blocks : Seq(Blocks)]

Top(a) == BlocksTo(a.T) + Len(enq.blocks) + IF enq.pc = "inserted" THEN 1 ELSE 0

(* How many of the blocks taken have left the index again.                 *)
Undone == IF enq.pc = "undo" THEN Len(enq.blocks) - enq.need ELSE 0

NeedFits(a) ==
  enq.pc \in {"index", "inserted"} =>
    /\ enq.count \in 1 .. MaxCount
    /\ enq.need + Len(enq.blocks) = BlocksTo(a.T + enq.count) - BlocksTo(a.T)
    /\ enq.base = Key(BlocksTo(a.T) + Len(enq.blocks) - 1)

EnqFits(a) ==
  /\ enq \in Enqueuing /\ tailBlock \in Blocks \union {Null}
  /\ enq.pc \in {"idle", "destroyed"} => enq.blocks = << >>
  /\ NeedFits(a)
  /\ enq.pc = "inserted" => enq.need > 0
  /\ enq.pc = "undo" => /\ enq.need <= Len(enq.blocks)
                        /\ enq.base = Key(BlocksTo(a.T) + Undone - 1)
  /\ Top(a) * BlockSize - a.H < Half

-----------------------------------------------------------------------------
(* The index.  In each of the indexes block B has the position that is B   *)
(* moved by an offset, modulo the capacity.  Of the last index the blocks  *)
(* from low to Top(a) have the entries with their keys.  idx has the index *)
(* of each dequeue's next item, not wrapped.                               *)

Layouts == [off : [Nat -> Int], low : Nat, idx : [Dequeuers -> Nat]]

EntryType == [key : Indices, value : Blocks \union {Null}]

Rings == UNION {[0 .. n - 1 -> Nat] : n \in 1 .. MaxCapacity}

HeaderType == [capacity : 1 .. MaxCapacity, tail : Int, index : Rings]

BlockIndexes == [entries : Seq(EntryType), indexes : Seq(HeaderType)]

Cap(h) == indexes[h].capacity

Pos(g, h, B) == (B + g.off[h]) % Cap(h)

EntryNo(g, B) == indexes[blockIndex].index[Pos(g, blockIndex, B)]

Live(a, g) == g.low .. Top(a) - 1

Store(a, g, B) == IF B \in Live(a, g) THEN entries[EntryNo(g, B)].value ELSE Null

(* Nothing happens before there is an index.                               *)
NoIndex(a) ==
  /\ entries = << >> /\ a.T = 0 /\ enq.blocks = << >> /\ enq.pc # "inserted"

ShapeFits(h) ==
  /\ indexes[h].index \in [0 .. Cap(h) - 1 -> 1 .. Len(entries)]
  /\ indexes[h].tail \in 0 .. Cap(h) - 1

(* An entry has in an index, if at all, the one position of all the blocks *)
(* that have the entry now.                                                *)
Nested(g) ==
  \A h \in 1 .. blockIndex : \A p \in 0 .. Cap(h) - 1 : \A B \in Int :
    EntryNo(g, B) = indexes[h].index[p] => Pos(g, h, B) = p

RingsFit(a, g) ==
  /\ index \in BlockIndexes
  /\ blockIndex = 0 => NoIndex(a)
  /\ \A h \in 1 .. blockIndex : ShapeFits(h)
  /\ blockIndex # 0 =>
       /\ Cap(blockIndex) = Len(entries)
       /\ indexes[blockIndex].tail = Pos(g, blockIndex, Top(a) - 1 - Undone)
  /\ Nested(g)

KeysFit(a, g) ==
  /\ g.low <= BlocksTo(a.T)
  /\ Top(a) <= g.low + Len(entries)
  /\ \A B \in Live(a, g) : entries[EntryNo(g, B)].key = Key(B)
  /\ \A e \in DOMAIN entries :
       entries[e].value # Null => \E B \in Live(a, g) : EntryNo(g, B) = e

-----------------------------------------------------------------------------
(* The items: those of a dequeue, and those that will be dequeued.         *)

Owns(c) == deq[c].pc \in {"index", "key", "block", "free"}

Own(g, c) == IF Owns(c) THEN g.idx[c] .. g.idx[c] + deq[c].left - 1 ELSE {}

Pending(a, g, i) == i >= a.H \/ \E c \in Dequeuers : i \in Own(g, c)

PendingOf(a, g, B) == {s \in Slots : Pending(a, g, B * BlockSize + s)}

OwnFits(a, g) ==
  /\ \A c \in Dequeuers :
       /\ deq[c].index \in Indices /\ deq[c].got \in Seq(Indices)
       /\ Owns(c) => /\ deq[c].index = g.idx[c] % IndexT
                     /\ g.idx[c] + deq[c].left <= a.H
                     /\ deq[c].pc # "free" => deq[c].left > 0
  /\ \A c, d \in Dequeuers : c # d => Own(g, c) \intersect Own(g, d) = {}

(* A dequeue in the index.                                                 *)
Number(g, c) == g.idx[c] \div BlockSize

Agrees(g, c) ==
  \A B \in Int :
    /\ deq[c].left > 0
    /\ B >= Number(g, c) /\ B * BlockSize < g.idx[c] + deq[c].left
    => indexes[deq[c].header].index[Pos(g, deq[c].header, B)] = EntryNo(g, B)

SearchFits(g, c) ==
  LET h == deq[c].header IN
  /\ h \in 1 .. blockIndex
  /\ deq[c].at \in 0 .. Cap(h) - 1
  /\ Agrees(g, c)
  /\ deq[c].pc = "key" =>
       \E K \in Int : /\ Number(g, c) <= K /\ K < g.low + Len(entries)
                      /\ entries[indexes[h].index[deq[c].at]].key = Key(K)
                      /\ Pos(g, h, K) = deq[c].at
  /\ deq[c].pc = "block" => deq[c].at = Pos(g, h, Number(g, c))
  /\ deq[c].pc = "free" /\ deq[c].left > 0 =>
       /\ g.idx[c] % BlockSize = 0
       /\ deq[c].at = Pos(g, h, Number(g, c) - 1)

SearchesFit(g) ==
  \A c \in Dequeuers : deq[c].pc \in {"key", "block", "free"} => SearchFits(g, c)

-----------------------------------------------------------------------------
(* The blocks.                                                             *)

BlockType == [elements : [Slots -> Indices \union {Null}], done : 0 .. BlockSize,
              next : {Null}]

(* Blocks with something to dequeue are there, and count what was.         *)
BlocksFit(a, g) ==
  /\ block \in [Blocks -> BlockType]
  /\ \A i \in Nat : Pending(a, g, i) /\ i < BlocksTo(a.T) * BlockSize =>
       Store(a, g, i \div BlockSize) # Null
  /\ \A B \in Nat : Store(a, g, B) # Null =>
       /\ PendingOf(a, g, B) # {}
       /\ block[Store(a, g, B)].done + Cardinality(PendingOf(a, g, B)) = BlockSize
  /\ \A i \in Nat : Pending(a, g, i) /\ i < a.T =>
       block[Store(a, g, i \div BlockSize)].elements[i % BlockSize] = i % IndexT

(* The blocks the enqueueing thread knows.                                 *)
StartBlock == IF enq.pc \in {"idle", "destroyed"} THEN tailBlock ELSE enq.start

TakenFit(a, g) ==
  /\ \A j \in 1 .. Len(enq.blocks) :
       j > Undone => Store(a, g, BlocksTo(a.T) + j - 1) = enq.blocks[j]
  /\ \A j \in 1 .. Undone : Store(a, g, BlocksTo(a.T) + j - 1) = Null
  /\ Store(a, g, BlocksTo(a.T) - 1) \in {Null, StartBlock}
  /\ enq.pc \in {"index", "inserted", "undo"} =>
       tailBlock = IF enq.blocks = << >> THEN enq.start
                   ELSE enq.blocks[Len(enq.blocks)]
  /\ enq.pc = "inserted" => Store(a, g, Top(a) - 1) = Null

(* Each block has one place.                                               *)
IsOne(S) == \E p : S = {p}

PlacesFit ==
  /\ free \subseteq Blocks
  /\ \A c \in Dequeuers : deq[c].pc = "free" => deq[c].block \in Blocks
  /\ enq.pc # "destroyed" => \A b \in Blocks : IsOne(Claims(b))
  /\ enq.pc = "destroyed" => free = Blocks /\ Busy = {}

IndexFits(a, g) ==
  /\ RingsFit(a, g) /\ KeysFit(a, g) /\ OwnFits(a, g) /\ SearchesFit(g)
  /\ BlocksFit(a, g) /\ TakenFit(a, g) /\ PlacesFit

Fits(a, g) == CountersFit(a) /\ EnqFits(a) /\ IndexFits(a, g)

IndInv == \E a \in Unwrappings, g \in Layouts : Fits(a, g)

-----------------------------------------------------------------------------
(* The enqueueing thread, by itself.                                       *)

LEMMA EnqType ==
  ASSUME enq \in Enqueuing
  PROVE  /\ enq.pc \in EnqPcs /\ enq.count \in Nat /\ enq.need \in Nat /\ enq.base \in Int
         /\ enq.start \in Blocks \union {Null}
         /\ enq.blocks \in Seq(Blocks) /\ Len(enq.blocks) \in Nat
         /\ DOMAIN enq.blocks = 1 .. Len(enq.blocks)
         /\ \A j \in 1 .. Len(enq.blocks) : enq.blocks[j] \in Blocks
BY DEF Enqueuing

LEMMA WaitingType == Waiting \in Enqueuing /\ Waiting.pc = "idle" /\ Waiting.blocks = << >>
BY DEF Waiting, Enqueuing, EnqPcs

LEMMA TopType ==
  ASSUME NEW a \in Unwrappings, EnqFits(a)
  PROVE  /\ a.T \in Nat /\ a.H \in Nat /\ BlocksTo(a.T) \in Nat /\ Top(a) \in Nat
         /\ Undone \in Nat /\ Undone <= Len(enq.blocks) /\ BlocksTo(a.T) <= Top(a)
         /\ a.T <= BlocksTo(a.T) * BlockSize
         /\ a.T <= Top(a) * BlockSize /\ Top(a) * BlockSize \in Int
         /\ BlocksTo(a.T) * BlockSize <= Top(a) * BlockSize
<1>1. a.T \in Nat /\ a.H \in Nat
  BY UnwrappingType
<1>2. BlocksTo(a.T) \in Nat /\ a.T <= BlocksTo(a.T) * BlockSize
  BY <1>1, BlocksHold
<1>3. Len(enq.blocks) \in Nat /\ enq.need \in Nat
  BY EnqType DEF EnqFits
<1>4. Undone \in Nat /\ Undone <= Len(enq.blocks)
  BY <1>3 DEF EnqFits, Undone
<1>5. Top(a) \in Nat /\ BlocksTo(a.T) <= Top(a)
  BY <1>2, <1>3 DEF Top
<1>6. BlocksTo(a.T) * BlockSize <= Top(a) * BlockSize /\ Top(a) * BlockSize \in Int
      /\ BlocksTo(a.T) * BlockSize \in Int
  <2>1. ASSUME NEW x \in Nat, NEW y \in Nat, x <= y, NEW k \in Nat
        PROVE  x * k <= y * k /\ x * k \in Nat /\ y * k \in Nat
    BY <2>1, Z3
  <2> QED BY <2>1, <1>2, <1>5, Widths
<1> QED BY <1>1, <1>2, <1>4, <1>5, <1>6

(* Steps that only the enqueueing thread can tell.                         *)
LEMMA EnqStepFits ==
  ASSUME NEW a \in Unwrappings, CountersFit(a), UNCHANGED <<counters, deq>>,
         \/ IsEnqueueing
         \/ ~IsEnqueueing' \/ \E n \in Nat : MayEnqueue(n)
  PROVE  \E b \in Unwrappings : b.T = a.T /\ b.H = a.H /\ CountersFit(b)'
<1>1. a.T \in Nat /\ a.H \in Nat /\ a.T - a.H < Half
  BY UnwrappingType DEF CountersFit, CountersUnwrap
<1>2. tailIndex' = Plus(tailIndex, 0)
  <2>1. tailIndex = a.T % IndexT
    BY DEF CountersFit, CountersUnwrap
  <2>2. Plus(a.T % IndexT, 0) = (a.T + 0) % IndexT
    BY <1>1, PlusOf
  <2> QED BY <1>1, <2>1, <2>2 DEF counters
<1>3. ASSUME NEW c \in Dequeuers, deq[c].pc \in {"overcommit", "count", "claim", "recheck"}
      PROVE  a.T + 0 <= a.since[c] + Stall'
  <2>1. /\ a.since[c] \in Nat /\ a.since[c] <= a.T /\ a.T <= a.since[c] + Stall
        /\ deq[c].since = a.since[c] % IndexT
    BY <1>3, UnwrappingType DEF CountersFit, DequeueFits, SinceFits
  <2>2. CASE Stall <= Stall'
    BY <1>1, <2>1, <2>2, Bounds
  <2>3. CASE ~IsEnqueueing /\ \E n \in Nat : MayEnqueue(n)
    <3>1. PICK n \in Nat : MayEnqueue(n)
      BY <2>3
    <3>2. c \in Claiming
      BY <1>3 DEF Claiming, Busy
    <3>3. Minus(tailIndex, deq[c].since) + n <= MaxStall
      BY <3>1, <3>2 DEF MayEnqueue
    <3>4. Minus(a.T % IndexT, a.since[c] % IndexT) = (a.T - a.since[c]) % IndexT
      <4>1. a.T \in Int /\ a.since[c] \in Int
        BY <1>1, <2>1
      <4> QED BY <4>1, MinusOf
    <3>5. PICK x \in Nat : x = a.T - a.since[c]
      BY <1>1, <2>1
    <3>6. x \in 0 .. IndexT - 1
      BY <1>1, <2>1, <3>5, Bounds, Widths
    <3>7. x % IndexT = x
      BY <3>6, Unwrapped
    <3>8. tailIndex = a.T % IndexT
      BY DEF CountersFit, CountersUnwrap
    <3>9. x + n <= MaxStall
      BY <2>1, <3>3, <3>4, <3>5, <3>7, <3>8
    <3>10. a.T <= a.since[c] + MaxStall
      BY <1>1, <2>1, <3>5, <3>9, Bounds
    <3>11. MaxStall <= Stall'
      BY Bounds DEF Stall
    <3> QED BY <1>1, <2>1, <3>10, <3>11, Bounds
  <2>4. Stall <= Stall' \/ (~IsEnqueueing /\ \E n \in Nat : MayEnqueue(n))
    BY Bounds DEF Stall
  <2> QED BY <2>2, <2>3, <2>4
<1>4. a.T + 0 - a.H < Half /\ a.T + 0 = a.T
  BY <1>1
<1>5. UNCHANGED <<headIndex, dequeueOptimisticCount, dequeueOvercommit>> /\ deq' = deq
  BY DEF counters
<1> QED BY <1>2, <1>3, <1>4, <1>5, EnqueueingFits

(* The items of an enqueue, n of them, go into the queue.                  *)
LEMMA EnqueueItemsFits ==
  ASSUME NEW a \in Unwrappings, CountersFit(a), NEW n \in 1 .. MaxCount,
         tailIndex' = Plus(tailIndex, n), deq' = deq,
         UNCHANGED <<headIndex, dequeueOptimisticCount, dequeueOvercommit>>,
         a.T + n - a.H < Half, ~IsEnqueueing',
         IsEnqueueing \/ MayEnqueue(n)
  PROVE  \E b \in Unwrappings : b.T = a.T + n /\ b.H = a.H /\ CountersFit(b)'
<1>1. a.T \in Nat /\ a.H \in Nat /\ n \in Nat
  BY UnwrappingType, Bounds
<1>2. ASSUME NEW c \in Dequeuers, deq[c].pc \in {"overcommit", "count", "claim", "recheck"}
      PROVE  a.T + n <= a.since[c] + Stall'
  <2>1. /\ a.since[c] \in Nat /\ a.since[c] <= a.T /\ a.T <= a.since[c] + Stall
        /\ deq[c].since = a.since[c] % IndexT
    BY <1>2, UnwrappingType DEF CountersFit, DequeueFits, SinceFits
  <2>2. Stall' = MaxStall + MaxCount /\ n <= MaxCount
    BY Bounds DEF Stall
  <2>3. CASE IsEnqueueing
    <3>1. Stall = MaxStall
      BY <2>3 DEF Stall
    <3> QED BY <1>1, <2>1, <2>2, <3>1, Bounds
  <2>4. CASE MayEnqueue(n)
    <3>2. c \in Claiming
      BY <1>2 DEF Claiming, Busy
    <3>3. Minus(tailIndex, deq[c].since) + n <= MaxStall
      BY <2>4, <3>2 DEF MayEnqueue
    <3>4. Minus(a.T % IndexT, a.since[c] % IndexT) = (a.T - a.since[c]) % IndexT
      <4>1. a.T \in Int /\ a.since[c] \in Int
        BY <1>1, <2>1
      <4> QED BY <4>1, MinusOf
    <3>5. PICK x \in Nat : x = a.T - a.since[c]
      BY <1>1, <2>1
    <3>6. x \in 0 .. IndexT - 1
      BY <1>1, <2>1, <3>5, Bounds, Widths
    <3>7. x % IndexT = x
      BY <3>6, Unwrapped
    <3>8. tailIndex = a.T % IndexT
      BY DEF CountersFit, CountersUnwrap
    <3>9. x + n <= MaxStall
      BY <2>1, <3>3, <3>4, <3>5, <3>7, <3>8
    <3> QED BY <1>1, <2>1, <2>2, <3>5, <3>9, Bounds
  <2> QED BY <2>3, <2>4
<1> QED BY <1>1, <1>2, EnqueueingFits

LEMMA TimesMonotonic ==
  ASSUME NEW x \in Int, NEW y \in Int, NEW k \in Nat, x <= y
  PROVE  x * k <= y * k /\ x * k \in Int /\ y * k \in Int
BY Z3

(* The block ends so that another one would still have leeway.             *)
LEMMA TopLower ==
  ASSUME NEW a \in Unwrappings, EnqFits(a), NEW t \in Nat, t <= Top(a), NEW h \in Nat, a.H <= h
  PROVE  t * BlockSize - h < Half
<1>1. a.H \in Nat /\ Top(a) \in Nat /\ Top(a) * BlockSize - a.H < Half
  BY TopType DEF EnqFits
<1>2. t * BlockSize <= Top(a) * BlockSize /\ t * BlockSize \in Int /\ Top(a) * BlockSize \in Int
  BY <1>1, Widths, TimesMonotonic
<1> QED BY <1>1, <1>2, Widths

LEMMA EnqueueHereFits ==
  ASSUME NEW a \in Unwrappings, CountersFit(a), EnqFits(a), NEW n \in 1 .. MaxCount,
         enq.pc = "idle", MayEnqueue(n), Needed(n) = 0, EnqueueItems(Begun(n)), UNCHANGED enq
  PROVE  /\ BlocksTo(a.T + n) = BlocksTo(a.T)
         /\ \E b \in Unwrappings : /\ b.T = a.T + n /\ b.H = a.H
                                   /\ CountersFit(b)' /\ EnqFits(b)'
<1>1. a.T \in Nat /\ a.H \in Nat /\ n \in Nat /\ BlocksTo(a.T) \in Nat
  BY TopType, Bounds
<1>2. tailIndex = a.T % IndexT
  BY DEF CountersFit, CountersUnwrap
<1>3. Needed(n) = BlocksTo(a.T + n) - BlocksTo(a.T) /\ BlocksTo(a.T + n) \in Nat
      /\ a.T + n <= BlocksTo(a.T + n) * BlockSize
  BY <1>1, <1>2, NeededOf, BlocksHold
<1>4. BlocksTo(a.T + n) = BlocksTo(a.T)
  BY <1>1, <1>3
<1>5. Top(a) = BlocksTo(a.T)
  BY <1>1 DEF EnqFits, Top
<1>6. BlocksTo(a.T) * BlockSize - a.H < Half /\ BlocksTo(a.T) * BlockSize \in Int
  BY <1>1, <1>5, TopLower, TopType
<1>7. a.T + n - a.H < Half
  BY <1>1, <1>3, <1>4, <1>6, Widths
<1>8. /\ tailIndex' = Plus(tailIndex, n) /\ deq' = deq
      /\ UNCHANGED <<headIndex, dequeueOptimisticCount, dequeueOvercommit>>
  BY DEF EnqueueItems, Begun, Waiting
<1>9. ~IsEnqueueing'
  BY DEF IsEnqueueing
<1>10. PICK b \in Unwrappings : b.T = a.T + n /\ b.H = a.H /\ CountersFit(b)'
  BY <1>7, <1>8, <1>9, EnqueueItemsFits
<1>11. Top(b)' = Top(a)
  BY <1>4, <1>10 DEF Top
<1>12. EnqFits(b)'
  BY <1>10, <1>11 DEF EnqFits, NeedFits, EnqueueItems
<1> QED BY <1>4, <1>10, <1>12

LEMMA BeginEnqueueFits ==
  ASSUME NEW a \in Unwrappings, CountersFit(a), EnqFits(a), BeginEnqueue
  PROVE  \E b \in Unwrappings : b.T = a.T /\ b.H = a.H /\ CountersFit(b)' /\ EnqFits(b)'
<1>1. a.T \in Nat /\ a.H \in Nat /\ BlocksTo(a.T) \in Nat
  BY TopType
<1>2. tailIndex = a.T % IndexT
  BY DEF CountersFit, CountersUnwrap
<1>3. PICK n \in 1 .. MaxCount :
        MayEnqueue(n) /\ Needed(n) > 0 /\ enq' = [Begun(n) EXCEPT !.pc = "index"]
  BY DEF BeginEnqueue
<1>4. n \in Nat
  BY Bounds
<1>5. PICK b \in Unwrappings : b.T = a.T /\ b.H = a.H /\ CountersFit(b)'
  <2>1. UNCHANGED <<counters, deq>> /\ \E m \in Nat : MayEnqueue(m)
    BY <1>3, <1>4 DEF BeginEnqueue
  <2> QED BY <2>1, EnqStepFits
<1>6. Needed(n) = BlocksTo(a.T + n) - BlocksTo(a.T) /\ BlocksTo(a.T + n) \in Nat
  BY <1>1, <1>2, <1>4, NeededOf, BlocksHold
<1>7. BaseBefore = Key(BlocksTo(a.T) - 1) /\ Key(BlocksTo(a.T) - 1) \in Int
  BY <1>1, <1>2, BaseBeforeOf, KeyType
<1>8. enq' = [pc |-> "index", count |-> n, need |-> Needed(n), base |-> BaseBefore,
              start |-> tailBlock, blocks |-> << >>]
  BY <1>3 DEF Begun, Waiting
<1>9. Needed(n) \in Nat /\ tailBlock \in Blocks \union {Null}
  <2>1. tailBlock \in Blocks \union {Null}
    BY DEF EnqFits
  <2> QED BY <1>1, <1>3, <1>6, <2>1
<1>10. enq' \in Enqueuing
  BY <1>4, <1>7, <1>8, <1>9 DEF Enqueuing, EnqPcs
<1>11. Top(a) = BlocksTo(a.T) /\ Top(b)' = BlocksTo(a.T)
  <2>1. enq.pc = "idle" /\ enq.blocks = << >> /\ Len(<< >>) = 0
    BY DEF BeginEnqueue, EnqFits
  <2>2. enq'.pc = "index" /\ enq'.blocks = << >>
    BY <1>8
  <2> QED BY <1>1, <1>5, <2>1, <2>2 DEF Top
<1>12. NeedFits(b)'
  BY <1>1, <1>5, <1>6, <1>7, <1>8 DEF NeedFits
<1>13. Top(b)' * BlockSize - b.H < Half
  BY <1>1, <1>5, <1>11, TopLower
<1>14. tailBlock' \in Blocks \union {Null}
  BY <1>9 DEF BeginEnqueue, storage
<1> QED BY <1>5, <1>8, <1>10, <1>12, <1>13, <1>14 DEF EnqFits

LEMMA InsertBlockIndexEntryFits ==
  ASSUME NEW a \in Unwrappings, CountersFit(a), EnqFits(a), InsertBlockIndexEntry
  PROVE  /\ enq.base = Key(Top(a) - 1) /\ NextBase = Key(Top(a))
         /\ \E b \in Unwrappings : b.T = a.T /\ b.H = a.H /\ CountersFit(b)' /\ EnqFits(b)'
<1>1. /\ a.T \in Nat /\ a.H \in Nat /\ BlocksTo(a.T) \in Nat /\ Top(a) \in Nat
      /\ a.T <= Top(a) * BlockSize /\ Top(a) * BlockSize \in Int
  BY TopType
<1>2. enq.pc = "index" /\ enq.need > 0 /\ HasLeeway(NextBase) /\ enq' = [enq EXCEPT !.pc = "inserted"]
      /\ UNCHANGED <<counters, deq, tailBlock>>
  BY DEF InsertBlockIndexEntry, NeedsBlock, InsertNextEntry
<1>3. enq \in Enqueuing /\ enq.blocks \in Seq(Blocks) /\ Len(enq.blocks) \in Nat /\ enq.need \in Nat
  BY EnqType DEF EnqFits
<1>4. Top(a) = BlocksTo(a.T) + Len(enq.blocks)
  BY <1>1, <1>2, <1>3 DEF Top
<1>5. PICK b \in Unwrappings : b.T = a.T /\ b.H = a.H /\ CountersFit(b)'
  <2>1. IsEnqueueing
    BY <1>2 DEF IsEnqueueing
  <2> QED BY <1>2, <2>1, EnqStepFits
<1>6. enq.base = Key(Top(a) - 1)
  <2>1. Top(a) - 1 = BlocksTo(a.T) + Len(enq.blocks) - 1
    BY <1>1, <1>3, <1>4
  <2> QED BY <1>2, <2>1 DEF EnqFits, NeedFits
<1>7. NextBase = Key(Top(a))
  <2>1. Top(a) - 1 \in Int /\ (Top(a) - 1) + 1 = Top(a)
    BY <1>1
  <2>2. Plus(Key(Top(a) - 1), BlockSize) = Key((Top(a) - 1) + 1)
    BY <2>1, KeyPlus
  <2> QED BY <1>6, <2>1, <2>2 DEF NextBase
<1>8. (Top(a) + 1) * BlockSize - a.H < Half
  <2>1. headIndex = a.H % IndexT /\ a.H <= a.T
    BY DEF CountersFit, CountersUnwrap
  <2>2. Top(a) * BlockSize - a.H < Half
    BY DEF EnqFits
  <2>3. PICK t \in Int : t = Top(a) * BlockSize
    BY <1>1
  <2>4. PICK u \in Int : u = (Top(a) + 1) * BlockSize /\ u = t + BlockSize
    BY <1>1, <2>3, Widths
  <2>5. (Top(a) + 1) * BlockSize - a.H >= -Half /\ (Top(a) + 1) * BlockSize - a.H <= IndexT
    <3>1. u - a.H >= -Half /\ u - a.H <= IndexT
      BY <1>1, <2>1, <2>2, <2>3, <2>4, Widths
    <3> QED BY <2>4, <3>1
  <2>6. HasLeeway(Key(Top(a))) <=> (Top(a) + 1) * BlockSize - a.H \in 1 .. Half - 1
    BY <1>1, <2>1, <2>5, LeewayOf
  <2> QED BY <1>2, <1>7, <2>6, Widths
<1>9. enq' \in Enqueuing /\ enq'.blocks = enq.blocks /\ enq'.need = enq.need /\ enq'.base = enq.base
      /\ enq'.count = enq.count /\ enq'.pc = "inserted"
  BY <1>2, <1>3 DEF Enqueuing, EnqPcs
<1>10. Top(b)' = Top(a) + 1
  BY <1>1, <1>2, <1>3, <1>4, <1>5, <1>9 DEF Top
<1>11. EnqFits(b)'
  <2>1. NeedFits(b)'
    BY <1>2, <1>5, <1>9 DEF EnqFits, NeedFits
  <2>2. tailBlock' \in Blocks \union {Null}
    BY <1>2 DEF EnqFits
  <2> QED BY <1>2, <1>5, <1>8, <1>9, <1>10, <2>1, <2>2 DEF EnqFits
<1> QED BY <1>5, <1>6, <1>7, <1>11

LEMMA TakeBlockFits ==
  ASSUME NEW a \in Unwrappings, CountersFit(a), EnqFits(a), NEW x \in Blocks, TakeBlock(x)
  PROVE  \E b \in Unwrappings : b.T = a.T /\ b.H = a.H /\ CountersFit(b)' /\ EnqFits(b)'
                                /\ Top(b)' = Top(a)
<1>1. /\ a.T \in Nat /\ a.H \in Nat /\ BlocksTo(a.T) \in Nat /\ Top(a) \in Nat
  BY TopType
<1>2. /\ enq.pc = "inserted" /\ enq' = [Took(x) EXCEPT !.pc = "index"] /\ tailBlock' = x
      /\ UNCHANGED <<counters, deq>>
  BY DEF TakeBlock, TakeBlockWith
<1>3. enq \in Enqueuing /\ enq.blocks \in Seq(Blocks) /\ Len(enq.blocks) \in Nat
      /\ enq.need \in Nat /\ enq.need > 0
  BY <1>2, EnqType DEF EnqFits
<1>4. Top(a) = BlocksTo(a.T) + Len(enq.blocks) + 1
  BY <1>1, <1>2, <1>3 DEF Top
<1>5. PICK b \in Unwrappings : b.T = a.T /\ b.H = a.H /\ CountersFit(b)'
  <2>1. IsEnqueueing
    BY <1>2 DEF IsEnqueueing
  <2> QED BY <1>2, <2>1, EnqStepFits
<1>6. NextBase = Key(BlocksTo(a.T) + Len(enq.blocks))
  <2>1. enq.base = Key(BlocksTo(a.T) + Len(enq.blocks) - 1)
    BY <1>2 DEF EnqFits, NeedFits
  <2>2. PICK B \in Int : B = BlocksTo(a.T) + Len(enq.blocks) - 1
    BY <1>1, <1>3
  <2>3. Plus(Key(B), BlockSize) = Key(B + 1)
    BY <2>2, KeyPlus
  <2>4. B + 1 = BlocksTo(a.T) + Len(enq.blocks)
    BY <1>1, <1>3, <2>2
  <2> QED BY <2>1, <2>2, <2>3, <2>4 DEF NextBase
<1>7. /\ enq'.pc = "index" /\ enq'.need = enq.need - 1 /\ enq'.base = NextBase
      /\ enq'.count = enq.count /\ enq'.start = enq.start
      /\ enq'.blocks = Append(enq.blocks, x)
      /\ enq' \in Enqueuing
  <2>1. Append(enq.blocks, x) \in Seq(Blocks)
    BY <1>3
  <2>2. NextBase \in Int
    <3>1. PICK B \in Int : B = BlocksTo(a.T) + Len(enq.blocks)
      BY <1>1, <1>3
    <3> QED BY <1>6, <3>1, KeyType
  <2>3. enq.need - 1 \in Nat
    BY <1>3
  <2>4. PICK bs \in Seq(Blocks) : bs = Append(enq.blocks, x)
    BY <2>1
  <2>5. PICK t : t = [enq EXCEPT !.need = @ - 1, !.base = NextBase, !.blocks = bs]
    OBVIOUS
  <2>6. t = Took(x)
    BY <2>4, <2>5 DEF Took
  <2>7. enq' = [t EXCEPT !.pc = "index"]
    BY <1>2, <2>6
  <2> QED BY <1>3, <2>2, <2>3, <2>4, <2>5, <2>7 DEF Enqueuing, EnqPcs
<1>8. Len(enq'.blocks) = Len(enq.blocks) + 1
  BY <1>3, <1>7
<1>9. Top(b)' = Top(a)
  BY <1>1, <1>3, <1>4, <1>5, <1>7, <1>8 DEF Top
<1>10. NeedFits(b)'
  <2>1. /\ enq.count \in 1 .. MaxCount
        /\ enq.need + Len(enq.blocks) = BlocksTo(a.T + enq.count) - BlocksTo(a.T)
    BY <1>2 DEF EnqFits, NeedFits
  <2>2. enq'.need + Len(enq'.blocks) = BlocksTo(a.T + enq.count) - BlocksTo(a.T)
    BY <1>3, <1>7, <1>8, <2>1
  <2>3. BlocksTo(a.T) + Len(enq'.blocks) - 1 = BlocksTo(a.T) + Len(enq.blocks)
    BY <1>1, <1>3, <1>8
  <2> QED BY <1>5, <1>6, <1>7, <2>1, <2>2, <2>3 DEF NeedFits
<1>11. Top(b)' * BlockSize - b.H < Half
  BY <1>5, <1>9 DEF EnqFits
<1> QED BY <1>2, <1>5, <1>7, <1>9, <1>10, <1>11 DEF EnqFits

LEMMA EnqStays ==
  ASSUME NEW a \in Unwrappings, EnqFits(a), NEW b \in Unwrappings, b.T = a.T, a.H <= b.H,
         UNCHANGED <<enq, tailBlock>>
  PROVE  EnqFits(b)' /\ Top(b)' = Top(a) /\ Undone' = Undone
<1>1. Top(b)' = Top(a) /\ Undone' = Undone
  BY DEF Top, Undone
<1>2. Top(a) * BlockSize - b.H < Half
  <2>1. Top(a) \in Nat /\ b.H \in Nat
    BY TopType, UnwrappingType
  <2> QED BY <2>1, TopLower
<1> QED BY <1>1, <1>2 DEF EnqFits, NeedFits

LEMMA NewBlockIndexFits ==
  ASSUME NEW a \in Unwrappings, CountersFit(a), EnqFits(a), NewBlockIndex
  PROVE  \E b \in Unwrappings : b.T = a.T /\ b.H = a.H /\ CountersFit(b)' /\ EnqFits(b)'
<1>1. enq.pc = "index" /\ UNCHANGED <<counters, deq, enq, tailBlock>> /\ a.H \in Nat
  BY UnwrappingType DEF NewBlockIndex, NeedsBlock
<1>2. PICK b \in Unwrappings : b.T = a.T /\ b.H = a.H /\ CountersFit(b)'
  BY <1>1, EnqStepFits DEF IsEnqueueing
<1>3. UNCHANGED <<enq, tailBlock>> /\ a.H <= b.H
  BY <1>1, <1>2
<1> QED BY <1>2, <1>3, EnqStays

LEMMA FinishEnqueueFits ==
  ASSUME NEW a \in Unwrappings, CountersFit(a), EnqFits(a), FinishEnqueue
  PROVE  /\ enq.count \in 1 .. MaxCount
         /\ BlocksTo(a.T + enq.count) = BlocksTo(a.T) + Len(enq.blocks)
         /\ \E b \in Unwrappings : /\ b.T = a.T + enq.count /\ b.H = a.H
                                   /\ CountersFit(b)' /\ EnqFits(b)'
<1>1. /\ a.T \in Nat /\ a.H \in Nat /\ BlocksTo(a.T) \in Nat /\ Top(a) \in Nat
      /\ Top(a) * BlockSize \in Int
  BY TopType
<1>2. enq.pc = "index" /\ enq.need = 0 /\ EnqueueItems(enq) /\ enq' = Waiting
  BY DEF FinishEnqueue
<1>3. enq \in Enqueuing /\ Len(enq.blocks) \in Nat
  BY EnqType DEF EnqFits
<1>4. /\ enq.count \in 1 .. MaxCount
      /\ Len(enq.blocks) = BlocksTo(a.T + enq.count) - BlocksTo(a.T)
  BY <1>2, <1>3 DEF EnqFits, NeedFits
<1>5. /\ enq.count \in Nat /\ BlocksTo(a.T + enq.count) \in Nat
      /\ a.T + enq.count <= BlocksTo(a.T + enq.count) * BlockSize
  <2>1. PICK t \in Nat : t = a.T + enq.count
    BY <1>1, <1>4, Bounds
  <2>2. BlocksTo(t) \in Nat /\ t <= BlocksTo(t) * BlockSize
    BY <2>1, BlocksHold
  <2>3. enq.count \in Nat
    BY <1>4, Bounds
  <2> QED BY <2>1, <2>2, <2>3
<1>6. BlocksTo(a.T + enq.count) = Top(a) /\ Top(a) = BlocksTo(a.T) + Len(enq.blocks)
  BY <1>1, <1>2, <1>3, <1>4, <1>5 DEF Top
<1>7. a.T + enq.count - a.H < Half
  <2>1. a.T + enq.count <= Top(a) * BlockSize /\ Top(a) * BlockSize - a.H < Half
    BY <1>5, <1>6 DEF EnqFits
  <2> QED BY <2>1, <1>1, <1>5, Widths
<1>8. /\ tailIndex' = Plus(tailIndex, enq.count) /\ deq' = deq /\ tailBlock' = tailBlock
      /\ UNCHANGED <<headIndex, dequeueOptimisticCount, dequeueOvercommit>>
  BY <1>2 DEF EnqueueItems
<1>9. IsEnqueueing /\ ~IsEnqueueing'
  BY <1>2, WaitingType DEF IsEnqueueing
<1>10. PICK b \in Unwrappings : b.T = a.T + enq.count /\ b.H = a.H /\ CountersFit(b)'
  BY <1>4, <1>7, <1>8, <1>9, EnqueueItemsFits
<1>11. Top(b)' = Top(a)
  <2>1. enq'.blocks = << >> /\ enq'.pc = "idle" /\ Len(<< >>) = 0
    BY <1>2, WaitingType
  <2> QED BY <2>1, <1>1, <1>6, <1>10 DEF Top
<1>12. EnqFits(b)'
  BY <1>2, <1>8, <1>10, <1>11, WaitingType DEF EnqFits, NeedFits
<1> QED BY <1>1, <1>3, <1>4, <1>6, <1>10, <1>12

LEMMA UndoingFits ==
  ASSUME NEW a \in Unwrappings, CountersFit(a), EnqFits(a), enq.pc \in {"index", "inserted"},
         enq' = Undoing, UNCHANGED <<counters, deq, tailBlock>>
  PROVE  /\ enq'.blocks = enq.blocks /\ Undone' = 0
         /\ enq'.pc = IF enq.blocks = << >> THEN "idle" ELSE "undo"
         /\ enq.blocks # << >> => enq'.start = enq.start
         /\ \E b \in Unwrappings : /\ b.T = a.T /\ b.H = a.H
                                   /\ CountersFit(b)' /\ EnqFits(b)'
<1>1. /\ a.T \in Nat /\ a.H \in Nat /\ BlocksTo(a.T) \in Nat /\ Top(a) \in Nat
  BY TopType
<1>2. PICK b \in Unwrappings : b.T = a.T /\ b.H = a.H /\ CountersFit(b)'
  BY EnqStepFits DEF IsEnqueueing
<1>3. /\ enq \in Enqueuing /\ Len(enq.blocks) \in Nat /\ enq.blocks \in Seq(Blocks)
      /\ tailBlock' \in Blocks \union {Null}
  BY EnqType DEF EnqFits
<1>4. CASE enq.blocks = << >>
  <2>1. enq' = Waiting
    BY <1>4 DEF Undoing
  <2>2. enq'.blocks = << >> /\ enq'.pc = "idle" /\ Len(<< >>) = 0
    BY <2>1, WaitingType
  <2>3. Top(b)' = BlocksTo(a.T) /\ Undone' = 0
    BY <2>2, <1>1, <1>2 DEF Top, Undone
  <2>4. Top(b)' * BlockSize - b.H < Half
    <3>1. BlocksTo(a.T) <= Top(a)
      BY TopType
    <3> QED BY <3>1, <2>3, <1>1, <1>2, TopLower
  <2>5. EnqFits(b)'
    BY <1>3, <2>1, <2>2, <2>4, WaitingType DEF EnqFits, NeedFits
  <2> QED BY <1>2, <1>4, <2>2, <2>3, <2>5
<1>5. CASE enq.blocks # << >>
  <2>1. enq' = [enq EXCEPT !.pc = "undo", !.base = BaseBefore, !.need = Len(enq.blocks)]
    BY <1>5 DEF Undoing
  <2>2. BaseBefore = Key(BlocksTo(a.T) - 1) /\ Key(BlocksTo(a.T) - 1) \in Int
    <3>1. tailIndex = a.T % IndexT
      BY DEF CountersFit, CountersUnwrap
    <3> QED BY <3>1, <1>1, BaseBeforeOf, KeyType
  <2>3. /\ enq' \in Enqueuing /\ enq'.pc = "undo" /\ enq'.blocks = enq.blocks
        /\ enq'.base = BaseBefore /\ enq'.need = Len(enq.blocks) /\ enq'.start = enq.start
    BY <1>3, <2>1, <2>2 DEF Enqueuing, EnqPcs
  <2>4. Undone' = 0
    BY <2>3, <1>3 DEF Undone
  <2>5. Top(b)' = BlocksTo(a.T) + Len(enq.blocks)
    BY <1>1, <1>2, <1>3, <2>3 DEF Top
  <2>6. Top(b)' <= Top(a) /\ Top(b)' \in Nat
    BY <1>1, <1>3, <2>5 DEF Top
  <2>7. Top(b)' * BlockSize - b.H < Half
    BY <2>6, <1>1, <1>2, TopLower
  <2>8. BlocksTo(a.T) + 0 - 1 = BlocksTo(a.T) - 1
    BY <1>1
  <2>9. EnqFits(b)'
    BY <1>2, <1>3, <2>2, <2>3, <2>4, <2>7, <2>8 DEF EnqFits, NeedFits
  <2> QED BY <1>2, <1>5, <2>3, <2>4, <2>9
<1> QED BY <1>4, <1>5

LEMMA UndoBlockFits ==
  ASSUME NEW a \in Unwrappings, CountersFit(a), EnqFits(a), UndoBlock
  PROVE  /\ enq'.blocks = enq.blocks /\ Undone' = Undone + 1 /\ enq'.pc = "undo"
         /\ enq'.start = enq.start /\ Undone < Len(enq.blocks)
         /\ NextBase = Key(BlocksTo(a.T) + Undone)
         /\ \E b \in Unwrappings : /\ b.T = a.T /\ b.H = a.H
                                   /\ CountersFit(b)' /\ EnqFits(b)'
<1>1. /\ a.T \in Nat /\ a.H \in Nat /\ BlocksTo(a.T) \in Nat /\ Top(a) \in Nat /\ Undone \in Nat
  BY TopType
<1>2. /\ enq.pc = "undo" /\ enq.need > 0 /\ enq' = [enq EXCEPT !.need = @ - 1, !.base = NextBase]
      /\ UNCHANGED <<counters, deq, tailBlock>>
  BY DEF UndoBlock
<1>3. /\ enq \in Enqueuing /\ Len(enq.blocks) \in Nat /\ enq.blocks \in Seq(Blocks)
      /\ tailBlock' \in Blocks \union {Null} /\ enq.need \in Nat /\ enq.need <= Len(enq.blocks)
      /\ enq.base = Key(BlocksTo(a.T) + Undone - 1)
  BY <1>2, EnqType DEF EnqFits
<1>4. PICK b \in Unwrappings : b.T = a.T /\ b.H = a.H /\ CountersFit(b)'
  BY <1>2, EnqStepFits DEF IsEnqueueing
<1>5. NextBase = Key(BlocksTo(a.T) + Undone)
  <2>1. PICK B \in Int : B = BlocksTo(a.T) + Undone - 1
    BY <1>1
  <2>2. Plus(Key(B), BlockSize) = Key(B + 1)
    BY <2>1, KeyPlus
  <2>3. B + 1 = BlocksTo(a.T) + Undone
    BY <1>1, <2>1
  <2> QED BY <1>3, <2>1, <2>2, <2>3 DEF NextBase
<1>6. NextBase \in Int /\ enq.need - 1 \in Nat
  <2>1. BlocksTo(a.T) + Undone \in Int
    BY <1>1
  <2> QED BY <1>2, <1>3, <1>5, <2>1, KeyType
<1>7. /\ enq' \in Enqueuing /\ enq'.pc = "undo" /\ enq'.blocks = enq.blocks
      /\ enq'.base = NextBase /\ enq'.need = enq.need - 1 /\ enq'.start = enq.start
  BY <1>2, <1>3, <1>6 DEF Enqueuing, EnqPcs
<1>8. Undone' = Undone + 1 /\ Undone < Len(enq.blocks)
  BY <1>2, <1>3, <1>7 DEF Undone
<1>9. Top(b)' = Top(a)
  BY <1>1, <1>2, <1>3, <1>4, <1>7 DEF Top
<1>10. Top(b)' * BlockSize - b.H < Half
  BY <1>4, <1>9 DEF EnqFits
<1>11. BlocksTo(a.T) + (Undone + 1) - 1 = BlocksTo(a.T) + Undone
  BY <1>1
<1>12. enq'.need <= Len(enq'.blocks)
  BY <1>3, <1>7
<1>13. EnqFits(b)'
  BY <1>3, <1>4, <1>5, <1>7, <1>8, <1>10, <1>11, <1>12 DEF EnqFits, NeedFits
<1> QED BY <1>4, <1>5, <1>7, <1>8, <1>13

LEMMA WaitFits ==
  ASSUME NEW a \in Unwrappings, CountersFit(a), EnqFits(a), enq' \in Enqueuing,
         enq'.pc \in {"idle", "destroyed"}, enq'.blocks = << >>,
         tailBlock' \in Blocks \union {Null}, UNCHANGED <<counters, deq>>
  PROVE  /\ Undone' = 0
         /\ \E b \in Unwrappings : /\ b.T = a.T /\ b.H = a.H
                                   /\ CountersFit(b)' /\ EnqFits(b)'
<1>1. /\ a.T \in Nat /\ a.H \in Nat /\ BlocksTo(a.T) \in Nat /\ BlocksTo(a.T) <= Top(a)
  BY TopType
<1>2. PICK b \in Unwrappings : b.T = a.T /\ b.H = a.H /\ CountersFit(b)'
  BY EnqStepFits DEF IsEnqueueing
<1>3. Top(b)' = BlocksTo(a.T) /\ Undone' = 0
  <2>1. Len(<< >>) = 0
    OBVIOUS
  <2> QED BY <2>1, <1>1, <1>2 DEF Top, Undone
<1>4. Top(b)' * BlockSize - b.H < Half
  BY <1>1, <1>2, <1>3, TopLower
<1> QED BY <1>2, <1>3, <1>4 DEF EnqFits, NeedFits

-----------------------------------------------------------------------------
(* What the index is, and which entries blocks have.                       *)

LEMMA LayoutType ==
  ASSUME NEW g \in Layouts
  PROVE  /\ g.off \in [Nat -> Int] /\ g.low \in Nat /\ g.idx \in [Dequeuers -> Nat]
         /\ \A h \in Nat : g.off[h] \in Int
         /\ \A c \in Dequeuers : g.idx[c] \in Nat
BY DEF Layouts

LEMMA EntriesType ==
  ASSUME index \in BlockIndexes
  PROVE  /\ index = [entries |-> entries, indexes |-> indexes]
         /\ entries \in Seq(EntryType) /\ Len(entries) \in Nat
         /\ DOMAIN entries = 1 .. Len(entries)
         /\ indexes \in Seq(HeaderType) /\ blockIndex \in Nat
         /\ DOMAIN indexes = 1 .. blockIndex
         /\ \A e \in 1 .. Len(entries) :
              entries[e] \in EntryType /\ entries[e].key \in Indices
              /\ entries[e].value \in Blocks \union {Null}
         /\ \A h \in 1 .. blockIndex :
              /\ indexes[h] \in HeaderType /\ Cap(h) \in Nat \ {0} /\ Cap(h) <= MaxCapacity
              /\ indexes[h].tail \in Int /\ indexes[h].index \in Rings
              /\ indexes[h] = [capacity |-> Cap(h), tail |-> indexes[h].tail,
                               index |-> indexes[h].index]
<1>1. MaxCapacity \in Nat
  BY QueueAssumption
<1>2. entries \in Seq(EntryType) /\ indexes \in Seq(HeaderType)
      /\ index = [entries |-> entries, indexes |-> indexes]
  BY DEF BlockIndexes, entries, indexes
<1>3. \A e \in 1 .. Len(entries) : entries[e] \in EntryType
  BY <1>2
<1>4. \A h \in 1 .. Len(indexes) : indexes[h] \in HeaderType
  BY <1>2
<1>5. ASSUME NEW r \in HeaderType
      PROVE  /\ r.capacity \in Nat \ {0} /\ r.capacity <= MaxCapacity /\ r.tail \in Int
             /\ r.index \in Rings
             /\ r = [capacity |-> r.capacity, tail |-> r.tail, index |-> r.index]
  BY <1>1 DEF HeaderType
<1>6. ASSUME NEW r \in EntryType PROVE r.key \in Indices /\ r.value \in Blocks \union {Null}
  BY DEF EntryType
<1> QED BY <1>2, <1>3, <1>4, <1>5, <1>6 DEF blockIndex, Cap

LEMMA RingFacts ==
  ASSUME NEW a \in Unwrappings, NEW g \in Layouts, RingsFit(a, g), EnqFits(a)
  PROVE  /\ \A h \in 1 .. blockIndex : \A B \in Int :
              /\ Pos(g, h, B) \in 0 .. Cap(h) - 1
              /\ indexes[h].index[Pos(g, h, B)] \in 1 .. Len(entries)
         /\ blockIndex # 0 => /\ \A B \in Int : EntryNo(g, B) \in 1 .. Len(entries)
                              /\ Cap(blockIndex) = Len(entries) /\ blockIndex \in 1 .. blockIndex
                              /\ Len(entries) \in Nat \ {0} /\ Len(entries) <= MaxCapacity
         /\ blockIndex = 0 => Live(a, g) = {} /\ Top(a) = 0
         /\ Live(a, g) \subseteq Nat
<1>1. index \in BlockIndexes
  BY DEF RingsFit
<1>2. ASSUME NEW h \in 1 .. blockIndex, NEW B \in Int
      PROVE  /\ Pos(g, h, B) \in 0 .. Cap(h) - 1
             /\ indexes[h].index[Pos(g, h, B)] \in 1 .. Len(entries)
  <2>1. Cap(h) \in Nat \ {0} /\ h \in Nat
    BY <1>1, EntriesType
  <2>2. PICK x \in Int : x = B + g.off[h]
    BY <2>1, LayoutType
  <2>3. x % Cap(h) \in 0 .. Cap(h) - 1
    BY <2>1, Division
  <2>4. Pos(g, h, B) \in 0 .. Cap(h) - 1
    BY <2>2, <2>3 DEF Pos
  <2> QED BY <2>4 DEF RingsFit, ShapeFits
<1>3. blockIndex # 0 => blockIndex \in 1 .. blockIndex
  BY <1>1, EntriesType
<1>4. blockIndex # 0 => /\ \A B \in Int : EntryNo(g, B) \in 1 .. Len(entries)
                        /\ Cap(blockIndex) = Len(entries)
                        /\ Len(entries) \in Nat \ {0} /\ Len(entries) <= MaxCapacity
  BY <1>1, <1>2, <1>3, EntriesType DEF RingsFit, EntryNo
<1>5. g.low \in Nat /\ Top(a) \in Nat
  BY LayoutType, TopType
<1>6. blockIndex = 0 => Live(a, g) = {} /\ Top(a) = 0
  <2>1. BlocksTo(0) = 0
    <3>1. BlockSize \in Nat \ {0}
      BY Widths
    <3>2. PICK r \in 0 .. BlockSize - 1 : r = 0 + BlockSize - 1
      BY <3>1
    <3>3. (BlockSize * 0 + r) \div BlockSize = 0
      BY <3>1, DivisionUnique
    <3>4. BlockSize * 0 + r = 0 + BlockSize - 1
      BY <3>1, <3>2
    <3> QED BY <3>3, <3>4 DEF BlocksTo
  <2>2. Len(<< >>) = 0
    OBVIOUS
  <2>3. ASSUME blockIndex = 0 PROVE Top(a) = 0
    BY <2>1, <2>2, <2>3 DEF RingsFit, NoIndex, Top
  <2> QED BY <2>3, <1>5 DEF Live
<1>7. Live(a, g) \subseteq Nat
  BY <1>5 DEF Live
<1> QED BY <1>2, <1>3, <1>4, <1>6, <1>7

(* Blocks not farther apart than the index is long have different entries. *)
LEMMA EntryNoSame ==
  ASSUME NEW a \in Unwrappings, NEW g \in Layouts, RingsFit(a, g), EnqFits(a),
         blockIndex # 0, NEW B \in Int, NEW C \in Int, EntryNo(g, B) = EntryNo(g, C),
         B - C < Len(entries), C - B < Len(entries)
  PROVE  B = C
<1>1. /\ blockIndex \in 1 .. blockIndex /\ Cap(blockIndex) = Len(entries)
      /\ Len(entries) \in Nat \ {0} /\ Pos(g, blockIndex, C) \in 0 .. Cap(blockIndex) - 1
  BY RingFacts
<1>2. Pos(g, blockIndex, B) = Pos(g, blockIndex, C)
  BY <1>1 DEF RingsFit, Nested, EntryNo
<1>3. g.off[blockIndex] \in Int
  BY <1>1, LayoutType
<1>4. PICK x \in Int, y \in Int : x = B + g.off[blockIndex] /\ y = C + g.off[blockIndex]
  BY <1>3
<1>5. x % Len(entries) = y % Len(entries)
  BY <1>1, <1>2, <1>4 DEF Pos
<1>6. x - y < Len(entries) /\ y - x < Len(entries)
  BY <1>1, <1>3, <1>4
<1>7. x = y
  BY <1>1, <1>5, <1>6, ModSame
<1> QED BY <1>3, <1>4, <1>7

LEMMA LiveFacts ==
  ASSUME NEW a \in Unwrappings, NEW g \in Layouts, RingsFit(a, g), EnqFits(a), KeysFit(a, g)
  PROVE  /\ \A B \in Live(a, g) :
              /\ B \in Nat /\ EntryNo(g, B) \in 1 .. Len(entries) /\ blockIndex # 0
              /\ Store(a, g, B) = entries[EntryNo(g, B)].value
              /\ entries[EntryNo(g, B)].key = Key(B)
         /\ \A B : Store(a, g, B) # Null => B \in Live(a, g) /\ Store(a, g, B) \in Blocks
         /\ \A B, C \in Live(a, g) : EntryNo(g, B) = EntryNo(g, C) => B = C
         /\ \A e \in 1 .. Len(entries) : entries[e].value # Null =>
              \E B \in Live(a, g) : EntryNo(g, B) = e /\ Store(a, g, B) = entries[e].value
<1>1. index \in BlockIndexes /\ Live(a, g) \subseteq Nat
  BY RingFacts DEF RingsFit
<1>2. \A B \in Live(a, g) :
              /\ B \in Nat /\ EntryNo(g, B) \in 1 .. Len(entries) /\ blockIndex # 0
              /\ Store(a, g, B) = entries[EntryNo(g, B)].value
              /\ entries[EntryNo(g, B)].key = Key(B)
  BY <1>1, RingFacts DEF Store, KeysFit
<1>3. ASSUME NEW B, Store(a, g, B) # Null PROVE B \in Live(a, g) /\ Store(a, g, B) \in Blocks
  <2>1. B \in Live(a, g)
    BY <1>3 DEF Store
  <2> QED BY <1>1, <1>2, <1>3, <2>1, EntriesType
<1>4. ASSUME NEW B \in Live(a, g), NEW C \in Live(a, g), EntryNo(g, B) = EntryNo(g, C)
      PROVE  B = C
  <2>1. Top(a) <= g.low + Len(entries) /\ Top(a) \in Nat /\ g.low \in Nat /\ Len(entries) \in Nat
    BY <1>1, EntriesType, TopType, LayoutType DEF KeysFit
  <2>2. B \in Int /\ C \in Int /\ B - C < Len(entries) /\ C - B < Len(entries)
    BY <2>1, <1>1 DEF Live
  <2> QED BY <1>2, <1>4, <2>2, EntryNoSame
<1>5. DOMAIN entries = 1 .. Len(entries)
  BY <1>1, EntriesType
<1>6. \A e \in 1 .. Len(entries) : entries[e].value # Null =>
              \E B \in Live(a, g) : EntryNo(g, B) = e /\ Store(a, g, B) = entries[e].value
  BY <1>2, <1>5 DEF KeysFit
<1> QED BY <1>2, <1>3, <1>4, <1>6

(* A block is in the index once.                                           *)
LEMMA StoreOnce ==
  ASSUME NEW a \in Unwrappings, NEW g \in Layouts, RingsFit(a, g), EnqFits(a), KeysFit(a, g),
         PlacesFit, enq.pc # "destroyed", NEW B, NEW C,
         Store(a, g, B) # Null, Store(a, g, B) = Store(a, g, C)
  PROVE  B = C
<1>1. PICK b \in Blocks : b = Store(a, g, B)
  BY LiveFacts
<1>2. B \in Live(a, g) /\ C \in Live(a, g)
  BY LiveFacts
<1>3. /\ EntryNo(g, B) \in DOMAIN entries /\ entries[EntryNo(g, B)].value = b
      /\ EntryNo(g, C) \in DOMAIN entries /\ entries[EntryNo(g, C)].value = b
  <2>1. DOMAIN entries = 1 .. Len(entries)
    BY EntriesType DEF RingsFit
  <2> QED BY <2>1, <1>1, <1>2, LiveFacts
<1>4. <<"entry", EntryNo(g, B)>> \in Claims(b) /\ <<"entry", EntryNo(g, C)>> \in Claims(b)
  BY <1>3 DEF Claims
<1>5. EntryNo(g, B) = EntryNo(g, C)
  <2>1. PICK p : Claims(b) = {p}
    BY DEF PlacesFit, IsOne
  <2>2. <<"entry", EntryNo(g, B)>> = <<"entry", EntryNo(g, C)>>
    BY <1>4, <2>1
  <2> QED BY <2>2
<1> QED BY <1>2, <1>5, LiveFacts

-----------------------------------------------------------------------------
(* What a step leaves as it is.  b and h are counters and layout after it. *)

(* No index is added, and the entries stay where they are in each.         *)
RingsStay ==
  /\ blockIndex' = blockIndex /\ Len(entries') = Len(entries)
  /\ \A k \in 1 .. blockIndex : /\ indexes'[k].capacity = indexes[k].capacity
                                /\ indexes'[k].index = indexes[k].index

LEMMA IndexStays ==
  ASSUME index' = index
  PROVE  /\ RingsStay /\ entries' = entries /\ indexes' = indexes
         /\ index \in BlockIndexes => index' \in BlockIndexes
BY DEF RingsStay, entries, indexes, blockIndex

LEMMA PositionsStay ==
  ASSUME NEW a \in Unwrappings, NEW g \in Layouts, NEW h \in Layouts, h.off = g.off,
         RingsFit(a, g), EnqFits(a), RingsStay
  PROVE  /\ \A k \in 1 .. blockIndex : \A B : Pos(h, k, B)' = Pos(g, k, B)
         /\ blockIndex # 0 => \A B : EntryNo(h, B)' = EntryNo(g, B)
         /\ Nested(h)'
<1>1. \A k \in 1 .. blockIndex : \A B : Pos(h, k, B)' = Pos(g, k, B)
  BY DEF RingsStay, Pos, Cap
<1>2. blockIndex # 0 => \A B : EntryNo(h, B)' = EntryNo(g, B)
  BY <1>1, RingFacts DEF RingsStay, EntryNo
<1>3. Nested(h)'
  BY <1>1, <1>2 DEF RingsFit, Nested, RingsStay, Cap
<1> QED BY <1>1, <1>2, <1>3

LEMMA RingsStayFit ==
  ASSUME NEW a \in Unwrappings, NEW g \in Layouts, NEW h \in Layouts, h.off = g.off,
         RingsFit(a, g), EnqFits(a), RingsStay, NEW b \in Unwrappings,
         index' \in BlockIndexes, blockIndex = 0 => NoIndex(b)',
         \A k \in 1 .. blockIndex : k # blockIndex => indexes'[k].tail = indexes[k].tail,
         blockIndex # 0 =>
           indexes'[blockIndex].tail = Pos(g, blockIndex, Top(b)' - 1 - Undone'),
         Top(b)' - 1 - Undone' \in Int
  PROVE  RingsFit(b, h)'
<1>1. /\ \A k \in 1 .. blockIndex : \A B : Pos(h, k, B)' = Pos(g, k, B)
      /\ Nested(h)'
  BY PositionsStay
<1>2. blockIndex # 0 => /\ blockIndex \in 1 .. blockIndex /\ Cap(blockIndex) = Len(entries)
                        /\ Pos(g, blockIndex, Top(b)' - 1 - Undone') \in 0 .. Cap(blockIndex) - 1
  BY RingFacts
<1>3. /\ blockIndex' = blockIndex /\ Len(entries') = Len(entries)
      /\ \A k \in 1 .. blockIndex : Cap(k)' = Cap(k) /\ indexes'[k].index = indexes[k].index
  BY DEF RingsStay, Cap
<1>4. ASSUME NEW k \in 1 .. blockIndex PROVE ShapeFits(k)'
  <2>1. indexes'[k].tail \in 0 .. Cap(k) - 1
    BY <1>2 DEF RingsFit, ShapeFits
  <2>2. indexes[k].index \in [0 .. Cap(k) - 1 -> 1 .. Len(entries)]
    BY DEF RingsFit, ShapeFits
  <2> QED BY <1>3, <2>1, <2>2 DEF ShapeFits
<1>5. blockIndex # 0 =>
       /\ Cap(blockIndex)' = Len(entries)'
       /\ indexes'[blockIndex].tail = Pos(h, blockIndex, Top(b) - 1 - Undone)'
  BY <1>1, <1>2, <1>3
<1> QED BY <1>1, <1>3, <1>4, <1>5 DEF RingsFit

LEMMA SearchMoves ==
  ASSUME NEW a \in Unwrappings, NEW g \in Layouts, NEW h \in Layouts, h.off = g.off,
         RingsFit(a, g), EnqFits(a), RingsStay, g.low <= h.low,
         NEW c \in Dequeuers, deq'[c] = deq[c], h.idx[c] = g.idx[c], SearchFits(g, c),
         deq[c].pc = "key" =>
           \E K \in Int :
             /\ Number(g, c) <= K /\ K < h.low + Len(entries)
             /\ entries'[indexes[deq[c].header].index[deq[c].at]].key = Key(K)
             /\ Pos(g, deq[c].header, K) = deq[c].at
  PROVE  SearchFits(h, c)'
<1> DEFINE k == deq[c].header
<1>1. k \in 1 .. blockIndex /\ deq[c].at \in 0 .. Cap(k) - 1
  BY DEF SearchFits
<1>2. /\ \A B : Pos(h, k, B)' = Pos(g, k, B)
      /\ \A B : EntryNo(h, B)' = EntryNo(g, B)
  <2>1. blockIndex # 0
    BY <1>1
  <2> QED BY <1>1, <2>1, PositionsStay
<1>3. /\ blockIndex' = blockIndex /\ Len(entries') = Len(entries)
      /\ Cap(k)' = Cap(k) /\ indexes'[k].index = indexes[k].index
  BY <1>1 DEF RingsStay, Cap
<1>4. Number(h, c) = Number(g, c)
  BY DEF Number
<1>5. Agrees(h, c)'
  <2>1. Agrees(g, c)
    BY DEF SearchFits
  <2> QED BY <2>1, <1>2, <1>3, <1>4 DEF Agrees
<1>6. deq[c].pc = "key" =>
        \E K \in Int : /\ Number(h, c) <= K /\ K < h.low + Len(entries')
                       /\ entries'[indexes'[k].index[deq[c].at]].key = Key(K)
                       /\ Pos(h, k, K)' = deq[c].at
  BY <1>2, <1>3, <1>4
<1>7. deq[c].pc = "block" => deq[c].at = Pos(h, k, Number(h, c))'
  BY <1>2, <1>4 DEF SearchFits
<1>8. deq[c].pc = "free" /\ deq[c].left > 0 =>
        /\ h.idx[c] % BlockSize = 0
        /\ deq[c].at = Pos(h, k, Number(h, c) - 1)'
  BY <1>2, <1>4 DEF SearchFits
<1>9. Number(h, c)' = Number(h, c)
  OBVIOUS
<1> QED BY <1>1, <1>3, <1>5, <1>6, <1>7, <1>8, <1>9 DEF SearchFits

LEMMA SearchStays ==
  ASSUME NEW a \in Unwrappings, NEW g \in Layouts, NEW h \in Layouts, h.off = g.off,
         RingsFit(a, g), EnqFits(a), RingsStay, g.low <= h.low,
         \A e \in 1 .. Len(entries) : entries'[e].key = entries[e].key,
         NEW c \in Dequeuers, deq'[c] = deq[c], h.idx[c] = g.idx[c], SearchFits(g, c)
  PROVE  SearchFits(h, c)'
<1> DEFINE k == deq[c].header
<1>1. ASSUME deq[c].pc = "key"
      PROVE  \E K \in Int : /\ Number(g, c) <= K /\ K < h.low + Len(entries)
                            /\ entries'[indexes[k].index[deq[c].at]].key = Key(K)
                            /\ Pos(g, k, K) = deq[c].at
  <2>1. PICK K \in Int : /\ Number(g, c) <= K /\ K < g.low + Len(entries)
                         /\ entries[indexes[k].index[deq[c].at]].key = Key(K)
                         /\ Pos(g, k, K) = deq[c].at
    BY <1>1 DEF SearchFits
  <2>2. indexes[k].index[deq[c].at] \in 1 .. Len(entries)
    BY DEF RingsFit, ShapeFits, SearchFits
  <2>3. K < h.low + Len(entries)
    <3>1. g.low \in Nat /\ h.low \in Nat /\ Len(entries) \in Nat
      BY LayoutType, EntriesType DEF RingsFit
    <3> QED BY <3>1, <2>1
  <2> QED BY <2>1, <2>2, <2>3
<1> QED BY <1>1, SearchMoves

LEMMA StoreStays ==
  ASSUME NEW a \in Unwrappings, NEW g \in Layouts, NEW h \in Layouts,
         h.off = g.off, h.low = g.low, NEW b \in Unwrappings,
         RingsFit(a, g), EnqFits(a), RingsStay, Top(b)' = Top(a),
         \A e \in 1 .. Len(entries) : entries'[e].value = entries[e].value
  PROVE  \A B : Store(b, h, B)' = Store(a, g, B)
<1>1. Live(b, h)' = Live(a, g)
  BY DEF Live
<1>2. ASSUME NEW B \in Live(a, g) PROVE Store(b, h, B)' = Store(a, g, B)
  <2>1. blockIndex # 0 /\ B \in Int
    BY RingFacts
  <2>2. EntryNo(h, B)' = EntryNo(g, B) /\ EntryNo(g, B) \in 1 .. Len(entries)
    BY <2>1, RingFacts, PositionsStay
  <2> QED BY <1>1, <2>2 DEF Store
<1> QED BY <1>1, <1>2 DEF Store

LEMMA OwnStays ==
  ASSUME NEW a \in Unwrappings, NEW g \in Layouts, NEW b \in Unwrappings, NEW h \in Layouts,
         b.H = a.H, h.idx = g.idx, deq' = deq, OwnFits(a, g)
  PROVE  /\ OwnFits(b, h)'
         /\ \A i : Pending(b, h, i)' = Pending(a, g, i)
         /\ \A B : PendingOf(b, h, B)' = PendingOf(a, g, B)
         /\ \A i, B : Pending(b, h, i) = Pending(a, g, i)
<1>1. \A c \in Dequeuers : Owns(c)' = Owns(c) /\ Own(h, c)' = Own(g, c) /\ Own(h, c) = Own(g, c)
  BY DEF Owns, Own
<1>2. OwnFits(b, h)'
  BY <1>1 DEF OwnFits
<1>3. \A i : Pending(b, h, i)' = Pending(a, g, i) /\ Pending(b, h, i) = Pending(a, g, i)
  BY <1>1 DEF Pending
<1>4. \A B : PendingOf(b, h, B)' = PendingOf(a, g, B)
  BY <1>3 DEF PendingOf
<1> QED BY <1>2, <1>3, <1>4

LEMMA BlocksStay ==
  ASSUME NEW a \in Unwrappings, NEW g \in Layouts, NEW b \in Unwrappings, NEW h \in Layouts,
         b.T = a.T, BlocksFit(a, g), block' = block,
         \A i \in Nat : Pending(b, h, i)' = Pending(a, g, i),
         \A B : Store(b, h, B)' = Store(a, g, B),
         \A B \in Nat : PendingOf(b, h, B)' = PendingOf(a, g, B)
  PROVE  BlocksFit(b, h)'
BY DEF BlocksFit

LEMMA KeysStay ==
  ASSUME NEW a \in Unwrappings, NEW g \in Layouts, NEW h \in Layouts,
         h.off = g.off, h.low = g.low, NEW b \in Unwrappings, a.T <= b.T,
         RingsFit(a, g), EnqFits(a), RingsStay, Top(b)' = Top(a),
         entries' = entries, KeysFit(a, g)
  PROVE  KeysFit(b, h)'
<1>1. Live(b, h)' = Live(a, g)
  BY DEF Live
<1>2. \A B \in Live(a, g) : EntryNo(h, B)' = EntryNo(g, B)
  BY RingFacts, PositionsStay
<1>3. h.low <= BlocksTo(b.T)
  <2>1. /\ a.T \in Nat /\ b.T \in Nat /\ g.low \in Nat
        /\ BlocksTo(a.T) \in Nat /\ BlocksTo(b.T) \in Nat
    BY UnwrappingType, LayoutType, BlocksHold
  <2>2. BlocksTo(a.T) <= BlocksTo(b.T)
    BY <2>1, BlocksMonotonic
  <2> QED BY <2>1, <2>2 DEF KeysFit
<1>4. Top(b)' <= h.low + Len(entries')
  BY DEF KeysFit
<1>5. \A B \in Live(b, h)' : entries'[EntryNo(h, B)'].key = Key(B)
  BY <1>1, <1>2 DEF KeysFit
<1>6. \A e \in DOMAIN entries' :
        entries'[e].value # Null => \E B \in Live(b, h)' : EntryNo(h, B)' = e
  BY <1>1, <1>2 DEF KeysFit
<1> QED BY <1>3, <1>4, <1>5, <1>6 DEF KeysFit

-----------------------------------------------------------------------------
(* The places of a block.                                                  *)

Entered(x) == {e \in DOMAIN entries : entries[e].value = x}
Freeing(x) == {c \in Dequeuers : deq[c].pc = "free" /\ deq[c].block = x}
Untaken(x) == {k \in 1 .. Undone : enq.blocks[k] = x}

PlacesOf(F, E, D, U) ==
  {<<"free", x>> : x \in F} \union {<<"entry", e>> : e \in E} \union
  {<<"deq", c>> : c \in D} \union {<<"undo", k>> : k \in U}

LEMMA ClaimsAre ==
  ASSUME NEW a \in Unwrappings, EnqFits(a)
  PROVE  \A x : Claims(x) = PlacesOf(free \intersect {x}, Entered(x), Freeing(x), Untaken(x))
<1>1. enq.blocks \in Seq(Blocks) /\ Len(enq.blocks) \in Nat /\ enq.need \in Nat
      /\ DOMAIN enq.blocks = 1 .. Len(enq.blocks)
  BY EnqType DEF EnqFits
<1>2. ASSUME NEW x
      PROVE  Untaken(x) = {k \in DOMAIN enq.blocks : /\ enq.pc = "undo"
                              /\ k <= Len(enq.blocks) - enq.need /\ enq.blocks[k] = x}
  <2>1. CASE enq.pc = "undo"
    BY <1>1, <2>1 DEF Untaken, Undone
  <2>2. CASE enq.pc # "undo"
    BY <1>1, <2>2 DEF Untaken, Undone
  <2> QED BY <2>1, <2>2
<1> QED BY <1>2, Zenon DEF Claims, PlacesOf, Entered, Freeing

LEMMA ClaimsAreNext ==
  ASSUME NEW a \in Unwrappings, EnqFits(a)'
  PROVE  \A x : Claims(x)' =
           PlacesOf(free' \intersect {x}, Entered(x)', Freeing(x)', Untaken(x)')
<1>1. enq'.blocks \in Seq(Blocks) /\ Len(enq'.blocks) \in Nat /\ enq'.need \in Nat
      /\ DOMAIN enq'.blocks = 1 .. Len(enq'.blocks)
  BY DEF EnqFits, Enqueuing
<1>2. ASSUME NEW x
      PROVE  Untaken(x)' = {k \in DOMAIN enq'.blocks : /\ enq'.pc = "undo"
                              /\ k <= Len(enq'.blocks) - enq'.need /\ enq'.blocks[k] = x}
  <2>1. CASE enq'.pc = "undo"
    BY <1>1, <2>1 DEF Untaken, Undone
  <2>2. CASE enq'.pc # "undo"
    BY <1>1, <2>2 DEF Untaken, Undone
  <2> QED BY <2>1, <2>2
<1> QED BY <1>2, Zenon DEF Claims, PlacesOf, Entered, Freeing

(* What has one place has no other.                                        *)
LEMMA OnePlace ==
  ASSUME NEW F, NEW E, NEW D, NEW U, IsOne(PlacesOf(F, E, D, U))
  PROVE  /\ \A x \in F : F = {x} /\ E = {} /\ D = {} /\ U = {}
         /\ \A x \in E : E = {x} /\ F = {} /\ D = {} /\ U = {}
         /\ \A x \in D : D = {x} /\ E = {} /\ F = {} /\ U = {}
         /\ \A x \in U : U = {x} /\ E = {} /\ D = {} /\ F = {}
         /\ \/ \E x \in F : TRUE
            \/ \E x \in E : TRUE
            \/ \E x \in D : TRUE
            \/ \E x \in U : TRUE
<1>0. PICK p : PlacesOf(F, E, D, U) = {p}
  BY DEF IsOne
<1>1. /\ \A x \in F : <<"free", x>> = p
      /\ \A x \in E : <<"entry", x>> = p
      /\ \A x \in D : <<"deq", x>> = p
      /\ \A x \in U : <<"undo", x>> = p
  BY <1>0 DEF PlacesOf
<1>2. ASSUME NEW s, NEW t, NEW x, NEW y, <<s, x>> = <<t, y>> PROVE s = t /\ x = y
  BY <1>2
<1>3. p \in PlacesOf(F, E, D, U)
  BY <1>0
<1>4. /\ \A x \in F, y \in F : x = y
      /\ \A x \in E, y \in E : x = y
      /\ \A x \in D, y \in D : x = y
      /\ \A x \in U, y \in U : x = y
  BY <1>1, <1>2
<1>5. /\ \A x \in F, y \in E : FALSE
      /\ \A x \in F, y \in D : FALSE
      /\ \A x \in F, y \in U : FALSE
      /\ \A x \in E, y \in D : FALSE
      /\ \A x \in E, y \in U : FALSE
      /\ \A x \in D, y \in U : FALSE
  BY <1>1
<1>6. \/ \E x \in F : TRUE
      \/ \E x \in E : TRUE
      \/ \E x \in D : TRUE
      \/ \E x \in U : TRUE
  BY <1>3 DEF PlacesOf
<1> QED BY <1>4, <1>5, <1>6

LEMMA NewPlace ==
  ASSUME NEW x
  PROVE  /\ IsOne(PlacesOf({x}, {}, {}, {}))
         /\ IsOne(PlacesOf({}, {x}, {}, {}))
         /\ IsOne(PlacesOf({}, {}, {x}, {}))
         /\ IsOne(PlacesOf({}, {}, {}, {x}))
<1>1. /\ PlacesOf({x}, {}, {}, {}) = {<<"free", x>>}
      /\ PlacesOf({}, {x}, {}, {}) = {<<"entry", x>>}
      /\ PlacesOf({}, {}, {x}, {}) = {<<"deq", x>>}
      /\ PlacesOf({}, {}, {}, {x}) = {<<"undo", x>>}
  BY DEF PlacesOf
<1> QED BY <1>1, Zenon DEF IsOne

(* Where the block of a place is.                                          *)
LEMMA PlaceOf ==
  ASSUME NEW a \in Unwrappings, EnqFits(a), PlacesFit, enq.pc # "destroyed", NEW x \in Blocks
  PROVE  /\ x \in free => Entered(x) = {} /\ Freeing(x) = {} /\ Untaken(x) = {}
         /\ \A e \in Entered(x) :
              Entered(x) = {e} /\ x \notin free /\ Freeing(x) = {} /\ Untaken(x) = {}
         /\ \A c \in Freeing(x) :
              Freeing(x) = {c} /\ x \notin free /\ Entered(x) = {} /\ Untaken(x) = {}
         /\ \A k \in Untaken(x) :
              Untaken(x) = {k} /\ x \notin free /\ Entered(x) = {} /\ Freeing(x) = {}
         /\ \/ x \in free
            \/ \E e \in Entered(x) : TRUE
            \/ \E c \in Freeing(x) : TRUE
            \/ \E k \in Untaken(x) : TRUE
<1>1. IsOne(PlacesOf(free \intersect {x}, Entered(x), Freeing(x), Untaken(x)))
  BY ClaimsAre DEF PlacesFit
<1>2. PICK F, E, D, U : /\ F = free \intersect {x} /\ E = Entered(x)
                        /\ D = Freeing(x) /\ U = Untaken(x)
  OBVIOUS
<1>3. IsOne(PlacesOf(F, E, D, U))
  BY <1>1, <1>2
<1>4. x \in free <=> x \in F
  BY <1>2
<1>5. /\ \A y \in F : F = {y} /\ E = {} /\ D = {} /\ U = {}
      /\ \A y \in E : E = {y} /\ F = {} /\ D = {} /\ U = {}
      /\ \A y \in D : D = {y} /\ E = {} /\ F = {} /\ U = {}
      /\ \A y \in U : U = {y} /\ E = {} /\ D = {} /\ F = {}
      /\ \/ \E y \in F : TRUE
         \/ \E y \in E : TRUE
         \/ \E y \in D : TRUE
         \/ \E y \in U : TRUE
  BY <1>3, OnePlace
<1>6. /\ x \in free => E = {} /\ D = {} /\ U = {}
      /\ \A e \in E : E = {e} /\ x \notin free /\ D = {} /\ U = {}
      /\ \A c \in D : D = {c} /\ x \notin free /\ E = {} /\ U = {}
      /\ \A k \in U : U = {k} /\ x \notin free /\ E = {} /\ D = {}
      /\ \/ x \in free
         \/ \E e \in E : TRUE
         \/ \E c \in D : TRUE
         \/ \E k \in U : TRUE
  BY <1>2, <1>4, <1>5
<1> QED BY <1>2, <1>6

(* A step that leaves the places of all blocks but perhaps one, x.         *)
LEMMA PlacesStay ==
  ASSUME NEW a \in Unwrappings, EnqFits(a), PlacesFit, enq.pc # "destroyed",
         NEW b \in Unwrappings, EnqFits(b)', enq'.pc # "destroyed",
         free' \subseteq Blocks, \A c \in Dequeuers : deq'[c].pc = "free" => deq'[c].block \in Blocks,
         NEW X,
         \A x \in Blocks \ X : /\ x \in free' <=> x \in free
                               /\ Entered(x)' = Entered(x) /\ Freeing(x)' = Freeing(x)
                               /\ Untaken(x)' = Untaken(x),
         \A x \in Blocks \intersect X :
           IsOne(PlacesOf(free' \intersect {x}, Entered(x)', Freeing(x)', Untaken(x)'))
  PROVE  PlacesFit'
<1>1. ASSUME NEW x \in Blocks \ X PROVE IsOne(Claims(x)')
  <2>1. IsOne(Claims(x))
    BY DEF PlacesFit
  <2>2. free' \intersect {x} = free \intersect {x}
    BY <1>1
  <2>3. Claims(x)' = Claims(x)
    BY <2>2, ClaimsAre, ClaimsAreNext
  <2> QED BY <2>1, <2>3
<1>2. ASSUME NEW x \in Blocks \intersect X PROVE IsOne(Claims(x)')
  BY <1>2, ClaimsAreNext
<1> QED BY <1>1, <1>2 DEF PlacesFit

LEMMA PlacesQuiet ==
  ASSUME NEW a \in Unwrappings, EnqFits(a), PlacesFit, enq.pc # "destroyed",
         NEW b \in Unwrappings, EnqFits(b)', enq'.pc # "destroyed", free' = free,
         \A c \in Dequeuers : deq'[c].pc = "free" => deq'[c].block \in Blocks,
         \A x \in Blocks : /\ Entered(x)' = Entered(x) /\ Freeing(x)' = Freeing(x)
                           /\ Untaken(x)' = Untaken(x)
  PROVE  PlacesFit'
<1>1. /\ free' \subseteq Blocks
      /\ \A x \in Blocks \ {} : /\ x \in free' <=> x \in free
                               /\ Entered(x)' = Entered(x) /\ Freeing(x)' = Freeing(x)
                               /\ Untaken(x)' = Untaken(x)
      /\ \A x \in Blocks \intersect {} :
           IsOne(PlacesOf(free' \intersect {x}, Entered(x)', Freeing(x)', Untaken(x)'))
  BY DEF PlacesFit
<1> HIDE DEF PlacesFit
<1> QED BY <1>1, PlacesStay

-----------------------------------------------------------------------------
(* The enqueueing thread, with the index and the blocks.                   *)

(* Steps that leave the index and the last block in it as they are.        *)
LEMMA IndexQuiet ==
  ASSUME NEW a \in Unwrappings, NEW g \in Layouts, Fits(a, g), NEW b \in Unwrappings,
         EnqFits(b)', index' = index, deq' = deq, a.T <= b.T, b.H = a.H,
         Top(b)' = Top(a), Undone' = Undone
  PROVE  /\ RingsFit(b, g)' /\ KeysFit(b, g)' /\ OwnFits(b, g)' /\ SearchesFit(g)'
         /\ \A B : Store(b, g, B)' = Store(a, g, B)
         /\ \A i : Pending(b, g, i)' = Pending(a, g, i)
         /\ \A B : PendingOf(b, g, B)' = PendingOf(a, g, B)
<1>1. RingsFit(a, g) /\ KeysFit(a, g) /\ OwnFits(a, g) /\ SearchesFit(g) /\ EnqFits(a)
  BY DEF Fits, IndexFits
<1>2. /\ RingsStay /\ entries' = entries /\ indexes' = indexes /\ index' \in BlockIndexes
      /\ blockIndex \in Nat
  BY <1>1, IndexStays, EntriesType DEF RingsFit
<1>3. ASSUME blockIndex = 0 PROVE NoIndex(b)'
  <2>1. Top(b)' = 0
    BY <1>1, <1>3, RingFacts
  <2>2. /\ enq'.blocks \in Seq(Blocks) /\ Len(enq'.blocks) \in Nat
    BY DEF EnqFits, Enqueuing
  <2>3. b.T \in Nat /\ BlocksTo(b.T) \in Nat /\ b.T <= BlocksTo(b.T) * BlockSize
    BY UnwrappingType, BlocksHold
  <2>4. BlocksTo(b.T) = 0 /\ Len(enq'.blocks) = 0 /\ enq'.pc # "inserted"
    BY <2>1, <2>2, <2>3 DEF Top
  <2>5. 0 * BlockSize = 0
    BY Widths
  <2>6. b.T = 0
    BY <2>3, <2>4, <2>5
  <2>7. enq'.blocks = << >>
    BY <2>2, <2>4
  <2> QED BY <1>1, <1>2, <1>3, <2>4, <2>6, <2>7 DEF NoIndex, RingsFit
<1>4. Top(b)' - 1 - Undone' \in Int
  BY <1>1, TopType
<1>5. RingsFit(b, g)'
  <2>1. blockIndex # 0 =>
          indexes'[blockIndex].tail = Pos(g, blockIndex, Top(b)' - 1 - Undone')
    BY <1>1, <1>2 DEF RingsFit
  <2> QED BY <1>1, <1>2, <1>3, <1>4, <2>1, RingsStayFit
<1>6. KeysFit(b, g)'
  BY <1>1, <1>2, KeysStay
<1>7. OwnFits(b, g)' /\ (\A i : Pending(b, g, i)' = Pending(a, g, i))
      /\ \A B : PendingOf(b, g, B)' = PendingOf(a, g, B)
  BY <1>1, OwnStays
<1>8. \A B : Store(b, g, B)' = Store(a, g, B)
  BY <1>1, <1>2, StoreStays
<1>9. SearchesFit(g)'
  <2>1. ASSUME NEW c \in Dequeuers, deq'[c].pc \in {"key", "block", "free"}
        PROVE  SearchFits(g, c)'
    <3>1. deq'[c] = deq[c] /\ SearchFits(g, c)
      BY <1>1, <2>1 DEF SearchesFit
    <3>2. g.low <= g.low
      BY LayoutType
    <3> QED BY <1>1, <1>2, <3>1, <3>2, SearchStays
  <2> QED BY <2>1 DEF SearchesFit
<1> QED BY <1>5, <1>6, <1>7, <1>8, <1>9

LEMMA BeginEnqueueKeeps ==
  ASSUME NEW a \in Unwrappings, NEW g \in Layouts, Fits(a, g), BeginEnqueue
  PROVE  \E b \in Unwrappings : Fits(b, g)'
<1>1. /\ CountersFit(a) /\ EnqFits(a) /\ BlocksFit(a, g) /\ TakenFit(a, g) /\ PlacesFit
  BY DEF Fits, IndexFits
<1>2. PICK b \in Unwrappings : b.T = a.T /\ b.H = a.H /\ CountersFit(b)' /\ EnqFits(b)'
  BY <1>1, BeginEnqueueFits
<1>3. /\ enq.pc = "idle" /\ enq.blocks = << >> /\ index' = index /\ deq' = deq
      /\ block' = block /\ free' = free /\ tailBlock' = tailBlock
      /\ enq'.pc = "index" /\ enq'.blocks = << >> /\ enq'.start = tailBlock
  BY <1>1 DEF BeginEnqueue, EnqFits, storage, Begun, Waiting
<1>4. Top(b)' = Top(a) /\ Undone' = Undone /\ Undone = 0
  BY <1>2, <1>3 DEF Top, Undone
<1>5. /\ RingsFit(b, g)' /\ KeysFit(b, g)' /\ OwnFits(b, g)' /\ SearchesFit(g)'
      /\ \A B : Store(b, g, B)' = Store(a, g, B)
      /\ \A i : Pending(b, g, i)' = Pending(a, g, i)
      /\ \A B : PendingOf(b, g, B)' = PendingOf(a, g, B)
  <2>1. a.T <= b.T
    BY <1>2, UnwrappingType
  <2> QED BY <1>2, <1>3, <1>4, <2>1, IndexQuiet
<1>6. BlocksFit(b, g)'
  BY <1>1, <1>2, <1>3, <1>5, BlocksStay
<1>7. TakenFit(b, g)'
  BY <1>1, <1>2, <1>3, <1>4, <1>5 DEF TakenFit, StartBlock
<1>8. PlacesFit'
  <2>1. \A x : /\ Entered(x)' = Entered(x) /\ Freeing(x)' = Freeing(x)
               /\ Untaken(x)' = Untaken(x)
    BY <1>3, <1>4, IndexStays DEF Entered, Freeing, Untaken
  <2>2. \A c \in Dequeuers : deq'[c].pc = "free" => deq'[c].block \in Blocks
    BY <1>1, <1>3 DEF PlacesFit
  <2>3. enq.pc # "destroyed" /\ enq'.pc # "destroyed"
    BY <1>3
  <2> QED BY <1>1, <1>2, <1>3, <2>1, <2>2, <2>3, PlacesQuiet
<1> QED BY <1>2, <1>5, <1>6, <1>7, <1>8 DEF Fits, IndexFits

LEMMA Offset ==
  ASSUME NEW t \in Nat, NEW n \in Nat
  PROVE  ((t % BlockSize) + n) \div BlockSize = (t + n) \div BlockSize - t \div BlockSize
<1>1. BlockSize \in Nat \ {0}
  BY Widths
<1>2. PICK q \in Int, r \in 0 .. BlockSize - 1 : q = t \div BlockSize /\ r = t % BlockSize
                                            /\ t = q * BlockSize + r
  BY InBlock
<1>3. PICK k \in Int, s \in 0 .. BlockSize - 1 : k = (r + n) \div BlockSize
                         /\ s = (r + n) % BlockSize /\ r + n = k * BlockSize + s
  <2>1. r + n \in Int
    BY <1>1
  <2> QED BY <2>1, InBlock
<1>4. t + n = (q + k) * BlockSize + s
  <2>1. (q + k) * BlockSize = q * BlockSize + k * BlockSize
    BY <1>1
  <2>2. PICK u \in Int, v \in Int, w \in Int :
          u = q * BlockSize /\ v = k * BlockSize /\ w = (q + k) * BlockSize
    BY <1>1
  <2>3. t = u + r /\ r + n = v + s /\ w = u + v
    BY <1>2, <1>3, <2>1, <2>2
  <2>4. t + n = w + s
    BY <1>1, <1>2, <1>3, <2>3
  <2> QED BY <2>2, <2>4
<1>5. (t + n) \div BlockSize = q + k
  BY <1>4, NumberUnique
<1>6. (r + n) \div BlockSize = k /\ q \in Int /\ k \in Int
  BY <1>3
<1> QED BY <1>2, <1>5, <1>6

(* Pending items in the queue and in the blocks taken have their blocks.   *)
LEMMA StoreTo ==
  ASSUME NEW a \in Unwrappings, NEW g \in Layouts, Fits(a, g), Undone = 0, enq.pc # "inserted",
         NEW i \in Nat, Pending(a, g, i), i \div BlockSize < Top(a)
  PROVE  /\ Store(a, g, i \div BlockSize) \in Blocks
         /\ i \div BlockSize < BlocksTo(a.T) => i < BlocksTo(a.T) * BlockSize
         /\ i \div BlockSize >= BlocksTo(a.T) =>
              /\ i \div BlockSize - BlocksTo(a.T) + 1 \in 1 .. Len(enq.blocks)
              /\ Store(a, g, i \div BlockSize) = enq.blocks[i \div BlockSize - BlocksTo(a.T) + 1]
<1>1. /\ EnqFits(a) /\ RingsFit(a, g) /\ KeysFit(a, g) /\ BlocksFit(a, g) /\ TakenFit(a, g)
  BY DEF Fits, IndexFits
<1>2. /\ BlocksTo(a.T) \in Nat /\ Top(a) \in Nat /\ a.T \in Nat
      /\ Len(enq.blocks) \in Nat /\ enq.blocks \in Seq(Blocks)
      /\ \A j \in 1 .. Len(enq.blocks) : enq.blocks[j] \in Blocks
  BY <1>1, TopType, EnqType DEF EnqFits
<1>3. Top(a) = BlocksTo(a.T) + Len(enq.blocks)
  BY <1>2 DEF Top
<1>4. PICK B \in Nat : B = i \div BlockSize
  <2>1. i \div BlockSize \in Int /\ i \div BlockSize >= 0
    BY InBlock
  <2> QED BY <2>1
<1>5. B < BlocksTo(a.T) <=> i < BlocksTo(a.T) * BlockSize
  BY <1>2, <1>4, ItemBefore
<1>6. CASE B < BlocksTo(a.T)
  <2>1. Store(a, g, B) # Null
    BY <1>1, <1>4, <1>5, <1>6 DEF BlocksFit
  <2>2. Store(a, g, B) \in Blocks
    BY <1>1, <2>1, LiveFacts
  <2> QED BY <1>2, <1>4, <1>5, <1>6, <2>2
<1>7. CASE B >= BlocksTo(a.T)
  <2>1. PICK j \in 1 .. Len(enq.blocks) : j = B - BlocksTo(a.T) + 1
    BY <1>2, <1>3, <1>4, <1>7
  <2>2. Store(a, g, BlocksTo(a.T) + j - 1) = enq.blocks[j]
    BY <1>1, <2>1 DEF TakenFit
  <2>3. BlocksTo(a.T) + j - 1 = B
    BY <1>2, <1>4, <2>1
  <2> QED BY <1>2, <1>4, <1>7, <2>1, <2>2, <2>3
<1> QED BY <1>2, <1>4, <1>6, <1>7

(* An element in front moves the others on.                                *)
LEMMA ConsAfter ==
  ASSUME NEW S, NEW x \in S, NEW q \in Seq(S), NEW k \in 1 .. Len(q)
  PROVE  (<<x>> \o q)[k + 1] = q[k]
OBVIOUS

(* The block each of the items enqueued goes to.                           *)
Dest(e, n) == BlocksOf(e)[(Slot(tailIndex) + n) \div BlockSize + 1]

LEMMA DestOf ==
  ASSUME NEW a \in Unwrappings, NEW g \in Layouts, Fits(a, g), enq.pc \in {"idle", "index"},
         NEW e, e.start = StartBlock, e.blocks = enq.blocks, NEW n \in Nat,
         (a.T + n) \div BlockSize < Top(a)
  PROVE  /\ Dest(e, n) = Store(a, g, (a.T + n) \div BlockSize)
         /\ Dest(e, n) \in Blocks
<1>1. /\ EnqFits(a) /\ RingsFit(a, g) /\ BlocksFit(a, g) /\ TakenFit(a, g) /\ CountersFit(a)
  BY DEF Fits, IndexFits
<1>2. /\ BlocksTo(a.T) \in Nat /\ Top(a) \in Nat /\ a.T \in Nat /\ a.H \in Nat
      /\ Len(enq.blocks) \in Nat /\ enq.blocks \in Seq(Blocks)
      /\ enq.start \in Blocks \union {Null}
  BY <1>1, TopType, EnqType DEF EnqFits
<1>3. Undone = 0 /\ enq.pc # "inserted"
  BY DEF Undone
<1>4. PICK i \in Nat : i = a.T + n
  BY <1>2
<1>5. Pending(a, g, i)
  <2>1. a.H <= a.T
    BY <1>1 DEF CountersFit, CountersUnwrap
  <2>2. i >= a.H
    BY <2>1, <1>2, <1>4
  <2> QED BY <2>2 DEF Pending
<1>6. PICK B \in Nat : B = i \div BlockSize /\ B < Top(a)
  <2>1. i \div BlockSize \in Int /\ i \div BlockSize >= 0
    BY InBlock
  <2> QED BY <2>1, <1>4
<1>7. /\ Store(a, g, B) \in Blocks
      /\ B < BlocksTo(a.T) => i < BlocksTo(a.T) * BlockSize
      /\ B >= BlocksTo(a.T) =>
           /\ B - BlocksTo(a.T) + 1 \in 1 .. Len(enq.blocks)
           /\ Store(a, g, B) = enq.blocks[B - BlocksTo(a.T) + 1]
  BY <1>3, <1>4, <1>5, <1>6, StoreTo
<1>8. PICK D \in Int, s \in Int : D = a.T \div BlockSize /\ s = a.T % BlockSize
  BY <1>2, InBlock
<1>9. Slot(tailIndex) = s
  <2>1. tailIndex = a.T % IndexT
    BY <1>1 DEF CountersFit, CountersUnwrap
  <2>2. a.T \in Int
    BY <1>2
  <2> QED BY <1>8, <2>1, <2>2, SlotOf
<1>10. (Slot(tailIndex) + n) \div BlockSize + 1 = B - D + 1
  <2>1. (s + n) \div BlockSize = B - D
    BY <1>2, <1>4, <1>6, <1>8, Offset
  <2> QED BY <1>9, <2>1
<1>11. CASE s = 0
  <2>1. D = BlocksTo(a.T)
    BY <1>2, <1>8, <1>11, BlocksToWhole
  <2>2. B >= D
    <3>1. BlocksTo(a.T) * BlockSize = a.T /\ a.T <= i
      BY <1>2, <1>4, <1>8, <1>11, BlocksToWhole
    <3>2. ~(i < BlocksTo(a.T) * BlockSize)
      BY <1>2, <1>4, <3>1
    <3> QED BY <1>2, <1>7, <2>1, <3>2
  <2>3. BlocksOf(e) = enq.blocks
    <3>1. BlocksOf(e) = << >> \o e.blocks
      BY <1>9, <1>11 DEF BlocksOf
    <3> QED BY <3>1, <1>2
  <2> QED BY <1>7, <1>10, <2>1, <2>2, <2>3, <1>4, <1>6 DEF Dest
<1>12. CASE s # 0
  <2>1. BlocksTo(a.T) = D + 1
    BY <1>2, <1>8, <1>12, BlocksToWhole
  <2>2. BlocksOf(e) = <<StartBlock>> \o enq.blocks
    BY <1>9, <1>12 DEF BlocksOf
  <2>3. CASE B >= BlocksTo(a.T)
    <3>1. PICK j \in 1 .. Len(enq.blocks) : j = B - BlocksTo(a.T) + 1
      BY <1>7, <2>3
    <3>2. Store(a, g, B) = enq.blocks[j]
      BY <1>7, <2>3, <3>1
    <3>3. (<<StartBlock>> \o enq.blocks)[j + 1] = enq.blocks[j]
      <4>1. PICK S : S = {StartBlock} \union Blocks
        OBVIOUS
      <4>2. <<StartBlock>> \in Seq(S) /\ enq.blocks \in Seq(S) /\ Len(<<StartBlock>>) = 1
        BY <1>2, <4>1
      <4>3. j \in 1 .. Len(enq.blocks) /\ StartBlock \in S
        BY <3>1, <4>1
      <4> QED BY <4>2, <4>3, ConsAfter
    <3>4. B - D + 1 = j + 1
      BY <1>2, <2>1, <3>1
    <3> QED BY <1>4, <1>6, <1>7, <1>10, <2>2, <3>2, <3>3, <3>4 DEF Dest
  <2>4. CASE B < BlocksTo(a.T)
    <3>1. D <= B
      <4>1. D * BlockSize <= i
        <5>1. a.T \in Int
          BY <1>2
        <5>2. /\ a.T = (a.T \div BlockSize) * BlockSize + (a.T % BlockSize)
              /\ a.T % BlockSize \in 0 .. BlockSize - 1
          BY <5>1, InBlock
        <5>3. a.T = D * BlockSize + s /\ s >= 0 /\ D * BlockSize \in Int
          BY <5>2, <1>8, Widths
        <5> QED BY <5>3, <1>2, <1>4, <1>8
      <4>2. i = B * BlockSize + (i % BlockSize) /\ i % BlockSize \in 0 .. BlockSize - 1
        BY <1>6, InBlock
      <4>3. ASSUME NEW x \in Int, NEW y \in Int, NEW k \in Nat \ {0}, x * k < (y + 1) * k
            PROVE  x <= y
        <5>1. CASE y + 1 <= x
          <6>1. (y + 1) * k <= x * k
            BY <5>1, TimesMonotonic
          <6> QED BY <4>3, <6>1
        <5> QED BY <5>1
      <4>4. D * BlockSize < (B + 1) * BlockSize
        <5>1. PICK u \in Int, v \in Int, w \in Int :
                u = D * BlockSize /\ v = B * BlockSize /\ w = (B + 1) * BlockSize
                /\ w = v + BlockSize
          BY Widths
        <5> QED BY <5>1, <4>1, <4>2, Widths
      <4> QED BY <4>3, <4>4, Widths
    <3>2. B = D /\ B = BlocksTo(a.T) - 1
      BY <2>1, <2>4, <3>1
    <3>3. Store(a, g, B) \in {Null, StartBlock}
      BY <1>1, <3>2 DEF TakenFit
    <3>4. Store(a, g, B) = StartBlock
      <4>1. Null \notin Blocks
        BY QueueAssumption
      <4> QED BY <4>1, <3>3, <1>7
    <3>5. (<<StartBlock>> \o enq.blocks)[1] = StartBlock
      BY <1>2
    <3>6. B - D + 1 = 1
      BY <3>2
    <3> QED BY <1>4, <1>6, <1>7, <1>10, <2>2, <3>4, <3>5, <3>6 DEF Dest
  <2> QED BY <2>3, <2>4, <1>2
<1> QED BY <1>11, <1>12

(* The items of an enqueue, from position t of n blocks, do not meet.      *)
LEMMA FilledFits ==
  ASSUME NEW a \in Unwrappings, NEW g \in Layouts, Fits(a, g), enq.pc \in {"idle", "index"},
         NEW e, e.start = StartBlock, e.blocks = enq.blocks, e.count \in Nat,
         BlocksTo(a.T + e.count) = Top(a), block' = Filled(e)
  PROVE  /\ block' \in [Blocks -> BlockType]
         /\ \A x \in Blocks : block'[x].done = block[x].done
         /\ \A i \in Nat : Pending(a, g, i) /\ i < a.T + e.count =>
              /\ Store(a, g, i \div BlockSize) \in Blocks
              /\ block'[Store(a, g, i \div BlockSize)].elements[i % BlockSize] = i % IndexT
<1>1. /\ EnqFits(a) /\ RingsFit(a, g) /\ KeysFit(a, g) /\ BlocksFit(a, g) /\ TakenFit(a, g)
      /\ CountersFit(a) /\ PlacesFit /\ enq.pc # "destroyed"
  BY DEF Fits, IndexFits
<1>2. /\ BlocksTo(a.T) \in Nat /\ Top(a) \in Nat /\ a.T \in Nat /\ a.H \in Nat
      /\ BlockSize \in Nat \ {0} /\ IndexT \in Nat \ {0}
  BY <1>1, TopType, Widths
<1>3. Undone = 0 /\ enq.pc # "inserted"
  BY DEF Undone
<1>4. tailIndex = a.T % IndexT
  BY <1>1 DEF CountersFit, CountersUnwrap
<1> DEFINE Its(x, k) == {n \in 0 .. e.count - 1 : /\ Slot(tailIndex + n) = k
                                              /\ Dest(e, n) = x}
           Put(x) == [block[x] EXCEPT !.elements = [k \in Slots |->
                        IF Its(x, k) = {} THEN @[k]
                        ELSE Plus(tailIndex, CHOOSE n \in Its(x, k) : TRUE)]]
<1>5. block' = [x \in Blocks |-> Put(x)]
  BY DEF Filled, Dest
<1>6. \A n \in 0 .. e.count - 1 :
        /\ n \in Nat /\ Slot(tailIndex + n) = (a.T + n) % BlockSize
        /\ (a.T + n) \div BlockSize < Top(a)
        /\ Dest(e, n) = Store(a, g, (a.T + n) \div BlockSize) /\ Dest(e, n) \in Blocks
  <2>1. TAKE n \in 0 .. e.count - 1
  <2>2. n \in Nat /\ n \in Int /\ a.T \in Int /\ n < e.count
    BY <1>2
  <2>3. Slot(tailIndex + n) = (a.T + n) % BlockSize
    BY <1>4, <2>2, SlotAhead
  <2>4. (a.T + n) \div BlockSize < Top(a)
    <3>1. PICK i \in Nat, t \in Nat : i = a.T + n /\ t = a.T + e.count /\ i < t
      BY <1>2, <2>2
    <3>2. i < BlocksTo(t) * BlockSize
      <4>1. t <= BlocksTo(t) * BlockSize /\ BlocksTo(t) \in Nat
        BY <3>1, BlocksHold
      <4> QED BY <4>1, <3>1, <1>2
    <3> QED BY <3>1, <3>2, ItemBefore
  <2> QED BY <2>2, <2>3, <2>4, DestOf
<1>7. ASSUME NEW x \in Blocks, NEW k \in Slots
      PROVE  /\ Its(x, k) \subseteq 0 .. e.count - 1
             /\ Its(x, k) # {} => (CHOOSE n \in Its(x, k) : TRUE) \in Its(x, k)
  <2> HIDE DEF Its
  <2>1. Its(x, k) # {} => (CHOOSE n \in Its(x, k) : TRUE) \in Its(x, k)
    <3>1. ASSUME NEW S, S # {} PROVE (CHOOSE n \in S : TRUE) \in S
      BY <3>1
    <3> QED BY <3>1
  <2> QED BY <2>1 DEF Its
<1>8. ASSUME NEW x \in Blocks
      PROVE  /\ Put(x) \in BlockType /\ Put(x).done = block[x].done
             /\ \A k \in Slots : Put(x).elements[k] =
                  IF Its(x, k) = {} THEN block[x].elements[k]
                  ELSE Plus(tailIndex, CHOOSE n \in Its(x, k) : TRUE)
  <2>1. block[x] \in BlockType
    BY <1>1 DEF BlocksFit
  <2>2. ASSUME NEW k \in Slots, Its(x, k) # {}
        PROVE  Plus(tailIndex, CHOOSE n \in Its(x, k) : TRUE) \in Indices
    <3>1. PICK m \in Int : m = CHOOSE n \in Its(x, k) : TRUE
      BY <1>7, <2>2
    <3>2. Plus(tailIndex, m) = (a.T + m) % IndexT /\ a.T + m \in Int
      <4>1. a.T \in Int /\ a.T + m \in Int
        BY <1>2
      <4> QED BY <4>1, <1>4, PlusOf
    <3> QED BY <3>1, <3>2, IndexType
  <2> HIDE DEF Its
  <2>3. PICK f : f = [k \in Slots |-> IF Its(x, k) = {} THEN block[x].elements[k]
                        ELSE Plus(tailIndex, CHOOSE n \in Its(x, k) : TRUE)]
    OBVIOUS
  <2>4. f \in [Slots -> Indices \union {Null}]
    BY <2>1, <2>2, <2>3 DEF BlockType
  <2>5. Put(x) = [block[x] EXCEPT !.elements = f]
    BY <2>3
  <2> HIDE DEF Put
  <2>6. /\ Put(x) \in BlockType /\ Put(x).done = block[x].done /\ Put(x).elements = f
    BY <2>1, <2>4, <2>5 DEF BlockType
  <2> QED BY <2>3, <2>6
<1> HIDE DEF Put
<1>9. block' \in [Blocks -> BlockType] /\ \A x \in Blocks : block'[x].done = block[x].done
  BY <1>5, <1>8
<1>10. ASSUME NEW i \in Nat, Pending(a, g, i), i < a.T + e.count
       PROVE  /\ Store(a, g, i \div BlockSize) \in Blocks
              /\ block'[Store(a, g, i \div BlockSize)].elements[i % BlockSize] = i % IndexT
  <2>1. PICK B \in Nat, s \in Slots : B = i \div BlockSize /\ s = i % BlockSize
    <3>1. i \div BlockSize \in Int /\ i \div BlockSize >= 0 /\ i % BlockSize \in 0 .. BlockSize - 1
      BY InBlock
    <3> QED BY <3>1 DEF Slots
  <2>2. B < Top(a)
    <3>1. PICK t \in Nat : t = a.T + e.count /\ i < t
      BY <1>2, <1>10
    <3>2. i < BlocksTo(t) * BlockSize
      <4>1. t <= BlocksTo(t) * BlockSize /\ BlocksTo(t) \in Nat
        BY <3>1, BlocksHold
      <4> QED BY <4>1, <3>1, <1>2
    <3> QED BY <2>1, <3>1, <3>2, ItemBefore
  <2>3. PICK x \in Blocks : x = Store(a, g, B)
    BY <1>3, <1>10, <2>1, <2>2, StoreTo
  <2>4. ASSUME NEW n \in Its(x, s) PROVE i = a.T + n /\ n \in Nat
    <3>1. /\ n \in 0 .. e.count - 1 /\ Slot(tailIndex + n) = s /\ Dest(e, n) = x
      OBVIOUS
    <3>2. /\ n \in Nat /\ (a.T + n) % BlockSize = s /\ Store(a, g, (a.T + n) \div BlockSize) = x
      BY <1>6, <3>1
    <3>3. (a.T + n) \div BlockSize = B
      <4>1. Store(a, g, B) # Null
        <5>1. Null \notin Blocks
          BY QueueAssumption
        <5> QED BY <2>3, <5>1
      <4> QED BY <1>1, <2>3, <3>2, <4>1, StoreOnce
    <3>4. PICK j \in Int : j = a.T + n
      BY <1>2, <3>2
    <3>5. j = B * BlockSize + s /\ i = B * BlockSize + s
      BY <2>1, <3>2, <3>3, <3>4, InBlock
    <3> QED BY <3>2, <3>4, <3>5
  <2>5. block'[x].elements[s] =
          IF Its(x, s) = {} THEN block[x].elements[s]
          ELSE Plus(tailIndex, CHOOSE n \in Its(x, s) : TRUE)
    BY <1>5, <1>8
  <2>6. CASE i < a.T
    <3>1. Its(x, s) = {}
      <4>1. ASSUME NEW n \in Its(x, s) PROVE FALSE
        <5>1. i = a.T + n /\ n \in Nat
          BY <2>4
        <5> QED BY <5>1, <2>6, <1>2
      <4> HIDE DEF Its
      <4> QED BY <4>1
    <3>2. block[x].elements[s] = i % IndexT
      BY <1>1, <1>10, <2>1, <2>3, <2>6 DEF BlocksFit
    <3> QED BY <2>1, <2>3, <2>5, <3>1, <3>2
  <2>7. CASE i >= a.T
    <3>1. PICK n \in Int : n = i - a.T
      BY <1>2
    <3>2. n \in 0 .. e.count - 1 /\ a.T + n = i
      BY <3>1, <1>2, <1>10, <2>7
    <3>3. n \in Its(x, s)
      <4>1. Slot(tailIndex + n) = s /\ Dest(e, n) = x
        BY <1>6, <2>1, <2>3, <3>2
      <4> QED BY <3>2, <4>1
    <3>4. PICK m : m = CHOOSE z \in Its(x, s) : TRUE
      OBVIOUS
    <3> HIDE DEF Its
    <3>5. m \in Its(x, s)
      BY <1>7, <3>3, <3>4
    <3>6. i = a.T + m /\ m \in Nat
      BY <2>4, <3>5
    <3>7. Plus(tailIndex, m) = i % IndexT
      <4>1. a.T \in Int /\ m \in Int
        BY <1>2, <3>6
      <4> QED BY <4>1, <1>4, <3>6, PlusOf
    <3> QED BY <2>1, <2>3, <2>5, <3>3, <3>4, <3>7
  <2> QED BY <2>6, <2>7, <1>2
<1> QED BY <1>9, <1>10

(* The items are in the queue.                                             *)
LEMMA EnqueuedKeeps ==
  ASSUME NEW a \in Unwrappings, NEW g \in Layouts, Fits(a, g), enq.pc \in {"idle", "index"},
         NEW e, e.start = StartBlock, e.blocks = enq.blocks, e.count \in Nat,
         BlocksTo(a.T + e.count) = Top(a), EnqueueItems(e),
         enq' \in Enqueuing, enq'.pc = "idle", enq'.blocks = << >>,
         NEW b \in Unwrappings, b.T = a.T + e.count, b.H = a.H, CountersFit(b)', EnqFits(b)'
  PROVE  Fits(b, g)'
<1>1. /\ EnqFits(a) /\ RingsFit(a, g) /\ KeysFit(a, g) /\ BlocksFit(a, g) /\ TakenFit(a, g)
      /\ CountersFit(a) /\ PlacesFit /\ enq.pc # "destroyed"
  BY DEF Fits, IndexFits
<1>2. /\ BlocksTo(a.T) \in Nat /\ Top(a) \in Nat /\ a.T \in Nat /\ a.H \in Nat
      /\ Len(enq.blocks) \in Nat
  BY <1>1, TopType, EnqType DEF EnqFits
<1>3. /\ index' = index /\ deq' = deq /\ free' = free /\ tailBlock' = tailBlock
      /\ block' = Filled(e)
  BY DEF EnqueueItems
<1>4. Top(b)' = Top(a) /\ Undone' = Undone /\ Undone = 0 /\ enq.pc # "inserted"
      /\ BlocksTo(b.T) = Top(a) /\ Top(a) = BlocksTo(a.T) + Len(enq.blocks)
  <2>1. Len(<< >>) = 0
    OBVIOUS
  <2>2. Top(b)' = BlocksTo(b.T)
    <3>1. Top(b)' = BlocksTo(b.T) + 0 + 0
      BY <2>1 DEF Top
    <3> QED BY <1>2, <3>1
  <2> QED BY <1>2, <2>2 DEF Undone, Top
<1>5. /\ RingsFit(b, g)' /\ KeysFit(b, g)' /\ OwnFits(b, g)' /\ SearchesFit(g)'
      /\ \A B : Store(b, g, B)' = Store(a, g, B)
      /\ \A i : Pending(b, g, i)' = Pending(a, g, i)
      /\ \A B : PendingOf(b, g, B)' = PendingOf(a, g, B)
  <2>1. a.T <= b.T
    BY <1>2
  <2> QED BY <1>3, <1>4, <2>1, IndexQuiet
<1>6. /\ block' \in [Blocks -> BlockType]
      /\ \A x \in Blocks : block'[x].done = block[x].done
      /\ \A i \in Nat : Pending(a, g, i) /\ i < a.T + e.count =>
              /\ Store(a, g, i \div BlockSize) \in Blocks
              /\ block'[Store(a, g, i \div BlockSize)].elements[i % BlockSize] = i % IndexT
  BY <1>3, <1>4, FilledFits
<1>7. BlocksFit(b, g)'
  <2>1. ASSUME NEW i \in Nat, Pending(a, g, i), i < BlocksTo(b.T) * BlockSize
        PROVE  Store(a, g, i \div BlockSize) # Null
    <3>1. i \div BlockSize < BlocksTo(b.T)
      <4>1. b.T \in Nat
        BY UnwrappingType
      <4> QED BY <2>1, <4>1, ItemBefore
    <3>2. Store(a, g, i \div BlockSize) \in Blocks
      BY <1>4, <2>1, <3>1, StoreTo
    <3>3. Null \notin Blocks
      BY QueueAssumption
    <3> QED BY <3>2, <3>3
  <2>2. ASSUME NEW B \in Nat, Store(a, g, B) # Null
        PROVE  /\ PendingOf(a, g, B) # {}
               /\ block'[Store(a, g, B)].done + Cardinality(PendingOf(a, g, B)) = BlockSize
    <3>1. Store(a, g, B) \in Blocks
      BY <1>1, <2>2, LiveFacts
    <3> QED BY <1>1, <1>6, <2>2, <3>1 DEF BlocksFit
  <2>3. \A i \in Nat : Pending(a, g, i) /\ i < b.T =>
          block'[Store(a, g, i \div BlockSize)].elements[i % BlockSize] = i % IndexT
    BY <1>6
  <2> QED BY <1>5, <1>6, <2>1, <2>2, <2>3 DEF BlocksFit
<1>8. TakenFit(b, g)'
  <2>1. Store(a, g, Top(a) - 1) \in {Null, tailBlock}
    <3>1. CASE enq.blocks = << >>
      <4>1. Top(a) = BlocksTo(a.T)
        <5>1. Len(<< >>) = 0
          OBVIOUS
        <5> QED BY <5>1, <1>2, <1>4, <3>1
      <4>2. StartBlock = tailBlock
        BY <1>1, <3>1 DEF TakenFit, StartBlock
      <4>3. Store(a, g, BlocksTo(a.T) - 1) \in {Null, StartBlock}
        BY <1>1 DEF TakenFit
      <4> QED BY <4>1, <4>2, <4>3
    <3>2. CASE enq.blocks # << >>
      <4>1. enq.pc = "index" /\ tailBlock = enq.blocks[Len(enq.blocks)]
        BY <1>1, <3>2 DEF EnqFits, TakenFit
      <4>2. Len(enq.blocks) \in 1 .. Len(enq.blocks)
        BY <1>1, <1>2, <3>2, EnqType DEF EnqFits
      <4>3. Store(a, g, BlocksTo(a.T) + Len(enq.blocks) - 1) = enq.blocks[Len(enq.blocks)]
        BY <1>1, <1>4, <4>2 DEF TakenFit
      <4>4. Top(a) - 1 = BlocksTo(a.T) + Len(enq.blocks) - 1
        BY <1>2, <1>4
      <4> QED BY <4>1, <4>3, <4>4
    <3> QED BY <3>1, <3>2
  <2>2. Len(<< >>) = 0
    OBVIOUS
  <2>3. StartBlock' = tailBlock
    BY <1>3 DEF StartBlock
  <2> QED BY <1>4, <1>5, <2>1, <2>2, <2>3 DEF TakenFit
<1>9. PlacesFit'
  <2>1. \A x : /\ Entered(x)' = Entered(x) /\ Freeing(x)' = Freeing(x)
               /\ Untaken(x)' = Untaken(x)
    BY <1>3, <1>4, IndexStays DEF Entered, Freeing, Untaken
  <2>2. \A c \in Dequeuers : deq'[c].pc = "free" => deq'[c].block \in Blocks
    BY <1>1, <1>3 DEF PlacesFit
  <2>3. enq.pc # "destroyed" /\ enq'.pc # "destroyed"
    BY <1>1
  <2> QED BY <1>1, <1>3, <2>1, <2>2, <2>3, PlacesQuiet
<1> QED BY <1>5, <1>7, <1>8, <1>9 DEF Fits, IndexFits

LEMMA EnqueueHereKeeps ==
  ASSUME NEW a \in Unwrappings, NEW g \in Layouts, Fits(a, g), EnqueueHere
  PROVE  \E b \in Unwrappings : Fits(b, g)'
<1>1. CountersFit(a) /\ EnqFits(a)
  BY DEF Fits
<1>2. PICK n \in 1 .. MaxCount :
        MayEnqueue(n) /\ Needed(n) = 0 /\ EnqueueItems(Begun(n)) /\ enq.pc = "idle" /\ enq' = enq
  BY DEF EnqueueHere
<1>3. BlocksTo(a.T + n) = BlocksTo(a.T)
  BY <1>1, <1>2, EnqueueHereFits
<1>4. PICK b \in Unwrappings :
        b.T = a.T + n /\ b.H = a.H /\ CountersFit(b)' /\ EnqFits(b)'
  BY <1>1, <1>2, EnqueueHereFits
<1>5. enq.blocks = << >> /\ enq \in Enqueuing
  BY <1>1, <1>2 DEF EnqFits
<1>6. Top(a) = BlocksTo(a.T)
  <2>1. Len(<< >>) = 0
    OBVIOUS
  <2> QED BY <1>1, <1>2, <1>5, <2>1, TopType DEF Top
<1>7. PICK e : e = Begun(n) /\ e.start = StartBlock /\ e.blocks = enq.blocks /\ e.count = n
  <2>1. Begun(n).start = tailBlock /\ Begun(n).blocks = << >> /\ Begun(n).count = n
    BY DEF Begun, Waiting
  <2>2. StartBlock = tailBlock
    BY <1>2 DEF StartBlock
  <2> QED BY <1>5, <2>1, <2>2
<1>8. n \in Nat
  BY Bounds
<1>9. Fits(b, g)'
  BY <1>2, <1>3, <1>4, <1>5, <1>6, <1>7, <1>8, EnqueuedKeeps
<1> QED BY <1>9

LEMMA FinishEnqueueKeeps ==
  ASSUME NEW a \in Unwrappings, NEW g \in Layouts, Fits(a, g), FinishEnqueue
  PROVE  \E b \in Unwrappings : Fits(b, g)'
<1>1. CountersFit(a) /\ EnqFits(a)
  BY DEF Fits
<1>2. EnqueueItems(enq) /\ enq.pc = "index" /\ enq' = Waiting
  BY DEF FinishEnqueue
<1>3. enq.count \in 1 .. MaxCount /\ BlocksTo(a.T + enq.count) = BlocksTo(a.T) + Len(enq.blocks)
  BY <1>1, FinishEnqueueFits
<1>4. PICK b \in Unwrappings :
        b.T = a.T + enq.count /\ b.H = a.H /\ CountersFit(b)' /\ EnqFits(b)'
  BY <1>1, FinishEnqueueFits
<1>5. Top(a) = BlocksTo(a.T) + Len(enq.blocks)
  <2>1. BlocksTo(a.T) \in Nat /\ Len(enq.blocks) \in Nat
    BY <1>1, TopType, EnqType DEF EnqFits
  <2> QED BY <1>2, <2>1 DEF Top
<1>6. enq.start = StartBlock /\ enq.count \in Nat
  BY <1>2, <1>3, Bounds DEF StartBlock
<1>7. Fits(b, g)'
  BY <1>2, <1>3, <1>4, <1>5, <1>6, WaitingType, EnqueuedKeeps
<1> QED BY <1>7

-----------------------------------------------------------------------------
(* What the steps make of the index.                                       *)

LEMMA EntryChanges ==
  ASSUME index \in BlockIndexes, NEW ent \in Seq(EntryType), Len(ent) = Len(entries),
         index' = [entries |-> ent, indexes |-> indexes]
  PROVE  /\ RingsStay /\ index' \in BlockIndexes /\ entries' = ent /\ indexes' = indexes
<1>1. entries' = ent /\ indexes' = indexes
  BY DEF entries, indexes
<1>2. indexes \in Seq(HeaderType)
  BY EntriesType
<1>3. index' \in BlockIndexes
  BY <1>2 DEF BlockIndexes
<1> QED BY <1>1, <1>3 DEF RingsStay, blockIndex

LEMMA TailMoves ==
  ASSUME index \in BlockIndexes, blockIndex # 0, NEW ent \in Seq(EntryType),
         Len(ent) = Len(entries), NEW v \in Int,
         index' = [entries |-> ent, indexes |-> [indexes EXCEPT ![blockIndex].tail = v]]
  PROVE  /\ RingsStay /\ index' \in BlockIndexes /\ entries' = ent
         /\ indexes'[blockIndex].tail = v
         /\ \A k \in 1 .. blockIndex : k # blockIndex => indexes'[k].tail = indexes[k].tail
<1>1. entries' = ent /\ indexes' = [indexes EXCEPT ![blockIndex].tail = v]
  BY DEF entries, indexes
<1>2. /\ indexes \in Seq(HeaderType) /\ blockIndex \in 1 .. blockIndex
      /\ indexes[blockIndex] \in HeaderType /\ Len(indexes) = blockIndex
      /\ DOMAIN indexes = 1 .. blockIndex /\ blockIndex \in Nat
  <2>1. blockIndex \in Nat /\ blockIndex \in 1 .. blockIndex
    BY EntriesType
  <2> QED BY <2>1, EntriesType DEF blockIndex
<1>3. PICK r \in HeaderType : /\ r = [indexes[blockIndex] EXCEPT !.tail = v]
                              /\ r.tail = v /\ r.capacity = indexes[blockIndex].capacity
                              /\ r.index = indexes[blockIndex].index
  <2>1. PICK q \in HeaderType : q = indexes[blockIndex]
    BY <1>2
  <2>2. PICK r : r = [q EXCEPT !.tail = v]
    OBVIOUS
  <2>3. r \in HeaderType /\ r.tail = v /\ r.capacity = q.capacity /\ r.index = q.index
    BY <2>2 DEF HeaderType
  <2> QED BY <2>1, <2>2, <2>3
<1>4. indexes' = [indexes EXCEPT ![blockIndex] = r]
  BY <1>1, <1>3
<1>5. /\ indexes' \in Seq(HeaderType) /\ Len(indexes') = blockIndex
      /\ indexes'[blockIndex] = r
      /\ \A k \in 1 .. blockIndex : k # blockIndex => indexes'[k] = indexes[k]
  <2>1. [indexes EXCEPT ![blockIndex] = r] \in Seq(HeaderType)
        /\ Len([indexes EXCEPT ![blockIndex] = r]) = Len(indexes)
    BY <1>2, ExceptSeq
  <2> QED BY <1>2, <1>4, <2>1
<1>6. index' \in BlockIndexes
  BY <1>1, <1>5 DEF BlockIndexes, indexes
<1>7. RingsStay
  BY <1>1, <1>3, <1>5 DEF RingsStay, blockIndex
<1> QED BY <1>1, <1>3, <1>5, <1>6, <1>7

LEMMA EntryExcept ==
  ASSUME NEW s \in Seq(EntryType), NEW e \in 1 .. Len(s), NEW r \in EntryType
  PROVE  /\ [s EXCEPT ![e] = r] \in Seq(EntryType) /\ Len([s EXCEPT ![e] = r]) = Len(s)
         /\ [s EXCEPT ![e] = r][e] = r
         /\ \A f \in 1 .. Len(s) : f # e => [s EXCEPT ![e] = r][f] = s[f]
<1>1. [s EXCEPT ![e] = r] \in Seq(EntryType) /\ Len([s EXCEPT ![e] = r]) = Len(s)
  BY ExceptSeq
<1> QED BY <1>1

LEMMA AdvancedOf ==
  ASSUME NEW a \in Unwrappings, NEW g \in Layouts, RingsFit(a, g), EnqFits(a), blockIndex # 0,
         NEW by \in Int
  PROVE  /\ Advanced(by) = Pos(g, blockIndex, Top(a) - 1 - Undone + by)
         /\ Advanced(by) \in Int /\ Top(a) - 1 - Undone + by \in Int
<1>1. /\ blockIndex \in 1 .. blockIndex /\ Cap(blockIndex) = Len(entries)
      /\ Len(entries) \in Nat \ {0}
  BY RingFacts
<1>2. g.off[blockIndex] \in Int /\ Top(a) \in Nat /\ Undone \in Nat
  BY <1>1, LayoutType, TopType
<1>3. PICK B \in Int, x \in Int, k \in Nat \ {0} :
        B = Top(a) - 1 - Undone /\ x = B + g.off[blockIndex] /\ k = Cap(blockIndex)
  BY <1>1, <1>2
<1>4. indexes[blockIndex].tail = x % k
  BY <1>1, <1>3 DEF RingsFit, Pos
<1>5. ((x % k) + by) % k = (x + by) % k
  BY <1>3, ModAdd
<1>6. x + by = B + by + g.off[blockIndex]
  BY <1>2, <1>3
<1>7. Advanced(by) = (B + by + g.off[blockIndex]) % k
  BY <1>3, <1>4, <1>5, <1>6 DEF Advanced, Cap
<1>8. (x + by) % k \in Int
  <2>1. x + by \in Int
    BY <1>3
  <2> QED BY <2>1, <1>3, Division
<1>9. B + by \in Int
  BY <1>3
<1> QED BY <1>3, <1>6, <1>7, <1>8, <1>9 DEF Pos

(* Blocks that are not there leave the end.                                *)
LEMMA TopDrops ==
  ASSUME NEW a \in Unwrappings, NEW g \in Layouts, NEW b \in Unwrappings,
         RingsFit(a, g), EnqFits(a), KeysFit(a, g), RingsStay, entries' = entries,
         Top(b)' \in Int, Top(b)' <= Top(a), b.T = a.T,
         \A B \in Live(a, g) : B >= Top(b)' => Store(a, g, B) = Null
  PROVE  KeysFit(b, g)' /\ \A B : Store(b, g, B)' = Store(a, g, B)
<1>1. /\ Live(b, g)' \subseteq Live(a, g)
      /\ \A B \in Live(a, g) : B \notin Live(b, g)' => Store(a, g, B) = Null
      /\ g.low \in Nat /\ Top(a) \in Nat
  BY TopType, LayoutType DEF Live
<1>2. \A B \in Live(a, g) : EntryNo(g, B)' = EntryNo(g, B)
  BY RingFacts, PositionsStay
<1>3. ASSUME NEW B PROVE Store(b, g, B)' = Store(a, g, B)
  <2>1. CASE B \in Live(b, g)'
    BY <1>1, <1>2, <2>1 DEF Store
  <2>2. CASE B \notin Live(b, g)'
    BY <1>1, <2>2 DEF Store
  <2> QED BY <2>1, <2>2
<1>4. Top(b)' <= g.low + Len(entries')
  <2>1. Len(entries) \in Nat
    BY EntriesType DEF RingsFit
  <2> QED BY <2>1, <1>1 DEF KeysFit
<1>5. \A B \in Live(b, g)' : entries'[EntryNo(g, B)'].key = Key(B)
  BY <1>1, <1>2 DEF KeysFit
<1>6. ASSUME NEW e \in DOMAIN entries, entries[e].value # Null
      PROVE  \E B \in Live(b, g)' : EntryNo(g, B)' = e
  <2>1. DOMAIN entries = 1 .. Len(entries)
    BY EntriesType DEF RingsFit
  <2>2. PICK B \in Live(a, g) : EntryNo(g, B) = e /\ Store(a, g, B) = entries[e].value
    BY <1>6, <2>1, LiveFacts
  <2>3. B \in Live(b, g)'
    BY <1>1, <1>6, <2>2
  <2> QED BY <1>2, <2>2, <2>3
<1>7. KeysFit(b, g)'
  BY <1>4, <1>5, <1>6 DEF KeysFit
<1> QED BY <1>3, <1>7

-----------------------------------------------------------------------------
(* An enqueue fails.                                                       *)

LEMMA UndoingTakes ==
  ASSUME NEW a \in Unwrappings, NEW g \in Layouts, TakenFit(a, g), EnqFits(a),
         enq.pc \in {"index", "inserted"}, NEW b \in Unwrappings, b.T = a.T,
         tailBlock' = tailBlock, enq'.blocks = enq.blocks, Undone' = 0, EnqFits(b)',
         enq'.pc = IF enq.blocks = << >> THEN "idle" ELSE "undo",
         enq.blocks # << >> => enq'.start = enq.start,
         \A B : Store(b, g, B)' = Store(a, g, B)
  PROVE  TakenFit(b, g)'
<1>1. StartBlock' = StartBlock
  BY DEF StartBlock, TakenFit
<1>2. Undone = 0
  BY DEF Undone
<1>3. enq'.pc = "undo" => tailBlock' = IF enq'.blocks = << >> THEN enq'.start
                                       ELSE enq'.blocks[Len(enq'.blocks)]
  BY DEF TakenFit
<1> QED BY <1>1, <1>2, <1>3 DEF TakenFit

LEMMA NoEntryKeeps ==
  ASSUME NEW a \in Unwrappings, NEW g \in Layouts, Fits(a, g), NoEntry
  PROVE  \E b \in Unwrappings : Fits(b, g)'
<1>1. /\ CountersFit(a) /\ EnqFits(a) /\ BlocksFit(a, g) /\ TakenFit(a, g) /\ PlacesFit
  BY DEF Fits, IndexFits
<1>2. /\ enq.pc = "index" /\ enq' = Undoing /\ index' = index /\ deq' = deq
      /\ block' = block /\ free' = free /\ tailBlock' = tailBlock /\ UNCHANGED counters
  BY DEF NoEntry, storage
<1>3. /\ enq'.blocks = enq.blocks /\ Undone' = 0
      /\ enq'.pc = IF enq.blocks = << >> THEN "idle" ELSE "undo"
      /\ enq.blocks # << >> => enq'.start = enq.start
  BY <1>1, <1>2, UndoingFits
<1>4. PICK b \in Unwrappings : b.T = a.T /\ b.H = a.H /\ CountersFit(b)' /\ EnqFits(b)'
  BY <1>1, <1>2, UndoingFits
<1>5. Top(b)' = Top(a) /\ Undone' = Undone /\ Undone = 0
  BY <1>2, <1>3, <1>4 DEF Top, Undone
<1>6. /\ RingsFit(b, g)' /\ KeysFit(b, g)' /\ OwnFits(b, g)' /\ SearchesFit(g)'
      /\ \A B : Store(b, g, B)' = Store(a, g, B)
      /\ \A i : Pending(b, g, i)' = Pending(a, g, i)
      /\ \A B : PendingOf(b, g, B)' = PendingOf(a, g, B)
  <2>1. a.T <= b.T
    BY <1>4, UnwrappingType
  <2> QED BY <1>2, <1>4, <1>5, <2>1, IndexQuiet
<1>7. BlocksFit(b, g)'
  BY <1>1, <1>2, <1>4, <1>6, BlocksStay
<1>8. TakenFit(b, g)'
  BY <1>1, <1>2, <1>3, <1>4, <1>6, UndoingTakes
<1>9. PlacesFit'
  <2>1. \A x : /\ Entered(x)' = Entered(x) /\ Freeing(x)' = Freeing(x)
               /\ Untaken(x)' = Untaken(x)
    BY <1>2, <1>3, <1>5, IndexStays DEF Entered, Freeing, Untaken
  <2>2. \A c \in Dequeuers : deq'[c].pc = "free" => deq'[c].block \in Blocks
    BY <1>1, <1>2 DEF PlacesFit
  <2>3. enq.pc # "destroyed" /\ enq'.pc # "destroyed"
    BY <1>2, <1>3
  <2> QED BY <1>1, <1>2, <1>4, <2>1, <2>2, <2>3, PlacesQuiet
<1> QED BY <1>4, <1>6, <1>7, <1>8, <1>9 DEF Fits, IndexFits

(* Searches, where the entries keep their keys.                            *)
LEMMA SearchesStay ==
  ASSUME NEW a \in Unwrappings, NEW g \in Layouts, NEW h \in Layouts,
         h.off = g.off, h.idx = g.idx, g.low <= h.low,
         RingsFit(a, g), EnqFits(a), RingsStay, SearchesFit(g), deq' = deq,
         \A e \in 1 .. Len(entries) : entries'[e].key = entries[e].key
  PROVE  SearchesFit(h)'
<1>1. ASSUME NEW c \in Dequeuers, deq'[c].pc \in {"key", "block", "free"}
      PROVE  SearchFits(h, c)'
  <2>1. deq'[c] = deq[c] /\ SearchFits(g, c)
    BY <1>1 DEF SearchesFit
  <2> QED BY <2>1, SearchStays
<1> QED BY <1>1 DEF SearchesFit

LEMMA NoBlockKeeps ==
  ASSUME NEW a \in Unwrappings, NEW g \in Layouts, Fits(a, g), NoBlock
  PROVE  \E b \in Unwrappings : Fits(b, g)'
<1>1. /\ CountersFit(a) /\ EnqFits(a) /\ BlocksFit(a, g) /\ TakenFit(a, g) /\ PlacesFit
      /\ RingsFit(a, g) /\ KeysFit(a, g) /\ OwnFits(a, g) /\ SearchesFit(g)
  BY DEF Fits, IndexFits
<1>2. /\ enq.pc = "inserted" /\ enq' = Undoing /\ deq' = deq
      /\ index' = [index EXCEPT !.indexes[blockIndex].tail = Advanced(-1)]
      /\ block' = block /\ free' = free /\ tailBlock' = tailBlock /\ UNCHANGED counters
  BY DEF NoBlock
<1>3. /\ enq'.blocks = enq.blocks /\ Undone' = 0
      /\ enq'.pc = IF enq.blocks = << >> THEN "idle" ELSE "undo"
      /\ enq.blocks # << >> => enq'.start = enq.start
  BY <1>1, <1>2, UndoingFits
<1>4. PICK b \in Unwrappings : b.T = a.T /\ b.H = a.H /\ CountersFit(b)' /\ EnqFits(b)'
  BY <1>1, <1>2, UndoingFits
<1>5. /\ index \in BlockIndexes /\ entries \in Seq(EntryType) /\ blockIndex # 0
      /\ index = [entries |-> entries, indexes |-> indexes]
  BY <1>1, <1>2, EntriesType DEF RingsFit, NoIndex
<1>6. /\ Top(a) \in Nat /\ Undone = 0 /\ Top(b)' = Top(a) - 1
      /\ BlocksTo(a.T) \in Nat /\ Len(enq.blocks) \in Nat
  <2>1. /\ BlocksTo(a.T) \in Nat /\ Len(enq.blocks) \in Nat /\ Top(a) \in Nat
    BY <1>1, TopType, EnqType DEF EnqFits
  <2>2. Top(a) = BlocksTo(a.T) + Len(enq.blocks) + 1
    BY <1>2 DEF Top
  <2>3. Top(b)' = BlocksTo(a.T) + Len(enq.blocks) + 0
    BY <1>3, <1>4 DEF Top
  <2>4. Undone = 0
    BY <1>2 DEF Undone
  <2> QED BY <2>1, <2>2, <2>3, <2>4
<1>7. Advanced(-1) \in Int /\ Advanced(-1) = Pos(g, blockIndex, Top(b)' - 1 - Undone')
  <2>1. Top(a) - 1 - Undone + (-1) = Top(b)' - 1 - Undone'
    BY <1>3, <1>6
  <2> QED BY <1>1, <1>5, <2>1, AdvancedOf
<1>8. /\ RingsStay /\ index' \in BlockIndexes /\ entries' = entries
      /\ indexes'[blockIndex].tail = Advanced(-1)
      /\ \A k \in 1 .. blockIndex : k # blockIndex => indexes'[k].tail = indexes[k].tail
  <2>1. index' = [entries |-> entries, indexes |-> [indexes EXCEPT ![blockIndex].tail = Advanced(-1)]]
    BY <1>2, <1>5
  <2> QED BY <1>5, <1>7, <2>1, TailMoves
<1>9. RingsFit(b, g)'
  <2>1. Top(b)' - 1 - Undone' \in Int
    BY <1>3, <1>6
  <2> QED BY <1>1, <1>5, <1>7, <1>8, <2>1, RingsStayFit
<1>10. KeysFit(b, g)' /\ \A B : Store(b, g, B)' = Store(a, g, B)
  <2>1. Top(b)' \in Int /\ Top(b)' <= Top(a)
    BY <1>6
  <2>2. ASSUME NEW B \in Live(a, g), B >= Top(b)' PROVE Store(a, g, B) = Null
    <3>1. B = Top(a) - 1
      BY <1>6, <2>2, LayoutType DEF Live
    <3> QED BY <1>1, <1>2, <3>1 DEF TakenFit
  <2> QED BY <1>1, <1>4, <1>8, <2>1, <2>2, TopDrops
<1>11. /\ OwnFits(b, g)'
       /\ \A i : Pending(b, g, i)' = Pending(a, g, i)
       /\ \A B : PendingOf(b, g, B)' = PendingOf(a, g, B)
  BY <1>1, <1>2, <1>4, OwnStays
<1>12. SearchesFit(g)'
  <2>1. g.low <= g.low
    BY LayoutType
  <2> QED BY <1>1, <1>2, <1>8, <2>1, SearchesStay
<1>13. BlocksFit(b, g)'
  BY <1>1, <1>2, <1>4, <1>10, <1>11, BlocksStay
<1>14. TakenFit(b, g)'
  BY <1>1, <1>2, <1>3, <1>4, <1>10, UndoingTakes
<1>15. PlacesFit'
  <2>1. \A x : /\ Entered(x)' = Entered(x) /\ Freeing(x)' = Freeing(x)
               /\ Untaken(x)' = Untaken(x)
    BY <1>2, <1>3, <1>6, <1>8 DEF Entered, Freeing, Untaken
  <2>2. \A c \in Dequeuers : deq'[c].pc = "free" => deq'[c].block \in Blocks
    BY <1>1, <1>2 DEF PlacesFit
  <2>3. enq.pc # "destroyed" /\ enq'.pc # "destroyed"
    BY <1>2, <1>3
  <2> QED BY <1>1, <1>2, <1>4, <2>1, <2>2, <2>3, PlacesQuiet
<1> QED BY <1>4, <1>9, <1>10, <1>11, <1>12, <1>13, <1>14, <1>15 DEF Fits, IndexFits

(* A block leaves the index.                                               *)
LEMMA ValueLeaves ==
  ASSUME NEW a \in Unwrappings, NEW g \in Layouts, NEW h \in Layouts, NEW b \in Unwrappings,
         h.off = g.off, h.low = g.low, b.T = a.T, Top(b)' = Top(a),
         RingsFit(a, g), EnqFits(a), KeysFit(a, g), RingsStay,
         NEW M \in Live(a, g), entries' \in Seq(EntryType),
         \A e \in 1 .. Len(entries) : /\ entries'[e].key = entries[e].key
                                      /\ e # EntryNo(g, M) => entries'[e].value = entries[e].value,
         entries'[EntryNo(g, M)].value = Null
  PROVE  /\ KeysFit(b, h)'
         /\ \A B : Store(b, h, B)' = IF B = M THEN Null ELSE Store(a, g, B)
         /\ \A x \in Blocks : Entered(x)' = Entered(x) \ {EntryNo(g, M)}
<1>1. /\ index \in BlockIndexes /\ entries \in Seq(EntryType) /\ DOMAIN entries = 1 .. Len(entries)
  BY EntriesType DEF RingsFit
<1>2. /\ EntryNo(g, M) \in 1 .. Len(entries) /\ blockIndex # 0 /\ M \in Int
  BY LiveFacts
<1>3. PICK E \in 1 .. Len(entries) : E = EntryNo(g, M)
  BY <1>2
<1>6. /\ DOMAIN entries' = 1 .. Len(entries) /\ Len(entries') = Len(entries)
      /\ entries'[E].value = Null
      /\ \A e \in 1 .. Len(entries) : e # E => entries'[e].value = entries[e].value
  BY <1>1, <1>3 DEF RingsStay
<1>7. \A e \in 1 .. Len(entries) : entries'[e].key = entries[e].key
  OBVIOUS
<1>8. \A B \in Live(a, g) : EntryNo(h, B)' = EntryNo(g, B)
  BY LiveFacts, PositionsStay
<1>9. Live(b, h)' = Live(a, g)
  BY DEF Live
<1>10. ASSUME NEW B PROVE Store(b, h, B)' = IF B = M THEN Null ELSE Store(a, g, B)
  <2>1. CASE B \in Live(a, g)
    <3>1. Store(b, h, B)' = entries'[EntryNo(g, B)].value
      BY <1>8, <1>9, <2>1 DEF Store
    <3>2. CASE B = M
      BY <1>3, <1>6, <3>1, <3>2
    <3>3. CASE B # M
      <4>1. EntryNo(g, B) # E /\ EntryNo(g, B) \in 1 .. Len(entries)
            /\ Store(a, g, B) = entries[EntryNo(g, B)].value
        BY <1>3, <2>1, <3>3, LiveFacts
      <4> QED BY <1>6, <3>1, <3>3, <4>1
    <3> QED BY <3>2, <3>3
  <2>2. CASE B \notin Live(a, g)
    BY <1>9, <2>2 DEF Store
  <2> QED BY <2>1, <2>2
<1>11. KeysFit(b, h)'
  <2>1. h.low <= BlocksTo(b.T) /\ Top(b)' <= h.low + Len(entries')
    BY <1>6 DEF KeysFit
  <2>2. \A B \in Live(b, h)' : entries'[EntryNo(h, B)'].key = Key(B)
    BY <1>7, <1>8, <1>9, LiveFacts
  <2>3. ASSUME NEW e \in DOMAIN entries', entries'[e].value # Null
        PROVE  \E B \in Live(b, h)' : EntryNo(h, B)' = e
    <3>1. e # E /\ entries[e].value # Null /\ e \in 1 .. Len(entries)
      BY <1>6, <2>3
    <3>2. PICK B \in Live(a, g) : EntryNo(g, B) = e
      BY <3>1, LiveFacts
    <3> QED BY <1>8, <1>9, <3>2
  <2> QED BY <2>1, <2>2, <2>3 DEF KeysFit
<1>12. ASSUME NEW x \in Blocks PROVE Entered(x)' = Entered(x) \ {EntryNo(g, M)}
  <2>1. Null # x
    BY QueueAssumption
  <2> QED BY <1>1, <1>3, <1>6, <2>1 DEF Entered
<1> QED BY <1>10, <1>11, <1>12

LEMMA ValueGoes ==
  ASSUME NEW a \in Unwrappings, NEW g \in Layouts, NEW h \in Layouts, NEW b \in Unwrappings,
         h.off = g.off, h.low = g.low, b.T = a.T, Top(b)' = Top(a),
         RingsFit(a, g), EnqFits(a), KeysFit(a, g), RingsStay,
         NEW M \in Live(a, g),
         entries' = [entries EXCEPT ![EntryNo(g, M)].value = Null]
  PROVE  /\ KeysFit(b, h)'
         /\ \A B : Store(b, h, B)' = IF B = M THEN Null ELSE Store(a, g, B)
         /\ \A x \in Blocks : Entered(x)' = Entered(x) \ {EntryNo(g, M)}
         /\ \A e \in 1 .. Len(entries) : entries'[e].key = entries[e].key
<1>1. /\ index \in BlockIndexes /\ entries \in Seq(EntryType) /\ DOMAIN entries = 1 .. Len(entries)
      /\ \A e \in 1 .. Len(entries) : entries[e] \in EntryType
  BY EntriesType DEF RingsFit
<1>2. /\ EntryNo(g, M) \in 1 .. Len(entries) /\ blockIndex # 0 /\ M \in Int
  BY LiveFacts
<1>3. PICK E \in 1 .. Len(entries) : E = EntryNo(g, M)
  BY <1>2
<1>4. PICK r \in EntryType : r = [entries[E] EXCEPT !.value = Null] /\ r.value = Null
                             /\ r.key = entries[E].key
  <2>1. PICK q \in EntryType : q = entries[E]
    BY <1>1
  <2>2. PICK r : r = [q EXCEPT !.value = Null]
    OBVIOUS
  <2>3. r \in EntryType /\ r.value = Null /\ r.key = q.key
    BY <2>2 DEF EntryType
  <2> QED BY <2>1, <2>2, <2>3
<1>5. entries' = [entries EXCEPT ![E] = r]
  BY <1>3, <1>4
<1>6. /\ DOMAIN entries' = 1 .. Len(entries) /\ Len(entries') = Len(entries)
      /\ entries'[E] = r /\ \A e \in 1 .. Len(entries) : e # E => entries'[e] = entries[e]
  BY <1>1, <1>5, EntryExcept
<1>7. \A e \in 1 .. Len(entries) : entries'[e].key = entries[e].key
  BY <1>4, <1>6
<1>8. /\ entries' \in Seq(EntryType) /\ entries'[EntryNo(g, M)].value = Null
      /\ \A e \in 1 .. Len(entries) :
           e # EntryNo(g, M) => entries'[e].value = entries[e].value
  BY <1>1, <1>3, <1>4, <1>5, <1>6, EntryExcept
<1> QED BY <1>7, <1>8, ValueLeaves

(* Where the last index says a block is.                                   *)
LEMMA EntryForOf ==
  ASSUME NEW a \in Unwrappings, NEW g \in Layouts,
         RingsFit(a, g), EnqFits(a), KeysFit(a, g), Top(a) - 1 - Undone \in Live(a, g),
         NEW x \in Int, x \div BlockSize \in Live(a, g)
  PROVE  EntryFor(x % IndexT) = EntryNo(g, x \div BlockSize)
<1>1. PICK K \in Live(a, g), M \in Live(a, g) : K = Top(a) - 1 - Undone /\ M = x \div BlockSize
  OBVIOUS
<1>2. /\ K \in Nat /\ M \in Nat /\ blockIndex # 0 /\ entries[EntryNo(g, K)].key = Key(K)
  BY LiveFacts
<1>3. /\ blockIndex \in 1 .. blockIndex /\ Cap(blockIndex) = Len(entries)
      /\ Len(entries) \in Nat \ {0} /\ Len(entries) <= MaxCapacity
  BY <1>2, RingFacts
<1>4. g.off[blockIndex] \in Int /\ g.low \in Nat /\ Top(a) \in Nat /\ MaxCapacity \in Nat
      /\ Top(a) <= g.low + Len(entries)
  <2>1. blockIndex \in Nat
    BY EntriesType DEF RingsFit
  <2>2. g.off[blockIndex] \in Int /\ g.low \in Nat
    BY <2>1, LayoutType
  <2>3. Top(a) \in Nat
    BY TopType
  <2>4. MaxCapacity \in Nat
    BY QueueAssumption
  <2> QED BY <2>2, <2>3, <2>4 DEF KeysFit
<1>5. M - K < MaxCapacity /\ K - M < MaxCapacity
  BY <1>3, <1>4 DEF Live
<1>6. PICK off \in Int, size \in Nat \ {0} : off = g.off[blockIndex] /\ size = Cap(blockIndex)
  BY <1>3, <1>4
<1>7. PositionFrom((K + off) % size, Key(K), x % IndexT, size) = (M + off) % size
  <2>1. K \in Int /\ (x \div BlockSize) - K < MaxCapacity /\ K - (x \div BlockSize) < MaxCapacity
    BY <1>1, <1>2, <1>5
  <2>2. PositionFrom((K + off) % size, Key(K), x % IndexT, size)
          = ((x \div BlockSize) + off) % size
    BY <1>6, <2>1, PositionOf
  <2> QED BY <1>1, <2>2
<1>8. indexes[blockIndex].tail = (K + off) % size
  BY <1>1, <1>2, <1>6 DEF RingsFit, Pos
<1>9. entries[indexes[blockIndex].index[indexes[blockIndex].tail]].key = Key(K)
  BY <1>2, <1>6, <1>8 DEF EntryNo, Pos
<1>10. Position(blockIndex, indexes[blockIndex].tail, x % IndexT) = (M + off) % size
  BY <1>6, <1>7, <1>8, <1>9 DEF Position, Cap
<1> QED BY <1>1, <1>6, <1>10 DEF EntryFor, EntryNo, Pos

LEMMA UndoBlockKeeps ==
  ASSUME NEW a \in Unwrappings, NEW g \in Layouts, Fits(a, g), UndoBlock
  PROVE  \E b \in Unwrappings : Fits(b, g)'
<1>1. /\ CountersFit(a) /\ EnqFits(a) /\ BlocksFit(a, g) /\ TakenFit(a, g) /\ PlacesFit
      /\ RingsFit(a, g) /\ KeysFit(a, g) /\ OwnFits(a, g) /\ SearchesFit(g)
  BY DEF Fits, IndexFits
<1>2. /\ enq.pc = "undo" /\ deq' = deq
      /\ index' = [index EXCEPT !.entries[EntryFor(NextBase)].value = Null,
                                !.indexes[blockIndex].tail = Advanced(-1)]
      /\ block' = block /\ free' = free /\ tailBlock' = tailBlock
  BY DEF UndoBlock
<1>3. /\ enq'.blocks = enq.blocks /\ Undone' = Undone + 1 /\ enq'.pc = "undo"
      /\ enq'.start = enq.start /\ Undone < Len(enq.blocks)
      /\ NextBase = Key(BlocksTo(a.T) + Undone)
  BY <1>1, UndoBlockFits
<1>4. PICK b \in Unwrappings : b.T = a.T /\ b.H = a.H /\ CountersFit(b)' /\ EnqFits(b)'
  BY <1>1, UndoBlockFits
<1>5. /\ BlocksTo(a.T) \in Nat /\ Len(enq.blocks) \in Nat /\ Top(a) \in Nat /\ Undone \in Nat
      /\ g.low \in Nat /\ g.low <= BlocksTo(a.T)
      /\ Top(a) = BlocksTo(a.T) + Len(enq.blocks) /\ Top(b)' = Top(a)
      /\ \A j \in 1 .. Len(enq.blocks) : enq.blocks[j] \in Blocks
  <2>1. /\ BlocksTo(a.T) \in Nat /\ Len(enq.blocks) \in Nat /\ Top(a) \in Nat /\ Undone \in Nat
        /\ \A j \in 1 .. Len(enq.blocks) : enq.blocks[j] \in Blocks
    BY <1>1, TopType, EnqType DEF EnqFits
  <2>2. Top(a) = BlocksTo(a.T) + Len(enq.blocks) /\ Top(b)' = BlocksTo(a.T) + Len(enq.blocks)
    BY <1>2, <1>3, <1>4, <2>1 DEF Top
  <2> QED BY <1>1, <2>1, <2>2, LayoutType DEF KeysFit
<1>6. PICK M \in Live(a, g) : M = BlocksTo(a.T) + Undone /\ M \in Nat
  BY <1>3, <1>5 DEF Live
<1>7. Top(a) - 1 - Undone \in Live(a, g)
  BY <1>3, <1>5 DEF Live
<1>8. /\ index \in BlockIndexes /\ entries \in Seq(EntryType) /\ blockIndex # 0
      /\ index = [entries |-> entries, indexes |-> indexes]
      /\ EntryNo(g, M) \in 1 .. Len(entries) /\ entries[EntryNo(g, M)] \in EntryType
  BY <1>1, EntriesType, LiveFacts DEF RingsFit
<1>9. EntryFor(NextBase) = EntryNo(g, M)
  <2>1. PICK x \in Int : x = M * BlockSize
    BY <1>6, Widths
  <2>2. x \div BlockSize = M
    <3>1. 0 \in 0 .. BlockSize - 1 /\ M \in Int
      BY <1>6, Widths
    <3>2. (M * BlockSize + 0) \div BlockSize = M
      BY <3>1, NumberUnique
    <3>3. x = M * BlockSize + 0
      BY <2>1
    <3> QED BY <3>2, <3>3
  <2>3. NextBase = x % IndexT
    BY <1>3, <1>6, <2>1 DEF Key
  <2> QED BY <1>1, <1>7, <2>2, <2>3, EntryForOf
<1>10. Advanced(-1) \in Int /\ Advanced(-1) = Pos(g, blockIndex, Top(b)' - 1 - Undone')
  <2>1. Top(a) - 1 - Undone + (-1) = Top(b)' - 1 - Undone'
    BY <1>3, <1>5
  <2> QED BY <1>1, <1>8, <2>1, AdvancedOf
<1>11. PICK ent \in Seq(EntryType) :
         ent = [entries EXCEPT ![EntryNo(g, M)].value = Null] /\ Len(ent) = Len(entries)
  <2>1. PICK E \in 1 .. Len(entries) : E = EntryNo(g, M)
    BY <1>8
  <2>2. PICK q \in EntryType : q = entries[E]
    BY <1>8, <2>1
  <2>3. PICK r : r = [q EXCEPT !.value = Null]
    OBVIOUS
  <2>4. r \in EntryType
    BY <2>3 DEF EntryType
  <2>5. [entries EXCEPT ![E] = r] \in Seq(EntryType) /\ Len([entries EXCEPT ![E] = r]) = Len(entries)
    BY <1>8, <2>4, EntryExcept
  <2>6. [entries EXCEPT ![EntryNo(g, M)].value = Null] = [entries EXCEPT ![E] = r]
    BY <2>1, <2>2, <2>3
  <2> QED BY <2>5, <2>6
<1>12. /\ RingsStay /\ index' \in BlockIndexes /\ entries' = ent
       /\ indexes'[blockIndex].tail = Advanced(-1)
       /\ \A k \in 1 .. blockIndex : k # blockIndex => indexes'[k].tail = indexes[k].tail
  <2>1. index' = [entries |-> ent, indexes |-> [indexes EXCEPT ![blockIndex].tail = Advanced(-1)]]
    BY <1>2, <1>8, <1>9, <1>11
  <2> QED BY <1>8, <1>10, <1>11, <2>1, TailMoves
<1>13. RingsFit(b, g)'
  <2>1. Top(b)' - 1 - Undone' \in Int
    BY <1>3, <1>5
  <2> QED BY <1>1, <1>8, <1>10, <1>12, <2>1, RingsStayFit
<1>14. /\ KeysFit(b, g)'
       /\ \A B : Store(b, g, B)' = IF B = M THEN Null ELSE Store(a, g, B)
       /\ \A x \in Blocks : Entered(x)' = Entered(x) \ {EntryNo(g, M)}
       /\ \A e \in 1 .. Len(entries) : entries'[e].key = entries[e].key
  BY <1>1, <1>4, <1>5, <1>11, <1>12, ValueGoes
<1>15. /\ OwnFits(b, g)'
       /\ \A i : Pending(b, g, i)' = Pending(a, g, i)
       /\ \A B : PendingOf(b, g, B)' = PendingOf(a, g, B)
  BY <1>1, <1>2, <1>4, OwnStays
<1>16. SearchesFit(g)'
  <2>1. g.low <= g.low
    BY LayoutType
  <2> QED BY <1>1, <1>2, <1>12, <1>14, <2>1, SearchesStay
<1>17. BlocksFit(b, g)'
  <2>1. ASSUME NEW i \in Nat, i < BlocksTo(a.T) * BlockSize
        PROVE  Store(b, g, i \div BlockSize)' = Store(a, g, i \div BlockSize)
    <3>1. i \div BlockSize < BlocksTo(a.T)
      <4>1. a.T \in Nat
        BY UnwrappingType
      <4> QED BY <2>1, <4>1, ItemBefore
    <3>2. i \div BlockSize # M
      <4>1. i \div BlockSize \in Int
        BY InBlock
      <4> QED BY <3>1, <4>1, <1>5, <1>6
    <3> QED BY <1>14, <3>2
  <2>2. ASSUME NEW i \in Nat, i < a.T
        PROVE  Store(b, g, i \div BlockSize)' = Store(a, g, i \div BlockSize)
    <3>1. a.T <= BlocksTo(a.T) * BlockSize /\ a.T \in Nat /\ BlocksTo(a.T) * BlockSize \in Int
      <4>1. BlockSize \in Nat
        BY Widths
      <4> QED BY <1>1, <1>5, <4>1, TopType
    <3>2. i < BlocksTo(a.T) * BlockSize
      BY <2>2, <3>1
    <3> QED BY <2>1, <3>2
  <2>3. \A i \in Nat : Pending(b, g, i)' /\ i < BlocksTo(b.T) * BlockSize =>
          Store(b, g, i \div BlockSize)' # Null
    BY <1>1, <1>4, <1>15, <2>1 DEF BlocksFit
  <2>4. \A B \in Nat : Store(b, g, B)' # Null =>
          /\ PendingOf(b, g, B)' # {}
          /\ block[Store(b, g, B)'].done + Cardinality(PendingOf(b, g, B)') = BlockSize
    BY <1>1, <1>14, <1>15 DEF BlocksFit
  <2>5. \A i \in Nat : Pending(b, g, i)' /\ i < b.T =>
          block[Store(b, g, i \div BlockSize)'].elements[i % BlockSize] = i % IndexT
    BY <1>1, <1>4, <1>15, <2>2 DEF BlocksFit
  <2>6. block \in [Blocks -> BlockType]
    BY <1>1 DEF BlocksFit
  <2> QED BY <1>2, <2>3, <2>4, <2>5, <2>6 DEF BlocksFit
<1>18. TakenFit(b, g)'
  <2>1. ASSUME NEW j \in 1 .. Len(enq.blocks), j > Undone + 1
        PROVE  Store(b, g, BlocksTo(a.T) + j - 1)' = enq.blocks[j]
    <3>1. BlocksTo(a.T) + j - 1 # M /\ j > Undone
      BY <1>5, <1>6, <2>1
    <3>2. Store(a, g, BlocksTo(a.T) + j - 1) = enq.blocks[j]
      BY <1>1, <3>1 DEF TakenFit
    <3> QED BY <1>14, <3>1, <3>2
  <2>2. ASSUME NEW j \in 1 .. Undone + 1
        PROVE  Store(b, g, BlocksTo(a.T) + j - 1)' = Null
    <3>1. CASE j = Undone + 1
      <4>1. BlocksTo(a.T) + j - 1 = M
        BY <1>5, <1>6, <3>1
      <4> QED BY <1>14, <4>1
    <3>2. CASE j # Undone + 1
      <4>1. j \in 1 .. Undone
        BY <1>5, <3>2
      <4>2. Store(a, g, BlocksTo(a.T) + j - 1) = Null
        BY <1>1, <4>1 DEF TakenFit
      <4> QED BY <1>14, <4>2
    <3> QED BY <3>1, <3>2
  <2>3. Store(b, g, BlocksTo(a.T) - 1)' \in {Null, enq.start}
    <3>1. BlocksTo(a.T) - 1 # M
      BY <1>5, <1>6
    <3> QED BY <1>1, <1>2, <1>14, <3>1 DEF TakenFit, StartBlock
  <2>4. tailBlock = IF enq.blocks = << >> THEN enq.start ELSE enq.blocks[Len(enq.blocks)]
    BY <1>1, <1>2 DEF TakenFit
  <2> QED BY <1>2, <1>3, <1>4, <2>1, <2>2, <2>3, <2>4 DEF TakenFit, StartBlock
<1>19. PlacesFit'
  <2>1. PICK x0 \in Blocks : x0 = enq.blocks[Undone + 1] /\ Store(a, g, M) = x0
    <3>1. Undone + 1 \in 1 .. Len(enq.blocks) /\ BlocksTo(a.T) + (Undone + 1) - 1 = M
          /\ Undone + 1 > Undone
      BY <1>3, <1>5, <1>6
    <3>2. Store(a, g, BlocksTo(a.T) + (Undone + 1) - 1) = enq.blocks[Undone + 1]
      BY <1>1, <3>1 DEF TakenFit
    <3> QED BY <1>5, <3>1, <3>2
  <2>2. EntryNo(g, M) \in Entered(x0)
    <3>1. Store(a, g, M) = entries[EntryNo(g, M)].value
      BY <1>1, LiveFacts
    <3>2. DOMAIN entries = 1 .. Len(entries)
      BY <1>8, EntriesType
    <3> QED BY <1>8, <2>1, <3>1, <3>2 DEF Entered
  <2>3. /\ Entered(x0) = {EntryNo(g, M)} /\ x0 \notin free /\ Freeing(x0) = {}
        /\ Untaken(x0) = {}
    BY <1>1, <1>2, <2>2, PlaceOf
  <2>4. \A x : Freeing(x)' = Freeing(x)
    BY <1>2 DEF Freeing
  <2>5. ASSUME NEW x \in Blocks \ {x0}
        PROVE  /\ x \in free' <=> x \in free
               /\ Entered(x)' = Entered(x) /\ Untaken(x)' = Untaken(x)
    <3>1. EntryNo(g, M) \notin Entered(x)
      BY <2>2, <2>5 DEF Entered
    <3>2. Untaken(x)' = {k \in 1 .. Undone + 1 : enq.blocks[k] = x}
      BY <1>3 DEF Untaken
    <3>3. \A k \in 1 .. Undone + 1 : k # Undone + 1 <=> k \in 1 .. Undone
      BY <1>5
    <3>4. Undone + 1 \in 1 .. Undone + 1 /\ 1 .. Undone \subseteq 1 .. Undone + 1
      BY <1>5
    <3>5. Untaken(x)' = Untaken(x)
      BY <2>1, <2>5, <3>2, <3>3, <3>4 DEF Untaken
    <3> QED BY <1>2, <1>14, <3>1, <3>5
  <2>6. IsOne(PlacesOf(free' \intersect {x0}, Entered(x0)', Freeing(x0)', Untaken(x0)'))
    <3>1. free' \intersect {x0} = {} /\ Entered(x0)' = {} /\ Freeing(x0)' = {}
      BY <1>2, <1>14, <2>3, <2>4
    <3>2. Untaken(x0)' = {k \in 1 .. Undone + 1 : enq.blocks[k] = x0}
      BY <1>3 DEF Untaken
    <3>3. Undone + 1 \in 1 .. Undone + 1
          /\ \A k \in 1 .. Undone + 1 : k # Undone + 1 => k \in 1 .. Undone
      BY <1>5
    <3>4. Untaken(x0)' = {Undone + 1}
      BY <2>1, <2>3, <3>2, <3>3 DEF Untaken
    <3> QED BY <3>1, <3>4, NewPlace
  <2>7. /\ enq.pc # "destroyed" /\ enq'.pc # "destroyed" /\ free' \subseteq Blocks
        /\ \A c \in Dequeuers : deq'[c].pc = "free" => deq'[c].block \in Blocks
    BY <1>1, <1>2, <1>3 DEF PlacesFit
  <2>8. \A x \in Blocks \intersect {x0} :
           IsOne(PlacesOf(free' \intersect {x}, Entered(x)', Freeing(x)', Untaken(x)'))
    BY <2>6
  <2>9. \A x \in Blocks \ {x0} : /\ x \in free' <=> x \in free
                                 /\ Entered(x)' = Entered(x) /\ Freeing(x)' = Freeing(x)
                                 /\ Untaken(x)' = Untaken(x)
    BY <2>4, <2>5
  <2> QED BY <1>1, <1>4, <2>7, <2>8, <2>9, PlacesStay
<1> QED BY <1>4, <1>13, <1>14, <1>15, <1>16, <1>17, <1>18, <1>19 DEF Fits, IndexFits


LEMMA FinishUndoKeeps ==
  ASSUME NEW a \in Unwrappings, NEW g \in Layouts, Fits(a, g), FinishUndo
  PROVE  \E b \in Unwrappings : Fits(b, g)'
<1>1. /\ CountersFit(a) /\ EnqFits(a) /\ BlocksFit(a, g) /\ TakenFit(a, g) /\ PlacesFit
      /\ RingsFit(a, g) /\ KeysFit(a, g) /\ OwnFits(a, g) /\ SearchesFit(g)
  BY DEF Fits, IndexFits
<1>2. /\ enq.pc = "undo" /\ enq.need = 0 /\ enq' = Waiting /\ deq' = deq /\ index' = index
      /\ free' = free \union {enq.blocks[k] : k \in DOMAIN enq.blocks}
      /\ tailBlock' = enq.start /\ block' = block /\ UNCHANGED counters
  BY DEF FinishUndo
<1>3. /\ enq' \in Enqueuing /\ enq'.pc = "idle" /\ enq'.blocks = << >> /\ Len(<< >>) = 0
  BY <1>2, WaitingType
<1>4. /\ BlocksTo(a.T) \in Nat /\ Len(enq.blocks) \in Nat /\ Top(a) \in Nat
      /\ DOMAIN enq.blocks = 1 .. Len(enq.blocks)
      /\ \A j \in 1 .. Len(enq.blocks) : enq.blocks[j] \in Blocks
      /\ enq.start \in Blocks \union {Null}
  BY <1>1, TopType, EnqType DEF EnqFits
<1>5. PICK b \in Unwrappings : b.T = a.T /\ b.H = a.H /\ CountersFit(b)' /\ EnqFits(b)'
  <2>1. tailBlock' \in Blocks \union {Null} /\ enq'.pc \in {"idle", "destroyed"}
    BY <1>2, <1>3, <1>4
  <2> QED BY <1>1, <1>2, <1>3, <2>1, WaitFits
<1>6. /\ Undone = Len(enq.blocks) /\ Undone' = 0
      /\ Top(a) = BlocksTo(a.T) + Len(enq.blocks) /\ Top(b)' = BlocksTo(a.T)
  <2>1. Undone = Len(enq.blocks) /\ Undone' = 0
    BY <1>2, <1>3, <1>4 DEF Undone
  <2>2. Top(a) = BlocksTo(a.T) + Len(enq.blocks)
    BY <1>2, <1>4 DEF Top
  <2>3. Top(b)' = BlocksTo(a.T)
    BY <1>3, <1>4, <1>5 DEF Top
  <2> QED BY <2>1, <2>2, <2>3
<1>7. /\ RingsStay /\ entries' = entries /\ indexes' = indexes /\ index' \in BlockIndexes
  BY <1>1, <1>2, IndexStays DEF RingsFit
<1>8. RingsFit(b, g)'
  <2>1. Top(b)' - 1 - Undone' \in Int /\ Top(b)' - 1 - Undone' = Top(a) - 1 - Undone
    BY <1>4, <1>6
  <2>2. blockIndex = 0 => NoIndex(b)'
    BY <1>1, <1>3, <1>5, <1>7 DEF RingsFit, NoIndex
  <2>3. blockIndex # 0 =>
          indexes'[blockIndex].tail = Pos(g, blockIndex, Top(b)' - 1 - Undone')
    BY <1>1, <1>7, <2>1 DEF RingsFit
  <2>4. \A k \in 1 .. blockIndex : k # blockIndex => indexes'[k].tail = indexes[k].tail
    BY <1>7
  <2> QED BY <1>1, <1>7, <2>1, <2>2, <2>3, <2>4, RingsStayFit
<1>9. KeysFit(b, g)' /\ \A B : Store(b, g, B)' = Store(a, g, B)
  <2>1. Top(b)' \in Int /\ Top(b)' <= Top(a)
    BY <1>4, <1>6
  <2>2. ASSUME NEW B \in Live(a, g), B >= Top(b)' PROVE Store(a, g, B) = Null
    <3>0. B \in Int /\ B <= Top(a) - 1 /\ B >= BlocksTo(a.T)
      <4>1. g.low \in Int
        BY LayoutType
      <4> QED BY <4>1, <1>4, <1>6, <2>2 DEF Live
    <3>1. PICK j \in 1 .. Undone : j = B - BlocksTo(a.T) + 1
      <4>1. B - BlocksTo(a.T) + 1 \in 1 .. Undone
        BY <1>4, <1>6, <3>0
      <4> QED BY <4>1
    <3>2. BlocksTo(a.T) + j - 1 = B
      BY <1>4, <3>0, <3>1
    <3> QED BY <1>1, <3>1, <3>2 DEF TakenFit
  <2> QED BY <1>1, <1>5, <1>7, <2>1, <2>2, TopDrops
<1>10. /\ OwnFits(b, g)'
       /\ \A i : Pending(b, g, i)' = Pending(a, g, i)
       /\ \A B : PendingOf(b, g, B)' = PendingOf(a, g, B)
  BY <1>1, <1>2, <1>5, OwnStays
<1>11. SearchesFit(g)'
  <2>1. g.low <= g.low /\ \A e \in 1 .. Len(entries) : entries'[e].key = entries[e].key
    BY <1>7, LayoutType
  <2> QED BY <1>1, <1>2, <1>7, <2>1, SearchesStay
<1>12. BlocksFit(b, g)'
  BY <1>1, <1>2, <1>5, <1>9, <1>10, BlocksStay
<1>13. TakenFit(b, g)'
  <2>1. StartBlock = enq.start /\ StartBlock' = enq.start
    BY <1>2, <1>3 DEF StartBlock
  <2>2. Store(b, g, BlocksTo(b.T) - 1)' \in {Null, StartBlock'}
    BY <1>1, <1>5, <1>9, <2>1 DEF TakenFit
  <2> QED BY <1>3, <1>6, <2>2 DEF TakenFit
<1>14. PlacesFit'
  <2> DEFINE X == {enq.blocks[k] : k \in DOMAIN enq.blocks}
  <2>1. \A x : /\ Entered(x)' = Entered(x) /\ Freeing(x)' = Freeing(x)
               /\ Untaken(x)' = {}
    BY <1>2, <1>6, <1>7 DEF Entered, Freeing, Untaken
  <2>2. ASSUME NEW x \in Blocks \ X
        PROVE  /\ x \in free' <=> x \in free
               /\ Entered(x)' = Entered(x) /\ Freeing(x)' = Freeing(x) /\ Untaken(x)' = Untaken(x)
    <3>1. Untaken(x) = {}
      BY <1>4, <1>6 DEF Untaken
    <3> QED BY <1>2, <2>1, <3>1
  <2>3. ASSUME NEW x \in Blocks \intersect X
        PROVE  IsOne(PlacesOf(free' \intersect {x}, Entered(x)', Freeing(x)', Untaken(x)'))
    <3>1. PICK k \in 1 .. Undone : enq.blocks[k] = x
      BY <1>4, <1>6
    <3>2. k \in Untaken(x)
      BY <3>1 DEF Untaken
    <3>3. Entered(x) = {} /\ Freeing(x) = {}
      BY <1>1, <1>2, <3>2, PlaceOf
    <3>4. free' \intersect {x} = {x}
      BY <1>2
    <3> QED BY <2>1, <3>3, <3>4, NewPlace
  <2>4. X \subseteq Blocks
    BY <1>4
  <2> HIDE DEF X
  <2>5. /\ enq.pc # "destroyed" /\ enq'.pc # "destroyed" /\ free' \subseteq Blocks
        /\ \A c \in Dequeuers : deq'[c].pc = "free" => deq'[c].block \in Blocks
    BY <1>1, <1>2, <1>3, <2>4 DEF PlacesFit, X
  <2> QED BY <1>1, <1>5, <2>2, <2>3, <2>5, PlacesStay
<1> QED BY <1>5, <1>8, <1>9, <1>10, <1>11, <1>12, <1>13, <1>14 DEF Fits, IndexFits


-----------------------------------------------------------------------------
(* A block gets an entry.                                                  *)

(* The next entry, if it is not used.                                      *)
LEMMA NextEntryOf ==
  ASSUME NEW a \in Unwrappings, NEW g \in Layouts, RingsFit(a, g), EnqFits(a), KeysFit(a, g),
         blockIndex # 0, Undone = 0
  PROVE  /\ NextEntry = EntryNo(g, Top(a)) /\ Advanced(1) = Pos(g, blockIndex, Top(a))
         /\ \A B \in Live(a, g) :
              EntryNo(g, B) = EntryNo(g, Top(a)) => B = g.low /\ g.low = Top(a) - Len(entries)
         /\ EntryNo(g, Top(a) - Len(entries)) = EntryNo(g, Top(a))
         /\ NextEntryIsUsed <=> entries[EntryNo(g, Top(a))].value # Null
<1>1. /\ Top(a) \in Nat /\ g.low \in Nat /\ Top(a) <= g.low + Len(entries)
      /\ Len(entries) \in Nat \ {0} /\ blockIndex \in 1 .. blockIndex
      /\ Cap(blockIndex) = Len(entries)
  BY TopType, LayoutType, RingFacts DEF KeysFit
<1>2. g.off[blockIndex] \in Int
  BY <1>1, LayoutType
<1>3. NextEntry = EntryNo(g, Top(a)) /\ Advanced(1) = Pos(g, blockIndex, Top(a))
  <2>1. Top(a) - 1 - Undone + 1 = Top(a)
    BY <1>1
  <2>2. Advanced(1) = Pos(g, blockIndex, Top(a))
    BY <2>1, AdvancedOf
  <2> QED BY <2>2 DEF NextEntry, EntryNo
<1>4. ASSUME NEW B \in Live(a, g), EntryNo(g, B) = EntryNo(g, Top(a))
      PROVE  B = g.low /\ g.low = Top(a) - Len(entries)
  <2>1. B \in Int /\ g.low <= B /\ B < Top(a)
    BY <1>1, LiveFacts DEF Live
  <2>2. CASE Top(a) - B < Len(entries)
    <3>1. Top(a) \in Int /\ B - Top(a) < Len(entries)
      BY <1>1, <2>1
    <3>2. B = Top(a)
      BY <1>4, <2>1, <2>2, <3>1, EntryNoSame
    <3> QED BY <2>1, <3>2, <1>1
  <2>3. CASE Top(a) - B >= Len(entries)
    BY <1>1, <2>1, <2>3
  <2> QED BY <1>1, <2>1, <2>2, <2>3
<1>5. EntryNo(g, Top(a) - Len(entries)) = EntryNo(g, Top(a))
  <2>1. PICK k \in Nat \ {0}, x \in Int, o \in Int, t \in Int, m \in Int :
          /\ k = Len(entries) /\ o = g.off[blockIndex] /\ t = Top(a)
          /\ x = t + o /\ m = -1
    BY <1>1, <1>2
  <2>2. (k * m + x) % k = x % k
    BY ModShift
  <2>3. k * m + x = t - k + o
    BY <2>1
  <2> QED BY <1>1, <2>1, <2>2, <2>3 DEF EntryNo, Pos
<1>6. NextEntryIsUsed <=> entries[EntryNo(g, Top(a))].value # Null
  <2>1. ASSUME entries[EntryNo(g, Top(a))].value # Null
        PROVE  entries[EntryNo(g, Top(a))].key # INVALID_BLOCK_BASE
    <3>1. EntryNo(g, Top(a)) \in 1 .. Len(entries)
      BY <1>1, RingFacts
    <3>2. PICK B \in Live(a, g) : EntryNo(g, B) = EntryNo(g, Top(a))
      BY <2>1, <3>1, LiveFacts
    <3>3. entries[EntryNo(g, Top(a))].key = Key(B) /\ B \in Int
      BY <3>2, LiveFacts
    <3> QED BY <3>3, KeyBase DEF INVALID_BLOCK_BASE
  <2> QED BY <1>3, <2>1 DEF NextEntryIsUsed
<1> QED BY <1>3, <1>4, <1>5, <1>6


(* The key of the next block takes the place of one that is not used.      *)
LEMMA KeyComes ==
  ASSUME NEW a \in Unwrappings, NEW g \in Layouts, NEW b \in Unwrappings, NEW h \in Layouts,
         RingsFit(a, g), EnqFits(a), KeysFit(a, g), TakenFit(a, g), blockIndex # 0,
         enq.pc = "index", RingsStay, b.T = a.T, Top(b)' = Top(a) + 1, h.off = g.off,
         h.low = IF Top(a) = g.low + Len(entries) THEN g.low + 1 ELSE g.low,
         entries[EntryNo(g, Top(a))].value = Null,
         entries' = [entries EXCEPT ![EntryNo(g, Top(a))].key = Key(Top(a))]
  PROVE  /\ KeysFit(b, h)' /\ g.low <= h.low
         /\ \A B : Store(b, h, B)' = Store(a, g, B)
         /\ Store(a, g, Top(a)) = Null
         /\ \A x : Entered(x)' = Entered(x)
         /\ entries'[EntryNo(g, Top(a))].key = Key(Top(a))
         /\ \A e \in 1 .. Len(entries) : e # EntryNo(g, Top(a)) =>
              entries'[e].key = entries[e].key
<1>1. /\ Top(a) \in Nat /\ g.low \in Nat /\ h.low \in Nat /\ Top(a) <= g.low + Len(entries)
      /\ Len(entries) \in Nat \ {0} /\ BlocksTo(a.T) \in Nat /\ g.low <= BlocksTo(a.T)
      /\ Top(a) = BlocksTo(a.T) + Len(enq.blocks) /\ Len(enq.blocks) \in Nat
      /\ \A j \in 1 .. Len(enq.blocks) : enq.blocks[j] \in Blocks
  <2>1. /\ Top(a) \in Nat /\ BlocksTo(a.T) \in Nat /\ Len(enq.blocks) \in Nat
        /\ \A j \in 1 .. Len(enq.blocks) : enq.blocks[j] \in Blocks
    BY TopType, EnqType DEF EnqFits
  <2>2. Top(a) = BlocksTo(a.T) + Len(enq.blocks)
    BY <2>1 DEF Top
  <2> QED BY <2>1, <2>2, LayoutType, RingFacts DEF KeysFit
<1>2. Undone = 0
  BY DEF Undone
<1>3. /\ entries \in Seq(EntryType) /\ DOMAIN entries = 1 .. Len(entries)
      /\ \A e \in 1 .. Len(entries) : entries[e] \in EntryType
      /\ EntryNo(g, Top(a)) \in 1 .. Len(entries)
  BY <1>1, EntriesType, RingFacts DEF RingsFit
<1>4. PICK E \in 1 .. Len(entries) : E = EntryNo(g, Top(a))
  BY <1>3
<1>5. PICK K \in Indices : K = Key(Top(a))
  <2>1. Top(a) \in Int
    BY <1>1
  <2> QED BY <2>1, KeyType
<1>6. PICK r \in EntryType : r = [entries[E] EXCEPT !.key = K] /\ r.key = K
                             /\ r.value = entries[E].value
  <2>1. PICK q \in EntryType : q = entries[E]
    BY <1>3
  <2>2. PICK r : r = [q EXCEPT !.key = K]
    OBVIOUS
  <2>3. r \in EntryType /\ r.key = K /\ r.value = q.value
    BY <2>2 DEF EntryType
  <2> QED BY <2>1, <2>2, <2>3
<1>7. entries' = [entries EXCEPT ![E] = r]
  BY <1>4, <1>5, <1>6
<1>8. /\ DOMAIN entries' = 1 .. Len(entries) /\ Len(entries') = Len(entries)
      /\ entries'[E] = r /\ \A e \in 1 .. Len(entries) : e # E => entries'[e] = entries[e]
  BY <1>3, <1>7, EntryExcept
<1>9. \A e \in 1 .. Len(entries) : entries'[e].value = entries[e].value
  BY <1>6, <1>8
<1>10. \A B : EntryNo(h, B)' = EntryNo(g, B)
  BY PositionsStay
<1>11. ASSUME NEW B \in Live(a, g), EntryNo(g, B) = E
       PROVE  B = g.low /\ g.low = Top(a) - Len(entries)
  BY <1>2, <1>4, <1>11, NextEntryOf
<1>12. ASSUME NEW B \in Live(a, g), B \notin Live(b, h)' PROVE Store(a, g, B) = Null
  <2>1. B = g.low /\ g.low = Top(a) - Len(entries)
    BY <1>1, <1>12, LiveFacts DEF Live
  <2>2. EntryNo(g, B) = E
    BY <1>2, <1>4, <2>1, NextEntryOf
  <2> QED BY <1>4, <2>2, LiveFacts
<1>13. Store(a, g, Top(a)) = Null
  BY <1>1 DEF Store, Live
<1>14. Live(b, h)' \subseteq Live(a, g) \union {Top(a)}
  <2>1. \A x \in Int : x <= Top(a) + 1 - 1 => x <= Top(a) - 1 \/ x = Top(a)
    BY <1>1
  <2> QED BY <1>1, <2>1 DEF Live
<1>15. ASSUME NEW B PROVE Store(b, h, B)' = Store(a, g, B)
  <2>1. CASE B \in Live(b, h)' /\ B \in Live(a, g)
    <3>1. EntryNo(g, B) \in 1 .. Len(entries) /\ Store(a, g, B) = entries[EntryNo(g, B)].value
      BY <2>1, LiveFacts
    <3> QED BY <1>9, <1>10, <2>1, <3>1 DEF Store
  <2>2. CASE B \in Live(b, h)' /\ B \notin Live(a, g)
    <3>1. B = Top(a)
      BY <1>14, <2>2
    <3> QED BY <1>3, <1>9, <1>10, <1>13, <2>2, <3>1 DEF Store
  <2>3. CASE B \notin Live(b, h)'
    BY <1>12, <2>3 DEF Store
  <2> QED BY <2>1, <2>2, <2>3
<1>16. h.low <= BlocksTo(b.T)
  <2>1. CASE Top(a) = g.low + Len(entries) /\ g.low = BlocksTo(a.T)
    <3>1. 1 \in 1 .. Len(enq.blocks) /\ BlocksTo(a.T) + 1 - 1 = g.low
      BY <1>1, <2>1
    <3>2. Store(a, g, g.low) = enq.blocks[1]
      BY <1>2, <3>1 DEF TakenFit
    <3>3. Null \notin Blocks
      BY QueueAssumption
    <3>4. Store(a, g, g.low) # Null
      BY <1>1, <3>1, <3>2, <3>3
    <3>5. g.low \in Live(a, g) /\ g.low \notin Live(b, h)'
      BY <1>1, <2>1 DEF Live
    <3> QED BY <1>12, <3>4, <3>5
  <2> QED BY <1>1, <2>1
<1>17. \A B \in Live(b, h)' : entries'[EntryNo(h, B)'].key = Key(B)
  <2>1. TAKE B \in Live(b, h)'
  <2>2. CASE B = Top(a)
    BY <1>4, <1>5, <1>6, <1>8, <1>10, <2>2
  <2>3. CASE B # Top(a)
    <3>1. B \in Live(a, g)
      BY <1>14, <2>3
    <3>2. EntryNo(g, B) # E
      <4>1. B >= h.low
        BY <1>1 DEF Live
      <4> QED BY <1>1, <1>11, <3>1, <4>1
    <3>3. EntryNo(g, B) \in 1 .. Len(entries) /\ entries[EntryNo(g, B)].key = Key(B)
      BY <3>1, LiveFacts
    <3> QED BY <1>8, <1>10, <3>2, <3>3
  <2> QED BY <2>2, <2>3
<1>18. ASSUME NEW e \in DOMAIN entries', entries'[e].value # Null
       PROVE  \E B \in Live(b, h)' : EntryNo(h, B)' = e
  <2>1. e \in 1 .. Len(entries) /\ entries[e].value # Null
    BY <1>8, <1>9, <1>18
  <2>2. PICK B \in Live(a, g) : EntryNo(g, B) = e /\ Store(a, g, B) = entries[e].value
    BY <2>1, LiveFacts
  <2>3. B \in Live(b, h)'
    BY <1>12, <2>1, <2>2
  <2> QED BY <1>10, <2>2, <2>3
<1>19. KeysFit(b, h)'
  <2>1. Top(b)' <= h.low + Len(entries')
    BY <1>1, <1>8
  <2> QED BY <1>16, <1>17, <1>18, <2>1 DEF KeysFit
<1>20. \A x : Entered(x)' = Entered(x)
  BY <1>3, <1>8, <1>9 DEF Entered
<1>21. /\ entries'[E].key = Key(Top(a))
       /\ \A e \in 1 .. Len(entries) : e # E => entries'[e].key = entries[e].key
  BY <1>5, <1>6, <1>8
<1>22. g.low <= h.low
  BY <1>1
<1> QED BY <1>4, <1>13, <1>15, <1>19, <1>20, <1>21, <1>22

LEMMA InsertBlockIndexEntryKeeps ==
  ASSUME NEW a \in Unwrappings, NEW g \in Layouts, Fits(a, g), InsertBlockIndexEntry
  PROVE  \E b \in Unwrappings, h \in Layouts : Fits(b, h)'
<1>1. /\ CountersFit(a) /\ EnqFits(a) /\ BlocksFit(a, g) /\ TakenFit(a, g) /\ PlacesFit
      /\ RingsFit(a, g) /\ KeysFit(a, g) /\ OwnFits(a, g) /\ SearchesFit(g)
  BY DEF Fits, IndexFits
<1>2. /\ enq.pc = "index" /\ enq.need > 0 /\ blockIndex # 0 /\ ~NextEntryIsUsed
      /\ enq' = [enq EXCEPT !.pc = "inserted"] /\ deq' = deq
      /\ index' = [index EXCEPT !.entries[NextEntry].key = NextBase,
                                !.indexes[blockIndex].tail = Advanced(1)]
      /\ block' = block /\ free' = free /\ tailBlock' = tailBlock
  BY DEF InsertBlockIndexEntry, NeedsBlock, InsertNextEntry
<1>3. /\ enq'.pc = "inserted" /\ enq'.blocks = enq.blocks /\ enq'.start = enq.start
  BY <1>1, <1>2 DEF EnqFits, Enqueuing
<1>4. PICK b \in Unwrappings : b.T = a.T /\ b.H = a.H /\ CountersFit(b)' /\ EnqFits(b)'
  BY <1>1, InsertBlockIndexEntryFits
<1>5. /\ BlocksTo(a.T) \in Nat /\ Len(enq.blocks) \in Nat /\ Top(a) \in Nat
      /\ Undone = 0 /\ Undone' = 0 /\ Top(b)' = Top(a) + 1
      /\ Top(a) = BlocksTo(a.T) + Len(enq.blocks)
  <2>1. /\ BlocksTo(a.T) \in Nat /\ Len(enq.blocks) \in Nat /\ Top(a) \in Nat
    BY <1>1, TopType, EnqType DEF EnqFits
  <2>2. Top(a) = BlocksTo(a.T) + Len(enq.blocks)
    BY <1>2, <2>1 DEF Top
  <2>3. Top(b)' = BlocksTo(a.T) + Len(enq.blocks) + 1
    BY <1>3, <1>4 DEF Top
  <2>4. Undone = 0 /\ Undone' = 0
    BY <1>2, <1>3 DEF Undone
  <2> QED BY <2>1, <2>2, <2>3, <2>4
<1>6. /\ NextEntry = EntryNo(g, Top(a)) /\ Advanced(1) = Pos(g, blockIndex, Top(a))
      /\ NextEntryIsUsed <=> entries[EntryNo(g, Top(a))].value # Null
  BY <1>1, <1>2, <1>5, NextEntryOf
<1>7. NextBase = Key(Top(a)) /\ Key(Top(a)) \in Indices
  <2>1. Top(a) \in Int
    BY <1>5
  <2> QED BY <1>1, <2>1, KeyType, InsertBlockIndexEntryFits
<1>8. /\ index \in BlockIndexes /\ entries \in Seq(EntryType)
      /\ index = [entries |-> entries, indexes |-> indexes]
      /\ EntryNo(g, Top(a)) \in 1 .. Len(entries) /\ entries[EntryNo(g, Top(a))] \in EntryType
      /\ Advanced(1) \in Int /\ Len(entries) \in Nat
  <2>1. Top(a) \in Int
    BY <1>5
  <2> QED BY <1>1, <1>2, <2>1, EntriesType, RingFacts, AdvancedOf DEF RingsFit
<1>9. PICK ent \in Seq(EntryType) :
         ent = [entries EXCEPT ![EntryNo(g, Top(a))].key = Key(Top(a))] /\ Len(ent) = Len(entries)
  <2>1. PICK E \in 1 .. Len(entries), K \in Indices : E = EntryNo(g, Top(a)) /\ K = Key(Top(a))
    BY <1>7, <1>8
  <2>2. PICK q \in EntryType : q = entries[E]
    BY <1>8, <2>1
  <2>3. PICK r : r = [q EXCEPT !.key = K]
    OBVIOUS
  <2>4. r \in EntryType
    BY <2>3 DEF EntryType
  <2>5. [entries EXCEPT ![E] = r] \in Seq(EntryType) /\ Len([entries EXCEPT ![E] = r]) = Len(entries)
    BY <1>8, <2>4, EntryExcept
  <2>6. [entries EXCEPT ![EntryNo(g, Top(a))].key = Key(Top(a))] = [entries EXCEPT ![E] = r]
    BY <2>1, <2>2, <2>3
  <2> QED BY <2>5, <2>6
<1>10. /\ RingsStay /\ index' \in BlockIndexes /\ entries' = ent
       /\ indexes'[blockIndex].tail = Advanced(1)
       /\ \A k \in 1 .. blockIndex : k # blockIndex => indexes'[k].tail = indexes[k].tail
  <2>1. index' = [entries |-> ent, indexes |-> [indexes EXCEPT ![blockIndex].tail = Advanced(1)]]
    BY <1>2, <1>6, <1>7, <1>8, <1>9
  <2> QED BY <1>2, <1>8, <1>9, <2>1, TailMoves
<1>11. PICK h \in Layouts :
         /\ h.off = g.off /\ h.idx = g.idx
         /\ h.low = IF Top(a) = g.low + Len(entries) THEN g.low + 1 ELSE g.low
  <2>1. PICK l \in Nat : l = IF Top(a) = g.low + Len(entries) THEN g.low + 1 ELSE g.low
    BY LayoutType
  <2>2. [off |-> g.off, low |-> l, idx |-> g.idx] \in Layouts
    BY LayoutType DEF Layouts
  <2> QED BY <2>1, <2>2
<1>12. RingsFit(b, h)'
  <2>1. Top(b)' - 1 - Undone' \in Int /\ Top(b)' - 1 - Undone' = Top(a)
    BY <1>5
  <2>2. indexes'[blockIndex].tail = Pos(g, blockIndex, Top(b)' - 1 - Undone')
    BY <1>6, <1>10, <2>1
  <2> QED BY <1>1, <1>2, <1>10, <1>11, <2>1, <2>2, RingsStayFit
<1>13. /\ KeysFit(b, h)' /\ g.low <= h.low
       /\ \A B : Store(b, h, B)' = Store(a, g, B)
       /\ Store(a, g, Top(a)) = Null
       /\ \A x : Entered(x)' = Entered(x)
       /\ entries'[EntryNo(g, Top(a))].key = Key(Top(a))
       /\ \A e \in 1 .. Len(entries) : e # EntryNo(g, Top(a)) =>
              entries'[e].key = entries[e].key
  BY <1>1, <1>2, <1>4, <1>5, <1>6, <1>9, <1>10, <1>11, KeyComes
<1>14. /\ OwnFits(b, h)'
       /\ \A i : Pending(b, h, i)' = Pending(a, g, i)
       /\ \A B : PendingOf(b, h, B)' = PendingOf(a, g, B)
  BY <1>1, <1>2, <1>4, <1>11, OwnStays
<1>15. SearchesFit(h)'
  <2>1. ASSUME NEW c \in Dequeuers, deq[c].pc \in {"key", "block", "free"}
        PROVE  SearchFits(h, c)'
    <3>1. deq'[c] = deq[c] /\ SearchFits(g, c) /\ h.idx[c] = g.idx[c]
      BY <1>1, <1>2, <1>11, <2>1 DEF SearchesFit
    <3>2. ASSUME deq[c].pc = "key"
          PROVE  \E K \in Int :
             /\ Number(g, c) <= K /\ K < h.low + Len(entries)
             /\ entries'[indexes[deq[c].header].index[deq[c].at]].key = Key(K)
             /\ Pos(g, deq[c].header, K) = deq[c].at
      <4>1. PICK K \in Int : /\ Number(g, c) <= K /\ K < g.low + Len(entries)
                             /\ entries[indexes[deq[c].header].index[deq[c].at]].key = Key(K)
                             /\ Pos(g, deq[c].header, K) = deq[c].at
        BY <3>1, <3>2 DEF SearchFits
      <4>2. /\ deq[c].header \in 1 .. blockIndex /\ deq[c].at \in 0 .. Cap(deq[c].header) - 1
        BY <3>1 DEF SearchFits
      <4>3. PICK e \in 1 .. Len(entries) : e = indexes[deq[c].header].index[deq[c].at]
        BY <1>1, <4>2 DEF RingsFit, ShapeFits
      <4>4. g.low \in Nat /\ h.low \in Nat
        BY LayoutType
      <4>5. CASE e # EntryNo(g, Top(a))
        <5>1. K < h.low + Len(entries)
          BY <1>8, <1>13, <4>1, <4>4
        <5> QED BY <1>13, <4>1, <4>3, <4>5, <5>1
      <4>6. CASE e = EntryNo(g, Top(a))
        <5>1. Pos(g, deq[c].header, Top(a)) = deq[c].at
          <6>1. PICK B \in Int : B = Top(a)
            BY <1>5
          <6>2. EntryNo(g, B) = indexes[deq[c].header].index[deq[c].at]
            BY <4>3, <4>6, <6>1
          <6>3. Nested(g)
            BY <1>1 DEF RingsFit
          <6>4. Pos(g, deq[c].header, B) = deq[c].at
            BY <4>2, <6>2, <6>3 DEF Nested
          <6> QED BY <6>1, <6>4
        <5>2. Number(g, c) <= Top(a) /\ Top(a) \in Int
          <6>1. /\ g.idx[c] + deq[c].left <= a.H /\ deq[c].left > 0 /\ g.idx[c] \in Nat
                /\ deq[c].left \in Nat /\ a.H <= a.T /\ a.H \in Nat /\ a.T \in Nat
            <7>1. deq[c].left \in Nat
              BY <1>1, CallType DEF CountersFit
            <7> QED BY <1>1, <3>2, <7>1, LayoutType, UnwrappingType
                    DEF OwnFits, Owns, CountersFit, CountersUnwrap
          <6>2. g.idx[c] < BlocksTo(a.T) * BlockSize
            <7>1. a.T <= BlocksTo(a.T) * BlockSize
              BY <6>1, BlocksHold
            <7>2. BlocksTo(a.T) * BlockSize \in Int
              BY <1>5, Widths
            <7> QED BY <6>1, <7>1, <7>2
          <6>3. g.idx[c] \div BlockSize < BlocksTo(a.T)
            BY <6>1, <6>2, ItemBefore
          <6>4. g.idx[c] \div BlockSize \in Int
            BY <6>1, InBlock
          <6> QED BY <1>5, <6>3, <6>4 DEF Number
        <5>3. Top(a) < h.low + Len(entries)
          <6>1. Top(a) <= g.low + Len(entries)
            BY <1>1 DEF KeysFit
          <6>2. PICK t \in Int, l \in Int, m \in Int, n \in Int :
                  t = Top(a) /\ l = g.low /\ m = h.low /\ n = Len(entries)
            BY <1>5, <1>8, <4>4
          <6>3. m = (IF t = l + n THEN l + 1 ELSE l) /\ t <= l + n
            BY <1>11, <6>1, <6>2
          <6>4. t < m + n
            BY <6>3
          <6> QED BY <6>2, <6>4
        <5> QED BY <1>13, <4>3, <4>6, <5>1, <5>2, <5>3
      <4> QED BY <4>5, <4>6
    <3> QED BY <1>1, <1>10, <1>11, <1>13, <3>1, <3>2, SearchMoves
  <2> QED BY <1>2, <2>1 DEF SearchesFit
<1>16. BlocksFit(b, h)'
  BY <1>1, <1>2, <1>4, <1>13, <1>14, BlocksStay
<1>17. TakenFit(b, h)'
  <2>1. StartBlock' = StartBlock
    BY <1>2, <1>3 DEF StartBlock
  <2>2. Store(b, h, Top(b) - 1)' = Null
    <3>1. Top(b)' - 1 = Top(a)
      BY <1>5
    <3> QED BY <1>13, <3>1
  <2>3. tailBlock' = IF enq'.blocks = << >> THEN enq'.start ELSE enq'.blocks[Len(enq'.blocks)]
    BY <1>1, <1>2, <1>3 DEF TakenFit
  <2> QED BY <1>1, <1>3, <1>4, <1>5, <1>13, <2>1, <2>2, <2>3 DEF TakenFit
<1>18. PlacesFit'
  <2>1. \A x : /\ Entered(x)' = Entered(x) /\ Freeing(x)' = Freeing(x)
               /\ Untaken(x)' = Untaken(x)
    BY <1>2, <1>3, <1>5, <1>13 DEF Freeing, Untaken
  <2>2. \A c \in Dequeuers : deq'[c].pc = "free" => deq'[c].block \in Blocks
    BY <1>1, <1>2 DEF PlacesFit
  <2>3. enq.pc # "destroyed" /\ enq'.pc # "destroyed"
    BY <1>2, <1>3
  <2> QED BY <1>1, <1>2, <1>4, <2>1, <2>2, <2>3, PlacesQuiet
<1>19. Fits(b, h)'
  BY <1>4, <1>12, <1>13, <1>14, <1>15, <1>16, <1>17, <1>18 DEF Fits, IndexFits
<1> QED BY <1>19


(* A block goes into the index.                                            *)
LEMMA ValueComes ==
  ASSUME NEW a \in Unwrappings, NEW g \in Layouts, NEW b \in Unwrappings, b.T = a.T,
         Top(b)' = Top(a), RingsFit(a, g), EnqFits(a), KeysFit(a, g), RingsStay,
         NEW M \in Live(a, g), NEW y \in Blocks, Store(a, g, M) = Null,
         entries' = [entries EXCEPT ![EntryNo(g, M)].value = y]
  PROVE  /\ KeysFit(b, g)'
         /\ \A B : Store(b, g, B)' = IF B = M THEN y ELSE Store(a, g, B)
         /\ Entered(y)' = Entered(y) \union {EntryNo(g, M)}
         /\ \A x \in Blocks \ {y} : Entered(x)' = Entered(x)
         /\ \A e \in 1 .. Len(entries) : entries'[e].key = entries[e].key
<1>1. /\ index \in BlockIndexes /\ entries \in Seq(EntryType) /\ DOMAIN entries = 1 .. Len(entries)
      /\ \A e \in 1 .. Len(entries) : entries[e] \in EntryType
  BY EntriesType DEF RingsFit
<1>2. /\ EntryNo(g, M) \in 1 .. Len(entries) /\ blockIndex # 0 /\ M \in Int
      /\ entries[EntryNo(g, M)].value = Null
  BY LiveFacts
<1>3. PICK E \in 1 .. Len(entries) : E = EntryNo(g, M)
  BY <1>2
<1>4. PICK r \in EntryType : r = [entries[E] EXCEPT !.value = y] /\ r.value = y
                             /\ r.key = entries[E].key
  <2>1. PICK q \in EntryType : q = entries[E]
    BY <1>1
  <2>2. PICK r : r = [q EXCEPT !.value = y]
    OBVIOUS
  <2>3. r \in EntryType /\ r.value = y /\ r.key = q.key
    BY <2>2 DEF EntryType
  <2> QED BY <2>1, <2>2, <2>3
<1>5. entries' = [entries EXCEPT ![E] = r]
  BY <1>3, <1>4
<1>6. /\ DOMAIN entries' = 1 .. Len(entries) /\ Len(entries') = Len(entries)
      /\ entries'[E] = r /\ \A e \in 1 .. Len(entries) : e # E => entries'[e] = entries[e]
  BY <1>1, <1>5, EntryExcept
<1>7. \A e \in 1 .. Len(entries) : entries'[e].key = entries[e].key
  BY <1>4, <1>6
<1>8. \A B \in Live(a, g) : EntryNo(g, B)' = EntryNo(g, B)
  BY LiveFacts, PositionsStay
<1>9. Live(b, g)' = Live(a, g)
  BY DEF Live
<1>10. ASSUME NEW B PROVE Store(b, g, B)' = IF B = M THEN y ELSE Store(a, g, B)
  <2>1. CASE B \in Live(a, g)
    <3>1. Store(b, g, B)' = entries'[EntryNo(g, B)].value
      BY <1>8, <1>9, <2>1 DEF Store
    <3>2. CASE B = M
      BY <1>3, <1>4, <1>6, <3>1, <3>2
    <3>3. CASE B # M
      <4>1. EntryNo(g, B) # E /\ EntryNo(g, B) \in 1 .. Len(entries)
            /\ Store(a, g, B) = entries[EntryNo(g, B)].value
        BY <1>3, <2>1, <3>3, LiveFacts
      <4> QED BY <1>6, <3>1, <3>3, <4>1
    <3> QED BY <3>2, <3>3
  <2>2. CASE B \notin Live(a, g)
    BY <1>9, <2>2 DEF Store
  <2> QED BY <2>1, <2>2
<1>11. KeysFit(b, g)'
  <2>1. g.low <= BlocksTo(b.T) /\ Top(b)' <= g.low + Len(entries')
    BY <1>6 DEF KeysFit
  <2>2. \A B \in Live(b, g)' : entries'[EntryNo(g, B)'].key = Key(B)
    BY <1>7, <1>8, <1>9, LiveFacts
  <2>3. ASSUME NEW e \in DOMAIN entries', entries'[e].value # Null
        PROVE  \E B \in Live(b, g)' : EntryNo(g, B)' = e
    <3>1. CASE e = E
      BY <1>3, <1>8, <1>9, <3>1
    <3>2. CASE e # E
      <4>1. entries[e].value # Null /\ e \in 1 .. Len(entries)
        BY <1>6, <2>3, <3>2
      <4>2. PICK B \in Live(a, g) : EntryNo(g, B) = e
        BY <4>1, LiveFacts
      <4> QED BY <1>8, <1>9, <4>2
    <3> QED BY <3>1, <3>2
  <2> QED BY <2>1, <2>2, <2>3 DEF KeysFit
<1>12. ASSUME NEW x \in Blocks \ {y} PROVE Entered(x)' = Entered(x)
  <2>1. Null # x
    BY QueueAssumption
  <2> QED BY <1>1, <1>2, <1>3, <1>4, <1>6, <2>1 DEF Entered
<1>13. Entered(y)' = Entered(y) \union {EntryNo(g, M)}
  BY <1>1, <1>3, <1>4, <1>6 DEF Entered
<1> QED BY <1>7, <1>10, <1>11, <1>12, <1>13

(* All of a block from the end of the queue on is pending.                 *)
LEMMA AllPending ==
  ASSUME NEW a \in Unwrappings, NEW g \in Layouts, CountersFit(a), NEW B \in Nat,
         B >= BlocksTo(a.T)
  PROVE  PendingOf(a, g, B) = Slots /\ Cardinality(Slots) = BlockSize /\ Slots # {}
<1>1. /\ a.T \in Nat /\ a.H \in Nat /\ a.H <= a.T /\ BlocksTo(a.T) \in Nat
      /\ a.T <= BlocksTo(a.T) * BlockSize
  BY UnwrappingType, BlocksHold DEF CountersFit, CountersUnwrap
<1>2. BlocksTo(a.T) * BlockSize <= B * BlockSize /\ BlocksTo(a.T) * BlockSize \in Int
      /\ B * BlockSize \in Int
  BY <1>1, TimesMonotonic, Widths
<1>3. ASSUME NEW s \in Slots PROVE Pending(a, g, B * BlockSize + s)
  <2>1. s \in Nat
    BY Widths DEF Slots
  <2>2. PICK t \in Int, u \in Int : t = BlocksTo(a.T) * BlockSize /\ u = B * BlockSize
    BY <1>2
  <2>3. u + s >= a.H
    BY <1>1, <1>2, <2>1, <2>2
  <2> QED BY <2>2, <2>3 DEF Pending
<1>4. Cardinality(Slots) = BlockSize
  <2>1. 0 \in Int /\ BlockSize - 1 \in Int /\ BlockSize \in Nat \ {0}
    BY Widths
  <2>2. Cardinality(0 .. BlockSize - 1) = IF 0 > BlockSize - 1 THEN 0 ELSE BlockSize - 1 - 0 + 1
    BY <2>1, FS_Interval
  <2> QED BY <2>1, <2>2 DEF Slots
<1>5. 0 \in Slots
  BY Widths DEF Slots
<1> QED BY <1>3, <1>4, <1>5 DEF PendingOf

LEMMA TakeBlockKeeps ==
  ASSUME NEW a \in Unwrappings, NEW g \in Layouts, Fits(a, g), NEW y \in Blocks, TakeBlock(y)
  PROVE  \E b \in Unwrappings : Fits(b, g)'
<1>1. /\ CountersFit(a) /\ EnqFits(a) /\ BlocksFit(a, g) /\ TakenFit(a, g) /\ PlacesFit
      /\ RingsFit(a, g) /\ KeysFit(a, g) /\ OwnFits(a, g) /\ SearchesFit(g)
  BY DEF Fits, IndexFits
<1>2. /\ enq.pc = "inserted" /\ y \in free /\ free' = free \ {y} /\ deq' = deq
      /\ index' = [index EXCEPT !.entries[TailEntry].value = y]
      /\ block' = [block EXCEPT ![y].done = 0] /\ tailBlock' = y
      /\ enq' = [Took(y) EXCEPT !.pc = "index"]
  BY DEF TakeBlock, TakeBlockWith
<1>3. /\ enq'.pc = "index" /\ enq'.blocks = Append(enq.blocks, y) /\ enq'.start = enq.start
  <2>1. PICK bs : bs = Append(enq.blocks, y)
    OBVIOUS
  <2>2. PICK t : t = [enq EXCEPT !.need = @ - 1, !.base = NextBase, !.blocks = bs]
    OBVIOUS
  <2>3. enq' = [t EXCEPT !.pc = "index"]
    BY <1>2, <2>1, <2>2 DEF Took
  <2>4. enq \in Enqueuing
    BY <1>1 DEF EnqFits
  <2> QED BY <2>1, <2>2, <2>3, <2>4 DEF Enqueuing
<1>4. PICK b \in Unwrappings : b.T = a.T /\ b.H = a.H /\ CountersFit(b)' /\ EnqFits(b)'
                               /\ Top(b)' = Top(a)
  BY <1>1, TakeBlockFits
<1>5. /\ BlocksTo(a.T) \in Nat /\ Len(enq.blocks) \in Nat /\ Top(a) \in Nat
      /\ Undone = 0 /\ Undone' = 0
      /\ Top(a) = BlocksTo(a.T) + Len(enq.blocks) + 1
      /\ enq.blocks \in Seq(Blocks) /\ g.low \in Nat /\ g.low <= BlocksTo(a.T)
  <2>1. /\ BlocksTo(a.T) \in Nat /\ Len(enq.blocks) \in Nat /\ Top(a) \in Nat
        /\ enq.blocks \in Seq(Blocks)
    BY <1>1, TopType, EnqType DEF EnqFits
  <2>2. Top(a) = BlocksTo(a.T) + Len(enq.blocks) + 1
    BY <1>2, <2>1 DEF Top
  <2>3. Undone = 0 /\ Undone' = 0
    BY <1>2, <1>3 DEF Undone
  <2> QED BY <1>1, <2>1, <2>2, <2>3, LayoutType DEF KeysFit
<1>6. PICK M \in Live(a, g) : M = Top(a) - 1 /\ M \in Nat /\ M = BlocksTo(a.T) + Len(enq.blocks)
                              /\ M >= BlocksTo(a.T)
  BY <1>5 DEF Live
<1>7. /\ index \in BlockIndexes /\ entries \in Seq(EntryType) /\ blockIndex # 0
      /\ index = [entries |-> entries, indexes |-> indexes]
      /\ EntryNo(g, M) \in 1 .. Len(entries) /\ entries[EntryNo(g, M)] \in EntryType
      /\ Store(a, g, M) = entries[EntryNo(g, M)].value /\ DOMAIN entries = 1 .. Len(entries)
  BY <1>1, EntriesType, LiveFacts DEF RingsFit
<1>8. TailEntry = EntryNo(g, M)
  <2>1. Top(a) - 1 - Undone = M
    BY <1>5, <1>6
  <2> QED BY <1>1, <1>7, <2>1 DEF RingsFit, TailEntry, EntryNo
<1>9. Store(a, g, M) = Null
  BY <1>1, <1>2, <1>6 DEF TakenFit
<1>10. PICK ent \in Seq(EntryType) :
         ent = [entries EXCEPT ![EntryNo(g, M)].value = y] /\ Len(ent) = Len(entries)
  <2>1. PICK E \in 1 .. Len(entries) : E = EntryNo(g, M)
    BY <1>7
  <2>2. PICK q \in EntryType : q = entries[E]
    BY <1>7, <2>1
  <2>3. PICK r : r = [q EXCEPT !.value = y]
    OBVIOUS
  <2>4. r \in EntryType
    BY <2>3 DEF EntryType
  <2>5. [entries EXCEPT ![E] = r] \in Seq(EntryType) /\ Len([entries EXCEPT ![E] = r]) = Len(entries)
    BY <1>7, <2>4, EntryExcept
  <2>6. [entries EXCEPT ![EntryNo(g, M)].value = y] = [entries EXCEPT ![E] = r]
    BY <2>1, <2>2, <2>3
  <2> QED BY <2>5, <2>6
<1>11. RingsStay /\ index' \in BlockIndexes /\ entries' = ent /\ indexes' = indexes
  <2>1. index' = [entries |-> ent, indexes |-> indexes]
    BY <1>2, <1>7, <1>8, <1>10
  <2> QED BY <1>7, <1>10, <2>1, EntryChanges
<1>12. RingsFit(b, g)'
  <2>1. Top(b)' - 1 - Undone' \in Int /\ Top(b)' - 1 - Undone' = Top(a) - 1 - Undone
    BY <1>4, <1>5
  <2>2. indexes'[blockIndex].tail = Pos(g, blockIndex, Top(b)' - 1 - Undone')
    BY <1>1, <1>7, <1>11, <2>1 DEF RingsFit
  <2> QED BY <1>1, <1>7, <1>11, <2>1, <2>2, RingsStayFit
<1>13. /\ KeysFit(b, g)'
       /\ \A B : Store(b, g, B)' = IF B = M THEN y ELSE Store(a, g, B)
       /\ Entered(y)' = Entered(y) \union {EntryNo(g, M)}
       /\ \A x \in Blocks \ {y} : Entered(x)' = Entered(x)
       /\ \A e \in 1 .. Len(entries) : entries'[e].key = entries[e].key
  BY <1>1, <1>4, <1>9, <1>10, <1>11, ValueComes
<1>14. /\ OwnFits(b, g)'
       /\ \A i : Pending(b, g, i)' = Pending(a, g, i)
       /\ \A B : PendingOf(b, g, B)' = PendingOf(a, g, B)
  BY <1>1, <1>2, <1>4, OwnStays
<1>15. SearchesFit(g)'
  <2>1. g.low <= g.low
    BY LayoutType
  <2> QED BY <1>1, <1>2, <1>11, <1>13, <2>1, SearchesStay
<1>16. Entered(y) = {} /\ Freeing(y) = {} /\ Untaken(y) = {}
  BY <1>1, <1>2, PlaceOf
<1>17. /\ block' \in [Blocks -> BlockType] /\ block'[y].done = 0
       /\ \A x \in Blocks \ {y} : block'[x] = block[x]
  <2>1. block \in [Blocks -> BlockType]
    BY <1>1 DEF BlocksFit
  <2>2. PICK q \in BlockType : q = block[y]
    BY <2>1
  <2>3. PICK r : r = [q EXCEPT !.done = 0]
    OBVIOUS
  <2>4. r \in BlockType /\ r.done = 0
    BY <2>3, Widths DEF BlockType
  <2>5. block' = [block EXCEPT ![y] = r]
    BY <1>2, <2>2, <2>3
  <2> QED BY <2>1, <2>4, <2>5
<1>18. ASSUME NEW B, B # M PROVE Store(b, g, B)' = Store(a, g, B) /\ Store(a, g, B) # y
  <2>1. ASSUME Store(a, g, B) = y PROVE FALSE
    <3>1. Store(a, g, B) # Null
      BY <2>1, QueueAssumption
    <3>2. B \in Live(a, g)
      BY <1>1, <3>1, LiveFacts
    <3>3. EntryNo(g, B) \in 1 .. Len(entries) /\ entries[EntryNo(g, B)].value = y
      BY <1>1, <2>1, <3>2, LiveFacts
    <3> QED BY <1>7, <1>16, <3>3 DEF Entered
  <2> QED BY <1>13, <1>18, <2>1
<1>19. BlocksFit(b, g)'
  <2>1. ASSUME NEW i \in Nat, i < BlocksTo(a.T) * BlockSize PROVE i \div BlockSize # M
    <3>1. i \div BlockSize < BlocksTo(a.T) /\ i \div BlockSize \in Int
      <4>1. a.T \in Nat
        BY UnwrappingType
      <4>2. i \div BlockSize \in Int
        BY InBlock
      <4> QED BY <2>1, <4>1, <4>2, ItemBefore
    <3> QED BY <3>1, <1>5, <1>6
  <2>2. ASSUME NEW i \in Nat, i < a.T PROVE i \div BlockSize # M
    <3>1. a.T <= BlocksTo(a.T) * BlockSize /\ a.T \in Nat
      BY <1>1, TopType
    <3>2. BlocksTo(a.T) * BlockSize \in Int
      BY <1>5, Widths
    <3> QED BY <2>1, <2>2, <3>1, <3>2
  <2>3. \A i \in Nat : Pending(b, g, i)' /\ i < BlocksTo(b.T) * BlockSize =>
          Store(b, g, i \div BlockSize)' # Null
    BY <1>1, <1>4, <1>14, <1>18, <2>1 DEF BlocksFit
  <2>4. ASSUME NEW B \in Nat, Store(b, g, B)' # Null
        PROVE  /\ PendingOf(b, g, B)' # {}
               /\ block'[Store(b, g, B)'].done + Cardinality(PendingOf(b, g, B)') = BlockSize
    <3>1. CASE B = M
      <4>1. PendingOf(a, g, B) = Slots /\ Cardinality(Slots) = BlockSize /\ Slots # {}
        BY <1>1, <1>6, <3>1, AllPending
      <4>2. PendingOf(b, g, B)' = Slots /\ Store(b, g, B)' = y
        BY <1>13, <1>14, <3>1, <4>1
      <4>3. 0 + BlockSize = BlockSize
        BY Widths
      <4> QED BY <1>17, <4>1, <4>2, <4>3
    <3>2. CASE B # M
      <4>1. Store(b, g, B)' = Store(a, g, B) /\ Store(a, g, B) # y /\ Store(a, g, B) # Null
        BY <1>18, <2>4, <3>2
      <4>2. Store(a, g, B) \in Blocks
        BY <1>1, <4>1, LiveFacts
      <4>3. block'[Store(a, g, B)] = block[Store(a, g, B)]
        BY <1>17, <4>1, <4>2
      <4> QED BY <1>1, <1>14, <4>1, <4>3 DEF BlocksFit
    <3> QED BY <3>1, <3>2
  <2>5. ASSUME NEW i \in Nat, Pending(b, g, i)', i < b.T
        PROVE  block'[Store(b, g, i \div BlockSize)'].elements[i % BlockSize] = i % IndexT
    <3>1. PICK B \in Int : B = i \div BlockSize
      BY InBlock
    <3>2. Store(b, g, B)' = Store(a, g, B) /\ Store(a, g, B) # y
      BY <1>4, <1>18, <2>2, <2>5, <3>1
    <3>3. i < BlocksTo(a.T) * BlockSize
      <4>1. a.T <= BlocksTo(a.T) * BlockSize /\ a.T \in Nat
        BY <1>1, TopType
      <4>2. BlocksTo(a.T) * BlockSize \in Int
        BY <1>5, Widths
      <4> QED BY <1>4, <2>5, <4>1, <4>2
    <3>4. Store(a, g, B) # Null /\ Pending(a, g, i)
      BY <1>1, <1>14, <2>5, <3>1, <3>3 DEF BlocksFit
    <3>5. Store(a, g, B) \in Blocks
      BY <1>1, <3>4, LiveFacts
    <3>6. block'[Store(a, g, B)] = block[Store(a, g, B)]
      BY <1>17, <3>2, <3>5
    <3> QED BY <1>1, <1>4, <2>5, <3>1, <3>2, <3>4, <3>6 DEF BlocksFit
  <2> QED BY <1>17, <2>3, <2>4, <2>5 DEF BlocksFit
<1>20. TakenFit(b, g)'
  <2>1. /\ Len(enq'.blocks) = Len(enq.blocks) + 1
        /\ enq'.blocks[Len(enq.blocks) + 1] = y
        /\ \A j \in 1 .. Len(enq.blocks) : enq'.blocks[j] = enq.blocks[j]
    BY <1>3, <1>5
  <2>2. ASSUME NEW j \in 1 .. Len(enq.blocks) + 1
        PROVE  Store(b, g, BlocksTo(a.T) + j - 1)' = enq'.blocks[j]
    <3>1. CASE j = Len(enq.blocks) + 1
      <4>1. BlocksTo(a.T) + j - 1 = M
        BY <1>5, <1>6, <3>1
      <4> QED BY <1>13, <2>1, <3>1, <4>1
    <3>2. CASE j # Len(enq.blocks) + 1
      <4>1. j \in 1 .. Len(enq.blocks) /\ BlocksTo(a.T) + j - 1 # M /\ j > Undone
        BY <1>5, <1>6, <3>2
      <4>2. Store(a, g, BlocksTo(a.T) + j - 1) = enq.blocks[j]
        BY <1>1, <4>1 DEF TakenFit
      <4> QED BY <1>13, <2>1, <4>1, <4>2
    <3> QED BY <3>1, <3>2
  <2>3. Store(b, g, BlocksTo(a.T) - 1)' \in {Null, StartBlock}
    <3>1. BlocksTo(a.T) - 1 # M
      BY <1>5, <1>6
    <3> QED BY <1>1, <1>13, <3>1 DEF TakenFit
  <2>4. StartBlock' = StartBlock
    BY <1>2, <1>3 DEF StartBlock
  <2>5. enq'.blocks # << >>
    <3>1. Len(<< >>) = 0
      OBVIOUS
    <3> QED BY <1>5, <2>1, <3>1
  <2> QED BY <1>2, <1>3, <1>4, <1>5, <2>1, <2>2, <2>3, <2>4, <2>5 DEF TakenFit
<1>21. PlacesFit'
  <2>1. \A x : Freeing(x)' = Freeing(x) /\ Untaken(x)' = Untaken(x)
    BY <1>2, <1>5 DEF Freeing, Untaken
  <2>2. IsOne(PlacesOf(free' \intersect {y}, Entered(y)', Freeing(y)', Untaken(y)'))
    <3>1. /\ free' \intersect {y} = {} /\ Entered(y)' = {EntryNo(g, M)} /\ Freeing(y)' = {}
          /\ Untaken(y)' = {}
      BY <1>2, <1>13, <1>16, <2>1
    <3> QED BY <3>1, NewPlace
  <2>3. /\ enq.pc # "destroyed" /\ enq'.pc # "destroyed" /\ free' \subseteq Blocks
        /\ \A c \in Dequeuers : deq'[c].pc = "free" => deq'[c].block \in Blocks
    BY <1>1, <1>2, <1>3 DEF PlacesFit
  <2>4. \A x \in Blocks \intersect {y} :
           IsOne(PlacesOf(free' \intersect {x}, Entered(x)', Freeing(x)', Untaken(x)'))
    BY <2>2
  <2>5. \A x \in Blocks \ {y} : /\ x \in free' <=> x \in free
                                /\ Entered(x)' = Entered(x) /\ Freeing(x)' = Freeing(x)
                                /\ Untaken(x)' = Untaken(x)
    BY <1>2, <1>13, <2>1
  <2> QED BY <1>1, <1>4, <2>3, <2>4, <2>5, PlacesStay
<1> QED BY <1>4, <1>12, <1>13, <1>14, <1>15, <1>19, <1>20, <1>21 DEF Fits, IndexFits


-----------------------------------------------------------------------------
(* A larger index.                                                         *)

LEMMA GrownIndex ==
  ASSUME index \in BlockIndexes, blockIndex # 0, ShapeFits(blockIndex),
         Cap(blockIndex) = Len(entries), 2 * Cap(blockIndex) <= MaxCapacity,
         index' =
           [entries |-> entries \o [k \in 1 .. indexes[blockIndex].capacity |-> NewEntry],
            indexes |-> Append(indexes, LargerIndex(indexes[blockIndex]))]
  PROVE  /\ index' \in BlockIndexes
         /\ blockIndex' = blockIndex + 1 /\ Len(entries') = 2 * Len(entries)
         /\ \A e \in 1 .. Len(entries) : entries'[e] = entries[e]
         /\ \A e \in Len(entries) + 1 .. 2 * Len(entries) : entries'[e] = NewEntry
         /\ \A k \in 1 .. blockIndex : indexes'[k] = indexes[k]
         /\ indexes'[blockIndex + 1] = LargerIndex(indexes[blockIndex])
<1>1. /\ entries \in Seq(EntryType) /\ indexes \in Seq(HeaderType)
      /\ Cap(blockIndex) \in Nat \ {0} /\ indexes[blockIndex].tail \in Int
      /\ Len(entries) \in Nat /\ blockIndex \in Nat /\ blockIndex \in 1 .. blockIndex
  <2>1. blockIndex \in Nat /\ blockIndex \in 1 .. blockIndex
    BY EntriesType
  <2> QED BY <2>1, EntriesType
<1>2. PICK n \in Nat \ {0}, t \in Int : n = Cap(blockIndex) /\ t = indexes[blockIndex].tail
  BY <1>1
<1>3. PICK ring : ring = indexes[blockIndex].index /\ ring \in [0 .. n - 1 -> 1 .. Len(entries)]
  BY <1>2 DEF ShapeFits
<1>4. PICK fresh : fresh = [k \in 1 .. n |-> NewEntry]
  OBVIOUS
<1>5. PICK r : r = LargerIndex(indexes[blockIndex])
  OBVIOUS
<1>6. entries' = entries \o fresh /\ indexes' = Append(indexes, r)
  BY <1>2, <1>4, <1>5 DEF entries, indexes, Cap
<1>7. NewEntry \in EntryType
  BY Widths DEF NewEntry, EntryType, Indices, INVALID_BLOCK_BASE
<1>8. fresh \in Seq(EntryType) /\ Len(fresh) = n
  BY <1>4, <1>7
<1>9. r = [capacity |-> 2 * n, tail |-> n - 1,
           index |-> [k \in 0 .. 2 * n - 1 |-> IF k < n THEN ring[(t + 1 + k) % n] ELSE k + 1]]
  BY <1>2, <1>3, <1>5 DEF LargerIndex, Cap
<1>10. r \in HeaderType
  <2>1. PICK f : f = [k \in 0 .. 2 * n - 1 |-> IF k < n THEN ring[(t + 1 + k) % n] ELSE k + 1]
    OBVIOUS
  <2>2. ASSUME NEW k \in 0 .. 2 * n - 1 PROVE f[k] \in Nat
    <3>1. CASE k < n
      <4>1. PICK x \in Int : x = t + 1 + k
        OBVIOUS
      <4>2. x % n \in 0 .. n - 1
        BY Division
      <4>3. ring[x % n] \in 1 .. Len(entries)
        BY <1>3, <4>2
      <4>4. f[k] = ring[x % n]
        BY <2>1, <3>1, <4>1
      <4> QED BY <1>1, <4>3, <4>4
    <3>2. CASE ~(k < n)
      BY <2>1, <3>2
    <3> QED BY <3>1, <3>2
  <2>3. 2 * n \in 1 .. MaxCapacity
    BY <1>2, QueueAssumption
  <2>4. f \in [0 .. 2 * n - 1 -> Nat]
    BY <2>1, <2>2
  <2>5. f \in Rings
    BY <2>3, <2>4 DEF Rings
  <2>6. r = [capacity |-> 2 * n, tail |-> n - 1, index |-> f] /\ n - 1 \in Int
    BY <1>9, <2>1
  <2> QED BY <2>3, <2>5, <2>6 DEF HeaderType
<1>11. /\ entries \o fresh \in Seq(EntryType)
       /\ Len(entries \o fresh) = Len(entries) + Len(fresh)
       /\ \A e \in 1 .. Len(entries) + Len(fresh) : (entries \o fresh)[e] =
            IF e <= Len(entries) THEN entries[e] ELSE fresh[e - Len(entries)]
  BY <1>1, <1>8, ConcatProperties
<1>12. /\ Append(indexes, r) \in Seq(HeaderType) /\ Len(Append(indexes, r)) = Len(indexes) + 1
       /\ \A k \in 1 .. Len(indexes) : Append(indexes, r)[k] = indexes[k]
       /\ Append(indexes, r)[Len(indexes) + 1] = r
  BY <1>1, <1>10, AppendProperties
<1>13. index' \in BlockIndexes
  BY <1>6, <1>11, <1>12 DEF BlockIndexes, entries, indexes
<1>14. Len(entries') = 2 * Len(entries)
  BY <1>1, <1>2, <1>6, <1>8, <1>11
<1>15. ASSUME NEW e \in Len(entries) + 1 .. 2 * Len(entries) PROVE entries'[e] = NewEntry
  <2>1. e \in 1 .. Len(entries) + Len(fresh) /\ ~(e <= Len(entries)) /\ e - Len(entries) \in 1 .. n
    BY <1>1, <1>2, <1>8
  <2>2. entries'[e] = fresh[e - Len(entries)]
    BY <1>6, <1>11, <2>1
  <2> QED BY <1>4, <2>1, <2>2
<1>16. ASSUME NEW e \in 1 .. Len(entries) PROVE entries'[e] = entries[e]
  BY <1>1, <1>6, <1>8, <1>11
<1> QED BY <1>5, <1>6, <1>12, <1>13, <1>14, <1>15, <1>16 DEF blockIndex

(* It begins with the entries there were, the oldest one first.            *)
LEMMA GrownRing ==
  ASSUME NEW a \in Unwrappings, NEW g \in Layouts, RingsFit(a, g), EnqFits(a),
         blockIndex # 0, Undone = 0, NEW n \in Nat \ {0}, n = Cap(blockIndex),
         NEW ring, ring = LargerIndex(indexes[blockIndex]).index
  PROVE  /\ \A k \in 0 .. n - 1 : ring[k] = EntryNo(g, k + Top(a) - n)
         /\ \A k \in n .. 2 * n - 1 : ring[k] = k + 1
<1>1. blockIndex \in 1 .. blockIndex
  BY RingFacts
<1>2. PICK o \in Int, t \in Nat : o = g.off[blockIndex] /\ t = Top(a)
  <2>1. g.off[blockIndex] \in Int
    BY <1>1, LayoutType
  <2> QED BY <2>1, TopType
<1>3. PICK prev : prev = indexes[blockIndex] /\ prev.capacity = n
                  /\ prev.tail = (t - 1 + o) % n
  <2>1. indexes[blockIndex].tail = Pos(g, blockIndex, t - 1 - Undone)
    BY <1>2 DEF RingsFit
  <2>2. t - 1 - Undone = t - 1
    BY <1>2
  <2> QED BY <1>2, <2>1, <2>2 DEF Pos, Cap
<1>4. ring = [k \in 0 .. 2 * n - 1 |->
                IF k < n THEN prev.index[(prev.tail + 1 + k) % n] ELSE k + 1]
  BY <1>3 DEF LargerIndex
<1>5. ASSUME NEW k \in 0 .. n - 1 PROVE ring[k] = EntryNo(g, k + Top(a) - n)
  <2>1. PICK x \in Int, y \in Int : x = t - 1 + o /\ y = 1 + k
    BY <1>2
  <2>2. ((x % n) + y) % n = (x + y) % n
    BY ModAdd
  <2>3. (prev.tail + 1 + k) % n = (x + y) % n
    <3>1. PICK z \in Int : z = x % n
      BY Division
    <3>2. z + 1 + k = z + y
      BY <2>1, <3>1
    <3> QED BY <1>3, <2>1, <2>2, <3>1, <3>2
  <2>4. PICK z \in Int, m \in Int : z = k + t - n + o /\ m = 1
    BY <1>2
  <2>5. (n * m + z) % n = z % n
    BY ModShift
  <2>6. n * m + z = x + y
    BY <1>2, <2>1, <2>4
  <2>7. ring[k] = prev.index[(prev.tail + 1 + k) % n]
    BY <1>4
  <2> QED BY <1>2, <1>3, <2>3, <2>4, <2>5, <2>6, <2>7 DEF EntryNo, Pos, Cap
<1>6. ASSUME NEW k \in n .. 2 * n - 1 PROVE ring[k] = k + 1
  BY <1>4
<1> QED BY <1>5, <1>6


LEMMA GrownPositions ==
  ASSUME NEW a \in Unwrappings, NEW g \in Layouts, RingsFit(a, g), EnqFits(a),
         blockIndex # 0, Undone = 0, NEW h \in Layouts,
         NEW l \in Nat, l = blockIndex + 1,
         h.off = [g.off EXCEPT ![l] = Len(entries) - Top(a)],
         blockIndex' = l, \A k \in 1 .. blockIndex : indexes'[k] = indexes[k],
         indexes'[l] = LargerIndex(indexes[blockIndex])
  PROVE  /\ \A k \in 1 .. blockIndex : Cap(k)' = Cap(k) /\ \A B : Pos(h, k, B)' = Pos(g, k, B)
         /\ Cap(l)' = 2 * Len(entries)
         /\ \A B \in Int : Top(a) - Len(entries) <= B /\ B < Top(a) =>
              /\ Pos(h, l, B)' = B + Len(entries) - Top(a)
              /\ EntryNo(h, B)' = EntryNo(g, B)
         /\ Nested(h)'
<1>0. \A B \in Int : EntryNo(g, B) \in 1 .. Len(entries)
  BY RingFacts
<1>1. /\ blockIndex \in 1 .. blockIndex /\ blockIndex \in Nat /\ Len(entries) \in Nat \ {0}
      /\ Cap(blockIndex) = Len(entries) /\ Top(a) \in Nat
  BY RingFacts, TopType, EntriesType DEF RingsFit
<1>2. PICK n \in Nat \ {0}, o \in Int, t \in Int :
        n = Len(entries) /\ o = g.off[blockIndex] /\ t = Top(a)
  <2>1. g.off \in [Nat -> Int]
    BY LayoutType
  <2>2. g.off[blockIndex] \in Int
    BY <1>1, <2>1
  <2> QED BY <1>1, <2>2
<1>3. PICK ring : ring = LargerIndex(indexes[blockIndex]).index
  OBVIOUS
<1>4. /\ \A k \in 0 .. n - 1 : ring[k] = EntryNo(g, k + t - n)
      /\ \A k \in n .. 2 * n - 1 : ring[k] = k + 1
  <2>1. n = Cap(blockIndex)
    BY <1>1, <1>2
  <2>2. /\ \A k \in 0 .. n - 1 : ring[k] = EntryNo(g, k + Top(a) - n)
        /\ \A k \in n .. 2 * n - 1 : ring[k] = k + 1
    BY <2>1, <1>3, GrownRing
  <2> QED BY <2>2, <1>2
<1>5. h.off[l] = n - t /\ \A k \in 1 .. blockIndex : h.off[k] = g.off[k]
  <2>0. g.off \in [Nat -> Int]
    BY LayoutType
  <2>1. g.off \in [Nat -> Int] /\ blockIndex + 1 \in Nat
    BY <1>1, <2>0
  <2>2. \A k \in 1 .. blockIndex : k \in Nat /\ k # l
    BY <1>1
  <2> QED BY <1>2, <2>1, <2>2
<1>6. \A k \in 1 .. blockIndex : Cap(k)' = Cap(k) /\ \A B : Pos(h, k, B)' = Pos(g, k, B)
  BY <1>5 DEF Cap, Pos
<1>7. Cap(l)' = 2 * n 
  <2>1. LargerIndex(indexes[blockIndex]).capacity = 2 * Cap(blockIndex)
    BY DEF LargerIndex, Cap
  <2>2. indexes'[l].capacity = 2 * n
    BY <1>1, <1>2, <2>1
  <2>3. Cap(l)' = indexes'[l].capacity
    BY DEF Cap
  <2> QED BY <2>2, <2>3
<1>8. ASSUME NEW B \in Int
      PROVE  \E q \in 0 .. 2 * n - 1 :
               /\ q = (B + n - t) % (2 * n) /\ Pos(h, l, B)' = q
               /\ EntryNo(h, B)' = ring[q]
  <2>1. PICK x \in Int, m \in Nat \ {0} : x = B + n - t /\ m = 2 * n
    BY <1>2
  <2>2. x % m \in 0 .. m - 1
    BY Division
  <2>3. Pos(h, l, B)' = x % m
    <3>1. B + (n - t) = x
      BY <2>1
    <3>2. Pos(h, l, B)' = (B + h.off[l]) % Cap(l)'
      BY DEF Pos
    <3> QED BY <1>5, <1>7, <2>1, <3>1, <3>2
  <2>4. EntryNo(h, B)' = ring[x % m]
    <3>2. EntryNo(h, B)' = indexes'[l].index[Pos(h, l, B)']
      BY DEF EntryNo, Pos, Cap
    <3> QED BY <1>3, <2>3, <3>2
  <2> QED BY <2>1, <2>2, <2>3, <2>4
<1>9. ASSUME NEW B \in Int, NEW q \in 0 .. 2 * n - 1, q = (B + n - t) % (2 * n), q < n
      PROVE  ring[q] = EntryNo(g, B)
  <2>1. ring[q] = EntryNo(g, q + t - n)
    <3>1. q \in 0 .. n - 1
      BY <1>2, <1>9
    <3> QED BY <1>4, <3>1
  <2>2. PICK x \in Int : x = B + n - t
    BY <1>2
  <2>3. PICK m \in Int : x = (2 * n) * m + q
    <3>1. 2 * n \in Nat \ {0}
      OBVIOUS
    <3> QED BY <1>9, <2>2, <3>1, Division
  <2>4. PICK y \in Int, k \in Int : y = q + t - n + o /\ k = 2 * m
    BY <1>2
  <2>5. (n * k + y) % n = y % n
    BY ModShift
  <2>6. n * k + y = B + o
    <3>1. n * k = (2 * n) * m
      BY <2>4
    <3>2. PICK z \in Int : z = n * k
      OBVIOUS
    <3>3. PICK w \in Int : w = (2 * n) * m
      OBVIOUS
    <3>4. z = w /\ x = w + q
      BY <2>3, <3>1, <3>2, <3>3
    <3>5. z + y = B + o
      <4>1. x = B + n - t /\ x = z + q
        BY <2>2, <3>4
      <4>2. y = q + t - n + o
        BY <2>4
      <4>3. ASSUME NEW i \in Int, NEW j \in Int, NEW u \in Int, NEW v \in Int,
                   NEW m0 \in Int, NEW r \in Int, NEW w0 \in Int, i + m0 - r = w0 + j
            PROVE  w0 + (j + r - m0 + u) = i + u
        BY <4>3
      <4>4. o \in Int /\ t \in Int /\ n \in Int /\ q \in Int
        BY <1>2
      <4>5. B + n - t = z + q /\ z \in Int
        BY <4>1, <3>2
      <4> QED BY <4>2, <4>3, <4>4, <4>5
    <3> QED BY <3>2, <3>5
  <2> QED BY <1>1, <1>2, <2>1, <2>4, <2>5, <2>6 DEF EntryNo, Pos
<1>10. ASSUME NEW B \in Int, t - n <= B, B < t
       PROVE  /\ Pos(h, l, B)' = B + n - t
              /\ EntryNo(h, B)' = EntryNo(g, B)
  <2>1. PICK q \in 0 .. 2 * n - 1 :
               /\ q = (B + n - t) % (2 * n) /\ Pos(h, l, B)' = q
               /\ EntryNo(h, B)' = ring[q]
    BY <1>8
  <2>2. PICK x \in 0 .. 2 * n - 1 : x = B + n - t /\ x < n
    <3>1. PICK x \in Int : x = B + n - t
      BY <1>2
    <3>2. x \in 0 .. 2 * n - 1 /\ x < n
      BY <1>2, <1>10, <3>1
    <3> QED BY <3>1, <3>2
  <2>3. x % (2 * n) = x
    <3>1. 2 * n \in Nat \ {0} /\ x \in Int
      OBVIOUS
    <3> QED BY <3>1, ModSmall
  <2>4. q = x
    BY <2>1, <2>2, <2>3
  <2> QED BY <1>9, <2>1, <2>2, <2>4
<1>11. Nested(h)'
  <2>1. ASSUME NEW k \in 1 .. blockIndex, NEW p \in 0 .. Cap(k) - 1, NEW B \in Int,
               EntryNo(h, B)' = indexes[k].index[p]
        PROVE  Pos(g, k, B) = p
    <3>1. PICK q \in 0 .. 2 * n - 1 :
               /\ q = (B + n - t) % (2 * n) /\ Pos(h, l, B)' = q
               /\ EntryNo(h, B)' = ring[q]
      BY <1>8
    <3>2. indexes[k].index[p] \in 1 .. n
      BY <1>2 DEF RingsFit, ShapeFits
    <3>3. q < n
      <4>1. CASE q \in n .. 2 * n - 1
        <5>1. ring[q] = q + 1
          BY <1>4, <4>1
        <5> QED BY <2>1, <3>1, <3>2, <4>1, <5>1
      <4> QED BY <4>1
    <3>4. EntryNo(g, B) = indexes[k].index[p]
      BY <1>9, <2>1, <3>1, <3>3
    <3> QED BY <3>4 DEF RingsFit, Nested
  <2>2. ASSUME NEW p \in 0 .. 2 * n - 1, NEW B \in Int, EntryNo(h, B)' = ring[p]
        PROVE  Pos(h, l, B)' = p
    <3>1. PICK q \in 0 .. 2 * n - 1 :
               /\ q = (B + n - t) % (2 * n) /\ Pos(h, l, B)' = q
               /\ EntryNo(h, B)' = ring[q]
      BY <1>8
    <3>2. ASSUME NEW x \in 0 .. n - 1 PROVE ring[x] \in 1 .. n
      <4>1. x + t - n \in Int
        BY <1>2
      <4>2. ring[x] = EntryNo(g, x + t - n)
        BY <1>4
      <4>3. EntryNo(g, x + t - n) \in 1 .. Len(entries)
        BY <1>0, <4>1
      <4> QED BY <1>2, <4>2, <4>3
    <3>3. \A x \in n .. 2 * n - 1 : ring[x] = x + 1 /\ x + 1 > n
      BY <1>2, <1>4
    <3>6. ASSUME NEW x \in 0 .. 2 * n - 1 PROVE x \in 0 .. n - 1 \/ x \in n .. 2 * n - 1
      BY <1>2
    <3>4. CASE p < n
      <4>0. p \in 0 .. n - 1 /\ ring[p] \in 1 .. n
        BY <1>2, <3>2, <3>4
      <4>1. q \in 0 .. n - 1 /\ q < n
        <5>1. CASE q \in n .. 2 * n - 1
          <6>1. ring[q] = q + 1 /\ q + 1 > n
            BY <3>3, <5>1
          <6>2. ring[q] = ring[p]
            BY <2>2, <3>1
          <6> QED BY <1>2, <4>0, <6>1, <6>2
        <5> QED BY <1>2, <3>6, <5>1
      <4>2. PICK C \in Int, D \in Int : C = p + t - n /\ D = q + t - n
        BY <1>2
      <4>3. EntryNo(g, C) = EntryNo(g, D)
        <5>1. ring[p] = EntryNo(g, p + t - n)
          BY <1>4, <4>0
        <5>2. ring[q] = EntryNo(g, q + t - n)
          BY <1>4, <4>1
        <5>3. ring[q] = ring[p]
          BY <2>2, <3>1
        <5> QED BY <4>2, <5>1, <5>2, <5>3
      <4>4. C - D < Len(entries) /\ D - C < Len(entries)
        <5>1. C - D < n /\ D - C < n
          <6>1. ASSUME NEW i \in Int, NEW j \in Int, NEW m \in Int, NEW u \in Int,
                       i <= m - 1, 0 <= i, j <= m - 1, 0 <= j
                PROVE  (i + u - m) - (j + u - m) < m /\ (j + u - m) - (i + u - m) < m
            BY <6>1
          <6>2. 0 <= p /\ p <= n - 1 /\ 0 <= q /\ q <= n - 1 /\ p \in Int /\ q \in Int
            BY <1>2, <4>0, <4>1
          <6>3. n \in Int /\ t \in Int
            BY <1>2
          <6> QED BY <6>1, <6>2, <6>3, <4>2
        <5> QED BY <1>2, <5>1
      <4>5. C = D
        BY <4>3, <4>4, EntryNoSame
      <4>6. p = q
        BY <1>2, <4>0, <4>1, <4>2, <4>5
      <4> QED BY <3>1, <4>6
    <3>5. CASE p >= n
      <4>1. p \in n .. 2 * n - 1
        BY <1>2, <3>5
      <4>2. ring[p] = p + 1 /\ p + 1 > n
        BY <3>3, <4>1
      <4>3. ~(q < n)
        <5>1. ASSUME q < n PROVE FALSE
          <6>1. q \in 0 .. n - 1
            BY <1>2, <5>1
          <6>2. ring[q] \in 1 .. n /\ ring[q] = ring[p]
            BY <2>2, <3>1, <3>2, <6>1
          <6> QED BY <1>2, <4>2, <6>2
        <5> QED BY <5>1
      <4>4. ring[q] = q + 1
        <5>1. q \in n .. 2 * n - 1
          BY <1>2, <4>3
        <5> QED BY <3>3, <5>1
      <4>5. p = q
        <5>1. ring[q] = ring[p]
          BY <2>2, <3>1
        <5> QED BY <1>2, <4>2, <4>4, <5>1
      <4> QED BY <3>1, <4>5
    <3> QED BY <3>4, <3>5
  <2>3. ASSUME NEW k \in 1 .. blockIndex', NEW p \in 0 .. Cap(k)' - 1, NEW B \in Int,
               EntryNo(h, B)' = indexes'[k].index[p]
        PROVE  Pos(h, k, B)' = p
    <3>1. CASE k \in 1 .. blockIndex
      BY <1>6, <2>1, <2>3, <3>1
    <3>2. CASE k \notin 1 .. blockIndex
      <4>1. k = l
        BY <1>1, <3>2
      <4> QED BY <1>3, <1>7, <2>2, <2>3, <4>1
    <3> QED BY <3>1, <3>2
  <2> QED BY <2>3 DEF Nested
<1> QED BY <1>2, <1>6, <1>7, <1>10, <1>11

(* The blocks a dequeue still goes to are in the index.                    *)
LEMMA PendingLive ==
  ASSUME NEW a \in Unwrappings, NEW g \in Layouts, Fits(a, g), NEW c \in Dequeuers,
         Owns(c), deq[c].left > 0, NEW B \in Int, B >= Number(g, c),
         B * BlockSize < g.idx[c] + deq[c].left
  PROVE  /\ B \in Live(a, g) /\ Store(a, g, B) \in Blocks
         /\ \E i \in Own(g, c) : i \in Nat /\ i \div BlockSize = B
<1>1. /\ CountersFit(a) /\ EnqFits(a) /\ OwnFits(a, g) /\ BlocksFit(a, g)
      /\ RingsFit(a, g) /\ KeysFit(a, g)
  BY DEF Fits, IndexFits
<1>2. g.idx[c] \in Nat /\ deq[c].left \in Nat /\ deq[c].left \in Int
  <2>1. deq[c] \in Call /\ MaxBulk \in Nat
    BY <1>1, QueueAssumption DEF CountersFit
  <2> QED BY <2>1, LayoutType DEF Call
<1>3. PICK x \in Nat, y \in Nat : x = g.idx[c] /\ y = deq[c].left /\ y > 0
  BY <1>2
<1>4. Own(g, c) = x .. x + y - 1
  BY <1>3 DEF Own
<1>5. PICK N \in Int : /\ N = x \div BlockSize /\ x < (N + 1) * BlockSize
                       /\ N * BlockSize \in Int
  <2>1. /\ x \div BlockSize \in Int /\ x % BlockSize \in 0 .. BlockSize - 1
        /\ x = (x \div BlockSize) * BlockSize + (x % BlockSize)
    BY InBlock
  <2>2. PICK N \in Int, r \in 0 .. BlockSize - 1 : N = x \div BlockSize /\ x = N * BlockSize + r
    BY <2>1
  <2>3. (N + 1) * BlockSize = N * BlockSize + BlockSize
    BY Widths
  <2>4. N * BlockSize \in Int /\ BlockSize \in Int
    BY Widths
  <2> QED BY <2>2, <2>3, <2>4
<1>6. PICK z \in Int : z = B * BlockSize
  BY Widths
<1>7. PICK i \in x .. x + y - 1 : i \div BlockSize = B /\ i \in Nat
  <2>1. CASE x <= z
    <3>1. z \in x .. x + y - 1 /\ z \in Nat
      BY <1>3, <1>6, <2>1
    <3>2. z \div BlockSize = B
      <4>1. 0 \in 0 .. BlockSize - 1 /\ B * BlockSize + 0 = z
        BY <1>6, Widths
      <4> QED BY <4>1, NumberUnique
    <3> QED BY <3>1, <3>2
  <2>2. CASE z < x
    <3>1. ASSUME B >= N + 1 PROVE FALSE
      <4>1. (N + 1) * BlockSize <= B * BlockSize /\ (N + 1) * BlockSize \in Int
        <5>1. N + 1 \in Int /\ BlockSize \in Nat
          BY Widths
        <5> QED BY <3>1, <5>1, TimesMonotonic
      <4> QED BY <1>5, <1>6, <2>2, <4>1
    <3>2. B = N
      <4>1. B >= N
        BY <1>3, <1>5 DEF Number
      <4> QED BY <3>1, <4>1
    <3>3. x \in x .. x + y - 1
      BY <1>3
    <3> QED BY <1>5, <3>2, <3>3
  <2> QED BY <2>1, <2>2
<1>8. Pending(a, g, i)
  BY <1>4 DEF Pending
<1>9. i < BlocksTo(a.T) * BlockSize
  <2>1. x + y <= a.H
    BY <1>1, <1>3 DEF OwnFits
  <2>2. a.H <= a.T
    BY <1>1 DEF CountersFit, CountersUnwrap
  <2>3. a.H \in Nat /\ a.T \in Nat /\ a.T <= BlocksTo(a.T) * BlockSize /\ BlocksTo(a.T) \in Nat
    BY <1>1, TopType
  <2>4. BlocksTo(a.T) * BlockSize \in Int
    BY <2>3, Widths
  <2> QED BY <2>1, <2>2, <2>3, <2>4
<1>10. Store(a, g, B) # Null
  BY <1>1, <1>7, <1>8, <1>9 DEF BlocksFit
<1> QED BY <1>1, <1>4, <1>7, <1>10, LiveFacts

LEMMA NewBlockIndexKeeps ==
  ASSUME NEW a \in Unwrappings, NEW g \in Layouts, Fits(a, g), NewBlockIndex
  PROVE  \E b \in Unwrappings, h \in Layouts : Fits(b, h)'
<1>1. /\ CountersFit(a) /\ EnqFits(a) /\ BlocksFit(a, g) /\ TakenFit(a, g) /\ PlacesFit
      /\ RingsFit(a, g) /\ KeysFit(a, g) /\ OwnFits(a, g) /\ SearchesFit(g)
  BY DEF Fits, IndexFits
<1>2. /\ enq.pc = "index" /\ blockIndex # 0 /\ NextEntryIsUsed
      /\ 2 * Cap(blockIndex) <= MaxCapacity
      /\ index' =
           [entries |-> entries \o [k \in 1 .. indexes[blockIndex].capacity |-> NewEntry],
            indexes |-> Append(indexes, LargerIndex(indexes[blockIndex]))]
      /\ tailBlock' = tailBlock /\ block' = block /\ free' = free /\ enq' = enq /\ deq' = deq
  BY DEF NewBlockIndex, NeedsBlock, Cap
<1>3. PICK b \in Unwrappings : b.T = a.T /\ b.H = a.H /\ CountersFit(b)' /\ EnqFits(b)'
  BY <1>1, NewBlockIndexFits
<1>4. Undone = 0 /\ Undone' = 0 /\ Top(b)' = Top(a) /\ Top(a) \in Nat
  BY <1>1, <1>2, <1>3, TopType DEF Undone, Top
<1>5. /\ Len(entries) \in Nat \ {0} /\ Cap(blockIndex) = Len(entries)
      /\ blockIndex \in Nat /\ blockIndex \in 1 .. blockIndex /\ ShapeFits(blockIndex)
      /\ \A B \in Int : EntryNo(g, B) \in 1 .. Len(entries)
      /\ index \in BlockIndexes /\ DOMAIN entries = 1 .. Len(entries)
  <2>1. index \in BlockIndexes
    BY <1>1 DEF RingsFit
  <2> QED BY <1>1, <1>2, <2>1, RingFacts, EntriesType DEF RingsFit
<1>6. PICK n \in Nat \ {0}, t \in Nat, l \in Nat :
        n = Len(entries) /\ t = Top(a) /\ l = blockIndex + 1
  BY <1>4, <1>5
<1>7. g.low = t - n
  <2>1. entries[EntryNo(g, Top(a))].value # Null
    BY <1>1, <1>2, <1>4, NextEntryOf
  <2>2. EntryNo(g, Top(a)) \in 1 .. Len(entries)
    BY <1>4, <1>5
  <2>3. PICK B \in Live(a, g) : EntryNo(g, B) = EntryNo(g, Top(a))
    BY <1>1, <2>1, <2>2, LiveFacts
  <2>4. g.low = Top(a) - Len(entries)
    BY <1>1, <1>2, <1>4, <2>3, NextEntryOf
  <2> QED BY <1>6, <2>4
<1>8. /\ index' \in BlockIndexes
      /\ blockIndex' = l /\ Len(entries') = 2 * n
      /\ \A e \in 1 .. n : entries'[e] = entries[e]
      /\ \A e \in n + 1 .. 2 * n : entries'[e] = NewEntry
      /\ \A k \in 1 .. blockIndex : indexes'[k] = indexes[k]
      /\ indexes'[l] = LargerIndex(indexes[blockIndex])
      /\ DOMAIN entries' = 1 .. 2 * n
  <2>1. /\ index' \in BlockIndexes
        /\ blockIndex' = blockIndex + 1 /\ Len(entries') = 2 * Len(entries)
        /\ \A e \in 1 .. Len(entries) : entries'[e] = entries[e]
        /\ \A e \in Len(entries) + 1 .. 2 * Len(entries) : entries'[e] = NewEntry
        /\ \A k \in 1 .. blockIndex : indexes'[k] = indexes[k]
        /\ indexes'[blockIndex + 1] = LargerIndex(indexes[blockIndex])
    BY <1>2, <1>5, GrownIndex
  <2>2. entries' \in Seq(EntryType)
    BY <2>1 DEF BlockIndexes, entries
  <2> QED BY <1>6, <2>1, <2>2
<1>9. PICK h \in Layouts : /\ h.off = [g.off EXCEPT ![l] = n - t]
                           /\ h.low = g.low /\ h.idx = g.idx
  <2>1. PICK f \in [Nat -> Int] : f = [g.off EXCEPT ![l] = n - t]
    <3>1. g.off \in [Nat -> Int] /\ n - t \in Int
      BY LayoutType
    <3> QED BY <3>1
  <2>2. [off |-> f, low |-> g.low, idx |-> g.idx] \in Layouts
    BY <2>1, LayoutType DEF Layouts
  <2> QED BY <2>1, <2>2
<1>10. /\ \A k \in 1 .. blockIndex : Cap(k)' = Cap(k) /\ \A B : Pos(h, k, B)' = Pos(g, k, B)
       /\ Cap(l)' = 2 * n
       /\ \A B \in Int : t - n <= B /\ B < t =>
            /\ Pos(h, l, B)' = B + n - t
            /\ EntryNo(h, B)' = EntryNo(g, B)
       /\ Nested(h)'
  <2>1. h.off = [g.off EXCEPT ![l] = Len(entries) - Top(a)]
    BY <1>6, <1>9
  <2>2. /\ \A k \in 1 .. blockIndex : Cap(k)' = Cap(k) /\ \A B : Pos(h, k, B)' = Pos(g, k, B)
        /\ Cap(l)' = 2 * Len(entries)
        /\ \A B \in Int : Top(a) - Len(entries) <= B /\ B < Top(a) =>
             /\ Pos(h, l, B)' = B + Len(entries) - Top(a)
             /\ EntryNo(h, B)' = EntryNo(g, B)
        /\ Nested(h)'
    <3>1. RingsFit(a, g) /\ EnqFits(a) /\ blockIndex # 0 /\ Undone = 0
      BY <1>1, <1>2, <1>4
    <3>2. /\ l = blockIndex + 1 /\ blockIndex' = l
          /\ indexes'[l] = LargerIndex(indexes[blockIndex])
      BY <1>6, <1>8
    <3>3. \A k \in 1 .. blockIndex : indexes'[k] = indexes[k]
      BY <1>8
    <3> QED BY <2>1, <3>1, <3>2, <3>3, GrownPositions
  <2> QED BY <1>6, <2>2
<1>11. ASSUME NEW k \in 1 .. blockIndex' PROVE ShapeFits(k)'
  <2>1. CASE k \in 1 .. blockIndex
    <3>1. ShapeFits(k)
      BY <1>1, <2>1 DEF RingsFit
    <3>2. 1 .. Len(entries) \subseteq 1 .. Len(entries')
      BY <1>6, <1>8
    <3> QED BY <1>8, <1>10, <2>1, <3>1, <3>2 DEF ShapeFits
  <2>2. CASE k = l
    <3>1. PICK ring : ring = LargerIndex(indexes[blockIndex]).index
      OBVIOUS
    <3>2. n = Cap(blockIndex)
      BY <1>5, <1>6
    <3>3. /\ \A j \in 0 .. n - 1 : ring[j] = EntryNo(g, j + t - n)
          /\ \A j \in n .. 2 * n - 1 : ring[j] = j + 1
      <4>1. /\ \A j \in 0 .. n - 1 : ring[j] = EntryNo(g, j + Top(a) - n)
            /\ \A j \in n .. 2 * n - 1 : ring[j] = j + 1
        <5>1. RingsFit(a, g) /\ EnqFits(a) /\ blockIndex # 0 /\ Undone = 0
          BY <1>1, <1>2, <1>4
        <5>2. n \in Nat \ {0}
          OBVIOUS
        <5> QED BY <5>1, <5>2, <3>1, <3>2, GrownRing
      <4> QED BY <1>6, <4>1
    <3>4. LargerIndex(indexes[blockIndex]).tail = n - 1
      BY <3>2 DEF LargerIndex, Cap
    <3>5. \E X : ring = [j \in 0 .. 2 * n - 1 |-> X[j]]
      <4>1. PICK prev : prev = indexes[blockIndex] /\ prev.capacity = n
        BY <3>2 DEF Cap
      <4>2. ring = [j \in 0 .. 2 * n - 1 |->
                      IF j < n THEN prev.index[(prev.tail + 1 + j) % n] ELSE j + 1]
        BY <3>1, <4>1 DEF LargerIndex
      <4>3. ring = [j \in 0 .. 2 * n - 1 |-> ring[j]]
        BY <4>2
      <4> QED BY <4>3
    <3>6. ASSUME NEW j \in 0 .. 2 * n - 1 PROVE ring[j] \in 1 .. 2 * n
      <4>1. CASE j \in 0 .. n - 1
        <5>1. j + t - n \in Int
          BY <1>6
        <5>2. EntryNo(g, j + t - n) \in 1 .. n
          BY <1>5, <1>6, <5>1
        <5>3. ring[j] = EntryNo(g, j + t - n)
          BY <3>3, <4>1
        <5> QED BY <5>2, <5>3
      <4>2. CASE j \in n .. 2 * n - 1
        BY <3>3, <4>2
      <4> QED BY <4>1, <4>2
    <3>7. ring \in [0 .. 2 * n - 1 -> 1 .. 2 * n]
      BY <3>5, <3>6
    <3>8. n - 1 \in 0 .. 2 * n - 1
      OBVIOUS
    <3>9. /\ indexes'[k].index = ring /\ indexes'[k].tail = n - 1
          /\ Cap(k)' = 2 * n /\ Len(entries') = 2 * n
      BY <1>8, <1>10, <2>2, <3>1, <3>4
    <3>10. /\ indexes'[k].index \in [0 .. Cap(k)' - 1 -> 1 .. Len(entries')]
           /\ indexes'[k].tail \in 0 .. Cap(k)' - 1
      BY <3>7, <3>8, <3>9
    <3> QED BY <3>10 DEF ShapeFits
  <2>3. blockIndex' = blockIndex + 1 /\ blockIndex \in Nat /\ l = blockIndex + 1
    BY <1>5, <1>6, <1>8
  <2>4. k \in 1 .. blockIndex \/ k = l
    BY <2>3
  <2> QED BY <2>1, <2>2, <2>4
<1>12. RingsFit(b, h)'
  <2>1. Cap(blockIndex)' = Len(entries')
    <3>1. Cap(blockIndex)' = Cap(l)'
      BY <1>8 DEF Cap
    <3> QED BY <1>8, <1>10, <3>1
  <2>2. indexes'[blockIndex'].tail = Pos(h, blockIndex, Top(b) - 1 - Undone)'
    <3>1. Pos(h, blockIndex, Top(b) - 1 - Undone)' = Pos(h, l, t - 1 - 0)'
      BY <1>4, <1>6, <1>8 DEF Pos, Cap
    <3>2. t - 1 - 0 = t - 1 /\ t - 1 \in Int /\ t - n <= t - 1 /\ t - 1 < t
      BY <1>6
    <3>3. Pos(h, l, t - 1)' = t - 1 + n - t
      BY <1>10, <3>2
    <3>4. LargerIndex(indexes[blockIndex]).tail = n - 1
      BY <1>5, <1>6 DEF LargerIndex, Cap
    <3>5. t - 1 + n - t = n - 1
      BY <1>6
    <3> QED BY <1>8, <3>1, <3>2, <3>3, <3>4, <3>5
  <2>3. blockIndex' # 0
    BY <1>5, <1>6, <1>8
  <2> QED BY <1>8, <1>10, <1>11, <2>1, <2>2, <2>3 DEF RingsFit
<1>13. /\ Live(b, h)' = Live(a, g)
       /\ \A B \in Live(a, g) : /\ B \in Int /\ EntryNo(h, B)' = EntryNo(g, B)
                                /\ EntryNo(g, B) \in 1 .. n
                                /\ entries'[EntryNo(g, B)] = entries[EntryNo(g, B)]
  <2>1. Live(b, h)' = Live(a, g)
    BY <1>4, <1>9 DEF Live
  <2>2. ASSUME NEW B \in Live(a, g)
        PROVE  B \in Int /\ t - n <= B /\ B < t
    BY <1>6, <1>7 DEF Live
  <2>3. ASSUME NEW B \in Live(a, g)
        PROVE  EntryNo(g, B) \in 1 .. n
    BY <1>5, <1>6, <2>2
  <2> QED BY <1>8, <1>10, <2>1, <2>2, <2>3
<1>14. \A B : Store(b, h, B)' = Store(a, g, B)
  BY <1>13 DEF Store
<1>15. ASSUME NEW e \in 1 .. 2 * n, entries'[e].value # Null
       PROVE  e \in 1 .. n /\ entries'[e] = entries[e]
  <2>1. e \in 1 .. n \/ e \in n + 1 .. 2 * n
    BY <1>6
  <2>2. NewEntry.value = Null
    BY DEF NewEntry
  <2> QED BY <1>8, <1>15, <2>1, <2>2
<1>16. KeysFit(b, h)'
  <2>1. Top(b)' <= h.low + Len(entries')
    BY <1>4, <1>6, <1>7, <1>8, <1>9
  <2>2. \A B \in Live(b, h)' : entries'[EntryNo(h, B)'].key = Key(B)
    BY <1>1, <1>13 DEF KeysFit
  <2>3. ASSUME NEW e \in DOMAIN entries', entries'[e].value # Null
        PROVE  \E B \in Live(b, h)' : EntryNo(h, B)' = e
    <3>1. e \in 1 .. n /\ entries'[e] = entries[e]
      BY <1>8, <1>15, <2>3
    <3>2. e \in DOMAIN entries /\ entries[e].value # Null
      BY <1>5, <1>6, <2>3, <3>1
    <3>3. PICK B \in Live(a, g) : EntryNo(g, B) = e
      BY <1>1, <3>2 DEF KeysFit
    <3> QED BY <1>13, <3>3
  <2>4. h.low <= BlocksTo(b.T)
    BY <1>1, <1>3, <1>9 DEF KeysFit
  <2> QED BY <2>1, <2>2, <2>3, <2>4 DEF KeysFit
<1>17. /\ OwnFits(b, h)'
       /\ \A i : Pending(b, h, i)' = Pending(a, g, i)
       /\ \A B : PendingOf(b, h, B)' = PendingOf(a, g, B)
  BY <1>1, <1>2, <1>3, <1>9, OwnStays
<1>18. ASSUME NEW c \in Dequeuers, deq[c].pc \in {"key", "block", "free"}
       PROVE  SearchFits(h, c)'
  <2>1. SearchFits(g, c) /\ deq'[c] = deq[c] /\ h.idx[c] = g.idx[c]
    BY <1>1, <1>2, <1>9, <1>18 DEF SearchesFit
  <2>2. PICK hd \in 1 .. blockIndex : hd = deq[c].header
    BY <2>1 DEF SearchFits
  <2>3. /\ indexes'[hd] = indexes[hd] /\ Cap(hd)' = Cap(hd)
        /\ \A B : Pos(h, hd, B)' = Pos(g, hd, B)
    BY <1>8, <1>10
  <2>4. hd \in 1 .. blockIndex'
    <3>1. hd \in 1 .. blockIndex /\ blockIndex \in Nat /\ blockIndex' = blockIndex + 1
      BY <1>5, <1>6, <1>8, <2>2
    <3> QED BY <3>1
  <2>5. Agrees(h, c)'
    <3>1. ASSUME NEW B \in Int, deq[c].left > 0, B >= Number(g, c),
                 B * BlockSize < g.idx[c] + deq[c].left
          PROVE  indexes'[hd].index[Pos(h, hd, B)'] = EntryNo(h, B)'
      <4>1. Owns(c)
        BY <1>18 DEF Owns
      <4>2. B \in Live(a, g)
        BY <3>1, <4>1, PendingLive
      <4>3. indexes[hd].index[Pos(g, hd, B)] = EntryNo(g, B)
        BY <2>1, <2>2, <3>1 DEF SearchFits, Agrees
      <4> QED BY <1>13, <2>3, <4>2, <4>3
    <3> QED BY <2>1, <2>2, <3>1 DEF Agrees, Number, Pos, Cap
  <2>6. ASSUME deq[c].pc = "key"
        PROVE  \E K \in Int : /\ Number(h, c) <= K /\ K < h.low + Len(entries')
                              /\ entries'[indexes'[hd].index[deq[c].at]].key = Key(K)
                              /\ Pos(h, hd, K)' = deq[c].at
    <3>1. PICK K \in Int : /\ Number(g, c) <= K /\ K < g.low + Len(entries)
                           /\ entries[indexes[hd].index[deq[c].at]].key = Key(K)
                           /\ Pos(g, hd, K) = deq[c].at
      BY <2>1, <2>2, <2>6 DEF SearchFits
    <3>2. indexes[hd].index[deq[c].at] \in 1 .. n
      <4>1. ShapeFits(hd)
        BY <1>1 DEF RingsFit
      <4>2. deq[c].at \in 0 .. Cap(hd) - 1
        BY <2>1, <2>2 DEF SearchFits
      <4> QED BY <1>6, <4>1, <4>2 DEF ShapeFits
    <3>3. K < h.low + Len(entries')
      <4>1. g.low \in Nat
        BY LayoutType
      <4> QED BY <1>6, <1>8, <1>9, <3>1, <4>1
    <3> QED BY <1>8, <1>9, <2>1, <2>3, <3>1, <3>2, <3>3 DEF Number
  <2> QED BY <2>1, <2>2, <2>3, <2>4, <2>5, <2>6 DEF SearchFits, Number, Pos, Cap
<1>19. SearchesFit(h)'
  BY <1>2, <1>18 DEF SearchesFit
<1>20. BlocksFit(b, h)'
  BY <1>1, <1>2, <1>3, <1>14, <1>17, BlocksStay
<1>21. TakenFit(b, h)'
  <2>1. StartBlock' = StartBlock
    BY <1>2 DEF StartBlock
  <2> QED BY <1>1, <1>2, <1>3, <1>4, <1>14, <2>1 DEF TakenFit
<1>22. PlacesFit'
  <2>1. ASSUME NEW x \in Blocks PROVE Entered(x)' = Entered(x)
    <3>1. x # Null
      BY QueueAssumption
    <3>2. \A e : e \in 1 .. n => e \in 1 .. 2 * n
      BY <1>6
    <3> QED BY <1>5, <1>6, <1>8, <1>15, <3>1, <3>2 DEF Entered
  <2>2. \A x \in Blocks : Freeing(x)' = Freeing(x) /\ Untaken(x)' = Untaken(x)
    BY <1>2, <1>4 DEF Freeing, Untaken
  <2>3. \A c \in Dequeuers : deq'[c].pc = "free" => deq'[c].block \in Blocks
    BY <1>1, <1>2 DEF PlacesFit
  <2>4. enq.pc # "destroyed" /\ enq'.pc # "destroyed"
    BY <1>2
  <2> QED BY <1>1, <1>2, <1>3, <2>1, <2>2, <2>3, <2>4, PlacesQuiet
<1> QED BY <1>3, <1>12, <1>16, <1>17, <1>19, <1>20, <1>21, <1>22 DEF Fits, IndexFits

-----------------------------------------------------------------------------
(* The end.                                                                *)

(* The items that are left.                                                *)
LEMMA RemainingAre ==
  ASSUME NEW a \in Unwrappings, CountersFit(a)
  PROVE  Remaining = {i % IndexT : i \in a.H .. a.T - 1}
<1>1. a.T \in Nat /\ a.H \in Nat /\ a.H <= a.T /\ a.T - a.H < Half
      /\ tailIndex = a.T % IndexT /\ headIndex = a.H % IndexT
  BY UnwrappingType DEF CountersFit, CountersUnwrap
<1>2. PICK H \in Nat, T \in Nat : H = a.H /\ T = a.T
  BY <1>1
<1>3. Minus(tailIndex, headIndex) = T - H
  <2>1. Minus(T % IndexT, H % IndexT) = (T - H) % IndexT
    BY MinusOf
  <2>2. PICK x \in Int : x = T - H
    OBVIOUS
  <2>3. x \in 0 .. IndexT - 1
    BY <1>1, <1>2, <2>2, Widths
  <2>4. x % IndexT = x
    BY <2>3, Unwrapped
  <2> QED BY <1>1, <1>2, <2>1, <2>2, <2>4
<1>4. ASSUME NEW k \in Nat PROVE Plus(headIndex, k) = (H + k) % IndexT
  <2>1. headIndex = H % IndexT
    BY <1>1, <1>2
  <2>2. Plus(H % IndexT, k) = (H + k) % IndexT
    <3>1. H \in Int /\ k \in Int
      BY <1>2
    <3> QED BY <3>1, PlusOf
  <2> QED BY <2>1, <2>2
<1>5. ASSUME NEW x \in Remaining PROVE \E i \in H .. T - 1 : x = i % IndexT
  <2>1. PICK k \in 0 .. T - H - 1 : x = Plus(headIndex, k)
    BY <1>3 DEF Remaining
  <2>2. PICK i \in H .. T - 1 : i = H + k
    BY <1>2, <2>1
  <2> QED BY <1>4, <2>1, <2>2
<1>6. ASSUME NEW i \in H .. T - 1 PROVE i % IndexT \in Remaining
  <2>1. PICK k \in 0 .. T - H - 1 : i = H + k
    <3>1. i - H \in 0 .. T - H - 1 /\ i = H + (i - H)
      BY <1>2
    <3> QED BY <3>1
  <2>2. Plus(headIndex, k) = i % IndexT
    BY <1>4, <2>1
  <2> QED BY <1>3, <2>1, <2>2 DEF Remaining
<1> QED BY <1>2, <1>5, <1>6

(* Each lies in a block of the index.                                      *)
LEMMA RemainingEntry ==
  ASSUME NEW a \in Unwrappings, NEW g \in Layouts, Fits(a, g), enq.pc = "idle",
         NEW i \in a.H .. a.T - 1
  PROVE  /\ i \in Nat /\ i \div BlockSize \in Live(a, g)
         /\ entries[EntryFor(i % IndexT)].value = Store(a, g, i \div BlockSize)
         /\ Store(a, g, i \div BlockSize) \in Blocks
<1>1. /\ CountersFit(a) /\ EnqFits(a) /\ BlocksFit(a, g)
      /\ RingsFit(a, g) /\ KeysFit(a, g)
  BY DEF Fits, IndexFits
<1>2. a.T \in Nat /\ a.H \in Nat /\ BlocksTo(a.T) \in Nat /\ a.T <= BlocksTo(a.T) * BlockSize
      /\ BlocksTo(a.T) * BlockSize \in Int
  <2>1. BlocksTo(a.T) \in Nat
    BY <1>1, TopType
  <2> QED BY <1>1, <2>1, TopType, Widths
<1>3. i \in Nat /\ i < BlocksTo(a.T) * BlockSize
  BY <1>2
<1>4. Pending(a, g, i)
  BY <1>2 DEF Pending
<1>5. Store(a, g, i \div BlockSize) # Null
  BY <1>1, <1>3, <1>4 DEF BlocksFit
<1>6. i \div BlockSize \in Live(a, g) /\ Store(a, g, i \div BlockSize) \in Blocks
  BY <1>1, <1>5, LiveFacts
<1>7. Top(a) - 1 - Undone \in Live(a, g)
  <2>1. Undone = 0 /\ Top(a) \in Nat
    BY <1>1, TopType DEF Undone
  <2> QED BY <1>6, <2>1, LayoutType DEF Live
<1>8. EntryFor(i % IndexT) = EntryNo(g, i \div BlockSize)
  BY <1>1, <1>3, <1>6, <1>7, EntryForOf
<1> QED BY <1>1, <1>3, <1>6, <1>8, LiveFacts

(* All blocks are given back.                                              *)
LEMMA DestroyFrees ==
  ASSUME NEW a \in Unwrappings, NEW g \in Layouts, Fits(a, g), Destroy
  PROVE  free' = Blocks
<1>1. /\ CountersFit(a) /\ EnqFits(a) /\ BlocksFit(a, g) /\ TakenFit(a, g) /\ PlacesFit
      /\ RingsFit(a, g) /\ KeysFit(a, g)
  BY DEF Fits, IndexFits
<1>2. enq.pc = "idle" /\ Busy = {} /\ free' = free \union LeftBehind \union LastBlock
  BY DEF Destroy
<1>3. /\ a.T \in Nat /\ a.H \in Nat /\ a.H <= a.T /\ a.T - a.H < Half
      /\ tailIndex = a.T % IndexT
      /\ BlocksTo(a.T) \in Nat /\ Undone = 0 /\ Top(a) = BlocksTo(a.T)
      /\ tailBlock \in Blocks \union {Null} /\ free \subseteq Blocks
  <2>1. enq.blocks = << >> /\ Len(enq.blocks) = 0
    BY <1>1, <1>2 DEF EnqFits
  <2>2. BlocksTo(a.T) \in Nat
    BY <1>1, TopType
  <2>3. Top(a) = BlocksTo(a.T) /\ Undone = 0
    BY <1>2, <2>1, <2>2 DEF Top, Undone
  <2> QED BY <1>1, <2>2, <2>3, UnwrappingType
          DEF CountersFit, CountersUnwrap, EnqFits, PlacesFit
<1>4. PICK T \in Nat, H \in Nat, N \in Nat : T = a.T /\ H = a.H /\ N = BlocksTo(a.T)
  BY <1>3
<1>5. Remaining = {i % IndexT : i \in H .. T - 1}
  BY <1>1, <1>4, RemainingAre
<1>6. ASSUME NEW i \in H .. T - 1
      PROVE  /\ i \in Nat /\ i \div BlockSize \in Live(a, g)
             /\ entries[EntryFor(i % IndexT)].value = Store(a, g, i \div BlockSize)
             /\ Store(a, g, i \div BlockSize) \in Blocks
  BY <1>2, <1>4, RemainingEntry
<1>7. LeftBehind \subseteq Blocks
  BY <1>5, <1>6 DEF LeftBehind
<1>8. LastBlock \subseteq Blocks
  BY <1>3 DEF LastBlock
<1>9. ASSUME NEW x \in Blocks, x \notin free PROVE x \in LeftBehind \union LastBlock
  <2>1. PICK e \in Entered(x) : TRUE
    <3>1. Freeing(x) = {}
      BY <1>2 DEF Freeing, Busy
    <3>2. Untaken(x) = {}
      BY <1>3 DEF Untaken
    <3>3. enq.pc # "destroyed"
      BY <1>2
    <3> QED BY <1>1, <1>9, <3>1, <3>2, <3>3, PlaceOf
  <2>2. PICK B \in Live(a, g) : Store(a, g, B) = x
    <3>1. index \in BlockIndexes
      BY <1>1 DEF RingsFit
    <3>2. e \in 1 .. Len(entries) /\ entries[e].value = x /\ x # Null
      BY <2>1, <3>1, EntriesType, QueueAssumption DEF Entered
    <3> QED BY <1>1, <3>2, LiveFacts
  <2>3. B \in Nat /\ B <= N - 1
    <3>1. g.low \in Nat
      BY LayoutType
    <3> QED BY <1>3, <1>4, <3>1 DEF Live
  <2>4. PICK s \in 0 .. BlockSize - 1 : B * BlockSize + s >= H
    <3>1. Store(a, g, B) # Null
      BY <2>2, QueueAssumption
    <3>2. PICK s \in Slots : Pending(a, g, B * BlockSize + s)
      BY <1>1, <2>3, <3>1 DEF BlocksFit, PendingOf
    <3>3. \A c \in Dequeuers : Own(g, c) = {}
      BY <1>2 DEF Own, Owns, Busy
    <3> QED BY <1>4, <3>2, <3>3 DEF Pending, Slots
  <2>5. PICK y \in Nat, z \in Nat : /\ y = B * BlockSize /\ z = (B + 1) * BlockSize
                                    /\ z = y + BlockSize
    <3>1. B * BlockSize \in Nat /\ (B + 1) * BlockSize = B * BlockSize + BlockSize
      BY <2>3, Widths
    <3> QED BY <3>1, Widths
  <2>6. PICK i \in Int : i = y + s /\ i >= H /\ i < z /\ i \div BlockSize = B
    <3>1. y + s \in Int /\ y + s >= H /\ y + s < z
      BY <2>4, <2>5, Widths
    <3>2. (B * BlockSize + s) \div BlockSize = B
      BY <2>3, NumberUnique
    <3> QED BY <2>5, <3>1, <3>2
  <2>7. CASE B = N - 1
    <3>1. x = tailBlock
      <4>1. Store(a, g, BlocksTo(a.T) - 1) \in {Null, StartBlock}
        BY <1>1 DEF TakenFit
      <4>2. StartBlock = tailBlock
        BY <1>2 DEF StartBlock
      <4>3. BlocksTo(a.T) - 1 = B
        BY <1>4, <2>7
      <4> QED BY <2>2, <4>1, <4>2, <4>3, QueueAssumption
    <3>2. CASE Slot(tailIndex) # 0
      BY <3>1, <3>2, QueueAssumption DEF LastBlock
    <3>3. CASE Slot(tailIndex) = 0
      <4>1. T % BlockSize = 0
        BY <1>3, <1>4, <3>3, SlotOf
      <4>2. N * BlockSize = T
        BY <1>4, <4>1, BlocksToWhole
      <4>3. B + 1 = N
        BY <2>3, <2>7
      <4>4. z = T
        BY <2>5, <4>2, <4>3
      <4>5. H \in H .. T - 1
        BY <2>6, <4>4
      <4>6. Remaining # {}
        BY <1>5, <4>5
      <4> QED BY <3>1, <4>6, QueueAssumption DEF LastBlock
    <3> QED BY <3>2, <3>3
  <2>8. CASE B # N - 1
    <3>1. z < T
      <4>1. B + 1 < BlocksTo(T) /\ B + 1 \in Int
        BY <1>4, <2>3, <2>8
      <4> QED BY <2>5, <4>1, BlockBefore
    <3>2. i \in H .. T - 1
      BY <2>6, <3>1
    <3>3. BlockBase(i % IndexT) = Key(B)
      BY <2>6, BaseOf
    <3>4. BaseBefore = Key(N - 1)
      BY <1>3, <1>4, BaseBeforeOf
    <3>5. Key(B) # Key(N - 1)
      <4>1. PICK M \in Int, w \in Int : M = N - 1 /\ w = M * BlockSize
        BY Widths
      <4>2. w < T
        <5>1. M < BlocksTo(T)
          BY <1>4, <4>1
        <5> QED BY <4>1, <5>1, BlockBefore
      <4>3. (B - M) * BlockSize = y - w /\ (M - B) * BlockSize = w - y
        <5>1. BlockSize \in Int /\ B \in Int
          BY <2>3, Widths
        <5>2. (B - M) * BlockSize = B * BlockSize - M * BlockSize
          BY <4>1, <5>1
        <5>3. (M - B) * BlockSize = M * BlockSize - B * BlockSize
          BY <4>1, <5>1
        <5> QED BY <2>5, <4>1, <5>2, <5>3
      <4>4. y <= w
        <5>1. B * BlockSize <= M * BlockSize
          <6>1. B <= M /\ BlockSize \in Nat /\ B \in Int /\ M \in Int
            BY <2>3, <4>1, Widths
          <6> QED BY <6>1, TimesMonotonic
        <5> QED BY <2>5, <4>1, <5>1
      <4>5. y - w < IndexT
        BY <4>1, <4>4, Widths
      <4>6. w - y < IndexT
        <5>1. H - BlockSize < y
          BY <2>5, <2>6, Widths
        <5>2. T - H < Half
          BY <1>3, <1>4
        <5> QED BY <4>1, <4>2, <5>1, <5>2, Widths
      <4>7. B # M
        BY <2>8, <4>1
      <4>8. Key(B) = Key(M) => B = M
        <5>1. B \in Int /\ M \in Int
          BY <2>3, <4>1
        <5>2. (B - M) * BlockSize < IndexT /\ (M - B) * BlockSize < IndexT
          BY <4>3, <4>5, <4>6
        <5> QED BY <5>1, <5>2, KeySame
      <4> QED BY <4>1, <4>7, <4>8
    <3>6. entries[EntryFor(i % IndexT)].value = x
      BY <1>6, <2>2, <2>6, <3>2
    <3>7. i % IndexT \in Remaining /\ BlockBase(i % IndexT) # BaseBefore
      BY <1>5, <3>2, <3>3, <3>4, <3>5
    <3> QED BY <3>6, <3>7 DEF LeftBehind
  <2> QED BY <2>7, <2>8
<1> QED BY <1>2, <1>3, <1>7, <1>8, <1>9

LEMMA DestroyKeeps ==
  ASSUME NEW a \in Unwrappings, NEW g \in Layouts, Fits(a, g), Destroy
  PROVE  \E b \in Unwrappings : Fits(b, g)'
<1>1. /\ CountersFit(a) /\ EnqFits(a) /\ BlocksFit(a, g) /\ TakenFit(a, g)
  BY DEF Fits, IndexFits
<1>2. /\ enq.pc = "idle" /\ Busy = {} /\ enq' = [Waiting EXCEPT !.pc = "destroyed"]
      /\ UNCHANGED counters /\ tailBlock' = tailBlock /\ block' = block /\ index' = index
      /\ deq' = deq
  BY DEF Destroy
<1>3. enq' \in Enqueuing /\ enq'.pc = "destroyed" /\ enq'.blocks = << >>
  <2>1. PICK q \in Enqueuing : q = Waiting /\ q.blocks = << >>
    BY WaitingType
  <2> QED BY <1>2, <2>1 DEF Enqueuing, EnqPcs
<1>4. tailBlock' \in Blocks \union {Null}
  BY <1>1, <1>2 DEF EnqFits
<1>5. PICK b \in Unwrappings : b.T = a.T /\ b.H = a.H /\ CountersFit(b)' /\ EnqFits(b)'
  BY <1>1, <1>2, <1>3, <1>4, WaitFits
<1>6. enq.blocks = << >> /\ Undone = 0 /\ Undone' = 0 /\ Top(b)' = Top(a)
  <2>1. enq.blocks = << >>
    BY <1>1, <1>2 DEF EnqFits
  <2> QED BY <1>2, <1>3, <1>5, <2>1 DEF Top, Undone
<1>7. /\ RingsFit(b, g)' /\ KeysFit(b, g)' /\ OwnFits(b, g)' /\ SearchesFit(g)'
      /\ \A B : Store(b, g, B)' = Store(a, g, B)
      /\ \A i : Pending(b, g, i)' = Pending(a, g, i)
      /\ \A B : PendingOf(b, g, B)' = PendingOf(a, g, B)
  <2>1. a.T <= b.T
    BY <1>5, UnwrappingType
  <2> QED BY <1>2, <1>5, <1>6, <2>1, IndexQuiet
<1>8. BlocksFit(b, g)'
  BY <1>1, <1>2, <1>5, <1>7, BlocksStay
<1>9. TakenFit(b, g)'
  <2>1. StartBlock' = StartBlock /\ Len(enq'.blocks) = 0
    BY <1>2, <1>3 DEF StartBlock
  <2>2. Store(b, g, BlocksTo(b.T) - 1)' \in {Null, StartBlock'}
    BY <1>1, <1>5, <1>7, <2>1 DEF TakenFit
  <2> QED BY <1>3, <1>6, <2>1, <2>2 DEF TakenFit
<1>10. PlacesFit'
  <2>1. free' = Blocks
    BY DestroyFrees
  <2>2. \A c \in Dequeuers : deq[c].pc # "free"
    BY <1>2 DEF Busy
  <2> QED BY <1>2, <1>3, <2>1, <2>2 DEF PlacesFit, Busy
<1> QED BY <1>5, <1>7, <1>8, <1>9, <1>10 DEF Fits, IndexFits
=============================================================================
