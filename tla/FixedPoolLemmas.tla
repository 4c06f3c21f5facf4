--------------------------- MODULE FixedPoolLemmas ---------------------------
(***************************************************************************)
(* What each operation of FixedPoolOps does to a pool, whatever the layout *)
(* and the number of blocks.                                               *)
(***************************************************************************)
EXTENDS FixedPoolOps, FiniteSetTheorems, TLAPS

(* Integer division by Z3 needs its defining inequalities named.           *)
LEMMA DivMod ==
  ASSUME NEW a \in Nat, NEW d \in Nat, d > 0
  PROVE  /\ a \div d \in Nat
         /\ a % d \in 0 .. d - 1
         /\ a = d * (a \div d) + (a % d)
  BY Z3

LEMMA DivOfMultiple ==
  ASSUME NEW i \in Nat, NEW d \in Nat, d > 0
  PROVE  (i * d) \div d = i
  BY Z3

LEMMA ModOfSmall ==
  ASSUME NEW a \in Nat, NEW d \in Nat, a < d
  PROVE  a % d = a
  BY Z3

(* A block has room for its header and its data.                           *)
LEMMA StrideFits ==
  /\ Stride \in Nat
  /\ Stride >= HeaderBytes + SizeOfData
  /\ Pad \in Nat
<1> DEFINE v == HeaderBytes + SizeOfData
           k == v + (MinAlignment - 1)
<1>1. /\ v \in Nat \ {0} /\ MinAlignment \in Nat \ {0} /\ k \in Nat
  BY LayoutAssumption
<1>2. Stride = (k \div MinAlignment) * MinAlignment
  BY DEF Stride, Align
<1> HIDE DEF k, v
<1>3. /\ k \div MinAlignment \in Nat
      /\ k % MinAlignment \in 0 .. MinAlignment - 1
      /\ k = MinAlignment * (k \div MinAlignment) + (k % MinAlignment)
  BY <1>1, DivMod
<1>4. Stride \in Nat /\ Stride >= v
  BY <1>1, <1>2, <1>3 DEF k
<1> QED
  BY <1>1, <1>4 DEF v, Pad

(* IndexFromAddr undoes AddrFromIndex on every block, given that the array *)
(* stays within a word.                                                    *)
LEMMA RoundTrip ==
  ASSUME NEW i \in Blocks
  PROVE  IndexFromAddr(AddrFromIndex(i)) = i
<1> USE LayoutAssumption
<1>1. Stride \in Nat /\ Stride > 0 /\ Pad \in Nat
  BY StrideFits
<1>2. i \in Nat /\ i <= NumBlocks - 1
  BY DEF Blocks
<1>3. i * Stride \in Nat /\ i * Stride <= (NumBlocks - 1) * Stride
  BY <1>1, <1>2
<1>4. i * Stride < Word
  <2>1. (NumBlocks - 1) * Stride \in Nat
    BY <1>1
  <2> QED
    BY <1>3, <2>1
<1>5. AddrFromIndex(i) - Pad = i * Stride
  BY <1>1, <1>3 DEF AddrFromIndex
<1>6. (i * Stride) % Word = i * Stride /\ Stride % Word = Stride
  BY <1>1, <1>3, <1>4, ModOfSmall
<1> QED
  BY <1>1, <1>2, <1>5, <1>6, DivOfMultiple DEF IndexFromAddr

-----------------------------------------------------------------------------
(* The headers of the blocks touched so far carry the identifier of their  *)
(* pool, and the others are as memset left them.                           *)

LEMMA FreshPoolOK ==
  ASSUME NEW Ids, NEW id
  PROVE  /\ FreshPool \in FixedPoolRecord(Ids)
         /\ FreeListOK(FreshPool, {})
         /\ HeadersOK(FreshPool, id)
<1>n. NumBlocks \in Nat /\ NumBlocks > 0 /\ Null \notin Int /\ Garbage \in Nat
  BY LayoutAssumption, FixedPoolAssumption
<1> USE <1>n
<1>1. FreshPool \in FixedPoolRecord(Ids)
  BY DEF FixedPoolRecord, FreshPool, Blocks
<1>2. HeadersOK(FreshPool, id)
  BY DEF HeadersOK, FreshPool, Blocks
<1>3. Initialized(FreshPool) = {} /\ FreeInitialized(FreshPool) = 0
  BY DEF Initialized, FreeInitialized, FreshPool
<1>4. FreeListOK(FreshPool, {})
  <2> DEFINE c == [i \in 0 .. -1 |-> 0]
  <2>1. c \in [0 .. FreeInitialized(FreshPool) - 1 -> Initialized(FreshPool)]
    BY <1>3
  <2>2. ListsFreeBlocks(FreshPool, {}, c)
    BY <1>3 DEF ListsFreeBlocks, FreshPool
  <2>3. \E d \in [0 .. FreeInitialized(FreshPool) - 1 -> Initialized(FreshPool)] :
          ListsFreeBlocks(FreshPool, {}, d)
    <3> HIDE DEF c
    <3> QED
      BY <2>1, <2>2
  <2>4. FreeInitialized(FreshPool) \in Nat /\ {} \subseteq Initialized(FreshPool)
    BY <1>3
  <2> QED
    BY <2>3, <2>4 DEF FreeListOK
<1> QED
  BY <1>1, <1>2, <1>4

(* Writing the header of one more block appends it to the free list.       *)
LEMMA InitOneBlockOK ==
  ASSUME NEW Ids, NEW fp, NEW used, NEW id \in Ids,
         fp \in FixedPoolRecord(Ids), FreeListOK(fp, used), HeadersOK(fp, id)
  PROVE  LET g == InitOneBlock(fp, id) IN
         /\ g \in FixedPoolRecord(Ids)
         /\ FreeListOK(g, used)
         /\ HeadersOK(g, id)
         /\ g.num_free_blocks = fp.num_free_blocks
         /\ g.next = fp.next
         /\ fp.num_free_blocks > 0 => FreeInitialized(g) > 0
<1>n. NumBlocks \in Nat /\ NumBlocks > 0 /\ Null \notin Int /\ Garbage \in Nat
  BY LayoutAssumption, FixedPoolAssumption
<1> USE <1>n
<1>0. CASE fp.num_initialized >= NumBlocks
  <2>1. fp.num_initialized = NumBlocks /\ fp.num_free_blocks \in Nat
    BY <1>0 DEF FixedPoolRecord
  <2> QED
    BY <1>0, <2>1 DEF InitOneBlock, FreeInitialized
<1>1. CASE fp.num_initialized < NumBlocks
  <2> DEFINE k == fp.num_initialized
             g == InitOneBlock(fp, id)
             n == FreeInitialized(fp)
  <2>1. /\ k \in Blocks /\ k \in Nat
        /\ g = [fp EXCEPT !.next_block_idx[k]  = k + 1,
                          !.pool_identifier[k] = id,
                          !.num_initialized = k + 1]
    BY <1>1 DEF InitOneBlock, FixedPoolRecord, Blocks
  <2>2. /\ g.num_free_blocks = fp.num_free_blocks
        /\ g.next = fp.next
        /\ g.num_initialized = k + 1
        /\ g.next_block_idx = [fp.next_block_idx EXCEPT ![k] = k + 1]
        /\ g.pool_identifier = [fp.pool_identifier EXCEPT ![k] = id]
    BY <2>1 DEF FixedPoolRecord
  <2>3. g \in FixedPoolRecord(Ids)
    <3>1. /\ k + 1 \in 0 .. NumBlocks
          /\ [fp.next_block_idx EXCEPT ![k] = k + 1] \in [Blocks -> Nat]
          /\ [fp.pool_identifier EXCEPT ![k] = id] \in [Blocks -> Ids \union {NoId}]
      BY <1>1, <2>1 DEF FixedPoolRecord
    <3> QED
      BY <2>1, <3>1 DEF FixedPoolRecord
  <2>4. HeadersOK(g, id)
    BY <2>1, <2>2 DEF HeadersOK, Blocks, FixedPoolRecord
  <2>5. /\ n \in Nat /\ FreeInitialized(g) = n + 1
        /\ Initialized(g) = Initialized(fp) \union {k}
        /\ k \notin Initialized(fp)
        /\ used \subseteq Initialized(fp)
    <3>1. n \in Nat /\ used \subseteq Initialized(fp)
      BY DEF FreeListOK
    <3>2. fp.num_free_blocks \in Int
      BY DEF FixedPoolRecord
    <3> HIDE DEF g
    <3>3. FreeInitialized(g) = n + 1
      BY <2>1, <2>2, <3>2 DEF FreeInitialized
    <3>4. Initialized(g) = 0 .. k /\ Initialized(fp) = 0 .. k - 1
      BY <2>1, <2>2 DEF Initialized
    <3> QED
      BY <2>1, <3>1, <3>3, <3>4
  <2>6. PICK c \in [0 .. n - 1 -> Initialized(fp)] : ListsFreeBlocks(fp, used, c)
    BY DEF FreeListOK
  <2> DEFINE d == [i \in 0 .. n |-> IF i = n THEN k ELSE c[i]]
  <2> HIDE DEF g, n
  <2>7. d \in [0 .. n -> Initialized(g)]
    BY <2>5
  <2>8. ListsFreeBlocks(g, used, d)
    <3>1. \A i, j \in 0 .. n : d[i] = d[j] => i = j
      BY <2>5, <2>6 DEF ListsFreeBlocks, n
    <3>2. \A b \in Initialized(g) \ used : \E i \in 0 .. n : d[i] = b
      <4>1. ASSUME NEW b \in Initialized(fp) \ used
            PROVE  \E i \in 0 .. n : d[i] = b
        <5>1. PICK i \in 0 .. n - 1 : c[i] = b
          BY <2>6 DEF ListsFreeBlocks, n
        <5>2. i \in 0 .. n /\ d[i] = b
          BY <2>5, <5>1
        <5> QED
          BY <5>2
      <4>2. n \in 0 .. n /\ d[n] = k
        BY <2>5
      <4> QED
        BY <2>5, <4>1, <4>2
    <3>3. \A i \in 0 .. n : d[i] \notin used
      BY <2>5, <2>6 DEF ListsFreeBlocks, n
    <3>4. \A i \in 0 .. n - 1 : g.next_block_idx[d[i]] = d[i + 1]
      <4>1. SUFFICES ASSUME NEW i \in 0 .. n - 1
                     PROVE  g.next_block_idx[d[i]] = d[i + 1]
        OBVIOUS
      <4>0. /\ i # n /\ i \in 0 .. n /\ i + 1 \in 0 .. n
            /\ d[i] = c[i]
            /\ d[i + 1] = IF i + 1 = n THEN k ELSE c[i + 1]
        BY <2>5
      <4>2. c[i] \in Initialized(fp) /\ c[i] # k
        BY <2>5, <2>6
      <4>3. g.next_block_idx[c[i]] = fp.next_block_idx[c[i]]
        BY <2>1, <2>2, <4>2 DEF FixedPoolRecord, Initialized, Blocks
      <4>4. CASE i = n - 1
        BY <2>5, <2>6, <4>0, <4>3, <4>4 DEF ListsFreeBlocks, n
      <4>5. CASE i < n - 1
        <5>1. i \in 0 .. n - 2 /\ i + 1 # n
          BY <2>5, <4>5
        <5> QED
          BY <2>5, <2>6, <4>0, <4>3, <5>1 DEF ListsFreeBlocks, n
      <4> QED
        BY <2>5, <4>4, <4>5
    <3>5. g.next = d[0] /\ g.next_block_idx[d[n]] = k + 1
      <4>1. g.next = d[0]
        BY <1>1, <2>2, <2>5, <2>6 DEF ListsFreeBlocks, n
      <4>2. g.next_block_idx[k] = k + 1
        BY <2>1, <2>2 DEF FixedPoolRecord
      <4> QED
        BY <2>5, <4>1, <4>2
    <3> HIDE DEF d
    <3> QED
      BY <2>2, <2>5, <3>1, <3>2, <3>3, <3>4, <3>5 DEF ListsFreeBlocks
  <2>9. FreeListOK(g, used)
    <3> HIDE DEF d
    <3>1. /\ FreeInitialized(g) \in Nat
          /\ used \subseteq Initialized(g)
          /\ FreeInitialized(g) - 1 = n
      BY <2>5
    <3> QED
      BY <2>7, <2>8, <3>1 DEF FreeListOK
  <2> QED
    BY <2>2, <2>3, <2>4, <2>5, <2>9 DEF g
<1> QED
  BY <1>0, <1>1 DEF FixedPoolRecord

(* Popping the head hands out the first block of the list, and only it.    *)
LEMMA PopNextOK ==
  ASSUME NEW Ids, NEW fp, NEW used, NEW id,
         fp \in FixedPoolRecord(Ids), FreeListOK(fp, used), HeadersOK(fp, id),
         FreeInitialized(fp) > 0
  PROVE  LET g == PopNext(fp) IN
         /\ g \in FixedPoolRecord(Ids)
         /\ FreeListOK(g, used \union {fp.next})
         /\ HeadersOK(g, id)
         /\ g.num_free_blocks = fp.num_free_blocks - 1
         /\ fp.next \in Blocks \ used
<1>n. NumBlocks \in Nat /\ NumBlocks > 0 /\ Null \notin Int /\ Garbage \in Nat
  BY LayoutAssumption, FixedPoolAssumption
<1> USE <1>n
<1> DEFINE k == fp.num_initialized
           n == FreeInitialized(fp)
           h == fp.next
           g == PopNext(fp)
           used2 == used \union {h}
<1>1. /\ k \in 0 .. NumBlocks
      /\ fp.num_free_blocks \in 0 .. NumBlocks
      /\ n = fp.num_free_blocks - (NumBlocks - k)
      /\ n \in Nat /\ n > 0
      /\ fp.next_block_idx \in [Blocks -> Nat]
  BY DEF FixedPoolRecord, FreeInitialized
<1>2. PICK c \in [0 .. n - 1 -> Initialized(fp)] : ListsFreeBlocks(fp, used, c)
  BY DEF FreeListOK
<1> HIDE DEF n, g
<1>3. /\ h = c[0]
      /\ h \in Initialized(fp) /\ h \in Nat /\ h < k /\ h \in Blocks
      /\ h \notin used
  <2>1. 0 \in 0 .. n - 1
    BY <1>1
  <2>2. h = c[0] /\ c[0] \notin used
    BY <1>1, <1>2, <2>1 DEF ListsFreeBlocks, n
  <2> QED
    BY <1>1, <1>2, <2>1, <2>2 DEF Initialized, Blocks
(* The link of the head: the second block of the list, or the first block  *)
(* not yet initialized.                                                    *)
<1>4. fp.next_block_idx[h] = IF n > 1 THEN c[1] ELSE k
  BY <1>1, <1>2, <1>3 DEF ListsFreeBlocks, n
<1>5. /\ g.num_free_blocks = fp.num_free_blocks - 1
      /\ g.num_initialized = k
      /\ g.pool_identifier = fp.pool_identifier
      /\ \A b \in Blocks : b # h => g.next_block_idx[b] = fp.next_block_idx[b]
      /\ g.next = IF fp.num_free_blocks # 1 THEN fp.next_block_idx[h] ELSE Null
  BY <1>1, <1>3 DEF g, PopNext, FixedPoolRecord
<1>6. g \in FixedPoolRecord(Ids)
  <2>1. CASE fp.num_free_blocks # 1
    <3>1. UsedMark \in Nat
      BY DEF UsedMark
    <3>2. fp.next_block_idx[h] \in Blocks
      <4>1. CASE n > 1
        <5>1. c[1] \in Initialized(fp)
          BY <1>1, <1>2, <4>1
        <5> QED
          BY <1>1, <1>4, <4>1, <5>1 DEF Initialized, Blocks
      <4>2. CASE ~(n > 1)
        BY <1>1, <1>4, <2>1, <4>2 DEF Blocks
      <4> QED
        BY <4>1, <4>2
    <3>3. fp.num_free_blocks - 1 \in 0 .. NumBlocks
      BY <1>1, <2>1
    <3>4. [fp.next_block_idx EXCEPT ![h] = UsedMark] \in [Blocks -> Nat]
      BY <1>1, <3>1
    <3>5. g = [fp EXCEPT !.num_free_blocks = fp.num_free_blocks - 1,
                         !.next = fp.next_block_idx[h],
                         !.next_block_idx[h] = UsedMark]
      BY <2>1 DEF g, PopNext
    <3> QED
      BY <3>2, <3>3, <3>4, <3>5 DEF FixedPoolRecord
  <2>2. CASE fp.num_free_blocks = 1
    <3>1. g = [fp EXCEPT !.num_free_blocks = 0, !.next = Null]
      BY <2>2 DEF g, PopNext
    <3>2. 0 \in 0 .. NumBlocks
      OBVIOUS
    <3> QED
      BY <3>1, <3>2 DEF FixedPoolRecord
  <2> QED
    BY <2>1, <2>2
<1>7. HeadersOK(g, id)
  BY <1>1, <1>3, <1>5 DEF HeadersOK, Blocks
<1>8. /\ FreeInitialized(g) = n - 1
      /\ Initialized(g) = Initialized(fp)
      /\ used2 \subseteq Initialized(g)
  <2>1. FreeInitialized(g) = n - 1
    BY <1>1, <1>5 DEF FreeInitialized
  <2>2. Initialized(g) = Initialized(fp)
    BY <1>5 DEF Initialized
  <2>3. used \subseteq Initialized(fp)
    BY DEF FreeListOK
  <2> QED
    BY <1>3, <2>1, <2>2, <2>3
<1> DEFINE d == [i \in 0 .. n - 2 |-> c[i + 1]]
<1>9. d \in [0 .. n - 2 -> Initialized(g)]
  <2>1. \A i \in 0 .. n - 2 : i + 1 \in 0 .. n - 1
    BY <1>1
  <2> QED
    BY <1>2, <1>8, <2>1
<1>10. ListsFreeBlocks(g, used2, d)
  <2>1. \A i, j \in 0 .. n - 2 : d[i] = d[j] => i = j
    <3>1. SUFFICES ASSUME NEW i \in 0 .. n - 2, NEW j \in 0 .. n - 2,
                          c[i + 1] = c[j + 1]
                   PROVE  i = j
      BY Zenon
    <3>2. i + 1 \in 0 .. n - 1 /\ j + 1 \in 0 .. n - 1
      BY <1>1
    <3>3. i + 1 = j + 1
      BY <1>2, <3>1, <3>2 DEF ListsFreeBlocks, n
    <3> QED
      BY <3>3
  <2>2. \A b \in Initialized(g) \ used2 : \E i \in 0 .. n - 2 : d[i] = b
    <3>1. SUFFICES ASSUME NEW b \in Initialized(fp) \ used, b # h
                   PROVE  \E i \in 0 .. n - 2 : d[i] = b
      BY <1>8
    <3>2. PICK i \in 0 .. n - 1 : c[i] = b
      BY <1>2 DEF ListsFreeBlocks, n
    <3>3. i # 0
      BY <1>3, <3>1, <3>2
    <3>4. i - 1 \in 0 .. n - 2 /\ d[i - 1] = b
      BY <1>1, <3>2, <3>3
    <3> QED
      BY <3>4
  <2>3. \A i \in 0 .. n - 2 : d[i] \notin used2 /\ d[i] # h
    BY <1>1, <1>2, <1>3 DEF ListsFreeBlocks, n
  <2>4. \A i \in 0 .. n - 2 : g.next_block_idx[d[i]] = fp.next_block_idx[d[i]]
    <3>1. \A i \in 0 .. n - 2 : d[i] \in Blocks
      <4>1. Initialized(g) \subseteq Blocks
        BY <1>1, <1>5 DEF Initialized, Blocks
      <4> HIDE DEF d
      <4> QED
        BY <1>9, <4>1
    <3> QED
      BY <1>5, <2>3, <3>1
  <2>5. \A i \in 0 .. n - 3 : g.next_block_idx[d[i]] = d[i + 1]
    <3>1. SUFFICES ASSUME NEW i \in 0 .. n - 3
                   PROVE  g.next_block_idx[d[i]] = d[i + 1]
      OBVIOUS
    <3>2. /\ i \in 0 .. n - 2 /\ i + 1 \in 0 .. n - 2
          /\ d[i] = c[i + 1] /\ d[i + 1] = c[(i + 1) + 1]
      BY <1>1
    <3>3. fp.next_block_idx[c[i + 1]] = c[(i + 1) + 1]
      BY <1>1, <1>2, <3>2 DEF ListsFreeBlocks, n
    <3> QED
      BY <2>4, <3>2, <3>3
  <2>6. ASSUME n - 1 > 0
        PROVE  g.next = d[0] /\ g.next_block_idx[d[n - 2]] = k
    <3>1. n - 2 \in 0 .. n - 2 /\ 0 \in 0 .. n - 2 /\ n > 1
      BY <1>1, <2>6
    <3>2. d[0] = c[1] /\ d[n - 2] = c[n - 1]
      BY <1>1, <3>1
    <3>3. fp.next_block_idx[c[n - 1]] = k
      BY <1>1, <1>2 DEF ListsFreeBlocks, n
    <3>4. fp.num_free_blocks # 1
      BY <1>1, <3>1
    <3> QED
      BY <1>4, <1>5, <2>4, <3>1, <3>2, <3>3, <3>4
  <2>7. ASSUME n - 1 = 0
        PROVE  g.next = IF k < NumBlocks THEN k ELSE Null
    BY <1>1, <1>4, <1>5, <2>7
  <2> HIDE DEF d
  <2> QED
    BY <1>1, <1>5, <1>8, <2>1, <2>2, <2>3, <2>5, <2>6, <2>7 DEF ListsFreeBlocks
<1>11. FreeListOK(g, used2)
  <2> HIDE DEF d
  <2>1. FreeInitialized(g) \in Nat /\ FreeInitialized(g) - 1 = n - 2
    BY <1>1, <1>8
  <2> QED
    BY <1>8, <1>9, <1>10, <2>1 DEF FreeListOK
<1> QED
  BY <1>3, <1>5, <1>6, <1>7, <1>11 DEF g

(* Pushing a block makes it the head of the list.                          *)
LEMMA ForcedDeAllocateOK ==
  ASSUME NEW Ids, NEW fp, NEW used, NEW id, NEW b \in used,
         fp \in FixedPoolRecord(Ids), FreeListOK(fp, used), HeadersOK(fp, id)
  PROVE  LET g == ForcedDeAllocate(fp, b) IN
         /\ g \in FixedPoolRecord(Ids)
         /\ FreeListOK(g, used \ {b})
         /\ HeadersOK(g, id)
         /\ g.num_free_blocks = fp.num_free_blocks + 1
<1>n. NumBlocks \in Nat /\ NumBlocks > 0 /\ Null \notin Int /\ Garbage \in Nat
  BY LayoutAssumption, FixedPoolAssumption
<1> USE <1>n
<1> DEFINE k == fp.num_initialized
           n == FreeInitialized(fp)
           g == ForcedDeAllocate(fp, b)
           link == IF fp.next = Null THEN NumBlocks ELSE fp.next
<1>1. /\ k \in 0 .. NumBlocks
      /\ fp.num_free_blocks \in 0 .. NumBlocks
      /\ n = fp.num_free_blocks - (NumBlocks - k)
      /\ n \in Nat
      /\ fp.next_block_idx \in [Blocks -> Nat]
      /\ fp.next \in Blocks \union {Null}
      /\ used \subseteq Initialized(fp)
  BY DEF FixedPoolRecord, FreeInitialized, FreeListOK
<1>2. PICK c \in [0 .. n - 1 -> Initialized(fp)] : ListsFreeBlocks(fp, used, c)
  BY DEF FreeListOK
<1> HIDE DEF n, g
<1>3. b \in Initialized(fp) /\ b \in Blocks /\ b < k /\ b \in Nat
  BY <1>1 DEF Initialized, Blocks
<1>4. /\ g = [fp EXCEPT !.next_block_idx[b] = link,
                        !.next = b,
                        !.num_free_blocks = @ + 1]
      /\ link \in Nat
  <2>1. fp.next # Null => IndexFromAddr(AddrFromIndex(fp.next)) = fp.next
    BY <1>1, RoundTrip
  <2>2. link \in Nat
    BY <1>1 DEF Blocks
  <2> QED
    BY <2>1, <2>2 DEF g, ForcedDeAllocate
<1>5. /\ g.num_free_blocks = fp.num_free_blocks + 1
      /\ g.num_initialized = k
      /\ g.pool_identifier = fp.pool_identifier
      /\ g.next = b
      /\ g.next_block_idx[b] = link
      /\ \A x \in Blocks : x # b => g.next_block_idx[x] = fp.next_block_idx[x]
  BY <1>1, <1>3, <1>4 DEF FixedPoolRecord
(* A list that misses a block is shorter than the pool.                    *)
<1>6. n < k
  <2> DEFINE T == Initialized(fp) \ {b}
  <2>1. /\ IsFiniteSet(0 .. n - 1) /\ Cardinality(0 .. n - 1) = n
        /\ IsFiniteSet(0 .. k - 1) /\ Cardinality(0 .. k - 1) = k
    <3>1. 0 \in Int /\ n - 1 \in Int /\ k - 1 \in Int
      BY <1>1
    <3>2. IsFiniteSet(0 .. n - 1) /\ IsFiniteSet(0 .. k - 1)
      BY <3>1, FS_Interval, Zenon
    <3>3. /\ Cardinality(0 .. n - 1) = IF 0 > n - 1 THEN 0 ELSE (n - 1) - 0 + 1
          /\ Cardinality(0 .. k - 1) = IF 0 > k - 1 THEN 0 ELSE (k - 1) - 0 + 1
      BY <3>1, FS_Interval, Zenon
    <3> QED
      BY <1>1, <3>2, <3>3
  <2>2. IsFiniteSet(T) /\ Cardinality(T) = k - 1
    BY <1>3, <2>1, FS_RemoveElement DEF Initialized
  <2>3. SUFFICES ASSUME n >= k PROVE FALSE
    BY <1>1
  <2>4. c \in [0 .. n - 1 -> T]
    BY <1>2 DEF ListsFreeBlocks, n
  <2>5. \E i, j \in 0 .. n - 1 : i # j /\ c[i] = c[j]
    <3> DEFINE S == 0 .. n - 1
    <3>1. Cardinality(T) < Cardinality(S)
      BY <1>1, <2>1, <2>2, <2>3
    <3>2. IsFiniteSet(S) /\ IsFiniteSet(T) /\ c \in [S -> T]
      BY <2>1, <2>2, <2>4
    <3> HIDE DEF S, T
    <3>3. \E i, j \in S : i # j /\ c[i] = c[j]
      BY <3>1, <3>2, FS_PigeonHole, Zenon
    <3> QED
      BY <3>3 DEF S
  <2> QED
    BY <1>2, <2>5 DEF ListsFreeBlocks, n
<1>7. g \in FixedPoolRecord(Ids)
  <2>1. fp.num_free_blocks + 1 \in 0 .. NumBlocks
    BY <1>1, <1>6
  <2>2. [fp.next_block_idx EXCEPT ![b] = link] \in [Blocks -> Nat]
    BY <1>1, <1>4
  <2> QED
    BY <1>3, <1>4, <2>1, <2>2 DEF FixedPoolRecord
<1>8. HeadersOK(g, id)
  BY <1>1, <1>3, <1>5 DEF HeadersOK, Blocks
<1>9. /\ FreeInitialized(g) = n + 1
      /\ Initialized(g) = Initialized(fp)
  <2>1. FreeInitialized(g) = n + 1
    BY <1>1, <1>5 DEF FreeInitialized
  <2> QED
    BY <1>5, <2>1 DEF Initialized
<1> DEFINE d == [i \in 0 .. n |-> IF i = 0 THEN b ELSE c[i - 1]]
<1>10. d \in [0 .. n -> Initialized(g)]
  <2>1. \A i \in 0 .. n : i # 0 => i - 1 \in 0 .. n - 1
    BY <1>1
  <2> QED
    BY <1>2, <1>3, <1>9, <2>1
<1>11. ListsFreeBlocks(g, used \ {b}, d)
  <2>0. \A i \in 0 .. n : i # 0 => /\ i - 1 \in 0 .. n - 1
                                  /\ d[i] = c[i - 1]
                                  /\ c[i - 1] \notin used
                                  /\ c[i - 1] # b
    BY <1>1, <1>2 DEF ListsFreeBlocks, n
  <2>1. \A i, j \in 0 .. n : d[i] = d[j] => i = j
    <3>1. SUFFICES ASSUME NEW i \in 0 .. n, NEW j \in 0 .. n, d[i] = d[j]
                   PROVE  i = j
      BY Zenon
    <3>2. CASE i = 0 \/ j = 0
      BY <1>1, <2>0, <3>1, <3>2
    <3>3. CASE i # 0 /\ j # 0
      <4>1. i - 1 = j - 1
        BY <1>2, <2>0, <3>1, <3>3 DEF ListsFreeBlocks, n
      <4> QED
        BY <1>1, <4>1
    <3> QED
      BY <3>2, <3>3
  <2>2. \A x \in Initialized(g) \ (used \ {b}) : \E i \in 0 .. n : d[i] = x
    <3>1. SUFFICES ASSUME NEW x \in Initialized(g) \ (used \ {b})
                   PROVE  \E i \in 0 .. n : d[i] = x
      OBVIOUS
    <3>2. CASE x = b
      <4>1. 0 \in 0 .. n /\ d[0] = x
        BY <1>1, <3>2
      <4> QED
        BY <4>1
    <3>3. CASE x # b
      <4>1. PICK i \in 0 .. n - 1 : c[i] = x
        BY <1>2, <1>9, <3>1, <3>3 DEF ListsFreeBlocks, n
      <4>2. i + 1 \in 0 .. n /\ i + 1 # 0 /\ (i + 1) - 1 = i
        BY <1>1
      <4>3. d[i + 1] = x
        BY <2>0, <4>1, <4>2
      <4> QED
        BY <4>2, <4>3
    <3> QED
      BY <3>2, <3>3
  <2>3. \A i \in 0 .. n : d[i] \notin used \ {b}
    BY <1>1, <2>0
  <2>4. d[0] = b
    BY <1>1
  <2>5. \A i \in 0 .. n : i # 0 => g.next_block_idx[d[i]] = fp.next_block_idx[d[i]]
    <3>1. Initialized(g) \subseteq Blocks
      BY <1>1, <1>5 DEF Initialized, Blocks
    <3>2. \A i \in 0 .. n : d[i] \in Blocks
      <4> HIDE DEF d
      <4> QED
        BY <1>10, <3>1
    <3> QED
      BY <1>5, <2>0, <3>2
  (* The link of the new head: the former head, or where the untouched     *)
  (* blocks start.                                                         *)
  <2>6. g.next_block_idx[d[0]] = IF n > 0 THEN c[0] ELSE k
    <3>1. CASE n > 0
      <4>1. fp.next = c[0] /\ c[0] \in Initialized(fp)
        BY <1>1, <1>2, <3>1 DEF ListsFreeBlocks, n
      <4> QED
        BY <1>5, <2>4, <3>1, <4>1 DEF Initialized
    <3>2. CASE n = 0
      BY <1>1, <1>2, <1>5, <2>4, <3>2 DEF ListsFreeBlocks, n
    <3> QED
      BY <1>1, <3>1, <3>2
  <2>7. \A i \in 0 .. n - 1 : g.next_block_idx[d[i]] = d[i + 1]
    <3>1. SUFFICES ASSUME NEW i \in 0 .. n - 1
                   PROVE  g.next_block_idx[d[i]] = d[i + 1]
      OBVIOUS
    <3>2. i \in 0 .. n /\ i + 1 \in 0 .. n /\ i + 1 # 0 /\ (i + 1) - 1 = i
      BY <1>1
    <3>3. d[i + 1] = c[i]
      BY <2>0, <3>2
    <3>4. CASE i = 0
      BY <1>1, <2>6, <3>3, <3>4
    <3>5. CASE i # 0
      <4>1. i - 1 \in 0 .. n - 2 /\ (i - 1) + 1 = i
        BY <1>1, <3>5
      <4>2. fp.next_block_idx[c[i - 1]] = c[i]
        BY <1>2, <4>1 DEF ListsFreeBlocks, n
      <4> QED
        BY <2>0, <2>5, <3>2, <3>3, <3>5, <4>2
    <3> QED
      BY <3>4, <3>5
  <2>8. g.next_block_idx[d[n]] = k
    <3>1. CASE n = 0
      BY <2>6, <3>1
    <3>2. CASE n > 0
      <4>1. n \in 0 .. n /\ n # 0
        BY <1>1, <3>2
      <4>2. fp.next_block_idx[c[n - 1]] = k
        BY <1>2, <3>2 DEF ListsFreeBlocks, n
      <4> QED
        BY <2>0, <2>5, <4>1, <4>2
    <3> QED
      BY <1>1, <3>1, <3>2
  <2> HIDE DEF d
  <2> QED
    BY <1>1, <1>5, <1>9, <2>1, <2>2, <2>3, <2>4, <2>7, <2>8 DEF ListsFreeBlocks
<1>12. FreeListOK(g, used \ {b})
  <2> HIDE DEF d
  <2>1. /\ FreeInitialized(g) \in Nat
        /\ FreeInitialized(g) - 1 = n
        /\ used \ {b} \subseteq Initialized(g)
    BY <1>1, <1>9
  <2> QED
    BY <1>10, <1>11, <2>1 DEF FreeListOK
<1> QED
  BY <1>5, <1>7, <1>8, <1>12 DEF g

(* ForcedAllocate, on a pool with a free block.                            *)
LEMMA ForcedAllocateOK ==
  ASSUME NEW Ids, NEW fp, NEW used, NEW id \in Ids,
         fp \in FixedPoolRecord(Ids), FreeListOK(fp, used), HeadersOK(fp, id),
         fp.num_free_blocks > 0
  PROVE  LET g == ForcedAllocate(fp, id) IN
         /\ g \in FixedPoolRecord(Ids)
         /\ FreeListOK(g, used \union {fp.next})
         /\ HeadersOK(g, id)
         /\ g.num_free_blocks = fp.num_free_blocks - 1
         /\ fp.next \in Blocks \ used
<1> DEFINE h == InitOneBlock(fp, id)
<1>1. /\ h \in FixedPoolRecord(Ids) /\ FreeListOK(h, used) /\ HeadersOK(h, id)
      /\ h.num_free_blocks = fp.num_free_blocks
      /\ h.next = fp.next
      /\ FreeInitialized(h) > 0
  BY InitOneBlockOK
<1> HIDE DEF h
<1>2. LET g == PopNext(h) IN
      /\ g \in FixedPoolRecord(Ids)
      /\ FreeListOK(g, used \union {h.next})
      /\ HeadersOK(g, id)
      /\ g.num_free_blocks = h.num_free_blocks - 1
      /\ h.next \in Blocks \ used
  BY <1>1, PopNextOK
<1> QED
  BY <1>1, <1>2 DEF h, ForcedAllocate

(* IsBlockUsed never claims a free block.                                  *)
LEMMA IsBlockUsedSound ==
  ASSUME NEW Ids, NEW fp, NEW used, NEW id, NEW b \in Blocks,
         fp \in FixedPoolRecord(Ids), FreeListOK(fp, used), HeadersOK(fp, id),
         IsBlockUsed(fp, b)
  PROVE  b \in used
<1> DEFINE k == fp.num_initialized
           n == FreeInitialized(fp)
<1>1. /\ NumBlocks \in Nat /\ NumBlocks > 0 /\ Null \notin Int
      /\ Garbage # UsedMark /\ UsedMark = NumBlocks + 1
  BY LayoutAssumption, FixedPoolAssumption DEF UsedMark
<1>2. /\ k \in 0 .. NumBlocks
      /\ n \in Nat
      /\ b \in Nat /\ b < NumBlocks
  BY <1>1 DEF FixedPoolRecord, FreeListOK, Blocks
<1>3. PICK c \in [0 .. n - 1 -> Initialized(fp)] : ListsFreeBlocks(fp, used, c)
  BY DEF FreeListOK
<1> HIDE DEF n
<1>4. CASE fp.next = Null
  <2>1. n = 0
    <3>1. SUFFICES ASSUME n > 0 PROVE FALSE
      BY <1>2
    <3>2. c[0] \in Initialized(fp) /\ fp.next = c[0]
      BY <1>2, <1>3, <3>1 DEF ListsFreeBlocks, n
    <3> QED
      BY <1>1, <1>4, <3>2 DEF Initialized
  <2>2. k = NumBlocks
    BY <1>1, <1>2, <1>3, <1>4, <2>1 DEF ListsFreeBlocks, n
  <2>3. b \in Initialized(fp)
    BY <1>2, <2>2 DEF Initialized
  <2> QED
    BY <1>3, <2>1, <2>3 DEF ListsFreeBlocks, n
<1>5. CASE fp.next_block_idx[b] = UsedMark
  <2>1. b \in Initialized(fp)
    BY <1>1, <1>2, <1>5 DEF HeadersOK, Initialized
  <2>2. SUFFICES ASSUME b \notin used PROVE FALSE
    OBVIOUS
  <2>3. PICK i \in 0 .. n - 1 : c[i] = b
    BY <1>3, <2>1, <2>2 DEF ListsFreeBlocks, n
  <2>4. fp.next_block_idx[b] = IF i = n - 1 THEN k ELSE c[i + 1]
    <3>1. CASE i = n - 1
      BY <1>2, <1>3, <2>3, <3>1 DEF ListsFreeBlocks, n
    <3>2. CASE i # n - 1
      <4>1. i \in 0 .. n - 2
        BY <1>2, <3>2
      <4> QED
        BY <1>3, <2>3, <3>2, <4>1 DEF ListsFreeBlocks, n
    <3> QED
      BY <3>1, <3>2
  <2>5. fp.next_block_idx[b] \in 0 .. NumBlocks
    <3>1. CASE i = n - 1
      BY <1>2, <2>4, <3>1
    <3>2. CASE i # n - 1
      <4>1. c[i + 1] \in Initialized(fp)
        BY <1>2, <1>3, <3>2
      <4> QED
        BY <1>1, <1>2, <2>4, <3>2, <4>1 DEF Initialized
    <3> QED
      BY <3>1, <3>2
  <2> QED
    BY <1>1, <1>5, <2>5
<1> QED
  BY <1>4, <1>5 DEF IsBlockUsed
=============================================================================
