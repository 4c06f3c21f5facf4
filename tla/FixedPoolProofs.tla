--------------------------- MODULE FixedPoolProofs ---------------------------
(***************************************************************************)
(* FixedPool for any number of pools and blocks, any block size and any    *)
(* word that holds the byte array.                                         *)
(***************************************************************************)
EXTENDS FixedPool, FixedPoolLemmas

(* The strengthening: what a header holds is what the free list and        *)
(* IsBlockUsed rest on.                                                    *)
IndInv == TypeOK /\ FreeListExact /\ HeadersWritten

LEMMA InitIndInv == Init => IndInv
<1>1. SUFFICES ASSUME Init PROVE IndInv
  OBVIOUS
<1>2. \A q \in Pools :
        /\ fp[q] \in FixedPoolRecord(Pools)
        /\ FreeListOK(fp[q], {})
        /\ HeadersOK(fp[q], q)
  BY <1>1, FreshPoolOK DEF Init
<1>3. \A q \in Pools : Held(q) = {}
  BY <1>1 DEF Init, Held
<1>4. TypeOK
  BY <1>1, <1>2 DEF Init, TypeOK
<1> QED
  BY <1>2, <1>3, <1>4 DEF IndInv, FreeListExact, HeadersWritten

(* One pool changes, into one that satisfies the invariant for the blocks  *)
(* now held of it; the others and what is held of them stay.               *)
LEMMA OnePoolStep ==
  ASSUME IndInv, NEW q \in Pools, NEW g,
         g \in FixedPoolRecord(Pools),
         FreeListOK(g, Held(q)'), HeadersOK(g, q),
         fp' = [fp EXCEPT ![q] = g],
         lent' \subseteq Pools \X Blocks,
         \A r \in Pools : r # q => Held(r)' = Held(r),
         ret' \in (Pools \X Blocks) \union {Null}
  PROVE  IndInv'
<1>1. /\ fp \in [Pools -> FixedPoolRecord(Pools)]
      /\ \A r \in Pools : fp'[r] = IF r = q THEN g ELSE fp[r]
  BY DEF IndInv, TypeOK
<1>2. TypeOK'
  BY <1>1 DEF TypeOK
<1>3. FreeListExact'
  BY <1>1 DEF IndInv, FreeListExact
<1>4. HeadersWritten'
  BY <1>1 DEF IndInv, HeadersWritten
<1> QED
  BY <1>2, <1>3, <1>4 DEF IndInv

LEMMA HeldIsExact ==
  ASSUME IndInv, NEW q \in Pools
  PROVE  /\ fp[q] \in FixedPoolRecord(Pools)
         /\ FreeListOK(fp[q], Held(q))
         /\ HeadersOK(fp[q], q)
  BY DEF IndInv, TypeOK, FreeListExact, HeadersWritten

LEMMA AllocateStep ==
  ASSUME IndInv, NEW q \in Pools, Allocate(q), fp[q].num_free_blocks # 0
  PROVE  /\ IndInv'
         /\ fp[q].next \in Blocks \ Held(q)
         /\ lent' = lent \union {<<q, fp[q].next>>}
         /\ ret' = <<q, fp[q].next>>
<1> DEFINE b == fp[q].next
           g == ForcedAllocate(fp[q], q)
<1>1. /\ fp' = [fp EXCEPT ![q] = g]
      /\ ret' = <<q, b>>
      /\ lent' = lent \union {<<q, b>>}
  BY DEF Allocate
<1>2. fp[q].num_free_blocks > 0
  BY HeldIsExact DEF FixedPoolRecord
<1>3. /\ g \in FixedPoolRecord(Pools)
      /\ FreeListOK(g, Held(q) \union {b})
      /\ HeadersOK(g, q)
      /\ b \in Blocks \ Held(q)
  BY <1>2, HeldIsExact, ForcedAllocateOK
<1>4. Held(q)' = Held(q) \union {b}
  BY <1>1, <1>3 DEF Held
<1>5. \A r \in Pools : r # q => Held(r)' = Held(r)
  BY <1>1 DEF Held
<1>6. /\ lent' \subseteq Pools \X Blocks
      /\ ret' \in (Pools \X Blocks) \union {Null}
  BY <1>1, <1>3 DEF IndInv, TypeOK
<1> HIDE DEF g, b
<1>7. IndInv'
  BY <1>1, <1>3, <1>4, <1>5, <1>6, OnePoolStep
<1> QED
  BY <1>1, <1>3, <1>7 DEF b

(* A block handed in with the right header was lent by that pool.          *)
LEMMA DeAllocateStep ==
  ASSUME IndInv, NEW q \in Pools, NEW x \in lent, DeAllocate(q, x),
         fp[x[1]].pool_identifier[x[2]] = q
  PROVE  /\ IndInv'
         /\ x \in {q} \X Blocks
         /\ lent' = lent \ {x}
         /\ ret' = ret
<1>1. x \in Pools \X Blocks /\ x[1] \in Pools /\ x[2] \in Blocks
      /\ x = <<x[1], x[2]>>
  BY DEF IndInv, TypeOK
<1>2. x[2] \in Held(x[1])
  BY <1>1 DEF Held
<1>3. x[1] = q
  <2>1. x[2] \in Initialized(fp[x[1]]) /\ x[2] < fp[x[1]].num_initialized
    BY <1>1, <1>2, HeldIsExact DEF FreeListOK, Initialized, FixedPoolRecord
  <2> QED
    BY <1>1, <2>1, HeldIsExact DEF HeadersOK
<1> DEFINE b == x[2]
           g == ForcedDeAllocate(fp[q], b)
<1>4. /\ fp' = [fp EXCEPT ![q] = g]
      /\ lent' = lent \ {x}
      /\ ret' = ret
  BY DEF DeAllocate
<1>5. /\ g \in FixedPoolRecord(Pools)
      /\ FreeListOK(g, Held(q) \ {b})
      /\ HeadersOK(g, q)
  BY <1>2, <1>3, HeldIsExact, ForcedDeAllocateOK
<1>6. Held(q)' = Held(q) \ {b}
  BY <1>1, <1>3, <1>4 DEF Held
<1>7. \A r \in Pools : r # q => Held(r)' = Held(r)
  BY <1>1, <1>3, <1>4 DEF Held
<1>8. /\ lent' \subseteq Pools \X Blocks
      /\ ret' \in (Pools \X Blocks) \union {Null}
  BY <1>4 DEF IndInv, TypeOK
<1> HIDE DEF g, b
<1>9. IndInv'
  BY <1>4, <1>5, <1>6, <1>7, <1>8, OnePoolStep
<1> QED
  BY <1>1, <1>3, <1>4, <1>9

LEMMA ReclaimAllStep ==
  ASSUME IndInv, NEW q \in Pools, ReclaimAll(q)
  PROVE  IndInv'
<1>1. /\ fp' = [fp EXCEPT ![q] = FreshPool]
      /\ lent' = lent \ ({q} \X Blocks)
      /\ ret' = ret
  BY DEF ReclaimAll
<1>2. Held(q)' = {}
  BY <1>1 DEF Held
<1>3. \A r \in Pools : r # q => Held(r)' = Held(r)
  BY <1>1 DEF Held
<1>4. /\ lent' \subseteq Pools \X Blocks
      /\ ret' \in (Pools \X Blocks) \union {Null}
  BY <1>1 DEF IndInv, TypeOK
<1>5. /\ FreshPool \in FixedPoolRecord(Pools)
      /\ FreeListOK(FreshPool, Held(q)')
      /\ HeadersOK(FreshPool, q)
  BY <1>2, FreshPoolOK
<1> QED
  BY <1>1, <1>3, <1>4, <1>5, OnePoolStep

LEMMA NextIndInv == IndInv /\ [Next]_vars => IndInv'
<1>1. SUFFICES ASSUME IndInv, [Next]_vars PROVE IndInv'
  OBVIOUS
<1>2. CASE UNCHANGED vars
  BY <1>1, <1>2 DEF vars, IndInv, TypeOK, FreeListExact, HeadersWritten, Held
<1>3. ASSUME NEW q \in Pools, Allocate(q) PROVE IndInv'
  <2>1. CASE fp[q].num_free_blocks # 0
    BY <1>1, <1>3, <2>1, AllocateStep
  <2>2. CASE fp[q].num_free_blocks = 0
    BY <1>1, <1>3, <2>2
    DEF Allocate, IndInv, TypeOK, FreeListExact, HeadersWritten, Held
  <2> QED
    BY <2>1, <2>2
<1>4. ASSUME NEW q \in Pools, NEW x \in lent, DeAllocate(q, x) PROVE IndInv'
  <2>1. CASE fp[x[1]].pool_identifier[x[2]] = q
    BY <1>1, <1>4, <2>1, DeAllocateStep
  <2>2. CASE fp[x[1]].pool_identifier[x[2]] # q
    BY <1>1, <1>2, <1>4, <2>2 DEF DeAllocate
  <2> QED
    BY <2>1, <2>2
<1>5. ASSUME NEW q \in Pools, ReclaimAll(q) PROVE IndInv'
  BY <1>1, <1>5, ReclaimAllStep
<1> QED
  BY <1>1, <1>2, <1>3, <1>4, <1>5 DEF Next

LEMMA Inductive == Spec => []IndInv
<1> QED
  BY InitIndInv, NextIndInv, PTL DEF Spec

-----------------------------------------------------------------------------
(* Every member of every pool stays in its range; in particular next_      *)
(* never leaves the array, whatever is allocated and given back.           *)
THEOREM TypeCorrect == Spec => []TypeOK
<1>1. IndInv => TypeOK
  BY DEF IndInv
<1> QED
  BY <1>1, Inductive, PTL

(* The free list of every pool holds exactly the blocks no client holds,   *)
(* each once, across ForcedAllocate, ForcedDeAllocate and ReclaimAll.      *)
THEOREM FreeListIsExact == Spec => []FreeListExact
<1>1. IndInv => FreeListExact
  BY DEF IndInv
<1> QED
  BY <1>1, Inductive, PTL

(* ForcedAllocate writes each header once, with the pool's identifier, and *)
(* the untouched ones keep memset's bytes.                                 *)
THEOREM HeadersAreWritten == Spec => []HeadersWritten
<1>1. IndInv => HeadersWritten
  BY DEF IndInv
<1> QED
  BY <1>1, Inductive, PTL

(* IsBlockUsed never claims a block that is free.                          *)
THEOREM UsedMarkIsSound == Spec => []UsedIsSound
<1>1. IndInv => UsedIsSound
  <2>1. SUFFICES ASSUME IndInv, NEW q \in Pools, NEW b \in Blocks,
                        IsBlockUsed(fp[q], b)
                 PROVE  b \in Held(q)
    BY DEF UsedIsSound
  <2> QED
    BY <2>1, HeldIsExact, IsBlockUsedSound
<1> QED
  BY <1>1, Inductive, PTL

(* The header of a block a client holds names the pool it came from.       *)
THEOREM HeaderRoutes == Spec => []HeaderNamesPool
<1>1. IndInv => HeaderNamesPool
  <2>1. SUFFICES ASSUME IndInv, NEW x \in lent
                 PROVE  fp[x[1]].pool_identifier[x[2]] = x[1]
    BY DEF HeaderNamesPool
  <2>2. x[1] \in Pools /\ x[2] \in Blocks /\ x[2] \in Held(x[1])
    BY <2>1 DEF IndInv, TypeOK, Held
  <2>3. x[2] < fp[x[1]].num_initialized
    BY <2>1, <2>2, HeldIsExact DEF FreeListOK, Initialized, FixedPoolRecord
  <2> QED
    BY <2>1, <2>2, <2>3, HeldIsExact DEF HeadersOK
<1> QED
  BY <1>1, Inductive, PTL

-----------------------------------------------------------------------------
(* Allocate returns nullptr only when every block of the pool is lent.     *)
LEMMA EmptyIsAllLent ==
  ASSUME IndInv, NEW q \in Pools, fp[q].num_free_blocks = 0
  PROVE  {q} \X Blocks \subseteq lent
<1> DEFINE k == fp[q].num_initialized
           n == FreeInitialized(fp[q])
<1>1. NumBlocks \in Nat
  BY LayoutAssumption
<1>2. k \in 0 .. NumBlocks /\ n \in Nat /\ n = k - NumBlocks
  BY HeldIsExact, <1>1 DEF FixedPoolRecord, FreeListOK, FreeInitialized
<1>3. k = NumBlocks /\ n = 0
  BY <1>1, <1>2
<1>4. PICK c : ListsFreeBlocks(fp[q], Held(q), c)
  BY HeldIsExact DEF FreeListOK
<1>5. Initialized(fp[q]) = Blocks
  BY <1>3 DEF Initialized, Blocks
<1>6. Blocks \subseteq Held(q)
  BY <1>3, <1>4, <1>5 DEF ListsFreeBlocks
<1> QED
  BY <1>6 DEF Held

LEMMA StepRefines ==
  IndInv /\ [Next]_vars => [Allocator!Next]_(Allocator!vars)
<1> USE DEF Allocator!vars, Allocator!Next, Allocator!BlocksOf
<1>1. SUFFICES ASSUME IndInv, [Next]_vars
               PROVE  [Allocator!Next]_(Allocator!vars)
  OBVIOUS
<1>2. CASE UNCHANGED vars
  BY <1>2 DEF vars
<1>3. ASSUME NEW q \in Pools, Allocate(q) PROVE Allocator!Allocate(q)
  <2>1. CASE fp[q].num_free_blocks # 0
    <3>1. /\ <<q, fp[q].next>> \in ({q} \X Blocks) \ lent
          /\ lent' = lent \union {<<q, fp[q].next>>}
          /\ ret' = <<q, fp[q].next>>
      BY <1>1, <1>3, <2>1, AllocateStep DEF Held
    <3> QED
      BY <3>1 DEF Allocator!Allocate
  <2>2. CASE fp[q].num_free_blocks = 0
    <3>1. {q} \X Blocks \subseteq lent
      BY <1>1, <2>2, EmptyIsAllLent
    <3>2. ret' = Null /\ lent' = lent
      BY <1>3, <2>2 DEF Allocate
    <3> QED
      BY <3>1, <3>2 DEF Allocator!Allocate
  <2> QED
    BY <2>1, <2>2
<1>4. ASSUME NEW q \in Pools, NEW x \in lent, DeAllocate(q, x)
      PROVE  Allocator!DeAllocate(q) \/ UNCHANGED vars
  <2>1. CASE fp[x[1]].pool_identifier[x[2]] = q
    BY <1>1, <1>4, <2>1, DeAllocateStep DEF Allocator!DeAllocate
  <2>2. CASE fp[x[1]].pool_identifier[x[2]] # q
    BY <1>4, <2>2 DEF DeAllocate
  <2> QED
    BY <2>1, <2>2
<1>5. ASSUME NEW q \in Pools, ReclaimAll(q) PROVE Allocator!ReclaimAll(q)
  BY <1>5 DEF ReclaimAll, Allocator!ReclaimAll
<1> QED
  BY <1>1, <1>2, <1>3, <1>4, <1>5 DEF Next, vars

(* The pools implement the abstract allocator: no block is lent twice, an  *)
(* allocation fails only on a pool whose blocks are all lent, and a block  *)
(* given back to the wrong pool changes nothing.                           *)
THEOREM Refinement == Spec => Refines
<1>1. Init => Allocator!Init
  BY DEF Init, Allocator!Init
<1> QED
  BY <1>1, StepRefines, Inductive, PTL DEF Spec, Refines, Allocator!Spec
=============================================================================
