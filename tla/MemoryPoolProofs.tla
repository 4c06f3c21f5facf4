-------------------------- MODULE MemoryPoolProofs --------------------------
(***************************************************************************)
(* For any threads, pools, blocks and clients: states have one holder,     *)
(* blocks one claim, requests reach their owner, and addresses are handed  *)
(* out as AbstractPool says; a client that leaves nothing behind has no    *)
(* object destroyed twice, and a careful one an exact list of free pools   *)
(* and no fault.                                                           *)
(***************************************************************************)
EXTENDS MemoryPoolProperties, FixedPoolLemmas, FiniteSetTheorems, SequenceTheorems,
        WellFoundedInduction, TLAPS

-----------------------------------------------------------------------------
(* What each operation of PoolOps does to a PoolState, whatever the number *)
(* of its pools.                                                           *)

(* No pool comes or goes.                                                  *)
SamePools(new, st) == Len(new.pools) = Len(st.pools)

(* An object more, an object less.                                         *)
With(U, x)    == U \union {x}
Without(U, x) == U \ {x}

(* The blocks of pool i of state s among the objects U.                    *)
UsedIn(U, s, i) == {b \in Blocks : <<s, i, b>> \in U}

(* st is state s, has its type, and each of its pools is exact when the    *)
(* objects U are in use.                                                   *)
PoolStateOK(st, s, Ids, max, U) ==
  /\ st \in PoolStateRecord(Ids, max)
  /\ st.next_pool < Len(st.pools)
  /\ Len(st.pools) <= max
  /\ \A i \in PoolIds(st) : /\ <<s, i>> \in Ids
                            /\ FreeListOK(Inner(st, i).fp, UsedIn(U, s, i))
                            /\ HeadersOK(Inner(st, i).fp, <<s, i>>)

(* A PoolState's members.                                                  *)
LEMMA PoolStateIs ==
  ASSUME NEW st, NEW Ids, NEW max \in Nat, st \in PoolStateRecord(Ids, max)
  PROVE  /\ Len(st.pools) \in Nat
         /\ DOMAIN st.pools = 1 .. Len(st.pools)
         /\ st.pools \in Seq([next_id : 0 .. max, fp : FixedPoolRecord(Ids)])
         /\ st.next_pool \in Nat
         /\ st.next_pool \in 0 .. max - 1
         /\ st.num_free_pools \in 0 .. SizeT - 1
         /\ \A i \in PoolIds(st) : /\ i \in Nat /\ i < Len(st.pools) /\ i + 1 \in 1 .. Len(st.pools)
                                   /\ Inner(st, i) \in [next_id : 0 .. max, fp : FixedPoolRecord(Ids)]
                                   /\ Inner(st, i).fp \in FixedPoolRecord(Ids)
                                   /\ Inner(st, i).next_id \in 0 .. max
<1>1. st.pools \in Seq([next_id : 0 .. max, fp : FixedPoolRecord(Ids)])
  BY DEF PoolStateRecord
<1>2. Len(st.pools) \in Nat /\ DOMAIN st.pools = 1 .. Len(st.pools)
  BY <1>1
<1>3. \A i \in PoolIds(st) : i \in Nat /\ i < Len(st.pools) /\ i + 1 \in 1 .. Len(st.pools)
  BY <1>2 DEF PoolIds
<1>4. \A i \in PoolIds(st) : Inner(st, i) \in [next_id : 0 .. max, fp : FixedPoolRecord(Ids)]
  BY <1>1, <1>3, ElementOfSeq DEF Inner
<1>5. /\ st.next_pool \in Nat /\ st.next_pool \in 0 .. max - 1
      /\ st.num_free_pools \in 0 .. SizeT - 1
  BY DEF PoolStateRecord
<1> QED
  BY <1>1, <1>2, <1>3, <1>4, <1>5

(* One of its pools.                                                       *)
LEMMA PoolIs ==
  ASSUME NEW Ids, NEW max \in Nat, NEW s, NEW U, NEW st, PoolStateOK(st, s, Ids, max, U),
         NEW i \in PoolIds(st)
  PROVE  /\ st \in PoolStateRecord(Ids, max)
         /\ st.next_pool \in PoolIds(st)
         /\ st.num_free_pools \in 0 .. SizeT - 1
         /\ i \in Nat /\ i + 1 \in DOMAIN st.pools /\ i + 1 \in 0 .. max
         /\ Inner(st, i) \in [next_id : 0 .. max, fp : FixedPoolRecord(Ids)]
         /\ Inner(st, i).fp \in FixedPoolRecord(Ids)
         /\ <<s, i>> \in Ids
         /\ FreeListOK(Inner(st, i).fp, UsedIn(U, s, i))
         /\ HeadersOK(Inner(st, i).fp, <<s, i>>)
<1>1. /\ st \in PoolStateRecord(Ids, max) /\ Len(st.pools) <= max /\ st.next_pool < Len(st.pools)
      /\ <<s, i>> \in Ids
      /\ FreeListOK(Inner(st, i).fp, UsedIn(U, s, i))
      /\ HeadersOK(Inner(st, i).fp, <<s, i>>)
  BY DEF PoolStateOK
<1>2. /\ Len(st.pools) \in Nat /\ st.next_pool \in Nat /\ DOMAIN st.pools = 1 .. Len(st.pools)
      /\ st.num_free_pools \in 0 .. SizeT - 1
      /\ i \in Nat /\ i + 1 \in 1 .. Len(st.pools)
      /\ Inner(st, i) \in [next_id : 0 .. max, fp : FixedPoolRecord(Ids)]
      /\ Inner(st, i).fp \in FixedPoolRecord(Ids)
  BY <1>1, PoolStateIs
<1>3. st.next_pool \in PoolIds(st)
  BY <1>1, <1>2 DEF PoolIds
<1>4. i + 1 \in 0 .. max
  BY <1>1, <1>2
<1> QED
  BY <1>1, <1>2, <1>3, <1>4

(* One pool's FixedPool changes.                                           *)
LEMMA FpIs ==
  ASSUME NEW Ids, NEW max \in Nat, NEW st \in PoolStateRecord(Ids, max),
         NEW i, i + 1 \in DOMAIN st.pools, NEW g,
         Inner(st, i) \in [next_id : 0 .. max, fp : FixedPoolRecord(Ids)]
  PROVE  [st EXCEPT !.pools[i + 1].fp = g] =
           [pools |-> [st.pools EXCEPT ![i + 1] = [next_id |-> Inner(st, i).next_id, fp |-> g]],
            next_pool |-> st.next_pool, num_free_pools |-> st.num_free_pools]
<1>1. [Inner(st, i) EXCEPT !.fp = g] = [next_id |-> Inner(st, i).next_id, fp |-> g]
  OBVIOUS
<1>2. st = [pools |-> st.pools, next_pool |-> st.next_pool, num_free_pools |-> st.num_free_pools]
  BY DEF PoolStateRecord
<1> QED
  BY <1>1, <1>2 DEF Inner

(* The objects in use change in pool i only.                               *)
SameElsewhere(U, V, st, s, i) ==
  \A j \in PoolIds(st) : j # i => UsedIn(V, s, j) = UsedIn(U, s, j)

(* One pool of a state changes.                                            *)
LEMMA OnePoolOK ==
  ASSUME NEW Ids, NEW max \in Nat, NEW s, NEW U, NEW V, NEW st, PoolStateOK(st, s, Ids, max, U),
         NEW i \in PoolIds(st), NEW r \in [next_id : 0 .. max, fp : FixedPoolRecord(Ids)],
         FreeListOK(r.fp, UsedIn(V, s, i)), HeadersOK(r.fp, <<s, i>>),
         SameElsewhere(U, V, st, s, i),
         NEW next \in PoolIds(st), NEW num \in 0 .. SizeT - 1,
         NEW new, new = [pools |-> [st.pools EXCEPT ![i + 1] = r],
                         next_pool |-> next, num_free_pools |-> num]
  PROVE  /\ PoolStateOK(new, s, Ids, max, V)
         /\ Len(new.pools) = Len(st.pools)
<1>1. /\ st.pools \in Seq([next_id : 0 .. max, fp : FixedPoolRecord(Ids)])
      /\ Len(st.pools) \in Nat /\ Len(st.pools) <= max
      /\ i + 1 \in 1 .. Len(st.pools)
      /\ \A j \in PoolIds(st) : j \in Nat /\ j < Len(st.pools) /\ j + 1 \in 1 .. Len(st.pools)
  BY PoolStateIs DEF PoolStateOK
<1> DEFINE pools == [st.pools EXCEPT ![i + 1] = r]
<1>2. /\ pools \in Seq([next_id : 0 .. max, fp : FixedPoolRecord(Ids)])
      /\ Len(pools) = Len(st.pools)
      /\ \A j \in 1 .. Len(st.pools) : pools[j] = IF j = i + 1 THEN r ELSE st.pools[j]
  BY <1>1, ExceptSeq
<1>3. new.pools = pools /\ new.next_pool = next /\ new.num_free_pools = num
  OBVIOUS
<1> HIDE DEF pools
<1>4. new \in PoolStateRecord(Ids, max)
  <2>1. next \in 0 .. max - 1
    BY <1>1
  <2> QED
    BY <1>2, <2>1 DEF PoolStateRecord, pools
<1>5. PoolIds(new) = PoolIds(st)
  BY <1>2, <1>3 DEF PoolIds
<1>6. Inner(new, i) = r /\ \A j \in PoolIds(st) : j # i => Inner(new, j) = Inner(st, j)
  <2>1. i \in Nat /\ \A j \in PoolIds(st) : j \in Nat /\ j + 1 \in 1 .. Len(st.pools)
    BY <1>1
  <2>2. pools[i + 1] = r
    BY <1>1, <1>2
  <2>3. \A j \in PoolIds(st) : j # i => pools[j + 1] = st.pools[j + 1]
    BY <1>2, <2>1
  <2> QED
    BY <1>3, <2>2, <2>3 DEF Inner
<1>7. ASSUME NEW j \in PoolIds(new)
      PROVE  /\ <<s, j>> \in Ids
             /\ FreeListOK(Inner(new, j).fp, UsedIn(V, s, j))
             /\ HeadersOK(Inner(new, j).fp, <<s, j>>)
  BY <1>5, <1>6, <1>7 DEF PoolStateOK, SameElsewhere
<1> QED
  BY <1>1, <1>2, <1>3, <1>4, <1>7 DEF PoolStateOK

(* The blocks in use are what the state says, not what others are.         *)
LEMMA SameBlocks ==
  ASSUME NEW Ids, NEW max \in Nat, NEW s, NEW U, NEW V, NEW st, PoolStateOK(st, s, Ids, max, U),
         \A i \in PoolIds(st) : \A b \in Blocks : <<s, i, b>> \in V <=> <<s, i, b>> \in U
  PROVE  PoolStateOK(st, s, Ids, max, V)
<1>1. \A i \in PoolIds(st) : UsedIn(V, s, i) = UsedIn(U, s, i)
  BY DEF UsedIn
<1> QED
  BY <1>1 DEF PoolStateOK

(* The constructor: one pool, with every block free.                       *)
LEMMA FreshPoolStateOK ==
  ASSUME NEW Ids, NEW max \in Nat \ {0}, NEW s, NEW U, <<s, 0>> \in Ids,
         \A b \in Blocks : <<s, 0, b>> \notin U
  PROVE  PoolStateOK(FreshPoolState, s, Ids, max, U)
<1> DEFINE st == FreshPoolState
           r == InnerFixedPool(0)
<1>1. FreshPool \in FixedPoolRecord(Ids) /\ FreeListOK(FreshPool, {}) /\ HeadersOK(FreshPool, <<s, 0>>)
  BY FreshPoolOK
<1>2. r \in [next_id : 0 .. max, fp : FixedPoolRecord(Ids)] /\ r.fp = FreshPool
  BY <1>1 DEF InnerFixedPool
<1>3. st.pools = <<r>> /\ st.next_pool = 0 /\ st.num_free_pools = 1
  BY DEF FreshPoolState
<1> HIDE DEF r
<1>4. st.pools \in Seq([next_id : 0 .. max, fp : FixedPoolRecord(Ids)]) /\ Len(st.pools) = 1
  BY <1>2, <1>3
<1>5. st \in PoolStateRecord(Ids, max)
  BY <1>2, SizeTAssumption DEF PoolStateRecord, FreshPoolState, r
<1>6. PoolIds(st) = {0} /\ Inner(st, 0) = r
  BY <1>3, <1>4 DEF PoolIds, Inner
<1>7. UsedIn(U, s, 0) = {}
  BY DEF UsedIn
<1> HIDE DEF st
<1> QED
  BY <1>1, <1>2, <1>3, <1>4, <1>5, <1>6, <1>7 DEF PoolStateOK, st

(* SetNextFreePool changes the list only.                                  *)
LEMMA SetNextFreePoolOK ==
  ASSUME NEW Ids, NEW max \in Nat, NEW s, NEW U, NEW st, PoolStateOK(st, s, Ids, max, U),
         NEW i \in PoolIds(st)
  PROVE  /\ PoolStateOK(SetNextFreePool(st, i), s, Ids, max, U)
         /\ SamePools(SetNextFreePool(st, i), st)
<1>1. CASE HasFreeBlock(st, i)
  BY <1>1 DEF SetNextFreePool, SamePools
<1>2. CASE ~HasFreeBlock(st, i)
  <2> DEFINE r == [next_id |-> st.next_pool, fp |-> Inner(st, i).fp]
             num == (st.num_free_pools + 1) % SizeT
             new == SetNextFreePool(st, i)
  <2>1. /\ st \in PoolStateRecord(Ids, max)
        /\ i + 1 \in DOMAIN st.pools
        /\ Inner(st, i) \in [next_id : 0 .. max, fp : FixedPoolRecord(Ids)]
        /\ st.next_pool \in 0 .. max - 1
        /\ st.num_free_pools \in 0 .. SizeT - 1
        /\ \A j \in PoolIds(st) : j \in Nat
    BY PoolStateIs DEF PoolStateOK
  <2>2. r \in [next_id : 0 .. max, fp : FixedPoolRecord(Ids)] /\ r.fp = Inner(st, i).fp
    BY <2>1
  <2>3. num \in 0 .. SizeT - 1
    <3>1. st.num_free_pools + 1 \in Nat /\ SizeT \in Nat /\ SizeT > 0
      BY <2>1, SizeTAssumption
    <3> QED
      BY <3>1, DivMod
  <2>4. new = [pools |-> [st.pools EXCEPT ![i + 1] = r], next_pool |-> i, num_free_pools |-> num]
    <3>1. [Inner(st, i) EXCEPT !.next_id = st.next_pool] = r
      BY <2>1
    <3>2. DOMAIN st = {"pools", "next_pool", "num_free_pools"}
      BY <2>1 DEF PoolStateRecord
    <3> QED
      BY <1>2, <2>1, <3>1, <3>2 DEF SetNextFreePool, PoolStateRecord, Inner
  <2>5. FreeListOK(r.fp, UsedIn(U, s, i)) /\ HeadersOK(r.fp, <<s, i>>)
    BY <2>2 DEF PoolStateOK
  <2>6. SameElsewhere(U, U, st, s, i)
    BY DEF SameElsewhere
  <2> HIDE DEF new, num, r
  <2> QED
    BY <2>2, <2>3, <2>4, <2>5, <2>6, OnePoolOK DEF new, SamePools
<1> QED
  BY <1>1, <1>2 DEF SamePools

(* An allocation takes a block nobody has.                                 *)
LEMMA AllocateInOK ==
  ASSUME NEW Ids, NEW max \in Nat, NEW s, NEW U, NEW st, PoolStateOK(st, s, Ids, max, U),
         NEW i \in PoolIds(st), HasFreeBlock(st, i)
  PROVE  /\ Inner(st, i).fp.next \in Blocks /\ <<s, i, Inner(st, i).fp.next>> \notin U
         /\ PoolStateOK(AllocateIn(st, i, <<s, i>>), s, Ids, max,
                        With(U, <<s, i, Inner(st, i).fp.next>>))
         /\ SamePools(AllocateIn(st, i, <<s, i>>), st)
<1>0. PICK b : b = Inner(st, i).fp.next
  OBVIOUS
<1>01. PICK new : new = AllocateIn(st, i, <<s, i>>)
  OBVIOUS
<1> DEFINE fp == Inner(st, i).fp
           g == ForcedAllocate(fp, <<s, i>>)
           r == [next_id |-> Inner(st, i).next_id, fp |-> g]
<1>1. /\ st \in PoolStateRecord(Ids, max)
      /\ i + 1 \in DOMAIN st.pools
      /\ Inner(st, i) \in [next_id : 0 .. max, fp : FixedPoolRecord(Ids)]
      /\ fp \in FixedPoolRecord(Ids)
      /\ st.num_free_pools \in 0 .. SizeT - 1
      /\ st.next_pool \in PoolIds(st)
  BY PoolIs
<1>2. <<s, i>> \in Ids /\ FreeListOK(fp, UsedIn(U, s, i)) /\ HeadersOK(fp, <<s, i>>)
  BY PoolIs
<1>3. fp.num_free_blocks > 0
  BY DEF HasFreeBlock, IsAnyBlockAvailable
<1>4. /\ g \in FixedPoolRecord(Ids)
      /\ FreeListOK(g, UsedIn(U, s, i) \union {b})
      /\ HeadersOK(g, <<s, i>>)
      /\ b \in Blocks \ UsedIn(U, s, i)
  <2>1. fp \in FixedPoolRecord(Ids) /\ <<s, i>> \in Ids
    BY <1>1, <1>2
  <2> DEFINE used == UsedIn(U, s, i)
             id == <<s, i>>
  <2>2. FreeListOK(fp, used) /\ HeadersOK(fp, id) /\ id \in Ids
    BY <1>2
  <2> HIDE DEF fp, used, id
  <2>3. LET h == ForcedAllocate(fp, id) IN
        /\ h \in FixedPoolRecord(Ids)
        /\ FreeListOK(h, used \union {fp.next})
        /\ HeadersOK(h, id)
        /\ fp.next \in Blocks \ used
    BY <1>3, <2>1, <2>2, ForcedAllocateOK
  <2> QED
    BY <1>0, <2>3 DEF used, id, fp
<1>5. b \in Blocks /\ <<s, i, b>> \notin U
  BY <1>4 DEF UsedIn
<1>6. /\ UsedIn(With(U, <<s, i, b>>), s, i) = UsedIn(U, s, i) \union {b}
      /\ SameElsewhere(U, With(U, <<s, i, b>>), st, s, i)
  BY <1>5 DEF UsedIn, SameElsewhere, With
<1>7. r \in [next_id : 0 .. max, fp : FixedPoolRecord(Ids)] /\ r.fp = g
  BY <1>1, <1>4
<1>8. new = [pools |-> [st.pools EXCEPT ![i + 1] = r],
             next_pool |-> st.next_pool, num_free_pools |-> st.num_free_pools]
  <2>1. new = [st EXCEPT !.pools[i + 1].fp = g]
    BY <1>01 DEF AllocateIn, Inner
  <2> HIDE DEF g, fp
  <2> QED
    BY <1>1, <2>1, FpIs
<1>9. FreeListOK(r.fp, UsedIn(With(U, <<s, i, b>>), s, i)) /\ HeadersOK(r.fp, <<s, i>>)
  BY <1>4, <1>6, <1>7
<1> HIDE DEF r, g, fp
<1>10. PoolStateOK(new, s, Ids, max, With(U, <<s, i, b>>)) /\ Len(new.pools) = Len(st.pools)
  <2>1. r \in [next_id : 0 .. max, fp : FixedPoolRecord(Ids)]
    BY <1>7
  <2>2. FreeListOK(r.fp, UsedIn(With(U, <<s, i, b>>), s, i))
    BY <1>9
  <2>3. HeadersOK(r.fp, <<s, i>>)
    BY <1>9
  <2>4. SameElsewhere(U, With(U, <<s, i, b>>), st, s, i)
    BY <1>6
  <2>5. st.next_pool \in PoolIds(st)
    BY <1>1
  <2>6. st.num_free_pools \in 0 .. SizeT - 1
    BY <1>1
  <2>7. new = [pools |-> [st.pools EXCEPT ![i + 1] = r],
           next_pool |-> st.next_pool, num_free_pools |-> st.num_free_pools]
    BY <1>8
  <2>8. PICK V : V = With(U, <<s, i, b>>)
    OBVIOUS
  <2>9. PoolStateOK(new, s, Ids, max, V) /\ Len(new.pools) = Len(st.pools)
    BY <2>1, <2>2, <2>3, <2>4, <2>5, <2>6, <2>7, <2>8, OnePoolOK
  <2> QED
    BY <2>8, <2>9
<1> QED
  BY <1>0, <1>01, <1>5, <1>10 DEF SamePools

(* Freeing a block in use.                                                 *)
LEMMA FreeInOK ==
  ASSUME NEW Ids, NEW max \in Nat, NEW s, NEW U, NEW st, PoolStateOK(st, s, Ids, max, U),
         NEW i \in PoolIds(st), NEW b \in Blocks, <<s, i, b>> \in U
  PROVE  /\ PoolStateOK(FreeIn(st, i, b), s, Ids, max, Without(U, <<s, i, b>>))
         /\ SamePools(FreeIn(st, i, b), st)
<1>0. PICK new : new = FreeIn(st, i, b)
  OBVIOUS
<1> DEFINE fp == Inner(st, i).fp
           g == ForcedDeAllocate(fp, b)
           r == [next_id |-> Inner(st, i).next_id, fp |-> g]
<1>1. /\ st \in PoolStateRecord(Ids, max)
      /\ i + 1 \in DOMAIN st.pools
      /\ Inner(st, i) \in [next_id : 0 .. max, fp : FixedPoolRecord(Ids)]
      /\ fp \in FixedPoolRecord(Ids)
      /\ st.num_free_pools \in 0 .. SizeT - 1
      /\ st.next_pool \in PoolIds(st)
  BY PoolIs
<1>2. FreeListOK(fp, UsedIn(U, s, i)) /\ HeadersOK(fp, <<s, i>>) /\ b \in UsedIn(U, s, i)
  <2>1. b \in UsedIn(U, s, i)
    BY DEF UsedIn
  <2> QED
    BY <2>1, PoolIs
<1>3. /\ g \in FixedPoolRecord(Ids)
      /\ FreeListOK(g, UsedIn(U, s, i) \ {b})
      /\ HeadersOK(g, <<s, i>>)
  BY <1>1, <1>2, ForcedDeAllocateOK
<1>4. /\ UsedIn(Without(U, <<s, i, b>>), s, i) = UsedIn(U, s, i) \ {b}
      /\ SameElsewhere(U, Without(U, <<s, i, b>>), st, s, i)
  BY DEF UsedIn, SameElsewhere, Without
<1>5. r \in [next_id : 0 .. max, fp : FixedPoolRecord(Ids)] /\ r.fp = g
  BY <1>1, <1>3
<1>6. new = [pools |-> [st.pools EXCEPT ![i + 1] = r],
             next_pool |-> st.next_pool, num_free_pools |-> st.num_free_pools]
  <2>1. new = [st EXCEPT !.pools[i + 1].fp = g]
    BY <1>0 DEF FreeIn, Inner
  <2> HIDE DEF g, fp
  <2> QED
    BY <1>1, <2>1, FpIs
<1>7. FreeListOK(r.fp, UsedIn(Without(U, <<s, i, b>>), s, i)) /\ HeadersOK(r.fp, <<s, i>>)
  BY <1>3, <1>4, <1>5
<1> HIDE DEF r, g, fp
<1>8. PoolStateOK(new, s, Ids, max, Without(U, <<s, i, b>>)) /\ Len(new.pools) = Len(st.pools)
  <2>1. r \in [next_id : 0 .. max, fp : FixedPoolRecord(Ids)]
    BY <1>5
  <2>2. FreeListOK(r.fp, UsedIn(Without(U, <<s, i, b>>), s, i))
    BY <1>7
  <2>3. HeadersOK(r.fp, <<s, i>>)
    BY <1>7
  <2>4. SameElsewhere(U, Without(U, <<s, i, b>>), st, s, i)
    BY <1>4
  <2>5. st.next_pool \in PoolIds(st)
    BY <1>1
  <2>6. st.num_free_pools \in 0 .. SizeT - 1
    BY <1>1
  <2>7. new = [pools |-> [st.pools EXCEPT ![i + 1] = r],
           next_pool |-> st.next_pool, num_free_pools |-> st.num_free_pools]
    BY <1>6
  <2> QED
    BY <2>1, <2>2, <2>3, <2>4, <2>5, <2>6, <2>7, OnePoolOK
<1> QED
  BY <1>0, <1>8 DEF SamePools

(* Clear resets the link of a pool.                                        *)
LEMMA RelinkOK ==
  ASSUME NEW Ids, NEW max \in Nat, NEW s, NEW U, NEW st, PoolStateOK(st, s, Ids, max, U),
         NEW i \in PoolIds(st)
  PROVE  LET new == [st EXCEPT !.pools[i + 1].next_id = i + 1] IN
         /\ PoolStateOK(new, s, Ids, max, U)
         /\ Len(new.pools) = Len(st.pools)
<1> DEFINE r == [next_id |-> i + 1, fp |-> Inner(st, i).fp]
           new == [st EXCEPT !.pools[i + 1].next_id = i + 1]
<1>1. /\ st \in PoolStateRecord(Ids, max)
      /\ i + 1 \in DOMAIN st.pools
      /\ Inner(st, i) \in [next_id : 0 .. max, fp : FixedPoolRecord(Ids)]
      /\ st.num_free_pools \in 0 .. SizeT - 1
      /\ st.next_pool \in PoolIds(st)
      /\ i + 1 \in 0 .. max
  BY PoolIs
<1>2. r \in [next_id : 0 .. max, fp : FixedPoolRecord(Ids)] /\ r.fp = Inner(st, i).fp
  BY <1>1
<1>3. new = [pools |-> [st.pools EXCEPT ![i + 1] = r],
             next_pool |-> st.next_pool, num_free_pools |-> st.num_free_pools]
  <2>1. [Inner(st, i) EXCEPT !.next_id = i + 1] = r
    BY <1>1
  <2>2. st = [pools |-> st.pools, next_pool |-> st.next_pool, num_free_pools |-> st.num_free_pools]
    BY <1>1 DEF PoolStateRecord
  <2> QED
    BY <1>1, <2>1, <2>2 DEF Inner
<1>4. /\ FreeListOK(r.fp, UsedIn(U, s, i)) /\ HeadersOK(r.fp, <<s, i>>)
      /\ SameElsewhere(U, U, st, s, i)
  BY <1>2 DEF PoolStateOK, SameElsewhere
<1> HIDE DEF r, new
<1>5. PoolStateOK(new, s, Ids, max, U) /\ Len(new.pools) = Len(st.pools)
  BY <1>1, <1>2, <1>3, <1>4, OnePoolOK
<1> QED
  BY <1>5 DEF new

(* The list changes, the pools do not.                                     *)
LEMMA ListOK ==
  ASSUME NEW Ids, NEW max \in Nat, NEW s, NEW U, NEW st, PoolStateOK(st, s, Ids, max, U),
         NEW next \in PoolIds(st), NEW num \in 0 .. SizeT - 1,
         NEW new, new = [pools |-> st.pools, next_pool |-> next, num_free_pools |-> num]
  PROVE  PoolStateOK(new, s, Ids, max, U)
<1>1. st \in PoolStateRecord(Ids, max) /\ Len(st.pools) \in Nat /\ Len(st.pools) <= max
  BY PoolStateIs DEF PoolStateOK
<1>2. new \in PoolStateRecord(Ids, max)
  BY <1>1 DEF PoolStateRecord, PoolIds
<1>3. next < Len(st.pools)
  BY <1>1 DEF PoolIds
<1> QED
  BY <1>2, <1>3 DEF PoolStateOK, PoolIds, Inner

(* The full pool is dropped.                                               *)
LEMMA DropFullPoolOK ==
  ASSUME NEW Ids, NEW max \in Nat, NEW s, NEW U, NEW st, PoolStateOK(st, s, Ids, max, U)
  PROVE  /\ PoolStateOK(DropFullPool(st), s, Ids, max, U)
         /\ DropFullPool(st).pools = st.pools
         /\ DropFullPool(st).next_pool = st.next_pool
<1> DEFINE num == IF st.num_free_pools = 0 THEN SizeT - 1 ELSE st.num_free_pools - 1
<1>1. st \in PoolStateRecord(Ids, max) /\ st.num_free_pools \in 0 .. SizeT - 1
  BY PoolStateIs DEF PoolStateOK
<1>2. num \in 0 .. SizeT - 1
  BY <1>1, SizeTAssumption
<1>3. DropFullPool(st) = [pools |-> st.pools, next_pool |-> st.next_pool, num_free_pools |-> num]
  BY <1>1 DEF DropFullPool, PoolStateRecord
<1>4. st.next_pool \in PoolIds(st)
  <2>1. Len(st.pools) \in Nat /\ st.next_pool \in Nat
    BY <1>1, PoolStateIs
  <2> QED
    BY <2>1 DEF PoolStateOK, PoolIds
<1> HIDE DEF num
<1> QED
  BY <1>2, <1>3, <1>4, ListOK

(* A pool is added, with every block free.                                 *)
LEMMA AddNewPoolOK ==
  ASSUME NEW Ids, NEW max \in Nat, NEW s, NEW U, NEW st, PoolStateOK(st, s, Ids, max, U),
         Len(st.pools) < max, <<s, Len(st.pools)>> \in Ids,
         \A b \in Blocks : <<s, Len(st.pools), b>> \notin U
  PROVE  /\ PoolStateOK(AddNewPool(st), s, Ids, max, U)
         /\ Len(AddNewPool(st).pools) = Len(st.pools) + 1
         /\ AddNewPool(st).next_pool = Len(st.pools)
         /\ HasFreeBlock(AddNewPool(st), Len(st.pools))
<1> DEFINE n == Len(st.pools)
           r == InnerFixedPool(n)
           pools == Append(st.pools, r)
           new == AddNewPool(st)
           R == [next_id : 0 .. max, fp : FixedPoolRecord(Ids)]
<1>1. /\ st \in PoolStateRecord(Ids, max) /\ st.pools \in Seq(R)
      /\ n \in Nat /\ st.num_free_pools \in 0 .. SizeT - 1
  BY PoolStateIs DEF PoolStateOK
<1>2. FreshPool \in FixedPoolRecord(Ids) /\ FreeListOK(FreshPool, {}) /\ HeadersOK(FreshPool, <<s, n>>)
  BY FreshPoolOK
<1>3. r \in R /\ r.fp = FreshPool
  BY <1>1, <1>2 DEF InnerFixedPool
<1>4. (st.num_free_pools + 1) % SizeT \in 0 .. SizeT - 1
  <2>1. st.num_free_pools + 1 \in Nat /\ SizeT \in Nat /\ SizeT > 0
    BY <1>1, SizeTAssumption
  <2> QED
    BY <2>1, DivMod
<1>5. new.pools = pools /\ new.next_pool = n /\ new.num_free_pools = (st.num_free_pools + 1) % SizeT
  BY DEF AddNewPool
<1> HIDE DEF r, R
<1>6. /\ pools \in Seq(R) /\ Len(pools) = n + 1 /\ pools[n + 1] = r
      /\ \A j \in 1 .. n : pools[j] = st.pools[j]
  BY <1>1, <1>3
<1>7. new \in PoolStateRecord(Ids, max)
  <2>1. n \in 0 .. max - 1
    BY <1>1
  <2> QED
    BY <1>4, <1>6, <2>1 DEF PoolStateRecord, AddNewPool, R, r
<1> HIDE DEF pools, new
<1>8. Inner(new, n) = r /\ \A j \in PoolIds(st) : j \in PoolIds(new) /\ Inner(new, j) = Inner(st, j)
  <2>1. \A j \in PoolIds(st) : j \in Nat /\ j + 1 \in 1 .. n
    BY <1>1 DEF PoolIds
  <2> QED
    BY <1>1, <1>5, <1>6, <2>1 DEF Inner, PoolIds
<1>9. \A j \in PoolIds(new) : j \in PoolIds(st) \/ j = n
  BY <1>1, <1>5, <1>6 DEF PoolIds
<1>10. UsedIn(U, s, n) = {}
  BY DEF UsedIn
<1>11. ASSUME NEW j \in PoolIds(new)
       PROVE  /\ <<s, j>> \in Ids
              /\ FreeListOK(Inner(new, j).fp, UsedIn(U, s, j))
              /\ HeadersOK(Inner(new, j).fp, <<s, j>>)
  <2>1. CASE j = n
    BY <1>2, <1>3, <1>8, <1>10, <2>1
  <2>2. CASE j \in PoolIds(st)
    BY <1>8, <2>2 DEF PoolStateOK
  <2> QED
    BY <1>9, <2>1, <2>2
<1>12. PoolStateOK(new, s, Ids, max, U)
  BY <1>1, <1>5, <1>6, <1>7, <1>11 DEF PoolStateOK
<1>13. HasFreeBlock(new, n)
  BY <1>3, <1>8, LayoutAssumption DEF HasFreeBlock, IsAnyBlockAvailable, FreshPool
<1> QED
  BY <1>5, <1>6, <1>12, <1>13 DEF new

(* The header of a block in use names its pool.                            *)
LEMMA HeaderOfUsed ==
  ASSUME NEW Ids, NEW max \in Nat, NEW s, NEW U, NEW st, PoolStateOK(st, s, Ids, max, U),
         NEW i \in PoolIds(st), NEW b \in Blocks, <<s, i, b>> \in U
  PROVE  Inner(st, i).fp.pool_identifier[b] = <<s, i>>
<1> DEFINE fp == Inner(st, i).fp
<1>1. fp \in FixedPoolRecord(Ids) /\ FreeListOK(fp, UsedIn(U, s, i)) /\ HeadersOK(fp, <<s, i>>)
  BY PoolStateIs DEF PoolStateOK
<1>2. b \in UsedIn(U, s, i)
  BY DEF UsedIn
<1> HIDE DEF fp
<1>3. b < fp.num_initialized
  BY <1>1, <1>2, LayoutAssumption DEF FreeListOK, Initialized, FixedPoolRecord, Blocks
<1> QED
  BY <1>1, <1>3 DEF HeadersOK, fp

(* What Clear takes for an object is a block in use.                       *)
LEMMA UsedMarkOK ==
  ASSUME NEW Ids, NEW max \in Nat, NEW s, NEW U, NEW st, PoolStateOK(st, s, Ids, max, U),
         NEW i \in PoolIds(st), NEW b \in Blocks, IsBlockUsed(Inner(st, i).fp, b)
  PROVE  <<s, i, b>> \in U
<1>1. /\ Inner(st, i).fp \in FixedPoolRecord(Ids)
      /\ FreeListOK(Inner(st, i).fp, UsedIn(U, s, i)) /\ HeadersOK(Inner(st, i).fp, <<s, i>>)
  BY PoolStateIs DEF PoolStateOK
<1>2. b \in UsedIn(U, s, i)
  BY <1>1, IsBlockUsedSound
<1> QED
  BY <1>2 DEF UsedIn

-----------------------------------------------------------------------------
(* The threads, the queues and the clients.                                *)
(* A thread's stack: the objects whose destructor runs, the states swept.  *)
DtorsIn(s) == {x \in Objects : \E k \in DOMAIN s : s[k].op = "dtor" /\ s[k].x = x}
SweptIn(s) == {p \in Threads : \E k \in DOMAIN s : s[k].op = "sweep" /\ s[k].s = p}

(* No destructor runs twice in a thread at the same time.                  *)
OnceEach(s) ==
  \A k, l \in DOMAIN s :
    s[k].op = "dtor" /\ s[l].op = "dtor" /\ s[k].x = s[l].x => k = l

(* Which calls nest: destructors in anything, a sweep at the bottom, the   *)
(* consumption of requests at the top and, unless New does it, alone.      *)
Shape(s) ==
  \A k \in DOMAIN s :
    /\ s[k].op = "init" => Len(s) = 1
    /\ s[k].op = "consume" => k = 1 /\ (s[k].then = "new" \/ Len(s) = 1)
    /\ s[k].op = "sweep" => k = Len(s)

(* Nothing is twice in the sequence.                                       *)
NoRepeat(q) == \A k, l \in DOMAIN q : q[k] = q[l] => k = l

(* Who claims an object, that is, its block: the client (live), nobody     *)
(* (lost), a destructor that runs (D), a request in a queue (R).  At most  *)
(* one does.                                                               *)
Apart(l, o, D, R) ==
  /\ l \intersect o = {}
  /\ \A t \in Threads : l \intersect D[t] = {} /\ o \intersect D[t] = {}
  /\ \A t, u \in Threads : t # u => D[t] \intersect D[u] = {}
  /\ \A s, p \in Threads : l \intersect R[s][p] = {} /\ o \intersect R[s][p] = {}
  /\ \A t, s, p \in Threads : D[t] \intersect R[s][p] = {}
  /\ \A s, p, s2, p2 \in Threads :
       s # s2 \/ p # p2 => R[s][p] \intersect R[s2][p2] = {}

(* Everything that one of them claims.                                     *)
AllOf(l, o, D, R) ==
  {x \in Objects : \/ x \in l
                   \/ x \in o
                   \/ \E t \in Threads : x \in D[t]
                   \/ \E s, p \in Threads : x \in R[s][p]}

(* A destructor starts, or has returned; a request is put, or taken.       *)
Started(D, t, x)      == [D EXCEPT ![t] = With(@, x)]
Returned(D, t, x)     == [D EXCEPT ![t] = Without(@, x)]
Requested(R, s, p, x) == [R EXCEPT ![s][p] = With(@, x)]
Taken(R, s, p, x)     == [R EXCEPT ![s][p] = Without(@, x)]

Dooms == [Threads -> SUBSET Objects]
Asks  == [Threads -> [Threads -> SUBSET Objects]]

(* The claims of the destructors that run and of the requests, and all.    *)
Doomed  == [t \in Threads |-> DtorsIn(stack[t])]
Asked   == [s \in Threads |-> [p \in Threads |-> Range(queue[s][p])]]
Claimed == AllOf(live, lost, Doomed, Asked)

(* What a frame of a thread refers to is there: ph is the thread's phase,  *)
(* own its state.                                                          *)
FrameFits(f, ph, own, P) ==
  /\ f.op = "init" => ph = "running" /\ own = Null
  /\ f.op = "dtor" => P[f.x[1]] # Null /\ f.x[2] \in PoolIds(P[f.x[1]])
  /\ f.op = "consume" => own # Null /\ P[own] # Null /\ f.active \in PoolIds(P[own])
  /\ f.op = "sweep" => /\ P[f.s] # Null /\ f.i < f.n /\ f.n <= Len(P[f.s].pools)
                       /\ ph # "exiting" => f.s = own

FramesFit(t) == \A f \in Range(stack[t]) : FrameFits(f, phase[t], state_[t], ps)

(* A thread uses the pool once it has a state, until it exits.             *)
ThreadFits(t) ==
  /\ phase[t] \in {"unborn", "exited"} => stack[t] = << >>
  /\ phase[t] = "running" => phase[Main] # "exiting"
  /\ phase[t] = "running" /\ state_[t] = Null =>
       stack[t] # << >> /\ Head(stack[t]).op = "init"
  /\ phase[t] = "exiting" => t = Main
  /\ state_[t] # Null => phase[t] = "running" /\ ps[state_[t]] # Null
  /\ ps[t] # Null => phase[t] # "unborn" /\ (phase[t] = "running" => state_[t] # Null)

ThreadsOK == \A t \in Threads : Shape(stack[t]) /\ FramesFit(t) /\ ThreadFits(t)

(* Each state is in one place.                                             *)
Offered(p) == Range(free_pools[p])

Swept == IF phase[Main] = "exiting" THEN SweptIn(stack[Main]) ELSE {}

OwnersOK ==
  /\ \A t, u \in Threads : t # u /\ state_[t] # Null => state_[t] # state_[u]
  /\ \A p \in Threads : NoRepeat(free_pools[p])
  /\ \A p, q \in Threads : p # q => Offered(p) \intersect Offered(q) = {}
  /\ \A t, p \in Threads : state_[t] \notin Offered(p)
  /\ \A p \in Threads : \A s \in Offered(p) : ps[s] # Null /\ s \notin Swept
  /\ ~Does("nomem") =>
       \A s \in States : \/ \E t \in Threads : state_[t] = s
                         \/ \E p \in Threads : s \in Offered(p)
                         \/ s \in Swept

(* Each object has at most one claim, until an object is destroyed twice.  *)
ClaimsOK ==
  fault = "none" =>
    /\ \A t \in Threads : OnceEach(stack[t])
    /\ \A s, p \in Threads : NoRepeat(queue[s][p])
    /\ Apart(live, lost, Doomed, Asked)

(* A request is in the queue of its block's state, and its pool is there.  *)
Routed == \A s, p \in Threads : \A x \in Range(queue[s][p]) : x[1] = s

IsThere(x) == ps[x[1]] # Null /\ x[2] \in PoolIds(ps[x[1]])

ClaimsAreThere == phase[Main] # "exiting" => \A x \in Claimed : IsThere(x)

(* The pools of each state have the claimed blocks in use and no others.   *)
StatesOK == \A s \in States : PoolStateOK(ps[s], s, PoolNames, MaxPools, Claimed)

(* What a step does to the claims: nothing; a block is taken; an object's  *)
(* destructor starts, or does where there is no object; a destructor       *)
(* returns, the block freed, lost or requested; a request is taken.        *)
Keeps == UNCHANGED <<live, lost>> /\ Doomed' = Doomed /\ Asked' = Asked

Takes ==
  /\ Doomed' = Doomed /\ Asked' = Asked
  /\ \E x \in Objects \ Claimed : \/ live' = With(live, x) /\ lost' = lost
                                  \/ lost' = With(lost, x) /\ live' = live

Destroys ==
  /\ lost' = lost /\ Asked' = Asked
  /\ \E t \in Threads : \E x \in live :
       live' = Without(live, x) /\ Doomed' = Started(Doomed, t, x)

DestroysAgain ==
  /\ UNCHANGED <<live, lost>> /\ Asked' = Asked
  /\ \E t \in Threads : \E x \in Claimed \ live : Doomed' = Started(Doomed, t, x)

Returns ==
  /\ live' = live
  /\ \E t, s \in Threads : \E x \in Doomed[t] :
       /\ Doomed' = Returned(Doomed, t, x)
       /\ \/ lost' = lost /\ Asked' = Asked
          \/ lost' = With(lost, x) /\ Asked' = Asked
          \/ lost' = lost /\ Asked' = Requested(Asked, s, t, x)

Consumes ==
  /\ UNCHANGED <<live, lost>> /\ Doomed' = Doomed
  /\ \E s, p \in Threads : \E x \in Asked[s][p] : Asked' = Taken(Asked, s, p, x)

ClaimStep == Keeps \/ Takes \/ Destroys \/ DestroysAgain \/ Returns \/ Consumes

(* The inductive invariant.                                                *)
IndInv ==
  TypeOK /\ ThreadsOK /\ OwnersOK /\ ClaimsOK /\ Routed /\ ClaimsAreThere /\ StatesOK

(* The PoolStates stay, and their pools; and no PoolState comes.           *)
Kept ==
  \A s \in Threads :
    ps[s] # Null => /\ ps'[s] # Null
                    /\ \A i \in PoolIds(ps[s]) : i \in PoolIds(ps'[s])
                    /\ Len(ps[s].pools) <= Len(ps'[s].pools)

Grown == Kept /\ \A s \in Threads : ps'[s] = Null <=> ps[s] = Null

-----------------------------------------------------------------------------
(* The calls a thread is in.                                               *)

(* The members of a frame.                                                 *)
LEMMA FrameIs ==
  ASSUME NEW f \in Frame
  PROVE  /\ f.op \in {"dtor", "init", "consume", "sweep"}
         /\ f.op = "dtor" => f.x \in Objects /\ f.then \in {"free", "enqueue"}
         /\ f.op = "init" => f.seen \subseteq Threads
         /\ f.op = "consume" => /\ f.then \in {"new", "clear", "destroy"}
                                /\ f.active \in 0 .. MaxPools - 1 /\ f.dry \in BOOLEAN
         /\ f.op = "sweep" => /\ f.s \in Threads /\ f.i \in 0 .. MaxPools - 1
                              /\ f.b \in 0 .. NumBlocks /\ f.n \in 1 .. MaxPools
  BY DEF Frame

(* A frame is pushed.                                                      *)
LEMMA PushIs ==
  ASSUME NEW s \in Seq(Frame), NEW f \in Frame
  PROVE  /\ <<f>> \o s \in Seq(Frame)
         /\ Len(s) \in Nat /\ Len(<<f>> \o s) = Len(s) + 1
         /\ <<f>> \o s # << >>
         /\ Head(<<f>> \o s) = f
         /\ (<<f>> \o s)[1] = f
         /\ \A k \in DOMAIN s : k + 1 \in DOMAIN (<<f>> \o s) /\ (<<f>> \o s)[k + 1] = s[k]
         /\ \A k \in DOMAIN (<<f>> \o s) : k = 1 \/ (k - 1 \in DOMAIN s /\ (<<f>> \o s)[k] = s[k - 1])
<1> DEFINE n == <<f>> \o s
<1>1. <<f>> \in Seq(Frame) /\ Len(<<f>>) = 1 /\ <<f>>[1] = f
  OBVIOUS
<1>2. /\ n \in Seq(Frame) /\ Len(n) = 1 + Len(s)
      /\ \A i \in 1 .. 1 + Len(s) : n[i] = IF i <= 1 THEN <<f>>[i] ELSE s[i - 1]
  BY <1>1, ConcatProperties
<1>3. Len(s) \in Nat /\ DOMAIN s = 1 .. Len(s) /\ DOMAIN n = 1 .. Len(n)
  BY <1>2
<1> HIDE DEF n
<1>4. n[1] = f
  BY <1>1, <1>2, <1>3
<1>5. \A k \in DOMAIN s : k + 1 \in DOMAIN n /\ n[k + 1] = s[k]
  BY <1>2, <1>3
<1>6. \A k \in DOMAIN n : k = 1 \/ (k - 1 \in DOMAIN s /\ n[k] = s[k - 1])
  BY <1>2, <1>3
<1>7. n # << >> /\ Head(n) = f
  BY <1>2, <1>3, <1>4
<1> QED
  BY <1>2, <1>3, <1>4, <1>5, <1>6, <1>7 DEF n

(* The innermost frame is popped.                                          *)
LEMMA PopIs ==
  ASSUME NEW s \in Seq(Frame), s # << >>
  PROVE  /\ Head(s) \in Frame /\ Tail(s) \in Seq(Frame)
         /\ 1 \in DOMAIN s /\ Head(s) = s[1]
         /\ s = <<Head(s)>> \o Tail(s)
         /\ Len(s) = 1 => Tail(s) = << >>
<1>1. /\ Head(s) \in Frame /\ Tail(s) \in Seq(Frame) /\ Len(Tail(s)) = Len(s) - 1
      /\ \A i \in 1 .. Len(Tail(s)) : Tail(s)[i] = s[i + 1]
  BY HeadTailProperties
<1>2. Len(s) \in Nat \ {0} /\ DOMAIN s = 1 .. Len(s) /\ Head(s) = s[1]
  BY EmptySeq
<1> DEFINE n == <<Head(s)>> \o Tail(s)
<1>3. /\ n \in Seq(Frame) /\ Len(n) = Len(Tail(s)) + 1 /\ n[1] = Head(s)
      /\ \A k \in DOMAIN n : k = 1 \/ (k - 1 \in DOMAIN Tail(s) /\ n[k] = Tail(s)[k - 1])
  BY <1>1, PushIs
<1> HIDE DEF n
<1>4. \A i \in 1 .. Len(s) : s[i] = n[i]
  <2>1. DOMAIN n = 1 .. Len(s) /\ DOMAIN Tail(s) = 1 .. Len(Tail(s))
    BY <1>1, <1>2, <1>3
  <2>2. ASSUME NEW i \in 1 .. Len(s), i # 1
        PROVE  n[i] = s[i]
    <3>1. i \in Nat /\ i - 1 \in DOMAIN Tail(s) /\ n[i] = Tail(s)[i - 1]
      <4>1. i \in DOMAIN n
        BY <2>1
      <4> QED
        BY <1>3, <2>2, <4>1
    <3>2. Tail(s)[i - 1] = s[(i - 1) + 1]
      BY <1>1, <2>1, <3>1
    <3> QED
      BY <3>1, <3>2
  <2> QED
    BY <1>2, <1>3, <2>2
<1>5. s = n
  BY <1>1, <1>2, <1>3, <1>4, SeqEqual
<1> QED
  BY <1>1, <1>2, <1>5, EmptySeq DEF n

(* A destructor starts.                                                    *)
LEMMA PushDtor ==
  ASSUME NEW s \in Seq(Frame), NEW f \in Frame, f.op = "dtor"
  PROVE  /\ DtorsIn(<<f>> \o s) = With(DtorsIn(s), f.x)
         /\ SweptIn(<<f>> \o s) = SweptIn(s)
         /\ OnceEach(s) /\ f.x \notin DtorsIn(s) => OnceEach(<<f>> \o s)
         /\ Shape(s) /\ (s = << >> \/ Head(s).op \in {"dtor", "sweep"}) => Shape(<<f>> \o s)
<1> USE DEF With
<1> DEFINE n == <<f>> \o s
<1>1. /\ n[1] = f /\ 1 \in DOMAIN n /\ Len(s) \in Nat /\ Len(n) = Len(s) + 1
      /\ DOMAIN s = 1 .. Len(s) /\ DOMAIN n = 1 .. Len(n)
      /\ \A k \in DOMAIN s : k + 1 \in DOMAIN n /\ n[k + 1] = s[k]
      /\ \A k \in DOMAIN n : k = 1 \/ (k - 1 \in DOMAIN s /\ n[k] = s[k - 1])
  BY PushIs
<1>2. f.x \in Objects
  BY FrameIs
<1> HIDE DEF n
<1>3. DtorsIn(n) = DtorsIn(s) \union {f.x}
  BY <1>1, <1>2 DEF DtorsIn
<1>4. SweptIn(n) = SweptIn(s)
  BY <1>1, <1>2 DEF SweptIn
<1>5. ASSUME OnceEach(s), f.x \notin DtorsIn(s)
      PROVE  OnceEach(n)
  <2>1. ASSUME NEW k \in DOMAIN n, NEW l \in DOMAIN n,
               n[k].op = "dtor", n[l].op = "dtor", n[k].x = n[l].x
        PROVE  k = l
    <3>1. k \in Int /\ l \in Int
      BY <1>1
    <3>2. \A i \in DOMAIN s : s[i].op = "dtor" => s[i].x # f.x
      BY <1>2, <1>5 DEF DtorsIn
    <3> QED
      BY <1>1, <1>5, <2>1, <3>1, <3>2 DEF OnceEach
  <2> QED
    BY <2>1 DEF OnceEach
<1>6. ASSUME Shape(s), s = << >> \/ Head(s).op \in {"dtor", "sweep"}
      PROVE  Shape(n)
  <2>1. ASSUME NEW k \in DOMAIN n, k # 1
        PROVE  /\ k \in Int /\ k - 1 \in DOMAIN s /\ n[k] = s[k - 1]
               /\ s[k - 1].op \notin {"init", "consume"}
               /\ s[k - 1].op = "sweep" => k = Len(n)
    <3>1. k \in Int /\ k - 1 \in DOMAIN s /\ n[k] = s[k - 1]
      BY <1>1, <2>1
    <3>2. s # << >> /\ Head(s) = s[1] /\ 1 \in DOMAIN s
      BY <3>1, PopIs
    <3>3. s[1].op \in {"dtor", "sweep"}
      BY <1>6, <3>2
    <3>4. s[k - 1].op # "consume"
      BY <1>6, <3>1, <3>3 DEF Shape
    <3>5. s[k - 1].op # "init"
      <4>1. SUFFICES ASSUME s[k - 1].op = "init"
                     PROVE  FALSE
        OBVIOUS
      <4>2. Len(s) = 1
        BY <1>6, <3>1, <4>1 DEF Shape
      <4>3. k - 1 = 1
        BY <1>1, <3>1, <4>2
      <4> QED
        BY <3>3, <4>1, <4>3
    <3>6. s[k - 1].op = "sweep" => k - 1 = Len(s)
      BY <1>6, <3>1 DEF Shape
    <3> QED
      BY <1>1, <3>1, <3>4, <3>5, <3>6
  <2> QED
    BY <1>1, <2>1 DEF Shape
<1> QED
  BY <1>3, <1>4, <1>5, <1>6 DEF n

(* Something else starts.                                                  *)
LEMMA PushOther ==
  ASSUME NEW s \in Seq(Frame), NEW f \in Frame, f.op # "dtor"
  PROVE  /\ DtorsIn(<<f>> \o s) = DtorsIn(s)
         /\ SweptIn(<<f>> \o s) = SweptIn(s) \union (IF f.op = "sweep" THEN {f.s} ELSE {})
         /\ OnceEach(s) => OnceEach(<<f>> \o s)
         /\ s = << >> => Shape(<<f>> \o s)
         /\ Shape(s) /\ s # << >> /\ Head(s).op \in {"dtor", "sweep"} /\ f.op = "consume"
            /\ f.then = "new"
              => Shape(<<f>> \o s)
<1> DEFINE n == <<f>> \o s
<1>1. /\ n[1] = f /\ 1 \in DOMAIN n /\ Len(s) \in Nat /\ Len(n) = Len(s) + 1
      /\ DOMAIN s = 1 .. Len(s) /\ DOMAIN n = 1 .. Len(n)
      /\ \A k \in DOMAIN s : k + 1 \in DOMAIN n /\ n[k + 1] = s[k]
      /\ \A k \in DOMAIN n : k = 1 \/ (k - 1 \in DOMAIN s /\ n[k] = s[k - 1])
  BY PushIs
<1>2. f.op = "sweep" => f.s \in Threads
  BY FrameIs
<1> HIDE DEF n
<1>3. DtorsIn(n) = DtorsIn(s)
  BY <1>1 DEF DtorsIn
<1>4. SweptIn(n) = SweptIn(s) \union (IF f.op = "sweep" THEN {f.s} ELSE {})
  BY <1>1, <1>2 DEF SweptIn
<1>5. OnceEach(s) => OnceEach(n)
  BY <1>1 DEF OnceEach
<1>6. s = << >> => Shape(n)
  BY <1>1, EmptySeq DEF Shape
<1>7. ASSUME Shape(s), s # << >>, Head(s).op \in {"dtor", "sweep"}, f.op = "consume", f.then = "new"
      PROVE  Shape(n)
  <2>1. ASSUME NEW k \in DOMAIN n, k # 1
        PROVE  /\ k \in Int /\ k - 1 \in DOMAIN s /\ n[k] = s[k - 1]
               /\ s[k - 1].op \notin {"init", "consume"}
               /\ s[k - 1].op = "sweep" => k = Len(n)
    <3>1. k \in Int /\ k - 1 \in DOMAIN s /\ n[k] = s[k - 1]
      BY <1>1, <2>1
    <3>2. Head(s) = s[1] /\ 1 \in DOMAIN s /\ s[1].op \in {"dtor", "sweep"}
      BY <1>7, PopIs
    <3>4. s[k - 1].op # "consume"
      BY <1>7, <3>1, <3>2 DEF Shape
    <3>5. s[k - 1].op # "init"
      <4>1. SUFFICES ASSUME s[k - 1].op = "init"
                     PROVE  FALSE
        OBVIOUS
      <4>2. Len(s) = 1
        BY <1>7, <3>1, <4>1 DEF Shape
      <4>3. k - 1 = 1
        BY <1>1, <3>1, <4>2
      <4> QED
        BY <3>2, <4>1, <4>3
    <3>6. s[k - 1].op = "sweep" => k - 1 = Len(s)
      BY <1>7, <3>1 DEF Shape
    <3> QED
      BY <1>1, <3>1, <3>4, <3>5, <3>6
  <2> QED
    BY <1>1, <1>7, <2>1 DEF Shape
<1> QED
  BY <1>3, <1>4, <1>5, <1>6, <1>7 DEF n

(* A destructor returns.                                                   *)
LEMMA PopDtor ==
  ASSUME NEW s \in Seq(Frame), s # << >>, Head(s).op = "dtor"
  PROVE  /\ Head(s).x \in DtorsIn(s)
         /\ OnceEach(s) => DtorsIn(Tail(s)) = Without(DtorsIn(s), Head(s).x) /\ OnceEach(Tail(s))
         /\ SweptIn(Tail(s)) = SweptIn(s)
         /\ Shape(s) => Shape(Tail(s)) /\ (Tail(s) # << >> => Head(Tail(s)).op \in {"dtor", "sweep"})
         /\ Range(Tail(s)) \subseteq Range(s)
<1> USE DEF Without
<1> DEFINE h == Head(s)
           r == Tail(s)
<1>1. h \in Frame /\ r \in Seq(Frame) /\ s = <<h>> \o r /\ s[1] = h /\ 1 \in DOMAIN s
  BY PopIs
<1>2. /\ Len(r) \in Nat /\ Len(s) = Len(r) + 1 /\ DOMAIN r = 1 .. Len(r) /\ DOMAIN s = 1 .. Len(s)
      /\ \A k \in DOMAIN r : k + 1 \in DOMAIN s /\ s[k + 1] = r[k]
      /\ \A k \in DOMAIN s : k = 1 \/ (k - 1 \in DOMAIN r /\ s[k] = r[k - 1])
  BY <1>1, PushIs
<1>3. /\ h.op = "dtor" => h.x \in Objects
      /\ h.op = "sweep" => h.s \in Threads
  BY <1>1, FrameIs
<1> HIDE DEF h, r
<1>4. Range(r) \subseteq Range(s)
  BY <1>2 DEF Range
<1>5. ASSUME Shape(s)
      PROVE  Shape(r) /\ (r # << >> => Head(r).op \in {"dtor", "sweep"})
  <2>1. ASSUME NEW k \in DOMAIN r
        PROVE  /\ k \in Int /\ r[k].op \notin {"init", "consume"}
               /\ r[k].op = "sweep" => k = Len(r)
    <3>1. k \in Int /\ k + 1 # 1 /\ k + 1 \in DOMAIN s /\ s[k + 1] = r[k]
      BY <1>2
    <3>2. r[k].op # "consume"
      BY <1>5, <3>1 DEF Shape
    <3>3. r[k].op = "init" => Len(s) = 1
      BY <1>5, <3>1 DEF Shape
    <3>4. r[k].op = "sweep" => k + 1 = Len(s)
      BY <1>5, <3>1 DEF Shape
    <3> QED
      BY <1>2, <3>1, <3>2, <3>3, <3>4
  <2>2. Shape(r)
    BY <2>1 DEF Shape
  <2>3. ASSUME r # << >>
        PROVE  Head(r).op \in {"dtor", "sweep"}
    <3>1. 1 \in DOMAIN r /\ Head(r) = r[1] /\ Head(r) \in Frame
      BY <1>1, <2>3, PopIs
    <3>2. Head(r).op \notin {"init", "consume"}
      BY <2>1, <3>1
    <3> QED
      BY <3>1, <3>2, FrameIs
  <2> QED
    BY <2>2, <2>3
<1>6. h.x \in DtorsIn(s)
  BY <1>1, <1>3 DEF DtorsIn, h
<1>7. ASSUME OnceEach(s)
      PROVE  DtorsIn(r) = DtorsIn(s) \ {h.x} /\ OnceEach(r)
  <2>1. \A k \in DOMAIN r : k \in Int /\ k + 1 # 1
    BY <1>2
  <2>2. \A k \in DOMAIN r : r[k].op = "dtor" => r[k].x # h.x
    BY <1>1, <1>2, <1>7, <2>1 DEF OnceEach, h
  <2>3. DtorsIn(r) = DtorsIn(s) \ {h.x}
    <3>1. ASSUME NEW x \in DtorsIn(r)
          PROVE  x \in DtorsIn(s) /\ x # h.x
      <4>1. PICK k \in DOMAIN r : r[k].op = "dtor" /\ r[k].x = x
        BY <3>1 DEF DtorsIn
      <4>2. k + 1 \in DOMAIN s /\ s[k + 1] = r[k]
        BY <1>2
      <4> QED
        BY <2>2, <3>1, <4>1, <4>2 DEF DtorsIn
    <3>2. ASSUME NEW x \in DtorsIn(s), x # h.x
          PROVE  x \in DtorsIn(r)
      <4>1. PICK k \in DOMAIN s : s[k].op = "dtor" /\ s[k].x = x
        BY <3>2 DEF DtorsIn
      <4>2. k - 1 \in DOMAIN r /\ s[k] = r[k - 1]
        BY <1>1, <1>2, <3>2, <4>1
      <4> QED
        BY <3>2, <4>1, <4>2 DEF DtorsIn
    <3> QED
      BY <3>1, <3>2
  <2>4. OnceEach(r)
    <3>1. ASSUME NEW k \in DOMAIN r, NEW l \in DOMAIN r,
                 r[k].op = "dtor", r[l].op = "dtor", r[k].x = r[l].x
          PROVE  k = l
      <4>1. k + 1 = l + 1
        BY <1>2, <1>7, <3>1 DEF OnceEach
      <4> QED
        BY <2>1, <4>1
    <3> QED
      BY <3>1 DEF OnceEach
  <2> QED
    BY <2>3, <2>4
<1>8. SweptIn(r) = SweptIn(s)
  BY <1>1, <1>2 DEF SweptIn, h
<1> QED
  BY <1>4, <1>5, <1>6, <1>7, <1>8 DEF h, r

(* A call other than a destructor returns.                                 *)
LEMMA PopOther ==
  ASSUME NEW s \in Seq(Frame), s # << >>, Head(s).op # "dtor"
  PROVE  /\ DtorsIn(Tail(s)) = DtorsIn(s)
         /\ SweptIn(s) = SweptIn(Tail(s)) \union (IF Head(s).op = "sweep" THEN {Head(s).s} ELSE {})
         /\ OnceEach(s) => OnceEach(Tail(s))
         /\ Shape(s) => Shape(Tail(s)) /\ (Tail(s) # << >> => Head(Tail(s)).op \in {"dtor", "sweep"})
         /\ Shape(s) /\ (Head(s).op \in {"init", "sweep"} \/ Head(s).then # "new") => Tail(s) = << >>
         /\ Range(Tail(s)) \subseteq Range(s)
<1> DEFINE h == Head(s)
           r == Tail(s)
<1>1. h \in Frame /\ r \in Seq(Frame) /\ s = <<h>> \o r /\ s[1] = h /\ 1 \in DOMAIN s
  BY PopIs
<1>2. /\ Len(r) \in Nat /\ Len(s) = Len(r) + 1 /\ DOMAIN r = 1 .. Len(r) /\ DOMAIN s = 1 .. Len(s)
      /\ \A k \in DOMAIN r : k + 1 \in DOMAIN s /\ s[k + 1] = r[k]
      /\ \A k \in DOMAIN s : k = 1 \/ (k - 1 \in DOMAIN r /\ s[k] = r[k - 1])
  BY <1>1, PushIs
<1>3. /\ h.op = "dtor" => h.x \in Objects
      /\ h.op = "sweep" => h.s \in Threads
  BY <1>1, FrameIs
<1> HIDE DEF h, r
<1>4. Range(r) \subseteq Range(s)
  BY <1>2 DEF Range
<1>5. ASSUME Shape(s)
      PROVE  Shape(r) /\ (r # << >> => Head(r).op \in {"dtor", "sweep"})
  <2>1. ASSUME NEW k \in DOMAIN r
        PROVE  /\ k \in Int /\ r[k].op \notin {"init", "consume"}
               /\ r[k].op = "sweep" => k = Len(r)
    <3>1. k \in Int /\ k + 1 # 1 /\ k + 1 \in DOMAIN s /\ s[k + 1] = r[k]
      BY <1>2
    <3>2. r[k].op # "consume"
      BY <1>5, <3>1 DEF Shape
    <3>3. r[k].op = "init" => Len(s) = 1
      BY <1>5, <3>1 DEF Shape
    <3>4. r[k].op = "sweep" => k + 1 = Len(s)
      BY <1>5, <3>1 DEF Shape
    <3> QED
      BY <1>2, <3>1, <3>2, <3>3, <3>4
  <2>2. Shape(r)
    BY <2>1 DEF Shape
  <2>3. ASSUME r # << >>
        PROVE  Head(r).op \in {"dtor", "sweep"}
    <3>1. 1 \in DOMAIN r /\ Head(r) = r[1] /\ Head(r) \in Frame
      BY <1>1, <2>3, PopIs
    <3>2. Head(r).op \notin {"init", "consume"}
      BY <2>1, <3>1
    <3> QED
      BY <3>1, <3>2, FrameIs
  <2> QED
    BY <2>2, <2>3
<1>6. DtorsIn(r) = DtorsIn(s)
  BY <1>1, <1>2 DEF DtorsIn, h
<1>7. ASSUME OnceEach(s)
      PROVE  OnceEach(r)
  <2>1. \A k \in DOMAIN r : k \in Int
    BY <1>2
  <2>2. ASSUME NEW k \in DOMAIN r, NEW l \in DOMAIN r,
               r[k].op = "dtor", r[l].op = "dtor", r[k].x = r[l].x
        PROVE  k = l
    <3>1. k + 1 = l + 1
      BY <1>2, <1>7, <2>2 DEF OnceEach
    <3> QED
      BY <2>1, <3>1
  <2> QED
    BY <2>2 DEF OnceEach
<1>8. SweptIn(s) = SweptIn(r) \union (IF h.op = "sweep" THEN {h.s} ELSE {})
  <2>1. \A k \in DOMAIN s : k = 1 \/ (k - 1 \in DOMAIN r /\ s[k] = r[k - 1])
    BY <1>2
  <2>2. \A k \in DOMAIN r : k + 1 \in DOMAIN s /\ s[k + 1] = r[k]
    BY <1>2
  <2>3. ASSUME NEW p \in SweptIn(s)
        PROVE  p \in SweptIn(r) \/ (h.op = "sweep" /\ p = h.s)
    <3>1. PICK k \in DOMAIN s : s[k].op = "sweep" /\ s[k].s = p
      BY <2>3 DEF SweptIn
    <3> QED
      BY <1>1, <2>1, <2>3, <3>1 DEF SweptIn
  <2>4. SweptIn(r) \subseteq SweptIn(s)
    BY <2>2 DEF SweptIn
  <2>5. h.op = "sweep" => h.s \in SweptIn(s)
    BY <1>1, <1>3 DEF SweptIn, h
  <2> QED
    BY <2>3, <2>4, <2>5
<1>9. ASSUME Shape(s), h.op \in {"init", "sweep"} \/ h.then # "new"
      PROVE  r = << >>
  <2>1. h.op \in {"init", "sweep", "consume"}
    BY <1>1, FrameIs DEF h
  <2>2. Len(s) = 1
    BY <1>1, <1>9, <2>1 DEF Shape
  <2> QED
    BY <2>2, PopIs DEF r
<1> QED
  BY <1>4, <1>5, <1>6, <1>7, <1>8, <1>9 DEF h, r

-----------------------------------------------------------------------------
(* The claims, as sets.                                                    *)

(* The first of a queue is taken.                                          *)
LEMMA TakeFirst ==
  ASSUME NEW S, NEW q \in Seq(S), q # << >>
  PROVE  /\ Head(q) \in S /\ Tail(q) \in Seq(S)
         /\ Head(q) \in Range(q)
         /\ NoRepeat(q) => Range(Tail(q)) = Without(Range(q), Head(q)) /\ NoRepeat(Tail(q))
<1> USE DEF With, Without
<1>1. /\ Head(q) \in S /\ Tail(q) \in Seq(S) /\ Len(Tail(q)) = Len(q) - 1
      /\ \A i \in 1 .. Len(Tail(q)) : Tail(q)[i] = q[i + 1]
  BY HeadTailProperties
<1>2. Len(q) \in Nat \ {0} /\ DOMAIN q = 1 .. Len(q) /\ Head(q) = q[1]
  BY EmptySeq
<1> DEFINE r == Tail(q)
<1>3. /\ DOMAIN r = 1 .. Len(q) - 1
      /\ \A k \in DOMAIN r : k \in Int /\ k + 1 # 1 /\ k + 1 \in DOMAIN q /\ r[k] = q[k + 1]
      /\ \A k \in DOMAIN q : k # 1 => k - 1 \in DOMAIN r /\ q[k] = r[k - 1]
  <2>1. DOMAIN r = 1 .. Len(q) - 1
    BY <1>1, <1>2
  <2>2. \A k \in DOMAIN r : k \in Int /\ k + 1 # 1 /\ k + 1 \in DOMAIN q /\ r[k] = q[k + 1]
    BY <1>1, <1>2, <2>1
  <2>3. ASSUME NEW k \in DOMAIN q, k # 1
        PROVE  k - 1 \in DOMAIN r /\ q[k] = r[k - 1]
    <3>1. k \in Int /\ k - 1 \in DOMAIN r
      BY <1>2, <2>1, <2>3
    <3>2. r[k - 1] = q[(k - 1) + 1]
      BY <2>2, <3>1
    <3> QED
      BY <3>1, <3>2
  <2> QED
    BY <2>1, <2>2, <2>3
<1> HIDE DEF r
<1>4. Head(q) \in Range(q)
  BY <1>2 DEF Range
<1>5. ASSUME NoRepeat(q)
      PROVE  Range(r) = Range(q) \ {Head(q)} /\ NoRepeat(r)
  <2>1. \A k \in DOMAIN r : r[k] # Head(q)
    BY <1>2, <1>3, <1>5 DEF NoRepeat
  <2>2. Range(r) \subseteq Range(q) \ {Head(q)}
    BY <1>3, <2>1 DEF Range
  <2>3. Range(q) \ {Head(q)} \subseteq Range(r)
    BY <1>2, <1>3 DEF Range
  <2>4. NoRepeat(r)
    <3>1. ASSUME NEW k \in DOMAIN r, NEW l \in DOMAIN r, r[k] = r[l]
          PROVE  k = l
      <4>1. k + 1 = l + 1
        BY <1>3, <1>5, <3>1 DEF NoRepeat
      <4> QED
        BY <1>3, <4>1
    <3> QED
      BY <3>1 DEF NoRepeat
  <2> QED
    BY <2>2, <2>3, <2>4
<1> QED
  BY <1>1, <1>4, <1>5 DEF r

(* Something is put at the end of a queue.                                 *)
LEMMA PutLast ==
  ASSUME NEW S, NEW q \in Seq(S), NEW x \in S
  PROVE  /\ Append(q, x) \in Seq(S)
         /\ Range(Append(q, x)) = With(Range(q), x)
         /\ NoRepeat(q) /\ x \notin Range(q) => NoRepeat(Append(q, x))
<1> USE DEF With, Without
<1> DEFINE r == Append(q, x)
<1>1. /\ r \in Seq(S) /\ Len(q) \in Nat /\ Len(r) = Len(q) + 1
      /\ DOMAIN q = 1 .. Len(q) /\ DOMAIN r = 1 .. Len(q) + 1
      /\ \A k \in 1 .. Len(q) : r[k] = q[k]
      /\ r[Len(q) + 1] = x
  BY AppendProperties
<1> HIDE DEF r
<1>2. \A k \in DOMAIN r : k \in DOMAIN q \/ k = Len(q) + 1
  BY <1>1
<1>3. Len(q) + 1 \in DOMAIN r /\ \A k \in DOMAIN q : k \in DOMAIN r /\ r[k] = q[k]
  BY <1>1
<1>4. Range(r) = Range(q) \union {x}
  BY <1>1, <1>2, <1>3 DEF Range
<1>5. NoRepeat(q) /\ x \notin Range(q) => NoRepeat(r)
  BY <1>1, <1>2, <1>3 DEF NoRepeat, Range
<1> QED
  BY <1>1, <1>4, <1>5 DEF r

(* A live object is destroyed.                                             *)
LEMMA LiveToDtor ==
  ASSUME NEW l \in SUBSET Objects, NEW o, NEW D \in Dooms, NEW R \in Asks,
         NEW t \in Threads, NEW x \in l
  PROVE  /\ Apart(l, o, D, R) => Apart(Without(l, x), o, Started(D, t, x), R)
         /\ AllOf(Without(l, x), o, Started(D, t, x), R) = AllOf(l, o, D, R)
         /\ Apart(l, o, D, R) => \A u \in Threads : x \notin D[u]
<1> USE DEF With, Without
<1>e. PICK E : E = Started(D, t, x)
  OBVIOUS
<1> USE <1>e DEF Started
<1>1. \A u \in Threads : E[u] = IF u = t THEN D[u] \union {x} ELSE D[u]
  BY DEF Dooms
<1>2. Apart(l, o, D, R) => Apart(Without(l, x), o, E, R)
  BY <1>1, SMTT(30) DEF Apart
<1>3. AllOf(Without(l, x), o, E, R) = AllOf(l, o, D, R)
  BY <1>1 DEF AllOf
<1>4. Apart(l, o, D, R) => \A u \in Threads : x \notin D[u]
  BY DEF Apart
<1> QED
  BY <1>e, <1>2, <1>3, <1>4

(* The destructor has returned and the block is free.                      *)
LEMMA DtorToFree ==
  ASSUME NEW l, NEW o, NEW D \in Dooms, NEW R \in Asks, NEW t \in Threads, NEW x \in D[t],
         Apart(l, o, D, R)
  PROVE  /\ Apart(l, o, Returned(D, t, x), R)
         /\ AllOf(l, o, Returned(D, t, x), R) = Without(AllOf(l, o, D, R), x)
<1> USE DEF With, Without
<1>e. PICK E : E = Returned(D, t, x)
  OBVIOUS
<1> USE <1>e DEF Returned
<1>1. \A u \in Threads : E[u] = IF u = t THEN D[u] \ {x} ELSE D[u]
  BY DEF Dooms
<1>2. Apart(l, o, E, R)
  BY <1>1, SMTT(30) DEF Apart
<1>3. AllOf(l, o, E, R) = Without(AllOf(l, o, D, R), x)
  BY <1>1 DEF AllOf, Apart
<1> QED
  BY <1>e, <1>2, <1>3

(* The destructor has returned and the block is put in a queue.            *)
LEMMA DtorToRequest ==
  ASSUME NEW l, NEW o, NEW D \in Dooms, NEW R \in Asks, NEW t \in Threads, NEW x \in D[t],
         Apart(l, o, D, R), NEW s \in Threads
  PROVE  /\ Apart(l, o, Returned(D, t, x), Requested(R, s, t, x))
         /\ AllOf(l, o, Returned(D, t, x), Requested(R, s, t, x)) = AllOf(l, o, D, R)
         /\ x \notin R[s][t]
<1> USE DEF With, Without
<1>e. PICK E : E = Returned(D, t, x)
  OBVIOUS
<1>q. PICK Q : Q = Requested(R, s, t, x)
  OBVIOUS
<1> USE <1>e, <1>q DEF Returned, Requested
<1>1. \A u \in Threads : E[u] = IF u = t THEN D[u] \ {x} ELSE D[u]
  BY DEF Dooms
<1>2. \A r, p \in Threads :
        Q[r][p] = IF r = s /\ p = t THEN R[r][p] \union {x} ELSE R[r][p]
  BY DEF Asks
<1>3. /\ x \in D[t] /\ x \notin l /\ x \notin o
      /\ \A u \in Threads : u # t => x \notin D[u]
      /\ \A r, p \in Threads : x \notin R[r][p]
  BY DEF Apart
<1>4. Apart(l, o, E, Q)
  <2>1. l \intersect o = {}
    BY DEF Apart
  <2>2. \A u \in Threads : l \intersect E[u] = {} /\ o \intersect E[u] = {}
    BY <1>1 DEF Apart
  <2>3. \A u, v \in Threads : u # v => E[u] \intersect E[v] = {}
    BY <1>1 DEF Apart
  <2>4. \A r, p \in Threads : l \intersect Q[r][p] = {} /\ o \intersect Q[r][p] = {}
    BY <1>2, <1>3 DEF Apart
  <2>5. \A u, r, p \in Threads : E[u] \intersect Q[r][p] = {}
    <3>1. \A u \in Threads : x \notin E[u] /\ E[u] \subseteq D[u]
      BY <1>1, <1>3
    <3> QED
      BY <1>2, <3>1 DEF Apart
  <2>6. ASSUME NEW r \in Threads, NEW p \in Threads, NEW r2 \in Threads, NEW p2 \in Threads,
               r # r2 \/ p # p2
        PROVE  Q[r][p] \intersect Q[r2][p2] = {}
    <3>1. R[r][p] \intersect R[r2][p2] = {} /\ x \notin R[r][p] /\ x \notin R[r2][p2]
      BY <1>3, <2>6 DEF Apart
    <3> QED
      BY <1>2, <2>6, <3>1
  <2> QED
    BY <2>1, <2>2, <2>3, <2>4, <2>5, <2>6 DEF Apart
<1>5. AllOf(l, o, E, Q) = AllOf(l, o, D, R)
  <2>1. AllOf(l, o, E, Q) \subseteq AllOf(l, o, D, R)
    BY <1>1, <1>2, <1>3 DEF AllOf
  <2>2. AllOf(l, o, D, R) \subseteq AllOf(l, o, E, Q)
    BY <1>1, <1>2, <1>3 DEF AllOf
  <2> QED
    BY <2>1, <2>2
<1> QED
  BY <1>e, <1>q, <1>3, <1>4, <1>5

(* The destructor has returned and the block is lost.                      *)
LEMMA DtorToLost ==
  ASSUME NEW l, NEW o, NEW D \in Dooms, NEW R \in Asks, NEW t \in Threads, NEW x \in D[t],
         Apart(l, o, D, R)
  PROVE  /\ Apart(l, With(o, x), Returned(D, t, x), R)
         /\ AllOf(l, With(o, x), Returned(D, t, x), R) = AllOf(l, o, D, R)
<1> USE DEF With, Without
<1>e. PICK E : E = Returned(D, t, x)
  OBVIOUS
<1> USE <1>e DEF Returned
<1>1. \A u \in Threads : E[u] = IF u = t THEN D[u] \ {x} ELSE D[u]
  BY DEF Dooms
<1>2. Apart(l, With(o, x), E, R)
  BY <1>1, SMTT(30) DEF Apart
<1>3. AllOf(l, With(o, x), E, R) = AllOf(l, o, D, R)
  <2>1. x \in Objects
    BY DEF Dooms
  <2> QED
    BY <1>1, <2>1 DEF AllOf
<1> QED
  BY <1>e, <1>2, <1>3

(* A request is consumed and its block freed.                              *)
LEMMA RequestToFree ==
  ASSUME NEW l, NEW o, NEW D \in Dooms, NEW R \in Asks, NEW s \in Threads, NEW p \in Threads,
         NEW x \in R[s][p], Apart(l, o, D, R)
  PROVE  /\ Apart(l, o, D, Taken(R, s, p, x))
         /\ AllOf(l, o, D, Taken(R, s, p, x)) = Without(AllOf(l, o, D, R), x)
<1> USE DEF With, Without
<1>e. PICK Q : Q = Taken(R, s, p, x)
  OBVIOUS
<1> USE <1>e DEF Taken
<1>1. \A r, u \in Threads :
        Q[r][u] = IF r = s /\ u = p THEN R[r][u] \ {x} ELSE R[r][u]
  BY DEF Asks
<1>2. \A r, u \in Threads : Q[r][u] \subseteq R[r][u]
  BY <1>1
<1>3. Apart(l, o, D, Q)
  BY <1>2, SMTT(30) DEF Apart
<1>4. /\ x \notin l /\ x \notin o
      /\ \A u \in Threads : x \notin D[u]
      /\ \A r, u \in Threads : x \notin Q[r][u]
  <2>1. \A r, u \in Threads : r # s \/ u # p => x \notin R[r][u]
    BY DEF Apart
  <2> QED
    BY <1>1, <2>1 DEF Apart
<1>5. AllOf(l, o, D, Q) = AllOf(l, o, D, R) \ {x}
  <2>1. AllOf(l, o, D, Q) \subseteq AllOf(l, o, D, R) \ {x}
    BY <1>2, <1>4 DEF AllOf
  <2>2. AllOf(l, o, D, R) \ {x} \subseteq AllOf(l, o, D, Q)
    BY <1>1 DEF AllOf
  <2> QED
    BY <2>1, <2>2
<1> QED
  BY <1>e, <1>3, <1>5

(* A free block becomes an object, or is lost as the constructor throws.   *)
LEMMA FreeToLive ==
  ASSUME NEW l, NEW o, NEW D \in Dooms, NEW R \in Asks,
         NEW x \in Objects, x \notin AllOf(l, o, D, R)
  PROVE  /\ Apart(l, o, D, R) => Apart(With(l, x), o, D, R)
         /\ AllOf(With(l, x), o, D, R) = With(AllOf(l, o, D, R), x)
         /\ Apart(l, o, D, R) => Apart(l, With(o, x), D, R)
         /\ AllOf(l, With(o, x), D, R) = With(AllOf(l, o, D, R), x)
<1> USE DEF With, Without
<1>1. /\ x \notin l /\ x \notin o
      /\ \A u \in Threads : x \notin D[u]
      /\ \A r, u \in Threads : x \notin R[r][u]
  BY DEF AllOf
<1>2. Apart(l, o, D, R) => Apart(With(l, x), o, D, R)
  BY <1>1, SMTT(30) DEF Apart
<1>3. Apart(l, o, D, R) => Apart(l, With(o, x), D, R)
  BY <1>1, SMTT(30) DEF Apart
<1>4. AllOf(With(l, x), o, D, R) = With(AllOf(l, o, D, R), x)
  BY DEF AllOf
<1>5. AllOf(l, With(o, x), D, R) = With(AllOf(l, o, D, R), x)
  BY DEF AllOf
<1> QED
  BY <1>2, <1>3, <1>4, <1>5

-----------------------------------------------------------------------------
(* What the invariant says of a block, a frame and a state.                *)

(* The objects that are claimed, and their parts.                          *)
LEMMA ClaimedIs ==
  ASSUME TypeOK
  PROVE  /\ Doomed \in Dooms /\ Asked \in Asks
         /\ Claimed \in SUBSET Objects
         /\ live \subseteq Claimed /\ lost \subseteq Claimed
         /\ \A t \in Threads : DtorsIn(stack[t]) \subseteq Claimed /\ Doomed[t] = DtorsIn(stack[t])
         /\ \A s, p \in Threads : /\ Range(queue[s][p]) \subseteq Claimed
                                  /\ Asked[s][p] = Range(queue[s][p])
<1>1. Doomed \in Dooms
  BY DEF Doomed, Dooms, DtorsIn
<1>2. \A s, p \in Threads : Range(queue[s][p]) \in SUBSET Objects
  <2>1. \A s, p \in Threads : queue[s][p] \in Seq(Objects)
    BY DEF TypeOK
  <2> QED
    BY <2>1, RangeOfSeq
<1>3. Asked \in Asks
  BY <1>2 DEF Asked, Asks
<1>4. \A t \in Threads : Doomed[t] = DtorsIn(stack[t]) /\ DtorsIn(stack[t]) \in SUBSET Objects
  BY DEF Doomed, DtorsIn
<1>5. \A s, p \in Threads : Asked[s][p] = Range(queue[s][p])
  BY DEF Asked
<1>6. live \in SUBSET Objects /\ lost \in SUBSET Objects
  BY DEF TypeOK
<1> QED
  BY <1>1, <1>2, <1>3, <1>4, <1>5, <1>6 DEF Claimed, AllOf

(* The parts of an object's name.                                          *)
LEMMA ObjectIs ==
  ASSUME NEW x \in Objects
  PROVE  /\ x = <<x[1], x[2], x[3]>>
         /\ x[1] \in Threads /\ x[2] \in 0 .. MaxPools - 1 /\ x[3] \in Blocks
  BY DEF Objects

(* A PoolState that is there.                                              *)
LEMMA StateIs ==
  ASSUME TypeOK, StatesOK, NEW s \in Threads, ps[s] # Null
  PROVE  /\ s \in States
         /\ PoolStateOK(ps[s], s, PoolNames, MaxPools, Claimed)
         /\ ps[s] \in PoolStateRecord(PoolNames, MaxPools)
         /\ Len(ps[s].pools) \in Nat /\ Len(ps[s].pools) <= MaxPools
         /\ 0 \in PoolIds(ps[s])
         /\ ps[s].next_pool \in PoolIds(ps[s])
<1>1. s \in States /\ PoolStateOK(ps[s], s, PoolNames, MaxPools, Claimed)
  BY DEF States, StatesOK
<1>2. MaxPools \in Nat
  BY ClientAssumption
<1>3. ps[s] \in PoolStateRecord(PoolNames, MaxPools) /\ Len(ps[s].pools) <= MaxPools
      /\ ps[s].next_pool < Len(ps[s].pools)
  BY <1>1 DEF PoolStateOK
<1>4. Len(ps[s].pools) \in Nat /\ ps[s].next_pool \in Nat
  BY <1>2, <1>3, PoolStateIs
<1> QED
  BY <1>1, <1>3, <1>4 DEF PoolIds

(* A block in use: what its header says.                                   *)
LEMMA PoolOfIs ==
  ASSUME TypeOK, StatesOK, NEW x \in Claimed, IsThere(x)
  PROVE  PoolOf(x) = <<x[1], x[2]>>
<1>1. x \in Objects
  BY ClaimedIs
<1>2. x = <<x[1], x[2], x[3]>> /\ x[1] \in Threads /\ x[3] \in Blocks
  BY <1>1, ObjectIs
<1>3. PoolStateOK(ps[x[1]], x[1], PoolNames, MaxPools, Claimed) /\ x[2] \in PoolIds(ps[x[1]])
  BY <1>2, StateIs DEF IsThere
<1>4. <<x[1], x[2], x[3]>> \in Claimed
  BY <1>2
<1>5. MaxPools \in Nat
  BY ClientAssumption
<1> QED
  BY <1>2, <1>3, <1>4, <1>5, HeaderOfUsed DEF PoolOf

(* No PoolState changes.                                                   *)
LEMMA GrownBySame ==
  ASSUME TypeOK, StatesOK, UNCHANGED ps
  PROVE  Grown
<1>1. \A s \in Threads : ps[s] # Null => Len(ps[s].pools) \in Nat
  BY StateIs
<1> QED
  BY <1>1 DEF Grown, Kept

(* A frame's state stays.                                                  *)
LEMMA FrameStays ==
  ASSUME TypeOK, Kept, NEW f \in Frame, NEW ph, NEW own \in Threads \union {Null},
         FrameFits(f, ph, own, ps)
  PROVE  FrameFits(f, ph, own, ps')
<1>1. /\ f.op = "dtor" => f.x[1] \in Threads
      /\ f.op = "sweep" => f.s \in Threads /\ f.n \in Int
  BY FrameIs, ObjectIs
<1>2. \A s \in Threads : ps[s] # Null => Len(ps[s].pools) \in Nat
  <2>1. \A s \in Threads : ps[s] # Null => ps[s] \in PoolStateRecord(PoolNames, MaxPools)
    BY DEF TypeOK
  <2>2. MaxPools \in Nat
    BY ClientAssumption
  <2> QED
    BY <2>1, <2>2, PoolStateIs
<1>3. /\ \A s \in Threads : ps[s] # Null => ps'[s] # Null
      /\ \A s \in Threads : ps[s] # Null => \A i \in PoolIds(ps[s]) : i \in PoolIds(ps'[s])
      /\ \A s \in Threads : ps[s] # Null => Len(ps[s].pools) <= Len(ps'[s].pools)
  BY DEF Kept
<1>4. f.op = "dtor" => ps'[f.x[1]] # Null /\ f.x[2] \in PoolIds(ps'[f.x[1]])
  BY <1>1, <1>3 DEF FrameFits
<1>5. f.op = "consume" => own # Null /\ ps'[own] # Null /\ f.active \in PoolIds(ps'[own])
  BY <1>3 DEF FrameFits
<1>6. f.op = "sweep" => f.n <= Len(ps'[f.s].pools)
  BY <1>1, <1>2, <1>3 DEF FrameFits
<1>7. f.op = "sweep" => ps'[f.s] # Null
  BY <1>1, <1>3 DEF FrameFits
<1> QED
  BY <1>4, <1>5, <1>6, <1>7 DEF FrameFits

(* What a thread goes by is not changed by what another does.              *)
LEMMA OthersStay ==
  ASSUME TypeOK, ThreadsOK, StatesOK, Kept,
         NEW u \in Threads, UNCHANGED <<stack[u], phase[u], state_[u]>>,
         ps'[u] # Null => ps[u] # Null,
         phase'[Main] = "exiting" => phase[u] # "running"
  PROVE  Shape(stack'[u]) /\ FramesFit(u)' /\ ThreadFits(u)'
<1>1. state_[u] \in Threads \union {Null} /\ \A f \in Range(stack[u]) : f \in Frame
  <2>1. stack[u] \in Seq(Frame) /\ state_[u] \in Threads \union {Null}
    BY DEF TypeOK
  <2> QED
    BY <2>1, RangeOfSeq
<1>2. Shape(stack[u]) /\ FramesFit(u) /\ ThreadFits(u)
  BY DEF ThreadsOK
<1>3. FramesFit(u)'
  <2>1. \A f \in Range(stack[u]) : FrameFits(f, phase[u], state_[u], ps')
    BY <1>1, <1>2, FrameStays DEF FramesFit
  <2> QED
    BY <2>1 DEF FramesFit
<1>4. ThreadFits(u)'
  BY <1>1, <1>2 DEF ThreadFits, Kept
<1> QED
  BY <1>2, <1>3, <1>4

(* The calls of one thread go on.                                          *)
LEMMA StackStep ==
  ASSUME TypeOK, ThreadsOK, StatesOK, StatesOK', Grown, UNCHANGED <<phase, state_>>,
         NEW t \in Threads, NEW new \in Seq(Frame), stack' = [stack EXCEPT ![t] = new],
         Shape(new),
         \A f \in Range(new) :
           f \in Range(stack[t]) \/ FrameFits(f, phase[t], state_[t], ps),
         phase[t] \in {"running", "exiting"},
         phase[t] = "running" /\ state_[t] = Null => new # << >> /\ Head(new).op = "init"
  PROVE  ThreadsOK'
<1>1. stack'[t] = new /\ \A u \in Threads : u # t => stack'[u] = stack[u]
  BY DEF TypeOK
<1>2. Kept /\ \A s \in Threads : ps'[s] = Null <=> ps[s] = Null
  BY DEF Grown
<1>3. \A u \in Threads : phase[Main] = "exiting" => phase[u] # "running"
  BY DEF ThreadsOK, ThreadFits
<1>4. ASSUME NEW u \in Threads, u # t
      PROVE  Shape(stack'[u]) /\ FramesFit(u)' /\ ThreadFits(u)'
  BY <1>1, <1>2, <1>3, <1>4, OthersStay
<1>5. state_[t] \in Threads \union {Null} /\ \A f \in Range(new) \union Range(stack[t]) : f \in Frame
  <2>1. stack[t] \in Seq(Frame) /\ state_[t] \in Threads \union {Null}
    BY DEF TypeOK
  <2> QED
    BY <2>1, RangeOfSeq
<1>6. FramesFit(t)'
  <2>1. \A f \in Range(new) : f \in Frame /\ FrameFits(f, phase[t], state_[t], ps)
    BY <1>5 DEF ThreadsOK, FramesFit
  <2>2. \A f \in Range(new) : FrameFits(f, phase[t], state_[t], ps')
    BY <1>2, <1>5, <2>1, FrameStays
  <2> QED
    BY <1>1, <2>2 DEF FramesFit
<1>7. ThreadFits(t)'
  <2>1. ThreadFits(t)
    BY DEF ThreadsOK
  <2> QED
    BY <1>1, <1>2, <1>5, <2>1 DEF ThreadFits
<1> QED
  BY <1>1, <1>4, <1>6, <1>7 DEF ThreadsOK

(* Who has the states stays.                                               *)
LEMMA OwnersStay ==
  ASSUME TypeOK, OwnersOK, Grown, UNCHANGED <<client, state_, free_pools>>, Swept' = Swept
  PROVE  OwnersOK'
<1>1. \A s \in Threads : ps'[s] = Null <=> ps[s] = Null
  BY DEF Grown
<1>2. States' = States
  BY <1>1 DEF States
<1>3. \A p \in Threads : Offered(p) \in SUBSET Threads /\ Offered(p)' = Offered(p)
  <2>1. \A p \in Threads : free_pools[p] \in Seq(Threads)
    BY DEF TypeOK
  <2> QED
    BY <2>1, RangeOfSeq DEF Offered
<1>4. /\ \A t, u \in Threads : t # u /\ state_'[t] # Null => state_'[t] # state_'[u]
      /\ \A p \in Threads : NoRepeat(free_pools'[p])
  BY DEF OwnersOK
<1>5. \A p, q \in Threads : p # q => Offered(p)' \intersect Offered(q)' = {}
  BY <1>3 DEF OwnersOK
<1>6. \A t, p \in Threads : state_'[t] \notin Offered(p)'
  BY <1>3 DEF OwnersOK
<1>7. \A p \in Threads : \A s \in Offered(p)' : ps'[s] # Null /\ s \notin Swept'
  BY <1>1, <1>3 DEF OwnersOK
<1>8. Does("nomem")' <=> Does("nomem")
  BY DEF Does
<1>9. ~Does("nomem") =>
         \A s \in States' : \/ \E t \in Threads : state_'[t] = s
                            \/ \E p \in Threads : s \in Offered(p)'
                            \/ s \in Swept'
  BY <1>2, <1>3 DEF OwnersOK
<1> QED
  BY <1>4, <1>5, <1>6, <1>7, <1>8, <1>9 DEF OwnersOK

(* One PoolState changes, and only its blocks are claimed or unclaimed.    *)
LEMMA OneState ==
  ASSUME TypeOK, StatesOK, NEW s \in Threads, NEW new, ps' = [ps EXCEPT ![s] = new],
         PoolStateOK(new, s, PoolNames, MaxPools, Claimed'),
         ps[s] # Null => Len(ps[s].pools) <= Len(new.pools),
         \A y \in Objects : y[1] # s => (y \in Claimed' <=> y \in Claimed)
  PROVE  /\ StatesOK' /\ Kept /\ (ps[s] # Null => Grown)
         /\ States' = States \union {s}
         /\ ps' \in [Threads -> PoolStateRecord(PoolNames, MaxPools) \union {Null}]
<1>1. \A r \in Threads : ps'[r] = IF r = s THEN new ELSE ps[r]
  BY DEF States, TypeOK
<1>2. new \in PoolStateRecord(PoolNames, MaxPools)
  BY DEF PoolStateOK
<1>3. new # Null
  BY <1>2, NullAssumption
<1>4. States' = States \union {s}
  BY <1>1, <1>3 DEF States
<1>5. MaxPools \in Nat
  BY ClientAssumption
<1>6. ASSUME NEW r \in States'
      PROVE  PoolStateOK(ps'[r], r, PoolNames, MaxPools, Claimed')
  <2>1. CASE r = s
    BY <1>1, <2>1
  <2>2. CASE r # s
    <3>1. ps'[r] = ps[r] /\ r \in Threads /\ ps[r] # Null /\ r \in States
      BY <1>1, <1>4, <2>2 DEF States
    <3>2. PoolStateOK(ps[r], r, PoolNames, MaxPools, Claimed)
      BY <3>1 DEF StatesOK
    <3>3. ASSUME NEW i \in PoolIds(ps[r]), NEW b \in Blocks
          PROVE  <<r, i, b>> \in Claimed' <=> <<r, i, b>> \in Claimed
      <4>1. <<r, i>> \in PoolNames
        BY <3>2 DEF PoolStateOK
      <4>2. <<r, i, b>> \in Objects
        BY <4>1 DEF PoolNames, Objects
      <4> QED
        BY <2>2, <4>2
    <3>4. PoolStateOK(ps[r], r, PoolNames, MaxPools, Claimed')
      <4> DEFINE V == Claimed'
      <4>1. \A i \in PoolIds(ps[r]) : \A b \in Blocks : <<r, i, b>> \in V <=> <<r, i, b>> \in Claimed
        BY <3>3
      <4> HIDE DEF V
      <4>2. PoolStateOK(ps[r], r, PoolNames, MaxPools, V)
        BY <1>5, <3>2, <4>1, SameBlocks
      <4> QED
        BY <4>2 DEF V
    <3> QED
      BY <3>1, <3>4
  <2> QED
    BY <2>1, <2>2
<1>7. StatesOK'
  BY <1>4, <1>6 DEF StatesOK
<1>8. Kept
  <2>1. ps[s] # Null => \A i \in PoolIds(ps[s]) : i \in PoolIds(new)
    <3>1. ps[s] # Null => Len(ps[s].pools) \in Nat /\ Len(new.pools) \in Nat
      BY <1>1, <1>2, <1>5, StateIs, PoolStateIs
    <3> QED
      BY <3>1 DEF PoolIds
  <2>2. \A r \in Threads : ps[r] # Null => Len(ps[r].pools) \in Nat
    BY StateIs
  <2> QED
    BY <1>1, <1>3, <2>1, <2>2 DEF Kept
<1>10. ps[s] # Null => Grown
  BY <1>1, <1>3, <1>8 DEF Grown
<1>9. ps' \in [Threads -> PoolStateRecord(PoolNames, MaxPools) \union {Null}]
  BY <1>2 DEF TypeOK
<1> QED
  BY <1>4, <1>7, <1>8, <1>9, <1>10

(* No claim changes.                                                       *)
LEMMA ClaimsStay ==
  ASSUME TypeOK, ClaimsOK, Routed, UNCHANGED <<queue, live, lost>>, Doomed' = Doomed,
         fault' = "none" =>
           /\ fault = "none"
           /\ \A t \in Threads : OnceEach(stack[t]) => OnceEach(stack'[t])
  PROVE  ClaimsOK' /\ Routed' /\ Claimed' = Claimed /\ Keeps
<1>1. Asked' = Asked
  BY DEF Asked
<1>2. Claimed' = Claimed
  BY <1>1 DEF Claimed
<1>3. ClaimsOK'
  BY <1>1 DEF ClaimsOK
<1>4. Routed'
  BY DEF Routed
<1>5. Keeps
  BY <1>1 DEF Keeps
<1> QED
  BY <1>2, <1>3, <1>4, <1>5

(* What is claimed stays there.                                            *)
LEMMA ClaimsStayThere ==
  ASSUME TypeOK, ClaimsAreThere, Kept, Claimed' \subseteq Claimed,
         phase'[Main] # "exiting" => phase[Main] # "exiting"
  PROVE  ClaimsAreThere'
<1>1. ASSUME phase'[Main] # "exiting", NEW x \in Claimed'
      PROVE  IsThere(x)'
  <2>1. x \in Objects /\ IsThere(x)
    BY <1>1, ClaimedIs DEF ClaimsAreThere
  <2>2. x[1] \in Threads
    BY <2>1, ObjectIs
  <2> QED
    BY <2>1, <2>2 DEF IsThere, Kept
<1> QED
  BY <1>1 DEF ClaimsAreThere

(* The destructors of one thread.                                          *)
LEMMA DoomedStep ==
  ASSUME TypeOK, NEW t \in Threads, NEW new, stack' = [stack EXCEPT ![t] = new]
  PROVE  /\ Doomed' = [Doomed EXCEPT ![t] = DtorsIn(new)]
         /\ DtorsIn(new) = DtorsIn(stack[t]) => Doomed' = Doomed
         /\ stack'[t] = new
         /\ \A u \in Threads : u # t => stack'[u] = stack[u]
<1>1. stack'[t] = new /\ \A u \in Threads : u # t => stack'[u] = stack[u]
  BY DEF TypeOK
<1>2. Doomed' = [Doomed EXCEPT ![t] = DtorsIn(new)]
  <2>1. Doomed' = [u \in Threads |-> DtorsIn(stack'[u])]
    BY DEF Doomed, DtorsIn
  <2>2. \A u \in Threads : DtorsIn(stack'[u]) = IF u = t THEN DtorsIn(new) ELSE DtorsIn(stack[u])
    BY <1>1
  <2> HIDE DEF DtorsIn
  <2> QED
    BY <2>1, <2>2 DEF Doomed
<1>3. DtorsIn(new) = DtorsIn(stack[t]) => Doomed' = Doomed
  BY <1>2 DEF Doomed
<1> QED
  BY <1>1, <1>2, <1>3

(* A thread in a call.                                                     *)
LEMMA InCall ==
  ASSUME IndInv, NEW t \in Threads, stack[t] # << >>
  PROVE  /\ stack[t] \in Seq(Frame) /\ Head(stack[t]) \in Frame /\ Tail(stack[t]) \in Seq(Frame)
         /\ Shape(stack[t])
         /\ Head(stack[t]) \in Range(stack[t])
         /\ FrameFits(Head(stack[t]), phase[t], state_[t], ps)
         /\ phase[t] \in {"running", "exiting"}
         /\ phase[t] = "exiting" => t = Main
         /\ state_[t] \in Threads \union {Null}
         /\ state_[t] # Null => phase[t] = "running" /\ ps[state_[t]] # Null
         /\ phase[t] = "running" /\ Head(stack[t]).op # "init" => state_[t] # Null
         /\ phase[t] = "running" => phase[Main] # "exiting"
<1>1. /\ stack[t] \in Seq(Frame) /\ state_[t] \in Threads \union {Null}
      /\ phase[t] \in {"unborn", "running", "exited", "exiting"}
  BY DEF IndInv, TypeOK
<1>2. Head(stack[t]) \in Frame /\ Tail(stack[t]) \in Seq(Frame)
      /\ 1 \in DOMAIN stack[t] /\ Head(stack[t]) = stack[t][1]
  BY <1>1, PopIs
<1>3. Head(stack[t]) \in Range(stack[t])
  BY <1>2 DEF Range
<1>4. Shape(stack[t]) /\ FramesFit(t) /\ ThreadFits(t)
  BY DEF IndInv, ThreadsOK
<1>5. FrameFits(Head(stack[t]), phase[t], state_[t], ps)
  BY <1>3, <1>4 DEF FramesFit
<1> QED
  BY <1>1, <1>2, <1>3, <1>4, <1>5 DEF ThreadFits

(* The calls of one thread go on, its state stays.                         *)
LEMMA CallStep ==
  ASSUME IndInv, NEW t \in Threads, NEW new \in Seq(Frame),
         stack' = [stack EXCEPT ![t] = new],
         UNCHANGED <<client, phase, state_, free_pools>>,
         Shape(new),
         \A f \in Range(new) :
           f \in Range(stack[t]) \/ FrameFits(f, phase[t], state_[t], ps),
         phase[t] \in {"running", "exiting"},
         phase[t] = "running" /\ state_[t] = Null => new # << >> /\ Head(new).op = "init",
         SweptIn(new) = SweptIn(stack[t]) \/ phase[t] # "exiting",
         ps' \in [Threads -> PoolStateRecord(PoolNames, MaxPools) \union {Null}],
         queue' \in [Threads -> [Threads -> Seq(Objects)]],
         live' \subseteq Objects, lost' \subseteq Objects,
         fault' \in {"none", "out of range", "full pool", "no object"},
         Grown, StatesOK', ClaimsOK', Routed', ClaimsAreThere'
  PROVE  IndInv'
<1>1. stack' \in [Threads -> Seq(Frame)]
  BY DEF IndInv, TypeOK
<1>2. TypeOK'
  BY <1>1 DEF IndInv, TypeOK
<1>3. ThreadsOK'
  <2>1. TypeOK /\ ThreadsOK /\ StatesOK
    BY DEF IndInv
  <2> QED
    BY <2>1, StackStep
<1>4. stack'[t] = new /\ \A u \in Threads : u # t => stack'[u] = stack[u]
  BY DEF IndInv, TypeOK
<1>5. Swept' = Swept
  <2>1. phase[t] = "running" => phase[Main] # "exiting"
    BY DEF IndInv, ThreadsOK, ThreadFits
  <2>2. phase[Main] = "exiting" => SweptIn(stack'[Main]) = SweptIn(stack[Main])
    BY <1>4, <2>1, ClientAssumption
  <2> HIDE DEF SweptIn
  <2> QED
    BY <2>2 DEF Swept, SweptIn
<1>6. OwnersOK'
  BY <1>5, OwnersStay DEF IndInv
<1> QED
  BY <1>2, <1>3, <1>6 DEF IndInv

(* ... and no claim changes.                                               *)
LEMMA QuietStep ==
  ASSUME IndInv, NEW t \in Threads, NEW new \in Seq(Frame),
         stack' = [stack EXCEPT ![t] = new],
         UNCHANGED <<client, phase, state_, free_pools, queue, live, lost, ps, fault>>,
         Shape(new),
         \A f \in Range(new) :
           f \in Range(stack[t]) \/ FrameFits(f, phase[t], state_[t], ps),
         phase[t] \in {"running", "exiting"},
         phase[t] = "running" /\ state_[t] = Null => new # << >> /\ Head(new).op = "init",
         SweptIn(new) = SweptIn(stack[t]) \/ phase[t] # "exiting",
         DtorsIn(new) = DtorsIn(stack[t]),
         OnceEach(stack[t]) => OnceEach(new)
  PROVE  IndInv' /\ Keeps
<1>1. TypeOK /\ ClaimsOK /\ Routed /\ ClaimsAreThere /\ StatesOK
  BY DEF IndInv
<1>2. Grown
  BY <1>1, GrownBySame
<1>3. /\ Doomed' = Doomed /\ stack'[t] = new
      /\ \A u \in Threads : u # t => stack'[u] = stack[u]
  BY <1>1, DoomedStep
<1>4. \A u \in Threads : OnceEach(stack[u]) => OnceEach(stack'[u])
  BY <1>3
<1>5. ClaimsOK' /\ Routed' /\ Claimed' = Claimed /\ Keeps
  BY <1>1, <1>3, <1>4, ClaimsStay
<1>6. ClaimsAreThere'
  BY <1>1, <1>2, <1>5, ClaimsStayThere DEF Grown
<1>7. StatesOK'
  BY <1>1, <1>5 DEF StatesOK, States
<1>8. /\ ps' \in [Threads -> PoolStateRecord(PoolNames, MaxPools) \union {Null}]
      /\ queue' \in [Threads -> [Threads -> Seq(Objects)]]
      /\ live' \subseteq Objects /\ lost' \subseteq Objects
      /\ fault' \in {"none", "out of range", "full pool", "no object"}
  BY <1>1 DEF TypeOK
<1> QED
  BY <1>2, <1>5, <1>6, <1>7, <1>8, CallStep

(* A frame is pushed, or takes the place of the innermost one.             *)
LEMMA PushRange ==
  ASSUME NEW s \in Seq(Frame), NEW f \in Frame
  PROVE  Range(<<f>> \o s) \subseteq Range(s) \union {f}
<1> DEFINE n == <<f>> \o s
<1>1. /\ n[1] = f
      /\ \A k \in DOMAIN n : k = 1 \/ (k - 1 \in DOMAIN s /\ n[k] = s[k - 1])
  BY PushIs
<1> HIDE DEF n
<1>2. Range(n) \subseteq Range(s) \union {f}
  BY <1>1 DEF Range
<1> QED
  BY <1>2 DEF n

(* The innermost frame goes on.                                            *)
LEMMA SameCall ==
  ASSUME NEW s \in Seq(Frame), s # << >>, NEW f \in Frame, Head(s).op # "dtor",
         f.op = Head(s).op, f.op = "consume" => f.then = Head(s).then,
         f.op = "sweep" => f.s = Head(s).s, Shape(s)
  PROVE  LET new == <<f>> \o Tail(s) IN
         /\ new \in Seq(Frame) /\ new # << >> /\ Head(new) = f
         /\ Shape(new) /\ DtorsIn(new) = DtorsIn(s) /\ SweptIn(new) = SweptIn(s)
         /\ OnceEach(s) => OnceEach(new)
         /\ Range(new) \subseteq Range(s) \union {f}
<1>1. /\ Tail(s) \in Seq(Frame) /\ Head(s) \in Frame
      /\ DtorsIn(Tail(s)) = DtorsIn(s)
      /\ SweptIn(s) = SweptIn(Tail(s)) \union (IF Head(s).op = "sweep" THEN {Head(s).s} ELSE {})
      /\ OnceEach(s) => OnceEach(Tail(s))
      /\ Shape(Tail(s)) /\ (Tail(s) # << >> => Head(Tail(s)).op \in {"dtor", "sweep"})
      /\ Head(s).op \in {"init", "sweep"} \/ Head(s).then # "new" => Tail(s) = << >>
      /\ Range(Tail(s)) \subseteq Range(s)
  BY PopIs, PopOther
<1> DEFINE r == Tail(s)
           new == <<f>> \o r
<1>2. /\ new \in Seq(Frame) /\ new # << >> /\ Head(new) = f
      /\ DtorsIn(new) = DtorsIn(r)
      /\ SweptIn(new) = SweptIn(r) \union (IF f.op = "sweep" THEN {f.s} ELSE {})
      /\ OnceEach(r) => OnceEach(new)
      /\ r = << >> => Shape(new)
      /\ Shape(r) /\ r # << >> /\ Head(r).op \in {"dtor", "sweep"} /\ f.op = "consume"
         /\ f.then = "new" => Shape(new)
      /\ Range(new) \subseteq Range(r) \union {f}
  BY <1>1, PushIs, PushOther, PushRange
<1> HIDE DEF r, new
<1>3. Shape(new)
  <2>1. CASE r = << >>
    BY <1>2, <2>1
  <2>2. CASE r # << >>
    <3>1. Head(s).op \notin {"init", "sweep"} /\ Head(s).then = "new"
      BY <1>1, <2>2 DEF r
    <3>2. Head(s).op = "consume"
      BY <1>1, <3>1, FrameIs
    <3>3. Shape(r) /\ Head(r).op \in {"dtor", "sweep"}
      BY <1>1, <2>2 DEF r
    <3> QED
      BY <1>2, <2>2, <3>1, <3>2, <3>3
  <2> QED
    BY <2>1, <2>2
<1> QED
  BY <1>1, <1>2, <1>3 DEF r, new

-----------------------------------------------------------------------------
(* Steps that leave the pools alone.                                       *)

(* The innermost call goes on.                                             *)
LEMMA GoesOn ==
  ASSUME IndInv, NEW t \in Threads, stack[t] # << >>, NEW f \in Frame,
         stack' = [stack EXCEPT ![t] = <<f>> \o Tail(@)],
         UNCHANGED <<client, phase, state_, free_pools, queue, live, lost, ps, fault>>,
         f.op # "dtor", f.op = Head(stack[t]).op,
         f.op = "consume" => f.then = Head(stack[t]).then,
         f.op = "sweep" => f.s = Head(stack[t]).s,
         FrameFits(f, phase[t], state_[t], ps)
  PROVE  IndInv' /\ Keeps
<1> DEFINE new == <<f>> \o Tail(stack[t])
<1>1. /\ stack[t] \in Seq(Frame) /\ Shape(stack[t]) /\ phase[t] \in {"running", "exiting"}
      /\ phase[t] = "running" /\ Head(stack[t]).op # "init" => state_[t] # Null
  BY InCall
<1>2. /\ new \in Seq(Frame) /\ new # << >> /\ Head(new) = f
      /\ Shape(new) /\ DtorsIn(new) = DtorsIn(stack[t]) /\ SweptIn(new) = SweptIn(stack[t])
      /\ OnceEach(stack[t]) => OnceEach(new)
      /\ Range(new) \subseteq Range(stack[t]) \union {f}
  BY <1>1, SameCall
<1>3. stack' = [stack EXCEPT ![t] = new]
  OBVIOUS
<1> HIDE DEF new
<1>4. phase[t] = "running" /\ state_[t] = Null => new # << >> /\ Head(new).op = "init"
  BY <1>1, <1>2
<1>5. \A g \in Range(new) : g \in Range(stack[t]) \/ FrameFits(g, phase[t], state_[t], ps)
  BY <1>2
<1> QED
  BY <1>1, <1>2, <1>3, <1>4, <1>5, QuietStep

(* A call that waits for nothing begins.                                   *)
LEMMA CallBegins ==
  ASSUME IndInv, NEW t \in Threads, fault = "none", phase[t] = "running",
         NEW f \in Frame, f.op = "consume",
         stack[t] = << >> \/ (f.then = "new" /\ Head(stack[t]).op = "dtor"),
         stack' = [stack EXCEPT ![t] = <<f>> \o @],
         UNCHANGED <<client, phase, state_, free_pools, queue, live, lost, ps, fault>>,
         state_[t] # Null => f.active \in PoolIds(ps[state_[t]])
  PROVE  IndInv' /\ Keeps
<1> DEFINE new == <<f>> \o stack[t]
<1>1. stack[t] \in Seq(Frame) /\ Shape(stack[t]) /\ ThreadFits(t)
  BY DEF IndInv, TypeOK, ThreadsOK
<1>2. state_[t] # Null /\ ps[state_[t]] # Null
  BY <1>1 DEF ThreadFits
<1>3. /\ new \in Seq(Frame) /\ new # << >> /\ Head(new) = f
      /\ DtorsIn(new) = DtorsIn(stack[t])
      /\ OnceEach(stack[t]) => OnceEach(new)
      /\ stack[t] = << >> => Shape(new)
      /\ stack[t] # << >> /\ Head(stack[t]).op \in {"dtor", "sweep"} /\ f.op = "consume"
         /\ f.then = "new" => Shape(new)
      /\ Range(new) \subseteq Range(stack[t]) \union {f}
  BY <1>1, PushIs, PushOther, PushRange
<1>4. FrameFits(f, phase[t], state_[t], ps)
  BY <1>2 DEF FrameFits
<1>5. stack' = [stack EXCEPT ![t] = new]
  OBVIOUS
<1> HIDE DEF new
<1>6. Shape(new)
  BY <1>3
<1>7. \A g \in Range(new) : g \in Range(stack[t]) \/ FrameFits(g, phase[t], state_[t], ps)
  BY <1>3, <1>4
<1> QED
  BY <1>2, <1>3, <1>5, <1>6, <1>7, QuietStep

(* What Head(stack[t]) of an action is.                                    *)
LEMMA AtIs ==
  ASSUME IndInv, NEW t \in Threads, NEW op, At(t, op)
  PROVE  /\ fault = "none" /\ stack[t] # << >> /\ Head(stack[t]).op = op
         /\ Head(stack[t]) \in Frame
  BY InCall DEF At

(* A producer of free_pools_ had nothing for GetFreePool.                  *)
LEMMA FindNoFreePoolOK ==
  ASSUME IndInv, NEW t \in Threads, FindNoFreePool(t)
  PROVE  IndInv' /\ Keeps
<1> DEFINE f == Head(stack[t])
<1>1. stack[t] # << >> /\ f.op = "init" /\ f \in Frame
  BY AtIs DEF FindNoFreePool
<1>2. PICK p \in Threads : Replace(t, [f EXCEPT !.seen = @ \union {p}])
  BY DEF FindNoFreePool
<1> DEFINE g == [f EXCEPT !.seen = @ \union {p}]
<1>3. f \in [op : {"init"}, seen : SUBSET Threads]
  BY <1>1 DEF Frame
<1>4. g \in [op : {"init"}, seen : SUBSET Threads]
  BY <1>3
<1>5. g \in Frame /\ g.op = "init"
  BY <1>4 DEF Frame
<1>6. FrameFits(f, phase[t], state_[t], ps)
  BY <1>1, InCall
<1>7. FrameFits(g, phase[t], state_[t], ps)
  BY <1>1, <1>5, <1>6 DEF FrameFits
<1>8. stack' = [stack EXCEPT ![t] = <<g>> \o Tail(@)]
  BY <1>2 DEF Replace
<1>9. UNCHANGED <<client, phase, state_, free_pools, queue, live, lost, ps, fault>>
  BY DEF FindNoFreePool
<1> HIDE DEF g
<1> QED
  BY <1>1, <1>5, <1>7, <1>8, <1>9, GoesOn

(* No producer had a request left.                                         *)
LEMMA FindNoRequestOK ==
  ASSUME IndInv, NEW t \in Threads, FindNoRequest(t)
  PROVE  IndInv' /\ Keeps
<1> DEFINE f == Head(stack[t])
           g == [f EXCEPT !.dry = TRUE]
           C == [op : {"consume"}, then : {"new", "clear", "destroy"},
                 active : 0 .. MaxPools - 1, dry : BOOLEAN]
<1>1. stack[t] # << >> /\ f.op = "consume" /\ f \in Frame
  BY AtIs DEF FindNoRequest
<1>3. f \in C
  BY <1>1 DEF Frame
<1>4. g \in C /\ g.then = f.then /\ g.active = f.active
  BY <1>3
<1>5. g \in Frame /\ g.op = "consume"
  BY <1>4 DEF Frame
<1>6. FrameFits(f, phase[t], state_[t], ps)
  BY <1>1, InCall
<1>7. FrameFits(g, phase[t], state_[t], ps)
  BY <1>1, <1>4, <1>5, <1>6 DEF FrameFits
<1>8. stack' = [stack EXCEPT ![t] = <<g>> \o Tail(@)]
  BY DEF Replace, FindNoRequest
<1>9. UNCHANGED <<client, phase, state_, free_pools, queue, live, lost, ps, fault>>
  BY DEF FindNoRequest
<1> HIDE DEF g, C
<1> QED
  BY <1>1, <1>4, <1>5, <1>7, <1>8, <1>9, GoesOn

(* Clear begins.                                                           *)
LEMMA ClearOK ==
  ASSUME IndInv, NEW t \in Threads, Clear(t)
  PROVE  IndInv' /\ Keeps
<1> DEFINE f == Consume("clear", 0)
<1>1. fault = "none" /\ phase[t] = "running" /\ stack[t] = << >>
  BY DEF Clear
<1>2. f \in Frame /\ f.op = "consume" /\ f.active = 0
  BY ClientAssumption DEF Frame, Consume
<1>3. stack' = [stack EXCEPT ![t] = <<f>> \o @]
  BY DEF Clear, Push
<1>4. state_[t] # Null => 0 \in PoolIds(ps[state_[t]])
  <2>1. state_[t] # Null => state_[t] \in Threads /\ ps[state_[t]] # Null
    BY DEF IndInv, TypeOK, ThreadsOK, ThreadFits
  <2> QED
    BY <2>1, StateIs DEF IndInv
<1>5. UNCHANGED <<client, phase, state_, free_pools, queue, live, lost, ps, fault>>
  BY DEF Clear
<1> HIDE DEF f
<1> QED
  BY <1>1, <1>2, <1>3, <1>4, <1>5, CallBegins

(* A thread begins to exit.                                                *)
LEMMA ExitOK ==
  ASSUME IndInv, NEW t \in Threads, Exit(t)
  PROVE  IndInv' /\ Keeps
<1> DEFINE f == Consume("destroy", 0)
<1>1. fault = "none" /\ phase[t] = "running" /\ stack[t] = << >>
  BY DEF Exit
<1>2. f \in Frame /\ f.op = "consume" /\ f.active = 0
  BY ClientAssumption DEF Frame, Consume
<1>3. stack' = [stack EXCEPT ![t] = <<f>> \o @]
  BY DEF Exit, Push
<1>4. state_[t] # Null => 0 \in PoolIds(ps[state_[t]])
  <2>1. state_[t] # Null => state_[t] \in Threads /\ ps[state_[t]] # Null
    BY DEF IndInv, TypeOK, ThreadsOK, ThreadFits
  <2> QED
    BY <2>1, StateIs DEF IndInv
<1>5. UNCHANGED <<client, phase, state_, free_pools, queue, live, lost, ps, fault>>
  BY DEF Exit
<1> HIDE DEF f
<1> QED
  BY <1>1, <1>2, <1>3, <1>4, <1>5, CallBegins

(* Start.                                                                  *)
LEMMA StartOK ==
  ASSUME IndInv, NEW t \in Threads, Start(t)
  PROVE  IndInv' /\ Keeps
<1> DEFINE new == <<Scan>> \o stack[t]
<1>1. /\ fault = "none" /\ phase[t] = "unborn" /\ phase[Main] # "exiting"
      /\ phase' = [phase EXCEPT ![t] = "running"]
      /\ stack' = [stack EXCEPT ![t] = new]
      /\ UNCHANGED <<client, state_, ps, queue, free_pools, live, lost, fault>>
  BY DEF Start, Push
<1>2. ThreadFits(t) /\ stack[t] \in Seq(Frame) /\ TypeOK
  BY DEF IndInv, ThreadsOK, TypeOK
<1>3. stack[t] = << >> /\ state_[t] = Null /\ ps[t] = Null
  BY <1>1, <1>2 DEF ThreadFits
<1>4. Scan \in Frame /\ Scan.op = "init"
  BY DEF Scan, Frame
<1>5. /\ new \in Seq(Frame) /\ new # << >> /\ Head(new) = Scan
      /\ DtorsIn(new) = DtorsIn(stack[t])
      /\ OnceEach(stack[t]) => OnceEach(new)
      /\ Shape(new)
      /\ Range(new) \subseteq Range(stack[t]) \union {Scan}
  BY <1>2, <1>3, <1>4, PushIs, PushOther, PushRange
<1> HIDE DEF new
<1>6. /\ Doomed' = Doomed /\ stack'[t] = new
      /\ \A u \in Threads : u # t => stack'[u] = stack[u]
  BY <1>1, <1>2, <1>5, DoomedStep
<1>7. /\ phase'[t] = "running" /\ \A u \in Threads : u # t => phase'[u] = phase[u]
      /\ phase'[Main] # "exiting" /\ Main \in Threads
  BY <1>1, <1>2, ClientAssumption DEF TypeOK
<1>8. TypeOK'
  BY <1>1, <1>2, <1>5 DEF TypeOK
<1>9. ThreadsOK'
  <2>1. ASSUME NEW u \in Threads, u # t
        PROVE  Shape(stack[u])' /\ FramesFit(u)' /\ ThreadFits(u)'
    <3>1. Shape(stack[u]) /\ FramesFit(u) /\ ThreadFits(u)
      BY DEF IndInv, ThreadsOK
    <3> QED
      BY <1>1, <1>6, <1>7, <2>1, <3>1 DEF FramesFit, ThreadFits
  <2>2. Shape(stack'[t])
    BY <1>5, <1>6
  <2>3. FramesFit(t)'
    <3>1. Range(stack[t]) = {}
      BY <1>3 DEF Range
    <3>2. \A f \in Range(stack'[t]) : f.op = "init"
      BY <1>4, <1>5, <1>6, <3>1
    <3> QED
      BY <1>1, <1>3, <1>7, <3>2 DEF FramesFit, FrameFits
  <2>4. ThreadFits(t)'
    BY <1>1, <1>3, <1>4, <1>5, <1>6, <1>7 DEF ThreadFits
  <2> QED
    BY <2>1, <2>2, <2>3, <2>4 DEF ThreadsOK
<1>10. OwnersOK'
  <2>1. Swept' = Swept
    BY <1>1, <1>7 DEF Swept
  <2> QED
    BY <1>1, <1>2, <2>1, GrownBySame, OwnersStay DEF IndInv
<1>11. ClaimsOK' /\ Routed' /\ Claimed' = Claimed /\ Keeps
  BY <1>1, <1>2, <1>5, <1>6, ClaimsStay DEF IndInv
<1>12. ClaimsAreThere' /\ StatesOK'
  BY <1>1, <1>2, <1>11, GrownBySame, ClaimsStayThere DEF IndInv, StatesOK, States, Grown
<1> QED
  BY <1>8, <1>9, <1>10, <1>11, <1>12 DEF IndInv

(* A call that is the thread's only one returns.                           *)
LEMMA LastCall ==
  ASSUME IndInv, NEW t \in Threads, stack[t] # << >>,
         Head(stack[t]).op \in {"init", "consume", "sweep"},
         Head(stack[t]).op = "consume" => Head(stack[t]).then # "new",
         Pop(t)
  PROVE  /\ stack' \in [Threads -> Seq(Frame)]
         /\ stack'[t] = << >>
         /\ \A u \in Threads : u # t => stack'[u] = stack[u]
         /\ Doomed' = Doomed
         /\ \A u \in Threads : OnceEach(stack[u]) => OnceEach(stack'[u])
         /\ SweptIn(stack[t]) = IF Head(stack[t]).op = "sweep" THEN {Head(stack[t]).s} ELSE {}
<1>1. stack[t] \in Seq(Frame) /\ Shape(stack[t]) /\ Tail(stack[t]) \in Seq(Frame) /\ TypeOK
  BY InCall DEF IndInv
<1>2. /\ DtorsIn(Tail(stack[t])) = DtorsIn(stack[t])
      /\ SweptIn(stack[t]) = SweptIn(Tail(stack[t])) \union
                               (IF Head(stack[t]).op = "sweep" THEN {Head(stack[t]).s} ELSE {})
      /\ OnceEach(stack[t]) => OnceEach(Tail(stack[t]))
      /\ Head(stack[t]).op \in {"init", "sweep"} \/ Head(stack[t]).then # "new"
           => Tail(stack[t]) = << >>
  BY <1>1, PopOther
<1>3. Tail(stack[t]) = << >>
  BY <1>2
<1>4. stack' = [stack EXCEPT ![t] = Tail(stack[t])]
  BY DEF Pop
<1>5. /\ Doomed' = Doomed /\ stack'[t] = Tail(stack[t])
      /\ \A u \in Threads : u # t => stack'[u] = stack[u]
  BY <1>1, <1>2, <1>4, DoomedStep
<1>6. stack' \in [Threads -> Seq(Frame)]
  BY <1>1, <1>4 DEF TypeOK
<1>7. SweptIn(<< >>) = {}
  BY DEF SweptIn
<1>8. \A u \in Threads : OnceEach(stack[u]) => OnceEach(stack'[u])
  BY <1>2, <1>5
<1> HIDE DEF SweptIn
<1> QED
  BY <1>2, <1>3, <1>5, <1>6, <1>7, <1>8

(* The data of a step that frees and takes nothing.                        *)
LEMMA DataStays ==
  ASSUME IndInv, UNCHANGED <<ps, queue, live, lost, fault>>, Doomed' = Doomed,
         \A t \in Threads : OnceEach(stack[t]) => OnceEach(stack'[t]),
         phase'[Main] # "exiting" => phase[Main] # "exiting"
  PROVE  ClaimsOK' /\ Routed' /\ ClaimsAreThere' /\ StatesOK' /\ Keeps
<1>1. TypeOK /\ ClaimsOK /\ Routed /\ ClaimsAreThere /\ StatesOK
  BY DEF IndInv
<1>2. Kept
  BY <1>1, GrownBySame DEF Grown
<1>3. ClaimsOK' /\ Routed' /\ Claimed' = Claimed /\ Keeps
  BY <1>1, ClaimsStay
<1>4. ClaimsAreThere'
  BY <1>1, <1>2, <1>3, ClaimsStayThere
<1>5. StatesOK'
  BY <1>1, <1>3 DEF StatesOK, States
<1> QED
  BY <1>3, <1>4, <1>5

(* A state is taken from free_pools_.                                      *)
LEMMA TakeOffer ==
  ASSUME TypeOK, OwnersOK, NEW p \in Threads, free_pools[p] # << >>,
         free_pools' = [free_pools EXCEPT ![p] = Tail(@)]
  PROVE  /\ Head(free_pools[p]) \in Offered(p) /\ Head(free_pools[p]) \in Threads
         /\ free_pools' \in [Threads -> Seq(Threads)]
         /\ \A q \in Threads : NoRepeat(free_pools'[q])
         /\ \A q \in Threads : Offered(q)' = Offered(q) \ {Head(free_pools[p])}
<1>1. /\ free_pools \in [Threads -> Seq(Threads)] /\ free_pools[p] \in Seq(Threads)
      /\ \A q \in Threads : NoRepeat(free_pools[q])
      /\ \A q \in Threads : q # p => Offered(p) \intersect Offered(q) = {}
  BY DEF TypeOK, OwnersOK
<1>2. /\ Head(free_pools[p]) \in Threads /\ Tail(free_pools[p]) \in Seq(Threads)
      /\ Head(free_pools[p]) \in Range(free_pools[p])
      /\ Range(Tail(free_pools[p])) = Range(free_pools[p]) \ {Head(free_pools[p])}
      /\ NoRepeat(Tail(free_pools[p]))
  BY <1>1, TakeFirst DEF Without
<1>3. \A q \in Threads : free_pools'[q] = IF q = p THEN Tail(free_pools[p]) ELSE free_pools[q]
  BY <1>1
<1>4. free_pools' \in [Threads -> Seq(Threads)] /\ \A q \in Threads : NoRepeat(free_pools'[q])
  BY <1>1, <1>2, <1>3
<1>5. \A q \in Threads : Offered(q)' = Range(free_pools'[q]) /\ Offered(q) = Range(free_pools[q])
  BY DEF Offered
<1>6. ASSUME NEW q \in Threads
      PROVE  Offered(q)' = Offered(q) \ {Head(free_pools[p])}
  <2>1. CASE q = p
    BY <1>2, <1>3, <1>5, <2>1
  <2>2. CASE q # p
    BY <1>1, <1>2, <1>3, <1>5, <2>2
  <2> QED
    BY <2>1, <2>2
<1> QED
  BY <1>2, <1>4, <1>5, <1>6

(* Init fails, with a state in hand or not.                                *)
LEMMA InitFailsOK ==
  ASSUME IndInv, NEW t \in Threads, InitFails(t)
  PROVE  IndInv' /\ Keeps
<1>1. stack[t] # << >> /\ Head(stack[t]).op = "init" /\ fault = "none"
  BY AtIs DEF InitFails
<1>2. /\ phase' = [phase EXCEPT ![t] = "unborn"] /\ Pop(t) /\ Does("nomem")
      /\ UNCHANGED <<client, state_, ps, queue, live, lost, fault>>
  BY DEF InitFails
<1>3. /\ stack' \in [Threads -> Seq(Frame)]
      /\ stack'[t] = << >>
      /\ \A u \in Threads : u # t => stack'[u] = stack[u]
      /\ Doomed' = Doomed
      /\ \A u \in Threads : OnceEach(stack[u]) => OnceEach(stack'[u])
  BY <1>1, <1>2, LastCall
<1>4. /\ FrameFits(Head(stack[t]), phase[t], state_[t], ps)
      /\ TypeOK /\ ThreadsOK /\ OwnersOK /\ StatesOK
  BY <1>1, InCall DEF IndInv
<1>5. phase[t] = "running" /\ state_[t] = Null /\ phase[Main] # "exiting" /\ ps[t] = Null
  BY <1>1, <1>4 DEF FrameFits, ThreadsOK, ThreadFits
<1>6. /\ phase'[t] = "unborn" /\ \A u \in Threads : u # t => phase'[u] = phase[u]
      /\ phase' \in [Threads -> {"unborn", "running", "exited", "exiting"}]
      /\ Main \in Threads /\ phase'[Main] # "exiting"
  BY <1>2, <1>4, <1>5, ClientAssumption DEF TypeOK
<1>7. Kept
  BY <1>2, <1>4, GrownBySame DEF Grown
<1>8. ThreadsOK'
  <2>1. ASSUME NEW u \in Threads, u # t
        PROVE  Shape(stack'[u]) /\ FramesFit(u)' /\ ThreadFits(u)'
    BY <1>2, <1>3, <1>4, <1>6, <1>7, <2>1, OthersStay
  <2>2. Shape(stack'[t]) /\ FramesFit(t)' /\ ThreadFits(t)'
    BY <1>2, <1>3, <1>5, <1>6 DEF Shape, FramesFit, ThreadFits, Range
  <2> QED
    BY <2>1, <2>2 DEF ThreadsOK
<1>9. /\ free_pools' \in [Threads -> Seq(Threads)]
      /\ \A p \in Threads : NoRepeat(free_pools'[p]) /\ Offered(p)' \subseteq Offered(p)
  <2>1. ASSUME UNCHANGED free_pools, NEW p \in Threads
        PROVE  NoRepeat(free_pools'[p]) /\ Offered(p)' \subseteq Offered(p)
    BY <1>4, <2>1 DEF Offered, OwnersOK
  <2>2. ASSUME NEW p \in Threads, free_pools[p] # << >>,
               free_pools' = [free_pools EXCEPT ![p] = Tail(@)]
        PROVE  /\ free_pools' \in [Threads -> Seq(Threads)]
               /\ \A q \in Threads : NoRepeat(free_pools'[q]) /\ Offered(q)' \subseteq Offered(q)
    <3>1. /\ free_pools' \in [Threads -> Seq(Threads)]
          /\ \A q \in Threads : NoRepeat(free_pools'[q])
          /\ \A q \in Threads : Offered(q)' = Offered(q) \ {Head(free_pools[p])}
      BY <1>4, <2>2, TakeOffer
    <3> QED
      BY <3>1
  <2>3. \/ UNCHANGED free_pools
        \/ \E p \in Threads : /\ free_pools[p] # << >>
                              /\ free_pools' = [free_pools EXCEPT ![p] = Tail(@)]
    BY DEF InitFails
  <2>4. UNCHANGED free_pools => free_pools' \in [Threads -> Seq(Threads)]
    BY <1>4 DEF TypeOK
  <2> QED
    BY <2>1, <2>2, <2>3, <2>4
<1>10. OwnersOK'
  <2>1. Swept' = {} /\ Swept = {}
    BY <1>5, <1>6 DEF Swept
  <2>2. Does("nomem")'
    BY <1>2 DEF Does
  <2>3. /\ \A u, v \in Threads : u # v /\ state_'[u] # Null => state_'[u] # state_'[v]
        /\ \A p, q \in Threads : p # q => Offered(p)' \intersect Offered(q)' = {}
        /\ \A u, p \in Threads : state_'[u] \notin Offered(p)'
        /\ \A p \in Threads : \A s \in Offered(p)' : ps'[s] # Null
    BY <1>2, <1>4, <1>9 DEF OwnersOK
  <2> QED
    BY <1>9, <2>1, <2>2, <2>3 DEF OwnersOK
<1>11. TypeOK'
  BY <1>2, <1>3, <1>4, <1>6, <1>9 DEF TypeOK
<1>12. ClaimsOK' /\ Routed' /\ ClaimsAreThere' /\ StatesOK' /\ Keeps
  BY <1>2, <1>3, <1>5, DataStays
<1> QED
  BY <1>8, <1>10, <1>11, <1>12 DEF IndInv

(* The thread's state is given up.                                         *)
LEMMA AddFreePoolOK ==
  ASSUME IndInv, NEW t \in Threads, AddFreePool(t)
  PROVE  IndInv' /\ Keeps
<1>1. stack[t] # << >> /\ Head(stack[t]).op = "consume" /\ Head(stack[t]).then = "destroy"
      /\ fault = "none"
  BY AtIs DEF AddFreePool, Consumed
<1>2. /\ phase' = [phase EXCEPT ![t] = "exited"] /\ Pop(t)
      /\ state_' = [state_ EXCEPT ![t] = Null]
      /\ \/ free_pools' = [free_pools EXCEPT ![t] = Append(@, state_[t])]
         \/ Does("nomem") /\ UNCHANGED free_pools
      /\ UNCHANGED <<client, ps, queue, live, lost, fault>>
  BY DEF AddFreePool
<1>3. /\ stack' \in [Threads -> Seq(Frame)]
      /\ stack'[t] = << >>
      /\ \A u \in Threads : u # t => stack'[u] = stack[u]
      /\ Doomed' = Doomed
      /\ \A u \in Threads : OnceEach(stack[u]) => OnceEach(stack'[u])
  BY <1>1, <1>2, LastCall
<1>4. /\ FrameFits(Head(stack[t]), phase[t], state_[t], ps)
      /\ TypeOK /\ ThreadsOK /\ OwnersOK /\ StatesOK
  BY <1>1, InCall DEF IndInv
<1>5. /\ state_[t] # Null /\ state_[t] \in Threads /\ phase[t] = "running"
      /\ phase[Main] # "exiting" /\ ps[state_[t]] # Null
  BY <1>1, <1>4 DEF FrameFits, ThreadsOK, ThreadFits, TypeOK
<1>6. /\ phase'[t] = "exited" /\ \A u \in Threads : u # t => phase'[u] = phase[u]
      /\ phase' \in [Threads -> {"unborn", "running", "exited", "exiting"}]
      /\ Main \in Threads /\ phase'[Main] # "exiting"
      /\ state_'[t] = Null /\ \A u \in Threads : u # t => state_'[u] = state_[u]
      /\ state_' \in [Threads -> Threads \union {Null}]
  BY <1>2, <1>4, <1>5, ClientAssumption DEF TypeOK
<1>7. Kept
  BY <1>2, <1>4, GrownBySame DEF Grown
<1>8. ThreadsOK'
  <2>1. ASSUME NEW u \in Threads, u # t
        PROVE  Shape(stack'[u]) /\ FramesFit(u)' /\ ThreadFits(u)'
    BY <1>2, <1>3, <1>4, <1>6, <1>7, <2>1, OthersStay
  <2>2. Shape(stack'[t]) /\ FramesFit(t)' /\ ThreadFits(t)'
    BY <1>2, <1>3, <1>5, <1>6 DEF Shape, FramesFit, ThreadFits, Range
  <2> QED
    BY <2>1, <2>2 DEF ThreadsOK
<1>9. /\ free_pools' \in [Threads -> Seq(Threads)]
      /\ \A p \in Threads : NoRepeat(free_pools'[p])
      /\ \A p \in Threads : p # t => Offered(p)' = Offered(p)
      /\ Offered(t)' \subseteq Offered(t) \union {state_[t]}
      /\ Offered(t) \subseteq Offered(t)'
      /\ ~Does("nomem") => state_[t] \in Offered(t)'
  <2>1. /\ free_pools \in [Threads -> Seq(Threads)] /\ free_pools[t] \in Seq(Threads)
        /\ \A p \in Threads : NoRepeat(free_pools[p])
        /\ state_[t] \notin Range(free_pools[t])
    BY <1>4 DEF TypeOK, OwnersOK, Offered
  <2>2. CASE Does("nomem") /\ UNCHANGED free_pools
    BY <2>1, <2>2 DEF Offered
  <2>3. CASE free_pools' = [free_pools EXCEPT ![t] = Append(@, state_[t])]
    <3>1. /\ Append(free_pools[t], state_[t]) \in Seq(Threads)
          /\ Range(Append(free_pools[t], state_[t])) = Range(free_pools[t]) \union {state_[t]}
          /\ NoRepeat(Append(free_pools[t], state_[t]))
      BY <1>5, <2>1, PutLast DEF With
    <3>2. \A q \in Threads :
            free_pools'[q] = IF q = t THEN Append(free_pools[t], state_[t]) ELSE free_pools[q]
      BY <2>1, <2>3
    <3>3. free_pools' \in [Threads -> Seq(Threads)] /\ \A p \in Threads : NoRepeat(free_pools'[p])
      BY <2>1, <2>3, <3>1, <3>2
    <3> QED
      BY <3>1, <3>2, <3>3 DEF Offered
  <2> QED
    BY <1>2, <2>2, <2>3
<1>10. OwnersOK'
  <2>1. Swept' = {} /\ Swept = {}
    BY <1>5, <1>6 DEF Swept
  <2>2. Does("nomem")' <=> Does("nomem")
    BY <1>2 DEF Does
  <2>3. \A u, v \in Threads : u # v /\ state_'[u] # Null => state_'[u] # state_'[v]
    BY <1>4, <1>6 DEF OwnersOK
  <2>4. \A p, q \in Threads : p # q => Offered(p)' \intersect Offered(q)' = {}
    <3>1. \A p \in Threads : state_[t] \notin Offered(p)
      BY <1>4 DEF OwnersOK
    <3>2. \A p, q \in Threads : p # q => Offered(p) \intersect Offered(q) = {}
      BY <1>4 DEF OwnersOK
    <3>3. ASSUME NEW p \in Threads, NEW q \in Threads, p # q, p # t
          PROVE  Offered(p)' \intersect Offered(q)' = {}
      <4>1. Offered(p)' = Offered(p) /\ Offered(q)' \subseteq Offered(q) \union {state_[t]}
        BY <1>9, <3>3
      <4> QED
        BY <3>1, <3>2, <3>3, <4>1
    <3> QED
      BY <3>3
  <2>5. \A u, p \in Threads : state_'[u] \notin Offered(p)'
    <3>1. ASSUME NEW u \in Threads, NEW p \in Threads
          PROVE  state_'[u] \notin Offered(p)'
      <4>1. state_[u] \notin Offered(p)
        BY <1>4 DEF OwnersOK
      <4>2. u # t => state_[u] # state_[t]
        BY <1>4, <1>5 DEF OwnersOK
      <4>3. CASE u = t
        <5>1. Null \notin Threads
          BY NullAssumption
        <5>2. Offered(p)' \subseteq Threads
          BY <1>9, RangeOfSeq DEF Offered
        <5> QED
          BY <1>6, <4>3, <5>1, <5>2
      <4>4. CASE u # t
        BY <1>6, <1>9, <4>1, <4>2, <4>4
      <4> QED
        BY <4>3, <4>4
    <3> QED
      BY <3>1
  <2>6. \A p \in Threads : \A s \in Offered(p)' : ps'[s] # Null
    <3>1. \A p \in Threads : Offered(p)' \subseteq Offered(p) \union {state_[t]}
      BY <1>9
    <3>2. \A p \in Threads : \A s \in Offered(p) : ps[s] # Null
      BY <1>4 DEF OwnersOK
    <3> QED
      BY <1>2, <1>5, <3>1, <3>2
  <2>7. ~Does("nomem") =>
          \A s \in States' : (\E u \in Threads : state_'[u] = s) \/ (\E p \in Threads : s \in Offered(p)')
    <3>1. ASSUME ~Does("nomem"), NEW s \in States
          PROVE  (\E u \in Threads : state_'[u] = s) \/ (\E p \in Threads : s \in Offered(p)')
      <4>1. (\E u \in Threads : state_[u] = s) \/ (\E p \in Threads : s \in Offered(p))
        BY <1>4, <2>1, <3>1 DEF OwnersOK
      <4>2. \A p \in Threads : Offered(p) \subseteq Offered(p)'
        BY <1>9
      <4>3. state_[t] \in Offered(t)'
        BY <1>9, <3>1
      <4> QED
        BY <1>6, <4>1, <4>2, <4>3
    <3>2. States' = States
      BY <1>2 DEF States
    <3> QED
      BY <3>1, <3>2
  <2> QED
    BY <1>9, <2>1, <2>2, <2>3, <2>4, <2>5, <2>6, <2>7 DEF OwnersOK
<1>11. TypeOK'
  BY <1>2, <1>3, <1>4, <1>6, <1>9 DEF TypeOK
<1>12. ClaimsOK' /\ Routed' /\ ClaimsAreThere' /\ StatesOK' /\ Keeps
  BY <1>2, <1>3, <1>5, DataStays
<1> QED
  BY <1>8, <1>10, <1>11, <1>12 DEF IndInv

(* ~PoolManager begins.                                                    *)
LEMMA ExitProcessOK ==
  ASSUME IndInv, ExitProcess
  PROVE  IndInv' /\ Keeps
<1>1. /\ \A t \in Threads : phase[t] \in {"unborn", "exited"}
      /\ phase' = [phase EXCEPT ![Main] = "exiting"]
      /\ UNCHANGED <<client, state_, ps, queue, free_pools, stack, live, lost, fault>>
      /\ Main \in Threads
      /\ TypeOK /\ ThreadsOK /\ OwnersOK /\ StatesOK
  BY ClientAssumption DEF ExitProcess, IndInv
<1>2. /\ phase' \in [Threads -> {"unborn", "running", "exited", "exiting"}]
      /\ phase'[Main] = "exiting" /\ \A u \in Threads : u # Main => phase'[u] = phase[u]
  BY <1>1 DEF TypeOK
<1>3. \A t \in Threads : stack[t] = << >> /\ state_[t] = Null
  BY <1>1 DEF ThreadsOK, ThreadFits
<1>4. Kept
  BY <1>1, GrownBySame DEF Grown
<1>5. ThreadsOK'
  <2>1. ASSUME NEW u \in Threads
        PROVE  Shape(stack'[u]) /\ FramesFit(u)' /\ ThreadFits(u)'
    <3>1. stack'[u] = << >> /\ Range(stack'[u]) = {}
      BY <1>1, <1>3 DEF Range
    <3>2. Shape(stack'[u]) /\ FramesFit(u)'
      BY <3>1 DEF Shape, FramesFit
    <3>3. ThreadFits(u)
      BY <1>1 DEF ThreadsOK
    <3>4. ThreadFits(u)'
      BY <1>1, <1>2, <1>3, <3>1, <3>3 DEF ThreadFits
    <3> QED
      BY <3>2, <3>4
  <2> QED
    BY <2>1 DEF ThreadsOK
<1>6. OwnersOK'
  <2>1. Swept' = {} /\ Swept = {}
    BY <1>1, <1>2, <1>3 DEF Swept, SweptIn
  <2>2. Grown
    BY <1>1, GrownBySame
  <2> QED
    BY <1>1, <2>1, <2>2, OwnersStay
<1>7. TypeOK'
  BY <1>1, <1>2 DEF TypeOK
<1>8. Doomed' = Doomed
  BY <1>1 DEF Doomed
<1>9. ClaimsOK' /\ Routed' /\ ClaimsAreThere' /\ StatesOK' /\ Keeps
  BY <1>1, <1>2, <1>8, DataStays
<1> QED
  BY <1>5, <1>6, <1>7, <1>9 DEF IndInv

(* The next state is taken to be deleted.                                  *)
LEMMA DeleteStateOK ==
  ASSUME IndInv, DeleteState
  PROVE  IndInv' /\ Keeps
<1>1. PICK p \in Threads :
        /\ free_pools[p] # << >>
        /\ Push(Main, Sweep(Head(free_pools[p]), 0, 0, Len(ps[Head(free_pools[p])].pools)))
        /\ free_pools' = [free_pools EXCEPT ![p] = Tail(@)]
  BY DEF DeleteState
<1> DEFINE s == Head(free_pools[p])
           f == Sweep(s, 0, 0, Len(ps[s].pools))
           new == <<f>> \o stack[Main]
<1>2. /\ phase[Main] = "exiting" /\ stack[Main] = << >> /\ Main \in Threads
      /\ UNCHANGED <<client, phase, state_, ps, queue, live, lost, fault>>
      /\ TypeOK /\ ThreadsOK /\ OwnersOK /\ StatesOK
  BY ClientAssumption DEF DeleteState, IndInv
<1>3. /\ s \in Offered(p) /\ s \in Threads
      /\ free_pools' \in [Threads -> Seq(Threads)]
      /\ \A q \in Threads : NoRepeat(free_pools'[q])
      /\ \A q \in Threads : Offered(q)' = Offered(q) \ {s}
  BY <1>1, <1>2, TakeOffer
<1>4. ps[s] # Null
  BY <1>2, <1>3 DEF OwnersOK
<1>5. Len(ps[s].pools) \in 1 .. MaxPools
  <2>1. Len(ps[s].pools) \in Nat /\ Len(ps[s].pools) <= MaxPools /\ 0 \in PoolIds(ps[s])
    BY <1>2, <1>3, <1>4, StateIs
  <2> QED
    BY <2>1, ClientAssumption DEF PoolIds
<1>6. f \in Frame /\ f.op = "sweep" /\ f.s = s /\ f.i = 0 /\ f.n = Len(ps[s].pools)
  <2>1. 0 \in 0 .. MaxPools - 1 /\ 0 \in 0 .. NumBlocks
    BY ClientAssumption, LayoutAssumption
  <2> QED
    BY <1>3, <1>5, <2>1 DEF Frame, Sweep
<1>7. stack' = [stack EXCEPT ![Main] = new]
  BY <1>1 DEF Push
<1> HIDE DEF f
<1>8. /\ stack[Main] \in Seq(Frame)
      /\ new \in Seq(Frame) /\ new # << >> /\ Head(new) = f
      /\ DtorsIn(new) = DtorsIn(stack[Main])
      /\ SweptIn(new) = SweptIn(stack[Main]) \union {s}
      /\ OnceEach(stack[Main]) => OnceEach(new)
      /\ Shape(new)
      /\ Range(new) \subseteq Range(stack[Main]) \union {f}
  <2>1. stack[Main] \in Seq(Frame)
    BY <1>2 DEF TypeOK
  <2>2. f.op # "dtor"
    BY <1>6
  <2>3. /\ new \in Seq(Frame) /\ new # << >> /\ Head(new) = f
        /\ Range(new) \subseteq Range(stack[Main]) \union {f}
    BY <1>6, <2>1, PushIs, PushRange
  <2>4. /\ DtorsIn(new) = DtorsIn(stack[Main])
        /\ SweptIn(new) = SweptIn(stack[Main]) \union (IF f.op = "sweep" THEN {f.s} ELSE {})
        /\ OnceEach(stack[Main]) => OnceEach(new)
        /\ stack[Main] = << >> => Shape(new)
    BY <1>6, <2>1, <2>2, PushOther
  <2> QED
    BY <1>2, <1>6, <2>1, <2>3, <2>4
<1> HIDE DEF s, new
<1>9. /\ Doomed' = Doomed /\ stack'[Main] = new
      /\ \A u \in Threads : u # Main => stack'[u] = stack[u]
  BY <1>2, <1>7, <1>8, DoomedStep
<1>10. Kept
  BY <1>2, GrownBySame DEF Grown
<1>11. ThreadsOK'
  <2>1. ASSUME NEW u \in Threads, u # Main
        PROVE  Shape(stack'[u]) /\ FramesFit(u)' /\ ThreadFits(u)'
    <3>1. phase[u] # "running"
      BY <1>2 DEF ThreadsOK, ThreadFits
    <3> QED
      BY <1>2, <1>9, <1>10, <2>1, <3>1, OthersStay
  <2>2. FramesFit(Main)'
    <3>1. Range(stack[Main]) = {}
      BY <1>2 DEF Range
    <3>2. FrameFits(f, phase'[Main], state_'[Main], ps')
      BY <1>2, <1>4, <1>5, <1>6 DEF FrameFits
    <3> QED
      BY <1>8, <1>9, <3>1, <3>2 DEF FramesFit
  <2>3. ThreadFits(Main)'
    BY <1>2, <1>9 DEF ThreadsOK, ThreadFits
  <2> QED
    BY <1>8, <1>9, <2>1, <2>2, <2>3 DEF ThreadsOK
<1>12. OwnersOK'
  <2>1. Swept' = Swept \union {s}
    BY <1>2, <1>8, <1>9 DEF Swept
  <2>2. Does("nomem")' <=> Does("nomem")
    BY <1>2 DEF Does
  <2>3. /\ \A u, v \in Threads : u # v /\ state_'[u] # Null => state_'[u] # state_'[v]
        /\ \A q, r \in Threads : q # r => Offered(q)' \intersect Offered(r)' = {}
    BY <1>2, <1>3 DEF OwnersOK
  <2>4. \A u, q \in Threads : state_'[u] \notin Offered(q)'
    BY <1>2, <1>3 DEF OwnersOK
  <2>5. \A q \in Threads : \A r \in Offered(q)' : ps'[r] # Null /\ r \notin Swept'
    BY <1>2, <1>3, <2>1 DEF OwnersOK
  <2>6. ~Does("nomem") =>
         \A r \in States' : \/ \E u \in Threads : state_'[u] = r
                            \/ \E q \in Threads : r \in Offered(q)'
                            \/ r \in Swept'
    <3>1. States' = States
      BY <1>2 DEF States
    <3> QED
      BY <1>2, <1>3, <2>1, <3>1 DEF OwnersOK
  <2> QED
    BY <1>3, <2>2, <2>3, <2>4, <2>5, <2>6 DEF OwnersOK
<1>13. TypeOK'
  BY <1>2, <1>3, <1>7, <1>8 DEF TypeOK
<1>14. ClaimsOK' /\ Routed' /\ ClaimsAreThere' /\ StatesOK' /\ Keeps
  <2>1. \A u \in Threads : OnceEach(stack[u]) => OnceEach(stack'[u])
    BY <1>8, <1>9
  <2> QED
    BY <1>2, <1>9, <2>1, DataStays
<1> QED
  BY <1>11, <1>12, <1>13, <1>14 DEF IndInv

-----------------------------------------------------------------------------
(* A thread comes by a state.                                              *)

(* The client's bounds.                                                    *)
LEMMA ClientIs ==
  ASSUME TypeOK
  PROVE  client.pools \in 1 .. MaxPools /\ MaxPools \in Nat \ {0}
  BY ClientAssumption DEF TypeOK

(* A pool is added, whose blocks nobody claims.                            *)
LEMMA PoolAdded ==
  ASSUME IndInv, NEW s \in Threads, ps[s] # Null, phase[Main] # "exiting",
         NEW st, PoolStateOK(st, s, PoolNames, MaxPools, Claimed), st.pools = ps[s].pools,
         Len(st.pools) < client.pools
  PROVE  /\ PoolStateOK(AddNewPool(st), s, PoolNames, MaxPools, Claimed)
         /\ Len(AddNewPool(st).pools) = Len(ps[s].pools) + 1
         /\ AddNewPool(st).next_pool = Len(ps[s].pools)
         /\ HasFreeBlock(AddNewPool(st), Len(ps[s].pools))
<1> DEFINE n == Len(st.pools)
<1>1. n \in Nat /\ Len(ps[s].pools) = n
  BY StateIs DEF IndInv
<1>2. n < MaxPools /\ MaxPools \in Nat
  BY <1>1, ClientIs DEF IndInv
<1>3. <<s, n>> \in PoolNames
  BY <1>1, <1>2 DEF PoolNames
<1>4. ASSUME NEW b \in Blocks, <<s, n, b>> \in Claimed
      PROVE  FALSE
  <2>1. n \in PoolIds(ps[s])
    BY <1>4 DEF IndInv, ClaimsAreThere, IsThere
  <2> QED
    BY <1>1, <2>1 DEF PoolIds
<1>5. \A b \in Blocks : <<s, Len(st.pools), b>> \notin Claimed
  BY <1>4
<1>6. MaxPools \in Nat /\ Len(st.pools) < MaxPools /\ <<s, Len(st.pools)>> \in PoolNames
  BY <1>2, <1>3
<1>7. /\ PoolStateOK(AddNewPool(st), s, PoolNames, MaxPools, Claimed)
      /\ Len(AddNewPool(st).pools) = Len(st.pools) + 1
      /\ AddNewPool(st).next_pool = Len(st.pools)
      /\ HasFreeBlock(AddNewPool(st), Len(st.pools))
  BY <1>5, <1>6, AddNewPoolOK
<1> QED
  BY <1>7

(* The invariant of the data when one state's value changes, the claims do *)
(* not.                                                                    *)
LEMMA OneStateStays ==
  ASSUME IndInv, NEW s \in Threads, NEW new, ps' = [ps EXCEPT ![s] = new],
         PoolStateOK(new, s, PoolNames, MaxPools, Claimed),
         ps[s] # Null => Len(ps[s].pools) <= Len(new.pools),
         UNCHANGED <<queue, live, lost>>, Doomed' = Doomed,
         fault' = "none" =>
           /\ fault = "none"
           /\ \A t \in Threads : OnceEach(stack[t]) => OnceEach(stack'[t]),
         phase'[Main] # "exiting" => phase[Main] # "exiting"
  PROVE  /\ ClaimsOK' /\ Routed' /\ ClaimsAreThere' /\ StatesOK' /\ Kept /\ Keeps
         /\ ps[s] # Null => Grown
         /\ States' = States \union {s}
         /\ ps' \in [Threads -> PoolStateRecord(PoolNames, MaxPools) \union {Null}]
<1>1. TypeOK /\ ClaimsOK /\ Routed /\ ClaimsAreThere /\ StatesOK
  BY DEF IndInv
<1>2. ClaimsOK' /\ Routed' /\ Claimed' = Claimed /\ Keeps
  BY <1>1, ClaimsStay
<1>3. PoolStateOK(new, s, PoolNames, MaxPools, Claimed')
  BY <1>2
<1>4. \A y \in Objects : y[1] # s => (y \in Claimed' <=> y \in Claimed)
  BY <1>2
<1>5. /\ StatesOK' /\ Kept /\ (ps[s] # Null => Grown)
      /\ States' = States \union {s}
      /\ ps' \in [Threads -> PoolStateRecord(PoolNames, MaxPools) \union {Null}]
  BY <1>1, <1>3, <1>4, OneState
<1>6. ClaimsAreThere'
  BY <1>1, <1>2, <1>5, ClaimsStayThere
<1> QED
  BY <1>2, <1>5, <1>6

(* A thread that begins finds its state.                                   *)
LEMMA ThreadBegins ==
  ASSUME IndInv, NEW t \in Threads, stack[t] # << >>, Head(stack[t]).op = "init",
         NEW s \in Threads, state_' = [state_ EXCEPT ![t] = s], Pop(t),
         UNCHANGED <<client, phase, queue, live, lost, fault>>,
         Kept, ps'[s] # Null, \A u \in Threads : u # t /\ ps'[u] # Null => ps[u] # Null,
         \A u \in Threads : state_[u] # s,
         free_pools' \in [Threads -> Seq(Threads)],
         \A p \in Threads : NoRepeat(free_pools'[p]),
         \A p \in Threads : Offered(p)' = Offered(p) \ {s},
         States' = States \union {s},
         ps' \in [Threads -> PoolStateRecord(PoolNames, MaxPools) \union {Null}]
  PROVE  TypeOK' /\ ThreadsOK' /\ OwnersOK'
<1>1. /\ stack' \in [Threads -> Seq(Frame)]
      /\ stack'[t] = << >>
      /\ \A u \in Threads : u # t => stack'[u] = stack[u]
  BY LastCall
<1>2. TypeOK /\ ThreadsOK /\ OwnersOK /\ StatesOK
  BY DEF IndInv
<1>3. /\ phase[t] = "running" /\ state_[t] = Null /\ phase[Main] # "exiting"
  BY <1>2, InCall DEF ThreadsOK, ThreadFits, FrameFits
<1>4. /\ state_'[t] = s /\ \A u \in Threads : u # t => state_'[u] = state_[u]
      /\ state_' \in [Threads -> Threads \union {Null}]
      /\ s # Null
  BY <1>2, NullAssumption DEF TypeOK
<1>5. ThreadsOK'
  <2>1. ASSUME NEW u \in Threads, u # t
        PROVE  Shape(stack'[u]) /\ FramesFit(u)' /\ ThreadFits(u)'
    BY <1>1, <1>2, <1>3, <1>4, <2>1, OthersStay
  <2>2. stack'[t] = << >> /\ Range(stack'[t]) = {}
    BY <1>1 DEF Range
  <2>3. Shape(stack'[t]) /\ FramesFit(t)'
    BY <2>2 DEF Shape, FramesFit
  <2>4. ThreadFits(t)'
    BY <1>3, <1>4, <2>2 DEF ThreadFits
  <2> QED
    BY <2>1, <2>3, <2>4 DEF ThreadsOK
<1>6. OwnersOK'
  <2>1. Swept' = {} /\ Swept = {}
    BY <1>3 DEF Swept
  <2>2. Does("nomem")' <=> Does("nomem")
    BY DEF Does
  <2>3. \A u, v \in Threads : u # v /\ state_'[u] # Null => state_'[u] # state_'[v]
    BY <1>2, <1>4 DEF OwnersOK
  <2>4. \A q, r \in Threads : q # r => Offered(q)' \intersect Offered(r)' = {}
    BY <1>2 DEF OwnersOK
  <2>5. \A u, q \in Threads : state_'[u] \notin Offered(q)'
    BY <1>2, <1>4 DEF OwnersOK
  <2>6. \A q \in Threads : \A r \in Offered(q)' : ps'[r] # Null
    <3>1. \A q \in Threads : \A r \in Offered(q)' : r \in Threads /\ ps[r] # Null
      <4>1. \A q \in Threads : Offered(q)' \subseteq Threads
        BY RangeOfSeq DEF Offered
      <4> QED
        BY <1>2, <4>1 DEF OwnersOK
    <3> QED
      BY <3>1 DEF Kept
  <2>7. ~Does("nomem") =>
         \A r \in States' : (\E u \in Threads : state_'[u] = r) \/ (\E q \in Threads : r \in Offered(q)')
    <3>1. ASSUME ~Does("nomem"), NEW r \in States, r # s
          PROVE  (\E u \in Threads : state_'[u] = r) \/ (\E q \in Threads : r \in Offered(q)')
      <4>1. (\E u \in Threads : state_[u] = r) \/ (\E q \in Threads : r \in Offered(q))
        BY <1>2, <2>1, <3>1 DEF OwnersOK
      <4>2. r # Null
        BY NullAssumption DEF States
      <4> QED
        BY <1>3, <1>4, <3>1, <4>1, <4>2
    <3> QED
      BY <1>4, <3>1
  <2> QED
    BY <2>1, <2>2, <2>3, <2>4, <2>5, <2>6, <2>7 DEF OwnersOK
<1>7. TypeOK'
  BY <1>1, <1>2, <1>4 DEF TypeOK
<1> QED
  BY <1>5, <1>6, <1>7

(* Init adopts a state from free_pools_.                                   *)
LEMMA TakeFreePoolOK ==
  ASSUME IndInv, NEW t \in Threads, TakeFreePool(t)
  PROVE  IndInv' /\ Keeps
<1>1. stack[t] # << >> /\ Head(stack[t]).op = "init" /\ fault = "none"
  BY AtIs DEF TakeFreePool
<1>2. PICK p \in Threads :
        /\ free_pools[p] # << >>
        /\ state_' = [state_ EXCEPT ![t] = Head(free_pools[p])]
        /\ \/ UNCHANGED ps
           \/ /\ Len(ps[Head(free_pools[p])].pools) < client.pools
              /\ ps' = [ps EXCEPT ![Head(free_pools[p])] = AddNewPool(@)]
        /\ free_pools' = [free_pools EXCEPT ![p] = Tail(@)]
  BY DEF TakeFreePool
<1>3. Pop(t) /\ UNCHANGED <<client, phase, queue, live, lost, fault>>
  BY DEF TakeFreePool
<1> DEFINE s == Head(free_pools[p])
<1>4. TypeOK /\ ThreadsOK /\ OwnersOK /\ StatesOK
  BY DEF IndInv
<1>5. /\ s \in Offered(p) /\ s \in Threads
      /\ free_pools' \in [Threads -> Seq(Threads)]
      /\ \A q \in Threads : NoRepeat(free_pools'[q])
      /\ \A q \in Threads : Offered(q)' = Offered(q) \ {s}
  BY <1>2, <1>4, TakeOffer
<1>6. ps[s] # Null /\ \A u \in Threads : state_[u] # s
  BY <1>4, <1>5 DEF OwnersOK
<1>7. phase[Main] # "exiting"
  BY <1>1, InCall DEF FrameFits
<1>8. PoolStateOK(ps[s], s, PoolNames, MaxPools, Claimed) /\ Len(ps[s].pools) \in Nat
  BY <1>4, <1>5, <1>6, StateIs
<1>9. /\ \/ UNCHANGED ps
          \/ /\ Len(ps[s].pools) < client.pools
             /\ ps' = [ps EXCEPT ![s] = AddNewPool(@)]
       /\ state_' = [state_ EXCEPT ![t] = s]
  BY <1>2
<1> HIDE DEF s
<1> DEFINE add == AddNewPool(ps[s])
<1>10. PICK new : /\ ps' = [ps EXCEPT ![s] = new]
                 /\ PoolStateOK(new, s, PoolNames, MaxPools, Claimed)
                 /\ Len(ps[s].pools) <= Len(new.pools)
  <2>1. CASE UNCHANGED ps
    <3>1. ps' = [ps EXCEPT ![s] = ps[s]]
      BY <1>4, <1>5, <2>1 DEF TypeOK
    <3>2. Len(ps[s].pools) <= Len(ps[s].pools)
      BY <1>8
    <3> QED
      BY <1>8, <3>1, <3>2
  <2>2. CASE /\ Len(ps[s].pools) < client.pools
             /\ ps' = [ps EXCEPT ![s] = AddNewPool(@)]
    <3>1. /\ PoolStateOK(add, s, PoolNames, MaxPools, Claimed)
          /\ Len(add.pools) = Len(ps[s].pools) + 1
      BY <1>5, <1>6, <1>7, <1>8, <2>2, PoolAdded
    <3>2. ps' = [ps EXCEPT ![s] = add]
      BY <2>2
    <3> HIDE DEF add
    <3>3. Len(ps[s].pools) <= Len(add.pools)
      BY <1>8, <3>1
    <3> QED
      BY <3>1, <3>2, <3>3
  <2> QED
    BY <1>9, <2>1, <2>2
<1>11. /\ Doomed' = Doomed
       /\ \A u \in Threads : OnceEach(stack[u]) => OnceEach(stack'[u])
  BY <1>1, <1>3, LastCall
<1>12. /\ ClaimsOK' /\ Routed' /\ ClaimsAreThere' /\ StatesOK' /\ Kept /\ Keeps
       /\ Grown
       /\ States' = States \union {s}
       /\ ps' \in [Threads -> PoolStateRecord(PoolNames, MaxPools) \union {Null}]
  BY <1>3, <1>5, <1>6, <1>10, <1>11, OneStateStays
<1>13. ps'[s] # Null /\ \A u \in Threads : ps'[u] # Null => ps[u] # Null
  BY <1>5, <1>6, <1>12 DEF Grown
<1>14. TypeOK' /\ ThreadsOK' /\ OwnersOK'
  <2>1. state_' = [state_ EXCEPT ![t] = s]
    BY <1>9
  <2> QED
    BY <1>1, <1>3, <1>5, <1>6, <1>12, <1>13, <2>1, ThreadBegins
<1> QED
  BY <1>12, <1>14 DEF IndInv

(* Init finds none and makes one.                                          *)
LEMMA CreatePoolStateOK ==
  ASSUME IndInv, NEW t \in Threads, CreatePoolState(t)
  PROVE  IndInv' /\ Keeps
<1>1. stack[t] # << >> /\ Head(stack[t]).op = "init" /\ fault = "none"
  BY AtIs DEF CreatePoolState
<1>2. /\ ps' = [ps EXCEPT ![t] = FreshPoolState]
      /\ state_' = [state_ EXCEPT ![t] = t]
      /\ Pop(t)
      /\ UNCHANGED <<client, phase, queue, free_pools, live, lost, fault>>
  BY DEF CreatePoolState
<1>3. TypeOK /\ ThreadsOK /\ OwnersOK /\ StatesOK /\ ClaimsAreThere
  BY DEF IndInv
<1>4. phase[t] = "running" /\ state_[t] = Null /\ phase[Main] # "exiting" /\ ps[t] = Null
  BY <1>1, <1>3, InCall DEF FrameFits, ThreadsOK, ThreadFits
<1>5. PoolStateOK(FreshPoolState, t, PoolNames, MaxPools, Claimed)
  <2>1. MaxPools \in Nat \ {0} /\ <<t, 0>> \in PoolNames
    BY ClientAssumption DEF PoolNames
  <2>2. \A b \in Blocks : <<t, 0, b>> \notin Claimed
    BY <1>3, <1>4 DEF ClaimsAreThere, IsThere
  <2> QED
    BY <2>1, <2>2, FreshPoolStateOK
<1>6. /\ Doomed' = Doomed
      /\ \A u \in Threads : OnceEach(stack[u]) => OnceEach(stack'[u])
  BY <1>1, <1>2, LastCall
<1>7. /\ ClaimsOK' /\ Routed' /\ ClaimsAreThere' /\ StatesOK' /\ Kept /\ Keeps
      /\ States' = States \union {t}
      /\ ps' \in [Threads -> PoolStateRecord(PoolNames, MaxPools) \union {Null}]
  BY <1>2, <1>4, <1>5, <1>6, OneStateStays
<1>8. ps'[t] # Null /\ \A u \in Threads : u # t => ps'[u] = ps[u]
  <2>1. FreshPoolState # Null
    BY <1>5, NullAssumption DEF PoolStateOK
  <2> QED
    BY <1>2, <1>3, <2>1 DEF TypeOK
<1>9. \A u \in Threads : state_[u] # t
  BY <1>3, <1>4, NullAssumption DEF ThreadsOK, ThreadFits
<1>10. /\ free_pools' \in [Threads -> Seq(Threads)]
       /\ \A p \in Threads : NoRepeat(free_pools'[p])
       /\ \A p \in Threads : Offered(p)' = Offered(p) \ {t}
  BY <1>2, <1>3, <1>4 DEF TypeOK, OwnersOK, Offered
<1>11. TypeOK' /\ ThreadsOK' /\ OwnersOK'
  BY <1>1, <1>2, <1>7, <1>8, <1>9, <1>10, ThreadBegins
<1> QED
  BY <1>7, <1>11 DEF IndInv

-----------------------------------------------------------------------------
(* Clear and DeleteState, from pool to pool.                               *)

(* Clear resets the link of one pool.                                      *)
LEMMA Relinked ==
  ASSUME IndInv, NEW s \in Threads, ps[s] # Null, NEW i \in PoolIds(ps[s]), Relink(s, i)
  PROVE  \E new : /\ ps' = [ps EXCEPT ![s] = new]
                  /\ PoolStateOK(new, s, PoolNames, MaxPools, Claimed)
                  /\ Len(ps[s].pools) <= Len(new.pools)
<1>1. PoolStateOK(ps[s], s, PoolNames, MaxPools, Claimed) /\ Len(ps[s].pools) \in Nat /\ MaxPools \in Nat
  BY StateIs, ClientIs DEF IndInv
<1>2. CASE phase[Main] = "exiting"
  <2>1. ps' = [ps EXCEPT ![s] = ps[s]]
    BY <1>2 DEF Relink, IndInv, TypeOK
  <2>2. Len(ps[s].pools) <= Len(ps[s].pools)
    BY <1>1
  <2> QED
    BY <1>1, <2>1, <2>2
<1>3. CASE phase[Main] # "exiting"
  <2> DEFINE new == [ps[s] EXCEPT !.pools[i + 1].next_id = i + 1]
  <2>1. ps' = [ps EXCEPT ![s] = new]
    BY <1>3 DEF Relink
  <2>2. /\ PoolStateOK(new, s, PoolNames, MaxPools, Claimed)
        /\ Len(new.pools) = Len(ps[s].pools)
    BY <1>1, RelinkOK
  <2> HIDE DEF new
  <2>3. Len(ps[s].pools) <= Len(new.pools)
    BY <1>1, <2>2
  <2> QED
    BY <2>1, <2>2, <2>3
<1> QED
  BY <1>2, <1>3

(* The next step of a sweep.                                               *)
LEMMA Sweeps ==
  ASSUME IndInv, NEW t \in Threads, stack[t] # << >>,
         Head(stack[t]).op = "sweep" \/ (Head(stack[t]).op = "consume" /\ Head(stack[t]).then = "clear"),
         NEW f \in Frame, f.op = "sweep",
         Head(stack[t]).op = "sweep" => f.s = Head(stack[t]).s,
         FrameFits(f, phase[t], state_[t], ps),
         stack' = [stack EXCEPT ![t] = <<f>> \o Tail(@)],
         Relink(f.s, f.i),
         UNCHANGED <<client, phase, state_, queue, free_pools, live, lost, fault>>
  PROVE  IndInv' /\ Keeps
<1>1. /\ stack[t] \in Seq(Frame) /\ Shape(stack[t]) /\ phase[t] \in {"running", "exiting"}
      /\ FrameFits(Head(stack[t]), phase[t], state_[t], ps)
      /\ phase[t] = "running" /\ Head(stack[t]).op # "init" => state_[t] # Null
      /\ state_[t] # Null => phase[t] = "running"
      /\ Tail(stack[t]) \in Seq(Frame) /\ TypeOK
  BY InCall DEF IndInv
<1>2. /\ DtorsIn(Tail(stack[t])) = DtorsIn(stack[t])
      /\ SweptIn(stack[t]) = SweptIn(Tail(stack[t])) \union
                               (IF Head(stack[t]).op = "sweep" THEN {Head(stack[t]).s} ELSE {})
      /\ OnceEach(stack[t]) => OnceEach(Tail(stack[t]))
      /\ Tail(stack[t]) = << >>
      /\ Range(Tail(stack[t])) \subseteq Range(stack[t])
  BY <1>1, PopOther
<1> DEFINE new == <<f>> \o Tail(stack[t])
<1>3. /\ new \in Seq(Frame)
      /\ DtorsIn(new) = DtorsIn(stack[t])
      /\ SweptIn(new) = SweptIn(Tail(stack[t])) \union {f.s}
      /\ OnceEach(stack[t]) => OnceEach(new)
      /\ Shape(new)
      /\ Range(new) \subseteq Range(stack[t]) \union {f}
  BY <1>1, <1>2, PushIs, PushOther, PushRange
<1>4. stack' = [stack EXCEPT ![t] = new]
  OBVIOUS
<1> HIDE DEF new
<1>5. SweptIn(new) = SweptIn(stack[t]) \/ phase[t] # "exiting"
  <2>1. CASE Head(stack[t]).op = "sweep"
    BY <1>2, <1>3, <2>1
  <2>2. CASE Head(stack[t]).op = "consume"
    BY <1>1, <2>2 DEF FrameFits
  <2> QED
    BY <2>1, <2>2
<1>6. \A g \in Range(new) : g \in Range(stack[t]) \/ FrameFits(g, phase[t], state_[t], ps)
  BY <1>3
<1>7. /\ Doomed' = Doomed /\ stack'[t] = new
      /\ \A u \in Threads : u # t => stack'[u] = stack[u]
  BY <1>1, <1>3, <1>4, DoomedStep
<1>8. \A u \in Threads : OnceEach(stack[u]) => OnceEach(stack'[u])
  BY <1>3, <1>7
<1>9. f.s \in Threads /\ ps[f.s] # Null /\ f.i \in PoolIds(ps[f.s])
  <2>1. f.s \in Threads /\ f.i \in Nat /\ f.n \in Nat /\ f.i < f.n
        /\ f.n <= Len(ps[f.s].pools) /\ ps[f.s] # Null
    BY FrameIs, ClientIs, <1>1 DEF FrameFits
  <2>2. Len(ps[f.s].pools) \in Nat
    BY <2>1, StateIs DEF IndInv
  <2> QED
    BY <2>1, <2>2 DEF PoolIds
<1>10. PICK st : /\ ps' = [ps EXCEPT ![f.s] = st]
                 /\ PoolStateOK(st, f.s, PoolNames, MaxPools, Claimed)
                 /\ Len(ps[f.s].pools) <= Len(st.pools)
  BY <1>9, Relinked
<1>11. PICK s \in Threads : s = f.s
  BY <1>9
<1>12. /\ ClaimsOK' /\ Routed' /\ ClaimsAreThere' /\ StatesOK' /\ Grown /\ Keeps
       /\ ps' \in [Threads -> PoolStateRecord(PoolNames, MaxPools) \union {Null}]
  <2>1. ps' = [ps EXCEPT ![s] = st]
    BY <1>10, <1>11
  <2>2. PoolStateOK(st, s, PoolNames, MaxPools, Claimed)
    BY <1>10, <1>11
  <2>3. ps[s] # Null /\ Len(ps[s].pools) <= Len(st.pools)
    BY <1>9, <1>10, <1>11
  <2> QED
    BY <1>7, <1>8, <2>1, <2>2, <2>3, OneStateStays
<1>13. phase[t] = "running" /\ state_[t] = Null => new # << >> /\ Head(new).op = "init"
  BY <1>1
<1>14. /\ queue' \in [Threads -> [Threads -> Seq(Objects)]]
       /\ live' \subseteq Objects /\ lost' \subseteq Objects
       /\ fault' \in {"none", "out of range", "full pool", "no object"}
  BY <1>1 DEF TypeOK
<1> QED
  BY <1>1, <1>3, <1>4, <1>5, <1>6, <1>12, <1>13, <1>14, CallStep

(* Clear begins to sweep.                                                  *)
LEMMA StartSweepOK ==
  ASSUME IndInv, NEW t \in Threads, StartSweep(t)
  PROVE  IndInv' /\ Keeps
<1>1. stack[t] # << >> /\ Head(stack[t]).op = "consume" /\ Head(stack[t]).then = "clear"
  BY AtIs DEF StartSweep, Consumed
<1>2. /\ FrameFits(Head(stack[t]), phase[t], state_[t], ps)
      /\ state_[t] \in Threads \union {Null}
  BY <1>1, InCall
<1>3. PICK s \in Threads : s = state_[t] /\ ps[s] # Null
  BY <1>1, <1>2 DEF FrameFits
<1>4. Len(ps[s].pools) \in 1 .. MaxPools
  <2>1. Len(ps[s].pools) \in Nat /\ Len(ps[s].pools) <= MaxPools /\ 0 \in PoolIds(ps[s])
    BY <1>3, StateIs DEF IndInv
  <2> QED
    BY <2>1, ClientAssumption DEF PoolIds
<1> DEFINE f == Sweep(s, 0, 0, Len(ps[s].pools))
<1>5. f \in Frame /\ f.op = "sweep" /\ f.s = s /\ f.i = 0 /\ f.n = Len(ps[s].pools)
  <2>1. 0 \in 0 .. MaxPools - 1 /\ 0 \in 0 .. NumBlocks
    BY ClientAssumption, LayoutAssumption
  <2> QED
    BY <1>3, <1>4, <2>1 DEF Frame, Sweep
<1>6. /\ stack' = [stack EXCEPT ![t] = <<f>> \o Tail(@)]
      /\ Relink(s, 0)
      /\ UNCHANGED <<client, phase, state_, queue, free_pools, live, lost, fault>>
  BY <1>3 DEF StartSweep, Replace
<1> HIDE DEF f
<1>7. FrameFits(f, phase[t], state_[t], ps)
  BY <1>3, <1>4, <1>5 DEF FrameFits
<1>8. Relink(f.s, f.i)
  BY <1>5, <1>6
<1> QED
  BY <1>1, <1>5, <1>6, <1>7, <1>8, Sweeps

(* Clear, or the deletion of a state, comes to the next pool.              *)
LEMMA SweepNextPoolOK ==
  ASSUME IndInv, NEW t \in Threads, SweepNextPool(t)
  PROVE  IndInv' /\ Keeps
<1> DEFINE h == Head(stack[t])
           f == [h EXCEPT !.i = @ + 1, !.b = 0]
           F == [op : {"sweep"}, s : Threads, i : 0 .. MaxPools - 1, b : 0 .. NumBlocks,
                 n : 1 .. MaxPools]
<1>1. stack[t] # << >> /\ h.op = "sweep" /\ h \in Frame
  BY AtIs DEF SweepNextPool
<1>2. FrameFits(h, phase[t], state_[t], ps)
  BY <1>1, InCall
<1>3. h \in F
  BY <1>1 DEF Frame
<1>4. /\ h.i + 1 < h.n
      /\ stack' = [stack EXCEPT ![t] = <<f>> \o Tail(@)]
      /\ Relink(h.s, h.i + 1)
      /\ UNCHANGED <<client, phase, state_, queue, free_pools, live, lost, fault>>
  BY DEF SweepNextPool, Replace
<1>5. h.i \in Nat /\ h.n \in Nat /\ h.n <= MaxPools /\ MaxPools \in Nat /\ h.i + 1 \in 0 .. MaxPools - 1
      /\ 0 \in 0 .. NumBlocks
  BY <1>3, <1>4, ClientAssumption, LayoutAssumption
<1> HIDE DEF h
<1>6. f \in F /\ f.s = h.s /\ f.i = h.i + 1 /\ f.n = h.n /\ f.op = "sweep"
  BY <1>3, <1>5
<1>7. f \in Frame
  BY <1>6 DEF Frame
<1> HIDE DEF f
<1>8. FrameFits(f, phase[t], state_[t], ps)
  BY <1>1, <1>2, <1>4, <1>6 DEF FrameFits
<1>9. Relink(f.s, f.i)
  BY <1>4, <1>6
<1>10. Head(stack[t]).op = "sweep" /\ f.s = Head(stack[t]).s
  BY <1>1, <1>6 DEF h
<1> QED
  BY <1>1, <1>4, <1>6, <1>7, <1>8, <1>9, <1>10, Sweeps

(* The sweep is over.                                                      *)
LEMMA EndSweepOK ==
  ASSUME IndInv, NEW t \in Threads, EndSweep(t)
  PROVE  IndInv' /\ Keeps
<1>1. stack[t] # << >> /\ Head(stack[t]).op = "sweep" /\ Head(stack[t]) \in Frame
  BY AtIs DEF EndSweep
<1>2. /\ Pop(t)
      /\ ps' = IF phase[Main] = "exiting"
               THEN [ps EXCEPT ![Head(stack[t]).s] = Null] ELSE ps
      /\ UNCHANGED <<client, phase, state_, queue, free_pools, live, lost, fault>>
  BY DEF EndSweep
<1>3. /\ stack' \in [Threads -> Seq(Frame)]
      /\ stack'[t] = << >>
      /\ \A u \in Threads : u # t => stack'[u] = stack[u]
      /\ Doomed' = Doomed
      /\ \A u \in Threads : OnceEach(stack[u]) => OnceEach(stack'[u])
      /\ SweptIn(stack[t]) = {Head(stack[t]).s}
  BY <1>1, <1>2, LastCall
<1>4. /\ FrameFits(Head(stack[t]), phase[t], state_[t], ps)
      /\ phase[t] \in {"running", "exiting"}
      /\ phase[t] = "running" => state_[t] # Null /\ phase[Main] # "exiting"
      /\ phase[t] = "exiting" => t = Main
      /\ stack[t] \in Seq(Frame) /\ Shape(stack[t])
  BY <1>1, InCall
<1>5. TypeOK /\ ThreadsOK /\ OwnersOK /\ ClaimsOK /\ Routed /\ ClaimsAreThere /\ StatesOK
  BY DEF IndInv
<1>6. CASE phase[Main] # "exiting"
  <2>1. UNCHANGED ps /\ phase[t] = "running"
    BY <1>2, <1>4, <1>6
  <2>2. /\ ClaimsOK' /\ Routed' /\ ClaimsAreThere' /\ StatesOK' /\ Grown /\ Keeps
    BY <1>2, <1>3, <1>5, <2>1, DataStays, GrownBySame
  <2>3. Kept
    BY <2>2 DEF Grown
  <2>4. ThreadsOK'
    <3>1. ASSUME NEW u \in Threads, u # t
          PROVE  Shape(stack'[u]) /\ FramesFit(u)' /\ ThreadFits(u)'
      BY <1>2, <1>3, <1>5, <1>6, <2>1, <2>3, <3>1, OthersStay
    <3>2. stack'[t] = << >> /\ Range(stack'[t]) = {}
      BY <1>3 DEF Range
    <3>3. Shape(stack'[t]) /\ FramesFit(t)'
      BY <3>2 DEF Shape, FramesFit
    <3>4. ThreadFits(t)'
      BY <1>2, <1>4, <1>5, <2>1, <3>2 DEF ThreadsOK, ThreadFits
    <3> QED
      BY <3>1, <3>3, <3>4 DEF ThreadsOK
  <2>5. OwnersOK'
    <3>1. Swept' = Swept
      BY <1>2, <1>6 DEF Swept
    <3> QED
      BY <1>2, <1>5, <2>2, <3>1, OwnersStay
  <2>6. TypeOK'
    BY <1>2, <1>3, <1>5, <2>1 DEF TypeOK
  <2> QED
    BY <2>2, <2>4, <2>5, <2>6 DEF IndInv
<1>7. CASE phase[Main] = "exiting"
  <2>1. phase[t] = "exiting" /\ t = Main /\ Main \in Threads
    BY <1>4, <1>7
  <2>2. PICK s \in Threads : s = Head(stack[t]).s
    BY <1>1, FrameIs
  <2>3. /\ ps' = [ps EXCEPT ![s] = Null]
        /\ ps'[s] = Null /\ \A r \in Threads : r # s => ps'[r] = ps[r]
        /\ ps' \in [Threads -> PoolStateRecord(PoolNames, MaxPools) \union {Null}]
    BY <1>2, <1>5, <1>7, <2>2 DEF TypeOK
  <2>4. TypeOK'
    BY <1>2, <1>3, <1>5, <2>3 DEF TypeOK
  <2>5. \A u \in Threads : state_[u] = Null /\ phase[u] # "running" /\ (u # t => stack[u] = << >>)
    <3>1. \A u \in Threads : phase[u] # "running" /\ state_[u] = Null
      BY <1>5, <1>7 DEF ThreadsOK, ThreadFits
    <3>2. \A u \in Threads : u # t => phase[u] # "exiting"
      BY <1>5, <2>1 DEF ThreadsOK, ThreadFits
    <3> QED
      BY <1>5, <3>1, <3>2 DEF TypeOK, ThreadsOK, ThreadFits
  <2>6. ThreadsOK'
    <3>1. ASSUME NEW u \in Threads
          PROVE  Shape(stack'[u]) /\ FramesFit(u)' /\ ThreadFits(u)'
      <4>1. stack'[u] = << >> /\ Range(stack'[u]) = {}
        BY <1>3, <2>5 DEF Range
      <4>2. Shape(stack'[u]) /\ FramesFit(u)'
        BY <4>1 DEF Shape, FramesFit
      <4>3. ThreadFits(u)
        BY <1>5 DEF ThreadsOK
      <4>4. ThreadFits(u)'
        BY <1>2, <2>3, <2>5, <4>1, <4>3 DEF ThreadFits
      <4> QED
        BY <4>2, <4>4
    <3> QED
      BY <3>1 DEF ThreadsOK
  <2>7. Swept = {s} /\ Swept' = {}
    <3>1. SweptIn(<< >>) = {}
      BY DEF SweptIn
    <3> QED
      BY <1>2, <1>3, <1>7, <2>1, <2>2, <3>1 DEF Swept
  <2>8. OwnersOK'
    <3>1. Does("nomem")' <=> Does("nomem")
      BY <1>2 DEF Does
    <3>2. \A p \in Threads : Offered(p)' = Offered(p) /\ Offered(p) \subseteq Threads
      <4>1. \A p \in Threads : free_pools[p] \in Seq(Threads)
        BY <1>5 DEF TypeOK
      <4> QED
        BY <1>2, <4>1, RangeOfSeq DEF Offered
    <3>3. /\ \A u, v \in Threads : u # v /\ state_'[u] # Null => state_'[u] # state_'[v]
          /\ \A p \in Threads : NoRepeat(free_pools'[p])
      BY <1>2, <1>5 DEF OwnersOK
    <3>4. /\ \A p, q \in Threads : p # q => Offered(p)' \intersect Offered(q)' = {}
          /\ \A u, p \in Threads : state_'[u] \notin Offered(p)'
      BY <1>2, <1>5, <3>2 DEF OwnersOK
    <3>5. \A p \in Threads : \A r \in Offered(p)' : ps'[r] # Null /\ r \notin Swept'
      BY <1>5, <2>3, <2>7, <3>2 DEF OwnersOK
    <3>6. ~Does("nomem") =>
            \A r \in States' : \/ \E u \in Threads : state_'[u] = r
                               \/ \E p \in Threads : r \in Offered(p)'
                               \/ r \in Swept'
      <4>1. \A r \in States' : r \in States /\ r \notin Swept
        BY <2>3, <2>7 DEF States
      <4> QED
        BY <1>2, <1>5, <3>2, <4>1 DEF OwnersOK
    <3> QED
      BY <3>1, <3>3, <3>4, <3>5, <3>6 DEF OwnersOK
  <2>9. ClaimsOK' /\ Routed' /\ Claimed' = Claimed /\ Keeps
    BY <1>2, <1>3, <1>5, ClaimsStay
  <2>10. ClaimsAreThere'
    BY <1>2, <1>7 DEF ClaimsAreThere
  <2>11. StatesOK'
    <3>1. \A r \in States' : r \in States /\ ps'[r] = ps[r]
      BY <2>3 DEF States
    <3> QED
      BY <1>5, <2>9, <3>1 DEF StatesOK
  <2> QED
    BY <2>4, <2>6, <2>8, <2>9, <2>10, <2>11 DEF IndInv
<1> QED
  BY <1>6, <1>7

-----------------------------------------------------------------------------
(* New.                                                                    *)

(* An object is constructed, or its constructor throws.                    *)
LEMMA Constructed ==
  ASSUME IndInv, NEW t, NEW s \in Threads, ps[s] # Null, phase[Main] # "exiting",
         NEW st, PoolStateOK(st, s, PoolNames, MaxPools, Claimed),
         Len(ps[s].pools) <= Len(st.pools),
         NEW i \in PoolIds(st), HasFreeBlock(st, i), Construct(t, s, i, st),
         UNCHANGED <<queue, phase, fault>>, Doomed' = Doomed,
         \A u \in Threads : OnceEach(stack[u]) => OnceEach(stack'[u])
  PROVE  /\ ClaimsOK' /\ Routed' /\ ClaimsAreThere' /\ StatesOK' /\ Grown
         /\ ps' \in [Threads -> PoolStateRecord(PoolNames, MaxPools) \union {Null}]
         /\ live' \subseteq Objects /\ lost' \subseteq Objects
         /\ Takes
<1> DEFINE b == Inner(st, i).fp.next
           x == <<s, i, b>>
           new == AllocateIn(st, i, <<s, i>>)
<1>1. TypeOK /\ ClaimsOK /\ Routed /\ ClaimsAreThere /\ StatesOK /\ MaxPools \in Nat
  BY ClientIs DEF IndInv
<1>2. /\ b \in Blocks /\ x \notin Claimed
      /\ PoolStateOK(new, s, PoolNames, MaxPools, With(Claimed, x))
      /\ SamePools(new, st)
  <2>1. MaxPools \in Nat
    BY <1>1
  <2>2. PoolStateOK(st, s, PoolNames, MaxPools, Claimed) /\ i \in PoolIds(st)
    OBVIOUS
  <2>3. HasFreeBlock(st, i)
    OBVIOUS
  <2> QED
    BY <2>1, <2>2, <2>3, AllocateInOK
<1>3. x \in Objects
  <2>1. <<s, i>> \in PoolNames
    BY DEF PoolStateOK
  <2> QED
    BY <1>2, <2>1 DEF PoolNames, Objects
<1>4. /\ ps' = [ps EXCEPT ![s] = new]
      /\ \/ live' = With(live, x) /\ lost' = lost
         \/ lost' = With(lost, x) /\ live' = live
  BY DEF Construct, With
<1> HIDE DEF b, x, new
<1>5. PICK y \in Objects : y = x
  BY <1>3
<1>6. /\ Doomed \in Dooms /\ Asked \in Asks /\ Asked' = Asked
      /\ y \notin AllOf(live, lost, Doomed, Asked)
  BY <1>1, <1>2, <1>5, ClaimedIs DEF Claimed, Asked
<1>7. /\ Apart(live, lost, Doomed, Asked) => Apart(With(live, y), lost, Doomed, Asked)
      /\ AllOf(With(live, y), lost, Doomed, Asked) = With(Claimed, y)
      /\ Apart(live, lost, Doomed, Asked) => Apart(live, With(lost, y), Doomed, Asked)
      /\ AllOf(live, With(lost, y), Doomed, Asked) = With(Claimed, y)
  BY <1>6, FreeToLive DEF Claimed
<1>8. /\ Claimed' = With(Claimed, x)
      /\ Apart(live, lost, Doomed, Asked) => Apart(live, lost, Doomed, Asked)'
  BY <1>4, <1>5, <1>6, <1>7 DEF Claimed
<1>9. ClaimsOK' /\ Routed'
  BY <1>1, <1>8 DEF ClaimsOK, Routed
<1>10. /\ StatesOK' /\ Grown
       /\ ps' \in [Threads -> PoolStateRecord(PoolNames, MaxPools) \union {Null}]
  <2>1. PoolStateOK(new, s, PoolNames, MaxPools, Claimed')
    BY <1>2, <1>8
  <2>2. \A z \in Objects : z[1] # s => (z \in Claimed' <=> z \in Claimed)
    BY <1>8 DEF x, With
  <2>3. Len(ps[s].pools) <= Len(new.pools)
    BY <1>2 DEF SamePools
  <2> QED
    BY <1>1, <1>4, <2>1, <2>2, <2>3, OneState
<1>11. ClaimsAreThere'
  <2>1. \A z \in Claimed : IsThere(z)
    BY <1>1 DEF ClaimsAreThere
  <2>2. ASSUME NEW z \in Claimed
        PROVE  IsThere(z)'
    <3>1. z[1] \in Threads
      BY <1>1, ClaimedIs, ObjectIs
    <3> QED
      BY <2>1, <3>1, <1>10 DEF IsThere, Grown, Kept
  <2>3. IsThere(x)'
    <3>1. x[1] = s /\ x[2] = i
      BY DEF x
    <3>2. ps'[s] = new
      BY <1>1, <1>4 DEF TypeOK
    <3>3. i \in PoolIds(new)
      BY <1>2 DEF PoolIds, SamePools
    <3>4. ps'[s] # Null
      BY <1>10 DEF Grown
    <3> QED
      BY <3>1, <3>2, <3>3, <3>4 DEF IsThere
  <2> QED
    BY <1>8, <2>2, <2>3 DEF ClaimsAreThere, With
<1>12. live' \subseteq Objects /\ lost' \subseteq Objects
  BY <1>1, <1>3, <1>4 DEF TypeOK, With
<1>13. Takes
  <2>1. y \in Objects \ Claimed
    BY <1>2, <1>5
  <2>2. \/ live' = With(live, y) /\ lost' = lost
        \/ lost' = With(lost, y) /\ live' = live
    BY <1>4, <1>5
  <2>3. Doomed' = Doomed /\ Asked' = Asked
    BY <1>6
  <2> QED
    BY <2>1, <2>2, <2>3 DEF Takes
<1> QED
  BY <1>9, <1>10, <1>11, <1>12, <1>13

(* New, with a block in the active pool or not.                            *)
LEMMA NewOK ==
  ASSUME IndInv, NEW t \in Threads, New(t)
  PROVE  IndInv' /\ (Keeps \/ Takes)
<1>1. PICK s \in Threads : s = state_[t]
  BY ClientAssumption DEF New
<1>2. /\ fault = "none" /\ phase[t] = "running"
      /\ stack[t] = << >> \/ (stack[t] # << >> /\ Head(stack[t]).op = "dtor")
      /\ UNCHANGED <<client, phase, state_, queue, free_pools, fault>>
  BY DEF New, MayCall, At
<1>3. /\ TypeOK /\ ThreadsOK /\ StatesOK /\ s # Null
      /\ ps[s] # Null /\ phase[Main] # "exiting"
  BY <1>1, <1>2, NullAssumption DEF IndInv, ThreadsOK, ThreadFits
<1> DEFINE active == ps[s].next_pool
<1>4. /\ active \in PoolIds(ps[s])
      /\ PoolStateOK(ps[s], s, PoolNames, MaxPools, Claimed)
      /\ Len(ps[s].pools) \in Nat
      /\ active \in 0 .. MaxPools - 1
  BY <1>3, StateIs, ClientIs DEF PoolIds
<1>5. CASE HasFreeBlock(ps[s], active)
  <2>1. Construct(t, s, active, ps[s]) /\ UNCHANGED stack
    BY <1>1, <1>5 DEF New
  <2>2. Doomed' = Doomed /\ \A u \in Threads : OnceEach(stack[u]) => OnceEach(stack'[u])
    BY <2>1 DEF Doomed
  <2>3. Len(ps[s].pools) <= Len(ps[s].pools)
    BY <1>4
  <2> HIDE DEF active
  <2>4. /\ ClaimsOK' /\ Routed' /\ ClaimsAreThere' /\ StatesOK' /\ Grown
        /\ ps' \in [Threads -> PoolStateRecord(PoolNames, MaxPools) \union {Null}]
        /\ live' \subseteq Objects /\ lost' \subseteq Objects
        /\ Takes
    BY <1>2, <1>3, <1>4, <1>5, <2>1, <2>2, <2>3, Constructed
  <2>5. /\ stack[t] \in Seq(Frame) /\ stack' = [stack EXCEPT ![t] = stack[t]]
        /\ Shape(stack[t]) /\ queue' \in [Threads -> [Threads -> Seq(Objects)]]
        /\ fault' \in {"none", "out of range", "full pool", "no object"}
    BY <1>2, <1>3, <2>1 DEF TypeOK, ThreadsOK
  <2> QED
    BY <1>1, <1>2, <1>3, <2>4, <2>5, CallStep
<1>6. CASE ~HasFreeBlock(ps[s], active)
  <2> DEFINE f == Consume("new", active)
  <2>1. Push(t, f) /\ UNCHANGED <<ps, live, lost>>
    BY <1>1, <1>6 DEF New
  <2>2. f \in Frame /\ f.op = "consume" /\ f.then = "new" /\ f.active = active
    BY <1>4 DEF Frame, Consume
  <2>3. stack' = [stack EXCEPT ![t] = <<f>> \o @]
    BY <2>1 DEF Push
  <2> HIDE DEF f, active
  <2>4. state_[t] # Null => f.active \in PoolIds(ps[state_[t]])
    BY <1>1, <1>4, <2>2
  <2>5. stack[t] = << >> \/ (f.then = "new" /\ Head(stack[t]).op = "dtor")
    BY <1>2, <2>2
  <2>6. UNCHANGED <<client, phase, state_, free_pools, queue, live, lost, ps, fault>>
    BY <1>2, <2>1
  <2> QED
    BY <1>2, <2>2, <2>3, <2>4, <2>5, <2>6, CallBegins
<1> QED
  BY <1>5, <1>6

(* New returns, with an object or with an exception.                       *)
LEMMA FinishNewOK ==
  ASSUME IndInv, NEW t \in Threads, FinishNew(t)
  PROVE  IndInv' /\ (Keeps \/ Takes)
<1> DEFINE h == Head(stack[t])
           active == h.active
<1>1. stack[t] # << >> /\ h.op = "consume" /\ h.then = "new" /\ fault = "none"
  BY AtIs DEF FinishNew, Consumed
<1>2. PICK s \in Threads : s = state_[t] /\ ps[s] # Null /\ active \in PoolIds(ps[s])
  BY <1>1, InCall DEF FrameFits
<1>3. /\ \/ FinishNewHere(t, s, active)
         \/ FinishNewNext(t, s, active)
         \/ FinishNewAdd(t, s, active)
      /\ Pop(t)
      /\ UNCHANGED <<client, phase, state_, queue, free_pools>>
  BY <1>2 DEF FinishNew
<1>4. /\ stack[t] \in Seq(Frame) /\ Shape(stack[t]) /\ phase[t] = "running"
      /\ phase[Main] # "exiting" /\ state_[t] # Null
      /\ TypeOK /\ StatesOK /\ Tail(stack[t]) \in Seq(Frame)
  <2>1. state_[t] # Null
    BY <1>2, NullAssumption
  <2> QED
    BY <1>1, <2>1, InCall DEF IndInv
<1> DEFINE new == Tail(stack[t])
<1>5. /\ DtorsIn(new) = DtorsIn(stack[t])
      /\ OnceEach(stack[t]) => OnceEach(new)
      /\ Shape(new)
      /\ Range(new) \subseteq Range(stack[t])
  BY <1>1, <1>4, PopOther
<1>6. stack' = [stack EXCEPT ![t] = new]
  BY <1>3 DEF Pop
<1> HIDE DEF new, active, h
<1>7. /\ Doomed' = Doomed /\ stack'[t] = new
      /\ \A u \in Threads : u # t => stack'[u] = stack[u]
  BY <1>4, <1>5, <1>6, DoomedStep
<1>8. \A u \in Threads : OnceEach(stack[u]) => OnceEach(stack'[u])
  BY <1>5, <1>7
<1>9. /\ PoolStateOK(ps[s], s, PoolNames, MaxPools, Claimed)
      /\ Len(ps[s].pools) \in Nat /\ MaxPools \in Nat
  BY <1>2, <1>4, StateIs, ClientIs
<1> DEFINE drop == DropFullPool(ps[s])
<1>10. /\ PoolStateOK(drop, s, PoolNames, MaxPools, Claimed)
       /\ drop.pools = ps[s].pools
  <2>1. MaxPools \in Nat /\ PoolStateOK(ps[s], s, PoolNames, MaxPools, Claimed)
    BY <1>9
  <2>2. /\ PoolStateOK(DropFullPool(ps[s]), s, PoolNames, MaxPools, Claimed)
        /\ DropFullPool(ps[s]).pools = ps[s].pools
    BY <2>1, DropFullPoolOK
  <2> QED
    BY <2>2
<1>11. /\ ClaimsOK' /\ Routed' /\ ClaimsAreThere' /\ StatesOK' /\ Grown
       /\ ps' \in [Threads -> PoolStateRecord(PoolNames, MaxPools) \union {Null}]
       /\ live' \subseteq Objects /\ lost' \subseteq Objects
       /\ fault' \in {"none", "out of range", "full pool", "no object"}
       /\ Keeps \/ Takes
  <2>1. CASE FinishNewHere(t, s, active)
    <3>1. /\ HasFreeBlock(ps[s], active) /\ Construct(t, s, active, ps[s]) /\ UNCHANGED fault
      BY <2>1 DEF FinishNewHere
    <3>2. Len(ps[s].pools) <= Len(ps[s].pools)
      BY <1>9
    <3>3. fault' \in {"none", "out of range", "full pool", "no object"}
      BY <1>1, <3>1
    <3> QED
      BY <1>2, <1>3, <1>4, <1>7, <1>8, <1>9, <3>1, <3>2, <3>3, Constructed
  <2>2. CASE FinishNewNext(t, s, active)
    <3> DEFINE i == NextOfList(drop, active)
    <3>1. CASE /\ i < Len(drop.pools) /\ HasFreeBlock(drop, i)
               /\ Construct(t, s, i, [drop EXCEPT !.next_pool = i]) /\ UNCHANGED fault
      <4> DEFINE st == [drop EXCEPT !.next_pool = i]
      <4>1. drop \in PoolStateRecord(PoolNames, MaxPools) /\ drop.num_free_pools \in 0 .. SizeT - 1
        BY <1>9, <1>10, PoolStateIs DEF PoolStateOK
      <4>2. i \in Nat
        <5>1. active \in PoolIds(drop)
          BY <1>2, <1>10 DEF PoolIds
        <5>2. Inner(drop, active).next_id \in 0 .. MaxPools
          BY <1>9, <4>1, <5>1, PoolStateIs
        <5> QED
          BY <5>2, <1>9 DEF NextOfList
      <4>3. Len(drop.pools) \in Nat
        BY <1>9, <1>10
      <4> HIDE DEF i, drop
      <4>4. i \in PoolIds(drop)
        BY <3>1, <4>2, <4>3 DEF PoolIds
      <4>5. /\ st = [pools |-> drop.pools, next_pool |-> i, num_free_pools |-> drop.num_free_pools]
            /\ st.pools = drop.pools
        BY <4>1 DEF PoolStateRecord
      <4> HIDE DEF st
      <4>6. PoolStateOK(st, s, PoolNames, MaxPools, Claimed)
        BY <1>9, <1>10, <4>1, <4>4, <4>5, ListOK
      <4>7. i \in PoolIds(st) /\ HasFreeBlock(st, i) /\ Len(ps[s].pools) <= Len(st.pools)
        BY <1>9, <1>10, <3>1, <4>4, <4>5 DEF PoolIds, HasFreeBlock, Inner
      <4>8. Construct(t, s, i, st) /\ UNCHANGED fault
        BY <3>1 DEF st
      <4>9. fault' \in {"none", "out of range", "full pool", "no object"}
        BY <1>1, <3>1
      <4> QED
        BY <1>2, <1>3, <1>4, <1>7, <1>8, <4>6, <4>7, <4>8, <4>9, Constructed
    <3>2. CASE /\ fault' \in {"full pool", "out of range"}
               /\ UNCHANGED <<ps, live, lost>>
      <4>1. ClaimsOK' /\ Routed' /\ Claimed' = Claimed /\ Keeps
        BY <1>3, <1>4, <1>7, <3>2, ClaimsStay DEF IndInv
      <4>2. Grown
        BY <1>4, <3>2, GrownBySame
      <4>3. ClaimsAreThere'
        BY <1>3, <1>4, <4>1, <4>2, ClaimsStayThere DEF IndInv, Grown
      <4>4. StatesOK'
        BY <1>4, <3>2, <4>1 DEF StatesOK, States
      <4> QED
        BY <1>4, <3>2, <4>1, <4>2, <4>3, <4>4 DEF TypeOK
    <3> QED
      BY <2>2, <3>1, <3>2 DEF FinishNewNext
  <2>3. CASE FinishNewAdd(t, s, active)
    <3> DEFINE st == AddNewPool(drop)
    <3>1. CASE st.next_pool < client.pools /\ Construct(t, s, st.next_pool, st) /\ UNCHANGED fault
      <4>1. st.next_pool = Len(drop.pools)
        BY DEF AddNewPool
      <4>2. Len(drop.pools) < client.pools
        BY <3>1, <4>1
      <4> HIDE DEF drop
      <4>3. /\ PoolStateOK(st, s, PoolNames, MaxPools, Claimed)
            /\ Len(st.pools) = Len(ps[s].pools) + 1
            /\ st.next_pool = Len(ps[s].pools)
            /\ HasFreeBlock(st, Len(ps[s].pools))
        BY <1>2, <1>4, <1>10, <4>2, PoolAdded
      <4> HIDE DEF st
      <4>4. st.next_pool \in PoolIds(st) /\ Len(ps[s].pools) <= Len(st.pools)
            /\ HasFreeBlock(st, st.next_pool)
        BY <1>9, <4>3 DEF PoolIds
      <4>5. fault' \in {"none", "out of range", "full pool", "no object"}
        BY <1>1, <3>1
      <4> QED
        BY <1>2, <1>3, <1>4, <1>7, <1>8, <3>1, <4>3, <4>4, <4>5, Constructed
    <3>2. CASE ps' = [ps EXCEPT ![s] = DropFullPool(@)] /\ UNCHANGED <<live, lost, fault>>
      <4>1. ps' = [ps EXCEPT ![s] = drop]
        BY <3>2
      <4> HIDE DEF drop
      <4>2. Len(ps[s].pools) <= Len(drop.pools)
        BY <1>9, <1>10
      <4>3. /\ ClaimsOK' /\ Routed' /\ ClaimsAreThere' /\ StatesOK' /\ Grown /\ Keeps
            /\ ps' \in [Threads -> PoolStateRecord(PoolNames, MaxPools) \union {Null}]
        BY <1>2, <1>3, <1>7, <1>8, <1>10, <3>2, <4>1, <4>2, OneStateStays
      <4> QED
        BY <1>4, <3>2, <4>3 DEF TypeOK
    <3> QED
      BY <2>3, <3>1, <3>2 DEF FinishNewAdd
  <2> QED
    BY <1>3, <2>1, <2>2, <2>3
<1>12. queue' \in [Threads -> [Threads -> Seq(Objects)]]
  BY <1>3, <1>4 DEF TypeOK
<1>13. \A f \in Range(new) : f \in Range(stack[t]) \/ FrameFits(f, phase[t], state_[t], ps)
  BY <1>5
<1>14. new \in Seq(Frame) /\ phase[t] # "exiting"
  BY <1>4 DEF new
<1> QED
  BY <1>3, <1>4, <1>5, <1>6, <1>11, <1>12, <1>13, <1>14, CallStep

-----------------------------------------------------------------------------
(* Requests are consumed.                                                  *)

(* A block is given back to its pool.                                      *)
LEMMA BlockFreed ==
  ASSUME IndInv, NEW x \in Claimed, IsThere(x), NEW s \in Threads, s = x[1],
         NEW st, PoolStateOK(st, s, PoolNames, MaxPools, Claimed), SamePools(st, ps[s]),
         ps' = [ps EXCEPT ![s] = FreeIn(st, x[2], x[3])],
         Claimed' = Without(Claimed, x)
  PROVE  /\ StatesOK' /\ Grown
         /\ ps' \in [Threads -> PoolStateRecord(PoolNames, MaxPools) \union {Null}]
<1>1. TypeOK /\ StatesOK /\ MaxPools \in Nat /\ ps[s] # Null
  BY ClientIs DEF IndInv, IsThere
<1>2. x \in Objects /\ x[3] \in Blocks /\ x = <<s, x[2], x[3]>>
  BY <1>1, ClaimedIs, ObjectIs
<1>3. PICK i : i = x[2]
  OBVIOUS
<1>4. PICK b \in Blocks : b = x[3]
  BY <1>2
<1>5. Len(ps[s].pools) \in Nat /\ Len(st.pools) = Len(ps[s].pools)
  BY <1>1, StateIs DEF SamePools
<1>6. i \in PoolIds(st)
  BY <1>1, <1>3, <1>5 DEF IsThere, PoolIds
<1>7. PICK new : new = FreeIn(st, i, b)
  OBVIOUS
<1>8. /\ PoolStateOK(new, s, PoolNames, MaxPools, Without(Claimed, <<s, i, b>>))
      /\ SamePools(new, st)
  <2>1. <<s, i, b>> \in Claimed
    BY <1>2, <1>3, <1>4
  <2>2. MaxPools \in Nat
    BY <1>1
  <2> QED
    BY <1>6, <1>7, <2>1, <2>2, FreeInOK
<1>9. ps' = [ps EXCEPT ![s] = new] /\ PoolStateOK(new, s, PoolNames, MaxPools, Claimed')
  BY <1>2, <1>3, <1>4, <1>7, <1>8
<1>10. Len(ps[s].pools) <= Len(new.pools)
  BY <1>5, <1>8 DEF SamePools
<1>11. \A y \in Objects : y[1] # s => (y \in Claimed' <=> y \in Claimed)
  BY DEF Without
<1> QED
  BY <1>1, <1>9, <1>10, <1>11, OneState

(* No destructor starts or returns.                                        *)
DestructorsStay ==
  Doomed' = Doomed /\ \A u \in Threads : OnceEach(stack[u]) => OnceEach(stack'[u])

(* The first request of producer p is dequeued.                            *)
TakesRequest(s, p) == queue' = [queue EXCEPT ![s][p] = Tail(@)]

(* A request is taken from its queue.                                      *)
LEMMA RequestTaken ==
  ASSUME TypeOK, ClaimsOK, Routed, fault = "none",
         NEW s \in Threads, NEW p \in Threads, queue[s][p] # << >>,
         NEW x, x = Head(queue[s][p]),
         TakesRequest(s, p), UNCHANGED <<live, lost>>, DestructorsStay
  PROVE  /\ x \in Claimed /\ x[1] = s
         /\ ClaimsOK' /\ Routed' /\ Claimed' = Without(Claimed, x)
         /\ queue' \in [Threads -> [Threads -> Seq(Objects)]]
         /\ Consumes
<1> USE DEF TakesRequest, DestructorsStay
<1>1. queue[s][p] \in Seq(Objects)
  BY DEF TypeOK
<1>2. /\ \A u \in Threads : OnceEach(stack[u])
      /\ \A r, u \in Threads : NoRepeat(queue[r][u])
      /\ Apart(live, lost, Doomed, Asked)
  BY DEF ClaimsOK
<1>3. /\ x \in Objects /\ Tail(queue[s][p]) \in Seq(Objects)
      /\ x \in Range(queue[s][p])
      /\ Range(Tail(queue[s][p])) = Without(Range(queue[s][p]), x)
      /\ NoRepeat(Tail(queue[s][p]))
  BY <1>1, <1>2, TakeFirst
<1>4. queue' \in [Threads -> [Threads -> Seq(Objects)]]
  BY <1>3 DEF TypeOK
<1>5. \A r, u \in Threads : queue'[r][u] = IF r = s /\ u = p THEN Tail(queue[s][p]) ELSE queue[r][u]
  BY DEF TypeOK
<1>6. Doomed \in Dooms /\ Asked \in Asks /\ x \in Asked[s][p]
  BY <1>3, ClaimedIs
<1>7. Asked' = [Asked EXCEPT ![s][p] = Without(@, x)]
  <2> DEFINE R == [Asked EXCEPT ![s][p] = Without(@, x)]
  <2>1. R \in [Threads -> [Threads -> SUBSET Objects]]
    BY <1>6 DEF Asks, Without
  <2>2. \A r, u \in Threads : R[r][u] = IF r = s /\ u = p THEN Without(Asked[r][u], x) ELSE Asked[r][u]
    BY <1>6 DEF Asks
  <2>3. \A r, u \in Threads : Range(queue'[r][u]) = R[r][u]
    <3>1. \A r, u \in Threads : Asked[r][u] = Range(queue[r][u])
      BY DEF Asked
    <3> HIDE DEF R
    <3>2. \A r, u \in Threads : r = s /\ u = p => Range(queue'[r][u]) = R[r][u]
      BY <1>3, <1>5, <2>2, <3>1
    <3>3. \A r, u \in Threads : ~(r = s /\ u = p) => Range(queue'[r][u]) = R[r][u]
      BY <1>5, <2>2, <3>1
    <3> QED
      BY <3>2, <3>3
  <2> HIDE DEF R
  <2>4. Asked' = R
    BY <2>1, <2>3 DEF Asked
  <2> QED
    BY <2>4 DEF R
<1>8. /\ Apart(live, lost, Doomed, Asked')
      /\ AllOf(live, lost, Doomed, Asked') = Without(AllOf(live, lost, Doomed, Asked), x)
  <2>1. Asked' = Taken(Asked, s, p, x)
    BY <1>7 DEF Taken
  <2> QED
    BY <1>2, <1>6, <2>1, RequestToFree
<1>9. ClaimsOK' /\ Claimed' = Without(Claimed, x)
  <2>1. \A r, u \in Threads : NoRepeat(queue'[r][u])
    BY <1>2, <1>3, <1>5
  <2>2. \A u \in Threads : OnceEach(stack'[u])
    BY <1>2
  <2> QED
    BY <1>8, <2>1, <2>2 DEF ClaimsOK, Claimed
<1>10. x \in Claimed /\ x[1] = s
  BY <1>3, ClaimedIs DEF Routed
<1>11. Routed'
  BY <1>3, <1>5 DEF Routed, Without
<1>12. Consumes
  <2>1. Asked' = Taken(Asked, s, p, x)
    BY <1>7 DEF Taken
  <2> QED
    BY <1>6, <2>1 DEF Consumes
<1> QED
  BY <1>4, <1>9, <1>10, <1>11, <1>12

(* One request is consumed.                                                *)
LEMMA ConsumeOneOK ==
  ASSUME IndInv, NEW t \in Threads, ConsumeOne(t)
  PROVE  IndInv' /\ Consumes
<1> DEFINE h == Head(stack[t])
           C == [op : {"consume"}, then : {"new", "clear", "destroy"},
                 active : 0 .. MaxPools - 1, dry : BOOLEAN]
<1>1. stack[t] # << >> /\ h.op = "consume" /\ h \in Frame /\ fault = "none"
  BY AtIs DEF ConsumeOne
<1>2. PICK s \in Threads, p \in Threads :
        /\ s = state_[t] /\ queue[s][p] # << >>
        /\ LET x == Head(queue[s][p])
               i == PoolOf(x)[2] IN
           ps' = [ps EXCEPT ![s] = FreeIn(SetNextFreePool(@, i), i, x[3])]
        /\ queue' = [queue EXCEPT ![s][p] = Tail(@)]
        /\ ps[s] # Null
  <2>1. state_[t] \in Threads /\ ps[state_[t]] # Null
    BY <1>1, InCall DEF FrameFits
  <2> QED
    BY <2>1 DEF ConsumeOne
<1>3. PICK x : x = Head(queue[s][p])
  OBVIOUS
<1>4. /\ stack' = [stack EXCEPT ![t] = <<[h EXCEPT !.dry = FALSE]>> \o Tail(@)]
      /\ UNCHANGED <<client, phase, state_, free_pools, live, lost, fault>>
  BY DEF ConsumeOne, Replace
<1>5. /\ stack[t] \in Seq(Frame) /\ Shape(stack[t]) /\ phase[t] = "running"
      /\ phase[Main] # "exiting" /\ h \in Range(stack[t])
      /\ FrameFits(h, phase[t], state_[t], ps) /\ state_[t] # Null
  <2>1. state_[t] # Null
    BY <1>2, NullAssumption
  <2> QED
    BY <1>1, <2>1, InCall
<1>6. TypeOK /\ ClaimsOK /\ Routed /\ ClaimsAreThere /\ StatesOK /\ MaxPools \in Nat
  BY ClientIs DEF IndInv
<1>7. h \in C
  BY <1>1 DEF Frame
<1> DEFINE f == [h EXCEPT !.dry = FALSE]
<1> HIDE DEF h
<1>8. f \in C /\ f.op = "consume" /\ f.then = h.then /\ f.active = h.active
  BY <1>7
<1>9. f \in Frame
  BY <1>8 DEF Frame
<1>10. FrameFits(f, phase[t], state_[t], ps)
  BY <1>1, <1>5, <1>8 DEF FrameFits
<1> DEFINE new == <<f>> \o Tail(stack[t])
<1>11. stack' = [stack EXCEPT ![t] = new]
  BY <1>4
<1> HIDE DEF f
<1>12. /\ new \in Seq(Frame) /\ new # << >>
       /\ Shape(new) /\ DtorsIn(new) = DtorsIn(stack[t])
       /\ OnceEach(stack[t]) => OnceEach(new)
       /\ Range(new) \subseteq Range(stack[t]) \union {f}
  BY <1>1, <1>5, <1>8, <1>9, SameCall DEF h
<1> HIDE DEF new
<1>13. /\ Doomed' = Doomed /\ stack'[t] = new
       /\ \A u \in Threads : u # t => stack'[u] = stack[u]
  BY <1>6, <1>11, <1>12, DoomedStep
<1>14. \A u \in Threads : OnceEach(stack[u]) => OnceEach(stack'[u])
  BY <1>12, <1>13
<1>15. /\ x \in Claimed /\ x[1] = s
       /\ ClaimsOK' /\ Routed' /\ Claimed' = Without(Claimed, x)
       /\ queue' \in [Threads -> [Threads -> Seq(Objects)]]
       /\ Consumes
  <2>1. TakesRequest(s, p)
    BY <1>2 DEF TakesRequest
  <2>2. queue[s][p] # << >>
    BY <1>2
  <2>3. UNCHANGED <<live, lost>>
    BY <1>4
  <2>4. DestructorsStay
    BY <1>13, <1>14 DEF DestructorsStay
  <2> QED
    BY <1>1, <1>3, <1>6, <2>1, <2>2, <2>3, <2>4, RequestTaken
<1>16. IsThere(x) /\ PoolOf(x) = <<x[1], x[2]>>
  BY <1>5, <1>6, <1>15, PoolOfIs DEF ClaimsAreThere
<1>17. PICK st : st = SetNextFreePool(ps[s], x[2])
  OBVIOUS
<1>18. PoolStateOK(st, s, PoolNames, MaxPools, Claimed) /\ SamePools(st, ps[s])
  <2>1. x[2] \in PoolIds(ps[s])
    BY <1>15, <1>16 DEF IsThere
  <2>2. PoolStateOK(ps[s], s, PoolNames, MaxPools, Claimed)
    BY <1>2, <1>6, StateIs
  <2>3. MaxPools \in Nat
    BY <1>6
  <2> QED
    BY <1>17, <2>1, <2>2, <2>3, SetNextFreePoolOK
<1>19. ps' = [ps EXCEPT ![s] = FreeIn(st, x[2], x[3])]
  <2>1. PoolOf(Head(queue[s][p]))[2] = x[2]
    BY <1>3, <1>16
  <2>2. PICK i : i = PoolOf(Head(queue[s][p]))[2]
    OBVIOUS
  <2>3. ps' = [ps EXCEPT ![s] = FreeIn(SetNextFreePool(ps[s], i), i, x[3])]
    BY <1>2, <1>3, <2>2
  <2> QED
    BY <1>17, <2>1, <2>2, <2>3
<1>20. /\ StatesOK' /\ Grown
       /\ ps' \in [Threads -> PoolStateRecord(PoolNames, MaxPools) \union {Null}]
  BY <1>15, <1>16, <1>18, <1>19, BlockFreed
<1>21. ClaimsAreThere'
  <2>1. Claimed' \subseteq Claimed
    BY <1>15 DEF Without
  <2> QED
    BY <1>4, <1>6, <1>20, <2>1, ClaimsStayThere DEF Grown
<1>22. /\ live' \subseteq Objects /\ lost' \subseteq Objects
       /\ fault' \in {"none", "out of range", "full pool", "no object"}
  BY <1>4, <1>6 DEF TypeOK
<1>23. \A g \in Range(new) : g \in Range(stack[t]) \/ FrameFits(g, phase[t], state_[t], ps)
  BY <1>10, <1>12
<1>24. /\ phase[t] \in {"running", "exiting"}
       /\ phase[t] = "running" /\ state_[t] = Null => new # << >> /\ Head(new).op = "init"
       /\ SweptIn(new) = SweptIn(stack[t]) \/ phase[t] # "exiting"
  BY <1>5
<1> QED
  BY <1>4, <1>11, <1>12, <1>15, <1>20, <1>21, <1>22, <1>23, <1>24, CallStep

-----------------------------------------------------------------------------
(* Objects are destroyed.                                                  *)

(* x is destroyed: its destructor runs in thread t.                        *)
LEMMA Destroyed ==
  ASSUME TypeOK, ClaimsOK, Routed, fault = "none", NEW t \in Threads, NEW x \in live,
         live' = Without(live, x), UNCHANGED <<lost, queue>>,
         NEW new, stack' = [stack EXCEPT ![t] = new],
         DtorsIn(new) = With(DtorsIn(stack[t]), x),
         OnceEach(stack[t]) /\ x \notin DtorsIn(stack[t]) => OnceEach(new)
  PROVE  ClaimsOK' /\ Routed' /\ Claimed' = Claimed /\ Destroys
<1>1. /\ \A u \in Threads : OnceEach(stack[u])
      /\ \A r, u \in Threads : NoRepeat(queue[r][u])
      /\ Apart(live, lost, Doomed, Asked)
  BY DEF ClaimsOK
<1>2. /\ Doomed' = [Doomed EXCEPT ![t] = DtorsIn(new)]
      /\ stack'[t] = new /\ \A u \in Threads : u # t => stack'[u] = stack[u]
  BY DoomedStep
<1>3. /\ Doomed \in Dooms /\ Asked \in Asks /\ Doomed[t] = DtorsIn(stack[t])
      /\ live \in SUBSET Objects
  BY ClaimedIs DEF TypeOK
<1>4. Doomed' = Started(Doomed, t, x)
  BY <1>2, <1>3 DEF Started
<1>5. /\ Apart(Without(live, x), lost, Started(Doomed, t, x), Asked)
      /\ AllOf(Without(live, x), lost, Started(Doomed, t, x), Asked) =
           AllOf(live, lost, Doomed, Asked)
      /\ x \notin Doomed[t]
  BY <1>1, <1>3, LiveToDtor
<1>6. Asked' = Asked
  BY DEF Asked
<1>7. Claimed' = Claimed /\ Apart(live, lost, Doomed, Asked)'
  BY <1>4, <1>5, <1>6 DEF Claimed
<1>8. \A u \in Threads : OnceEach(stack'[u])
  BY <1>1, <1>2, <1>3, <1>5
<1>9. ClaimsOK'
  BY <1>1, <1>7, <1>8 DEF ClaimsOK
<1>10. Destroys
  BY <1>4, <1>6 DEF Destroys
<1> QED
  BY <1>7, <1>9, <1>10 DEF Routed

(* Delete, up to the destructor.                                           *)
LEMMA DeleteOK ==
  ASSUME IndInv, NEW t \in Threads, NEW x \in live, Delete(t, x)
  PROVE  IndInv' /\ Destroys
<1>1. /\ fault = "none" /\ phase[t] = "running"
      /\ stack[t] = << >> \/ (stack[t] # << >> /\ Head(stack[t]).op = "dtor")
      /\ UNCHANGED <<client, phase, state_, queue, free_pools, lost, fault>>
      /\ live' = live \ {x}
  BY DEF Delete, MayCall, At
<1>2. /\ TypeOK /\ ThreadsOK /\ ClaimsOK /\ Routed /\ ClaimsAreThere /\ StatesOK
      /\ MaxPools \in Nat
  BY ClientIs DEF IndInv
<1>3. /\ phase[Main] # "exiting" /\ stack[t] \in Seq(Frame) /\ Shape(stack[t])
      /\ phase[t] = "running" /\ state_[t] = Null => stack[t] # << >> /\ Head(stack[t]).op = "init"
  BY <1>1, <1>2 DEF TypeOK, ThreadsOK, ThreadFits
<1>4. x \in Objects /\ x \in Claimed /\ IsThere(x)
  BY <1>2, <1>3, ClaimedIs DEF ClaimsAreThere
<1>5. PICK s \in Threads : s = x[1] /\ PoolOf(x) = <<s, x[2]>> /\ x[2] \in PoolIds(ps[s]) /\ ps[s] # Null
  <2>1. x[1] \in Threads
    BY <1>4, ObjectIs
  <2> QED
    BY <1>2, <1>4, <2>1, PoolOfIs DEF IsThere
<1>6. PICK d \in Frame :
        /\ d.op = "dtor" /\ d.x = x /\ stack' = [stack EXCEPT ![t] = <<d>> \o @]
        /\ \/ UNCHANGED ps
           \/ ps' = [ps EXCEPT ![s] = SetNextFreePool(@, x[2])]
  <2>1. \/ Push(t, Dtor(x, "enqueue")) /\ UNCHANGED ps
        \/ Push(t, Dtor(x, "free")) /\ ps' = [ps EXCEPT ![s] = SetNextFreePool(@, x[2])]
    <3>1. PoolOf(x)[1] = s /\ PoolOf(x)[2] = x[2]
      BY <1>5
    <3> QED
      BY <3>1 DEF Delete
  <2>2. \A then \in {"free", "enqueue"} :
          Dtor(x, then) \in Frame /\ Dtor(x, then).op = "dtor" /\ Dtor(x, then).x = x
    BY <1>4 DEF Dtor, Frame
  <2> QED
    BY <2>1, <2>2 DEF Push
<1>7. PICK new : new = <<d>> \o stack[t]
  OBVIOUS
<1>8. /\ new \in Seq(Frame) /\ stack' = [stack EXCEPT ![t] = new]
      /\ DtorsIn(new) = With(DtorsIn(stack[t]), x)
      /\ SweptIn(new) = SweptIn(stack[t])
      /\ OnceEach(stack[t]) /\ x \notin DtorsIn(stack[t]) => OnceEach(new)
      /\ Shape(new)
      /\ Range(new) \subseteq Range(stack[t]) \union {d}
  <2>1. stack' = [stack EXCEPT ![t] = new]
    BY <1>6, <1>7
  <2> QED
    BY <1>1, <1>3, <1>6, <1>7, <2>1, PushIs, PushDtor, PushRange
<1>9. ClaimsOK' /\ Routed' /\ Claimed' = Claimed /\ Destroys
  <2>1. live' = Without(live, x)
    BY <1>1 DEF Without
  <2> QED
    BY <1>1, <1>2, <1>8, <2>1, Destroyed
<1>10. /\ StatesOK' /\ Grown
       /\ ps' \in [Threads -> PoolStateRecord(PoolNames, MaxPools) \union {Null}]
  <2>1. CASE UNCHANGED ps
    <3>1. StatesOK'
      BY <1>2, <1>9, <2>1 DEF StatesOK, States
    <3> QED
      BY <1>2, <2>1, <3>1, GrownBySame DEF TypeOK
  <2>2. CASE ps' = [ps EXCEPT ![s] = SetNextFreePool(@, x[2])]
    <3>1. PoolStateOK(ps[s], s, PoolNames, MaxPools, Claimed) /\ Len(ps[s].pools) \in Nat
      BY <1>2, <1>5, StateIs
    <3>2. PICK st : st = SetNextFreePool(ps[s], x[2])
      OBVIOUS
    <3>3. MaxPools \in Nat
      BY <1>2
    <3>4. PoolStateOK(st, s, PoolNames, MaxPools, Claimed) /\ SamePools(st, ps[s])
      BY <1>5, <3>1, <3>2, <3>3, SetNextFreePoolOK
    <3>5. Len(ps[s].pools) <= Len(st.pools)
      BY <3>1, <3>4 DEF SamePools
    <3>6. ps' = [ps EXCEPT ![s] = st]
      BY <2>2, <3>2
    <3>7. PoolStateOK(st, s, PoolNames, MaxPools, Claimed')
      BY <1>9, <3>4
    <3>8. \A y \in Objects : y[1] # s => (y \in Claimed' <=> y \in Claimed)
      BY <1>9
    <3> QED
      BY <1>2, <1>5, <3>5, <3>6, <3>7, <3>8, OneState
  <2> QED
    BY <1>6, <2>1, <2>2
<1>11. ClaimsAreThere'
  BY <1>1, <1>2, <1>9, <1>10, ClaimsStayThere DEF Grown
<1>12. /\ queue' \in [Threads -> [Threads -> Seq(Objects)]]
       /\ live' \subseteq Objects /\ lost' \subseteq Objects
       /\ fault' \in {"none", "out of range", "full pool", "no object"}
  BY <1>1, <1>2 DEF TypeOK
<1>13. \A g \in Range(new) : g \in Range(stack[t]) \/ FrameFits(g, phase[t], state_[t], ps)
  <2>1. FrameFits(d, phase[t], state_[t], ps)
    BY <1>4, <1>6 DEF FrameFits, IsThere
  <2> QED
    BY <1>8, <2>1
<1>14. /\ phase[t] \in {"running", "exiting"}
       /\ phase[t] = "running" /\ state_[t] = Null => new # << >> /\ Head(new).op = "init"
       /\ SweptIn(new) = SweptIn(stack[t]) \/ phase[t] # "exiting"
  BY <1>1, <1>3
<1> QED
  BY <1>1, <1>8, <1>9, <1>10, <1>11, <1>12, <1>13, <1>14, CallStep

(* ~T has returned; what becomes of the block.                             *)
LEMMA DtorReturns ==
  ASSUME TypeOK, ClaimsOK, fault = "none", NEW t \in Threads, NEW x \in DtorsIn(stack[t]),
         NEW new, stack' = [stack EXCEPT ![t] = new],
         OnceEach(stack[t]) => DtorsIn(new) = Without(DtorsIn(stack[t]), x) /\ OnceEach(new)
  PROVE  /\ x \in Claimed
         /\ Doomed' = Returned(Doomed, t, x)
         /\ \A u \in Threads : OnceEach(stack'[u])
         /\ \A r, u \in Threads : NoRepeat(queue[r][u])
         /\ Apart(live, lost, Returned(Doomed, t, x), Asked)
         /\ AllOf(live, lost, Returned(Doomed, t, x), Asked) = Without(Claimed, x)
         /\ Apart(live, With(lost, x), Returned(Doomed, t, x), Asked)
         /\ AllOf(live, With(lost, x), Returned(Doomed, t, x), Asked) = Claimed
         /\ \A s \in Threads :
              /\ Apart(live, lost, Returned(Doomed, t, x), Requested(Asked, s, t, x))
              /\ AllOf(live, lost, Returned(Doomed, t, x), Requested(Asked, s, t, x)) = Claimed
              /\ x \notin Asked[s][t]
<1>1. /\ \A u \in Threads : OnceEach(stack[u])
      /\ \A r, u \in Threads : NoRepeat(queue[r][u])
      /\ Apart(live, lost, Doomed, Asked)
  BY DEF ClaimsOK
<1>2. /\ Doomed' = [Doomed EXCEPT ![t] = DtorsIn(new)]
      /\ stack'[t] = new /\ \A u \in Threads : u # t => stack'[u] = stack[u]
  BY DoomedStep
<1>3. /\ Doomed \in Dooms /\ Asked \in Asks /\ Doomed[t] = DtorsIn(stack[t])
      /\ x \in Claimed
  BY ClaimedIs
<1>4. Doomed' = Returned(Doomed, t, x)
  BY <1>1, <1>2, <1>3 DEF Returned
<1>5. \A u \in Threads : OnceEach(stack'[u])
  BY <1>1, <1>2
<1>6. x \in Doomed[t]
  BY <1>3
<1>7. /\ Apart(live, lost, Returned(Doomed, t, x), Asked)
      /\ AllOf(live, lost, Returned(Doomed, t, x), Asked) = Without(Claimed, x)
  BY <1>1, <1>3, <1>6, DtorToFree DEF Claimed
<1>8. /\ Apart(live, With(lost, x), Returned(Doomed, t, x), Asked)
      /\ AllOf(live, With(lost, x), Returned(Doomed, t, x), Asked) = Claimed
  BY <1>1, <1>3, <1>6, DtorToLost DEF Claimed
<1>9. ASSUME NEW s \in Threads
      PROVE  /\ Apart(live, lost, Returned(Doomed, t, x), Requested(Asked, s, t, x))
             /\ AllOf(live, lost, Returned(Doomed, t, x), Requested(Asked, s, t, x)) = Claimed
             /\ x \notin Asked[s][t]
  BY <1>1, <1>3, <1>6, DtorToRequest DEF Claimed
<1> QED
  BY <1>1, <1>3, <1>4, <1>5, <1>7, <1>8, <1>9

(* Thread t enqueues a request for block x.                                *)
PutsRequest(s, t, x) == queue' = [queue EXCEPT ![s][t] = Append(@, x)]

(* The request is put in the owner's queue.                                *)
LEMMA RequestPut ==
  ASSUME TypeOK, Routed, NEW s \in Threads, NEW t \in Threads, NEW x \in Objects, x[1] = s,
         PutsRequest(s, t, x),
         \A r, u \in Threads : NoRepeat(queue[r][u]), x \notin Asked[s][t]
  PROVE  /\ queue' \in [Threads -> [Threads -> Seq(Objects)]]
         /\ \A r, u \in Threads : NoRepeat(queue'[r][u])
         /\ Asked' = Requested(Asked, s, t, x)
         /\ Routed'
<1>1. queue[s][t] \in Seq(Objects) /\ NoRepeat(queue[s][t]) /\ x \notin Range(queue[s][t])
  <2>1. Asked[s][t] = Range(queue[s][t])
    BY ClaimedIs
  <2>2. queue[s][t] \in Seq(Objects)
    <3>1. queue \in [Threads -> [Threads -> Seq(Objects)]]
      BY DEF TypeOK
    <3> QED
      BY <3>1
  <2>3. x \notin Range(queue[s][t])
    BY <2>1
  <2> QED
    BY <2>2, <2>3
<1>2. /\ Append(queue[s][t], x) \in Seq(Objects)
      /\ Range(Append(queue[s][t], x)) = With(Range(queue[s][t]), x)
      /\ NoRepeat(Append(queue[s][t], x))
  BY <1>1, PutLast
<1>3. queue' \in [Threads -> [Threads -> Seq(Objects)]]
  BY <1>2 DEF TypeOK, PutsRequest
<1>4. \A r, u \in Threads :
        queue'[r][u] = IF r = s /\ u = t THEN Append(queue[s][t], x) ELSE queue[r][u]
  BY DEF TypeOK, PutsRequest
<1>5. Asked \in Asks
  BY ClaimedIs
<1>6. Asked' = Requested(Asked, s, t, x)
  <2> DEFINE R == Requested(Asked, s, t, x)
  <2>1. /\ R \in [Threads -> [Threads -> SUBSET Objects]]
        /\ \A r, u \in Threads : R[r][u] = IF r = s /\ u = t THEN With(Asked[r][u], x) ELSE Asked[r][u]
    BY <1>5 DEF Asks, Requested, With
  <2> HIDE DEF R
  <2>2. \A r, u \in Threads : Asked[r][u] = Range(queue[r][u])
    BY DEF Asked
  <2>3. \A r, u \in Threads : Range(queue'[r][u]) = R[r][u]
    <3>1. \A r, u \in Threads : r = s /\ u = t => Range(queue'[r][u]) = R[r][u]
      BY <1>2, <1>4, <2>1, <2>2
    <3>2. \A r, u \in Threads : ~(r = s /\ u = t) => Range(queue'[r][u]) = R[r][u]
      BY <1>4, <2>1, <2>2
    <3> QED
      BY <3>1, <3>2
  <2>4. Asked' = R
    BY <2>1, <2>3 DEF Asked
  <2> QED
    BY <2>4 DEF R
<1>7. Routed'
  BY <1>2, <1>4 DEF Routed, With
<1> QED
  BY <1>2, <1>3, <1>4, <1>6, <1>7

(* A destructor returns: its block is freed, enqueued or lost.             *)
LEMMA EndDtorOK ==
  ASSUME IndInv, NEW t \in Threads, EndDtor(t)
  PROVE  IndInv' /\ Returns
<1>1. /\ fault = "none" /\ stack[t] # << >> /\ Head(stack[t]).op = "dtor"
      /\ Head(stack[t]) \in Frame
  BY AtIs DEF EndDtor
<1>2. PICK x \in Objects : x = Head(stack[t]).x
  BY <1>1, FrameIs
<1>3. TypeOK /\ ClaimsOK /\ Routed /\ ClaimsAreThere /\ StatesOK /\ MaxPools \in Nat
  BY ClientIs DEF IndInv
<1>4. /\ stack[t] \in Seq(Frame) /\ Shape(stack[t]) /\ phase[t] \in {"running", "exiting"}
      /\ phase[t] = "running" => state_[t] # Null
      /\ FrameFits(Head(stack[t]), phase[t], state_[t], ps)
      /\ Tail(stack[t]) \in Seq(Frame)
  BY <1>1, InCall
<1>5. PICK new \in Seq(Frame) : new = Tail(stack[t])
  BY <1>4
<1>6. /\ x \in DtorsIn(stack[t])
      /\ OnceEach(stack[t]) => DtorsIn(new) = Without(DtorsIn(stack[t]), x) /\ OnceEach(new)
      /\ SweptIn(new) = SweptIn(stack[t])
      /\ Shape(new)
      /\ Range(new) \subseteq Range(stack[t])
  BY <1>1, <1>2, <1>4, <1>5, PopDtor
<1>7. /\ stack' = [stack EXCEPT ![t] = new]
      /\ UNCHANGED <<client, phase, state_, free_pools, live, fault>>
  BY <1>5 DEF EndDtor, Pop
<1>8. /\ x \in Claimed
      /\ Doomed' = Returned(Doomed, t, x)
      /\ \A u \in Threads : OnceEach(stack'[u])
      /\ \A r, u \in Threads : NoRepeat(queue[r][u])
      /\ Apart(live, lost, Returned(Doomed, t, x), Asked)
      /\ AllOf(live, lost, Returned(Doomed, t, x), Asked) = Without(Claimed, x)
      /\ Apart(live, With(lost, x), Returned(Doomed, t, x), Asked)
      /\ AllOf(live, With(lost, x), Returned(Doomed, t, x), Asked) = Claimed
      /\ \A s \in Threads :
           /\ Apart(live, lost, Returned(Doomed, t, x), Requested(Asked, s, t, x))
           /\ AllOf(live, lost, Returned(Doomed, t, x), Requested(Asked, s, t, x)) = Claimed
           /\ x \notin Asked[s][t]
  BY <1>1, <1>3, <1>6, <1>7, DtorReturns
<1>9. IsThere(x)
  BY <1>1, <1>2, <1>4 DEF FrameFits, IsThere
<1>10. PICK s \in Threads : s = x[1] /\ PoolOf(x) = <<s, x[2]>> /\ x[2] \in PoolIds(ps[s]) /\ ps[s] # Null
  <2>1. x[1] \in Threads
    BY <1>2, ObjectIs
  <2> QED
    BY <1>3, <1>8, <1>9, <2>1, PoolOfIs DEF IsThere
<1>11. \/ ps' = [ps EXCEPT ![s] = FreeIn(@, x[2], x[3])] /\ UNCHANGED <<queue, lost>>
       \/ queue' = [queue EXCEPT ![s][t] = Append(@, x)] /\ UNCHANGED <<ps, lost>>
       \/ lost' = lost \union {x} /\ UNCHANGED <<ps, queue>>
  <2>1. PoolOf(Head(stack[t]).x)[1] = s /\ PoolOf(Head(stack[t]).x)[2] = x[2]
    BY <1>2, <1>10
  <2> QED
    BY <1>2, <2>1 DEF EndDtor
<1>12. /\ ClaimsOK' /\ Routed' /\ StatesOK' /\ Grown
       /\ Claimed' \subseteq Claimed
       /\ ps' \in [Threads -> PoolStateRecord(PoolNames, MaxPools) \union {Null}]
       /\ queue' \in [Threads -> [Threads -> Seq(Objects)]]
       /\ lost' \subseteq Objects
       /\ \/ lost' = lost /\ Asked' = Asked
          \/ lost' = With(lost, x) /\ Asked' = Asked
          \/ lost' = lost /\ Asked' = Requested(Asked, s, t, x)
  <2>1. CASE ps' = [ps EXCEPT ![s] = FreeIn(@, x[2], x[3])] /\ UNCHANGED <<queue, lost>>
    <3>1. Asked' = Asked
      BY <2>1 DEF Asked
    <3>2. ClaimsOK' /\ Claimed' = Without(Claimed, x)
      BY <1>7, <1>8, <2>1, <3>1 DEF ClaimsOK, Claimed
    <3>3. PICK st : st = ps[s]
      OBVIOUS
    <3>4. PoolStateOK(st, s, PoolNames, MaxPools, Claimed) /\ SamePools(st, ps[s])
      BY <1>3, <1>10, <3>3, StateIs DEF SamePools
    <3>5. ps' = [ps EXCEPT ![s] = FreeIn(st, x[2], x[3])]
      BY <2>1, <3>3
    <3>6. /\ StatesOK' /\ Grown
          /\ ps' \in [Threads -> PoolStateRecord(PoolNames, MaxPools) \union {Null}]
      BY <1>8, <1>9, <1>10, <3>2, <3>4, <3>5, BlockFreed
    <3>7. Claimed' \subseteq Claimed
      BY <3>2 DEF Without
    <3> QED
      BY <1>3, <2>1, <3>1, <3>2, <3>6, <3>7 DEF TypeOK, Routed
  <2>2. CASE queue' = [queue EXCEPT ![s][t] = Append(@, x)] /\ UNCHANGED <<ps, lost>>
    <3>1. /\ queue' \in [Threads -> [Threads -> Seq(Objects)]]
          /\ \A r, u \in Threads : NoRepeat(queue'[r][u])
          /\ Asked' = Requested(Asked, s, t, x)
          /\ Routed'
      BY <1>3, <1>8, <1>10, <2>2, RequestPut DEF PutsRequest
    <3>2. ClaimsOK' /\ Claimed' = Claimed
      BY <1>7, <1>8, <2>2, <3>1 DEF ClaimsOK, Claimed
    <3>3. StatesOK'
      BY <1>3, <2>2, <3>2 DEF StatesOK, States
    <3> QED
      BY <1>3, <2>2, <3>1, <3>2, <3>3, GrownBySame DEF TypeOK
  <2>3. CASE lost' = lost \union {x} /\ UNCHANGED <<ps, queue>>
    <3>1. Asked' = Asked /\ lost' = With(lost, x)
      BY <2>3 DEF Asked, With
    <3>2. ClaimsOK' /\ Claimed' = Claimed
      BY <1>7, <1>8, <2>3, <3>1 DEF ClaimsOK, Claimed
    <3>3. StatesOK'
      BY <1>3, <2>3, <3>2 DEF StatesOK, States
    <3> QED
      BY <1>2, <1>3, <2>3, <3>1, <3>2, <3>3, GrownBySame DEF TypeOK, Routed
  <2> QED
    BY <1>11, <2>1, <2>2, <2>3
<1>13. ClaimsAreThere'
  BY <1>3, <1>7, <1>12, ClaimsStayThere DEF Grown
<1>14. /\ live' \subseteq Objects
       /\ fault' \in {"none", "out of range", "full pool", "no object"}
  BY <1>3, <1>7 DEF TypeOK
<1>15. /\ \A g \in Range(new) : g \in Range(stack[t]) \/ FrameFits(g, phase[t], state_[t], ps)
       /\ phase[t] = "running" /\ state_[t] = Null => new # << >> /\ Head(new).op = "init"
  BY <1>4, <1>6
<1>16. Returns
  <2>1. x \in Doomed[t] /\ live' = live
    BY <1>3, <1>6, <1>7, ClaimedIs
  <2> QED
    BY <1>8, <1>12, <2>1 DEF Returns
<1>17. IndInv'
  BY <1>4, <1>6, <1>7, <1>12, <1>13, <1>14, <1>15, CallStep
<1> QED
  BY <1>16, <1>17

(* The first of the blocks ahead that look used.                           *)
LEMMA FirstOf ==
  ASSUME NEW S \in SUBSET Nat, S # {}
  PROVE  (CHOOSE b \in S : \A c \in S : b <= c) \in S
<1>1. PICK b \in S : \A c \in S : ~(<<c, b>> \in OpToRel(<, Nat))
  BY NatLessThanWellFounded, WFMin
<1>2. \A c \in S : b <= c
  <2>1. ASSUME NEW c \in S
        PROVE  b <= c
    <3>1. b \in Nat /\ c \in Nat
      OBVIOUS
    <3>2. ~(c < b)
      BY <1>1, <3>1 DEF OpToRel
    <3> QED
      BY <3>1, <3>2
  <2> QED
    BY <2>1
<1> QED
  BY <1>2

(* Clear's loop destroys what is no object of the client: no claim comes.  *)
LEMMA DestroyedAgain ==
  ASSUME TypeOK, Routed, NEW t \in Threads, NEW x \in Claimed, x \notin live, UNCHANGED <<live, lost, queue>>,
         NEW new, stack' = [stack EXCEPT ![t] = new],
         DtorsIn(new) = With(DtorsIn(stack[t]), x), fault' # "none"
  PROVE  ClaimsOK' /\ Routed' /\ Claimed' = Claimed /\ DestroysAgain
<1>1. Doomed' = [Doomed EXCEPT ![t] = DtorsIn(new)] /\ Asked' = Asked
  BY DoomedStep DEF Asked
<1>2. Doomed \in Dooms /\ Doomed[t] = DtorsIn(stack[t])
  BY ClaimedIs
<1>3. \A u \in Threads : Doomed'[u] = IF u = t THEN Doomed[t] \union {x} ELSE Doomed[u]
  BY <1>1, <1>2 DEF Dooms, With
<1>4. Claimed' = AllOf(live, lost, Doomed', Asked)
  BY <1>1 DEF Claimed
<1>5. Claimed = AllOf(live, lost, Doomed, Asked)
  BY DEF Claimed
<1>6. Claimed' \subseteq Claimed
  BY <1>3, <1>4, <1>5 DEF AllOf
<1>7. Claimed \subseteq Claimed'
  BY <1>3, <1>4, <1>5 DEF AllOf
<1>8. Doomed' = Started(Doomed, t, x)
  BY <1>1, <1>2 DEF Started
<1>9. DestroysAgain
  BY <1>1, <1>8 DEF DestroysAgain
<1> QED
  BY <1>6, <1>7, <1>9 DEF ClaimsOK, Routed

(* Clear, or the deletion of a state, destroys the next object.            *)
LEMMA SweepBlockOK ==
  ASSUME IndInv, NEW t \in Threads, SweepBlock(t)
  PROVE  IndInv' /\ (Destroys \/ DestroysAgain)
<1> DEFINE F == [op : {"sweep"}, s : Threads, i : 0 .. MaxPools - 1, b : 0 .. NumBlocks,
                 n : 1 .. MaxPools]
<1>1. PICK h \in Frame : h = Head(stack[t]) /\ h.op = "sweep"
  <2>1. At(t, "sweep")
    BY DEF SweepBlock
  <2>2. Head(stack[t]) \in Frame /\ Head(stack[t]).op = "sweep"
    BY <2>1, AtIs
  <2> QED
    BY <2>2
<1>2. fault = "none" /\ stack[t] # << >>
  BY DEF SweepBlock, At
<1>3. TypeOK /\ ClaimsOK /\ Routed /\ ClaimsAreThere /\ StatesOK /\ MaxPools \in Nat
  BY ClientIs DEF IndInv
<1>4. /\ stack[t] \in Seq(Frame) /\ Shape(stack[t]) /\ phase[t] \in {"running", "exiting"}
      /\ phase[t] = "running" => state_[t] # Null
      /\ FrameFits(h, phase[t], state_[t], ps)
      /\ Tail(stack[t]) \in Seq(Frame)
  BY <1>1, <1>2, InCall
<1>5. h \in F
  BY <1>1 DEF Frame
<1>6. PICK s \in Threads, i \in 0 .. MaxPools - 1 :
        s = h.s /\ i = h.i /\ ps[s] # Null /\ i \in PoolIds(ps[s])
  <2>1. /\ h.s \in Threads /\ h.i \in 0 .. MaxPools - 1 /\ h.i \in Nat /\ h.n \in Nat
        /\ h.i < h.n /\ h.n <= Len(ps[h.s].pools) /\ ps[h.s] # Null
    BY <1>1, <1>3, <1>4, <1>5 DEF FrameFits
  <2>2. Len(ps[h.s].pools) \in Nat
    BY <1>3, <2>1, StateIs
  <2> QED
    BY <2>1, <2>2 DEF PoolIds
<1>7. PICK b : b = CHOOSE a \in UsedAhead(h) : \A c \in UsedAhead(h) : a <= c
  OBVIOUS
<1>8. UsedAhead(h) # {} /\ UsedAhead(h) \in SUBSET Nat
  <2>1. h.b \in Nat /\ NumBlocks \in Nat
    BY <1>5, LayoutAssumption
  <2>2. UsedAhead(h) \in SUBSET Nat
    BY <2>1 DEF UsedAhead
  <2> QED
    BY <1>1, <2>2 DEF SweepBlock
<1>9. /\ b \in Blocks /\ b + 1 \in 0 .. NumBlocks
      /\ IsBlockUsed(Inner(ps[s], i).fp, b)
  <2>1. b \in UsedAhead(h)
    BY <1>7, <1>8, FirstOf
  <2>2. h.b \in Nat /\ NumBlocks \in Nat
    BY <1>5, LayoutAssumption
  <2> QED
    BY <1>6, <2>1, <2>2 DEF UsedAhead, Blocks
<1>10. PICK x \in Objects : x = <<s, i, b>>
  BY <1>6, <1>9 DEF Objects
<1>11. x[1] = s /\ x[2] = i /\ x[3] = b
  BY <1>10
<1>12. x \in Claimed
  <2>1. PoolStateOK(ps[s], s, PoolNames, MaxPools, Claimed)
    BY <1>3, <1>6, StateIs
  <2>2. MaxPools \in Nat
    BY <1>3
  <2> QED
    BY <1>6, <1>9, <1>10, <2>1, <2>2, UsedMarkOK
<1>13. PICK d \in Frame : d = Dtor(x, "free") /\ d.op = "dtor" /\ d.x = x
  <2>1. /\ Dtor(x, "free") \in Frame /\ Dtor(x, "free").op = "dtor"
        /\ Dtor(x, "free").x = x
    BY DEF Frame, Dtor
  <2> QED
    BY <2>1
<1>14. PICK g \in Frame :
         /\ g = [h EXCEPT !.b = b + 1] /\ g.op = "sweep" /\ g.s = h.s /\ g.i = h.i /\ g.n = h.n
  <2>1. [h EXCEPT !.b = b + 1] \in F
    BY <1>5, <1>9
  <2> QED
    BY <1>5, <2>1 DEF Frame
<1>15. /\ stack' = [stack EXCEPT ![t] = <<d, g>> \o Tail(@)]
       /\ live' = live \ {x}
       /\ fault' = IF x \in live THEN fault ELSE "no object"
       /\ UNCHANGED <<client, phase, state_, ps, queue, free_pools, lost>>
  <2>1. <<h.s, h.i, CHOOSE b2 \in UsedAhead(h) : \A c \in UsedAhead(h) : b2 <= c>> = x
    BY <1>6, <1>7, <1>10
  <2> QED
    BY <1>1, <1>11, <1>13, <1>14, <2>1 DEF SweepBlock
<1>16. PICK r \in Seq(Frame) : r = <<g>> \o Tail(stack[t])
  BY <1>4, PushIs
<1>17. /\ Shape(r) /\ DtorsIn(r) = DtorsIn(stack[t]) /\ SweptIn(r) = SweptIn(stack[t])
       /\ OnceEach(stack[t]) => OnceEach(r)
       /\ Range(r) \subseteq Range(stack[t]) \union {g}
       /\ Head(r).op = "sweep"
  <2>1. /\ stack[t] \in Seq(Frame) /\ stack[t] # << >> /\ Shape(stack[t])
        /\ Head(stack[t]).op = "sweep" /\ Head(stack[t]).s = h.s
    BY <1>1, <1>2, <1>4
  <2>2. g.op = "sweep" /\ g.s = Head(stack[t]).s
    BY <1>14, <2>1
  <2>3. Head(stack[t]).op # "dtor" /\ g.op = Head(stack[t]).op /\ g.op # "consume"
    BY <2>1, <2>2
  <2>4. LET new == <<g>> \o Tail(stack[t]) IN
        /\ new \in Seq(Frame) /\ new # << >> /\ Head(new) = g
        /\ Shape(new) /\ DtorsIn(new) = DtorsIn(stack[t]) /\ SweptIn(new) = SweptIn(stack[t])
        /\ OnceEach(stack[t]) => OnceEach(new)
        /\ Range(new) \subseteq Range(stack[t]) \union {g}
    BY <2>1, <2>2, <2>3, SameCall
  <2> QED
    BY <1>16, <2>2, <2>4
<1>18. PICK new : new = <<d>> \o r
  OBVIOUS
<1>19. /\ new \in Seq(Frame)
       /\ DtorsIn(new) = With(DtorsIn(stack[t]), x)
       /\ SweptIn(new) = SweptIn(stack[t])
       /\ OnceEach(stack[t]) /\ x \notin DtorsIn(stack[t]) => OnceEach(new)
       /\ Shape(new)
       /\ Range(new) \subseteq Range(stack[t]) \union {d, g}
  BY <1>13, <1>17, <1>18, PushIs, PushDtor, PushRange
<1>20. stack' = [stack EXCEPT ![t] = new]
  <2>1. <<d>> \in Seq(Frame) /\ <<g>> \in Seq(Frame) /\ <<d, g>> = <<d>> \o <<g>>
    OBVIOUS
  <2>2. <<d, g>> \o Tail(stack[t]) = <<d>> \o (<<g>> \o Tail(stack[t]))
    BY <1>4, <2>1, ConcatAssociative
  <2> QED
    BY <1>15, <1>16, <1>18, <2>2
<1>21. ClaimsOK' /\ Routed' /\ Claimed' = Claimed /\ (Destroys \/ DestroysAgain)
  <2>1. CASE x \in live
    <3>1. live' = Without(live, x)
      BY <1>15 DEF Without
    <3> QED
      BY <1>2, <1>3, <1>15, <1>19, <1>20, <2>1, <3>1, Destroyed
  <2>2. CASE x \notin live
    <3>1. live' = live /\ fault' # "none"
      BY <1>15, <2>2
    <3> QED
      BY <1>3, <1>12, <1>15, <1>19, <1>20, <2>2, <3>1, DestroyedAgain
  <2> QED
    BY <2>1, <2>2
<1>22. /\ StatesOK' /\ Grown
       /\ ps' \in [Threads -> PoolStateRecord(PoolNames, MaxPools) \union {Null}]
  <2>1. StatesOK'
    BY <1>3, <1>15, <1>21 DEF StatesOK, States
  <2> QED
    BY <1>3, <1>15, <2>1, GrownBySame DEF TypeOK
<1>23. ClaimsAreThere'
  BY <1>3, <1>15, <1>21, <1>22, ClaimsStayThere DEF Grown
<1>24. /\ live' \subseteq Objects /\ lost' \subseteq Objects
       /\ fault' \in {"none", "out of range", "full pool", "no object"}
       /\ queue' \in [Threads -> [Threads -> Seq(Objects)]]
  BY <1>2, <1>3, <1>15 DEF TypeOK
<1>25. \A k \in Range(new) : k \in Range(stack[t]) \/ FrameFits(k, phase[t], state_[t], ps)
  <2>1. FrameFits(d, phase[t], state_[t], ps)
    BY <1>6, <1>11, <1>13 DEF FrameFits
  <2>2. FrameFits(g, phase[t], state_[t], ps)
    BY <1>1, <1>4, <1>14 DEF FrameFits
  <2> QED
    BY <1>19, <2>1, <2>2
<1> QED
  BY <1>4, <1>15, <1>19, <1>20, <1>21, <1>22, <1>23, <1>24, <1>25, CallStep

-----------------------------------------------------------------------------
(* The invariant.                                                          *)

(* No thread has a state yet.                                              *)
LEMMA InitOK ==
  ASSUME Init
  PROVE  IndInv
<1>1. TypeOK
  <2>1. /\ << >> \in Seq(Frame) /\ << >> \in Seq(Threads) /\ << >> \in Seq(Objects)
    OBVIOUS
  <2>2. stack \in [Threads -> Seq(Frame)] /\ free_pools \in [Threads -> Seq(Threads)]
    BY <2>1 DEF Init
  <2>3. queue \in [Threads -> [Threads -> Seq(Objects)]]
    BY <2>1 DEF Init
  <2>4. ps \in [Threads -> PoolStateRecord(PoolNames, MaxPools) \union {Null}]
    BY DEF Init
  <2> QED
    BY <2>2, <2>3, <2>4 DEF Init, TypeOK
<1>2. /\ \A t \in Threads : /\ stack[t] = << >> /\ state_[t] = Null /\ phase[t] = "unborn"
                            /\ free_pools[t] = << >> /\ ps[t] = Null
      /\ \A s, p \in Threads : queue[s][p] = << >>
      /\ live = {} /\ lost = {}
  BY DEF Init
<1>3. \A t \in Threads : DtorsIn(stack[t]) = {} /\ OnceEach(stack[t]) /\ Shape(stack[t])
  BY <1>2 DEF DtorsIn, OnceEach, Shape
<1>4. /\ \A t \in Threads : Doomed[t] = {}
      /\ \A s, p \in Threads : Asked[s][p] = {}
  <2>1. \A t \in Threads : Doomed[t] = {}
    BY <1>3 DEF Doomed
  <2>2. \A s, p \in Threads : Range(queue[s][p]) = {}
    BY <1>2 DEF Range
  <2> QED
    BY <2>1, <2>2 DEF Asked
<1>5. Claimed = {} /\ ClaimsOK
  <2>1. Claimed = {}
    BY <1>2, <1>4 DEF Claimed, AllOf
  <2>2. Apart(live, lost, Doomed, Asked)
    BY <1>2, <1>4 DEF Apart
  <2>3. \A s, p \in Threads : NoRepeat(queue[s][p])
    BY <1>2 DEF NoRepeat
  <2> QED
    BY <1>3, <2>1, <2>2, <2>3 DEF ClaimsOK
<1>6. Routed
  BY <1>2 DEF Routed, Range
<1>7. States = {}
  BY <1>2 DEF States
<1>8. StatesOK /\ ClaimsAreThere
  BY <1>5, <1>7 DEF StatesOK, ClaimsAreThere
<1>9. ThreadsOK
  BY <1>2, <1>3, NullAssumption DEF ThreadsOK, FramesFit, ThreadFits, Range
<1>10. OwnersOK
  <2>1. \A p \in Threads : Offered(p) = {} /\ NoRepeat(free_pools[p])
    BY <1>2 DEF Offered, Range, NoRepeat
  <2> QED
    BY <1>2, <1>7, <2>1 DEF OwnersOK
<1> QED
  BY <1>1, <1>5, <1>6, <1>8, <1>9, <1>10 DEF IndInv

(* Each step keeps the invariant, and does one thing to the claims.        *)
LEMMA StepOK ==
  ASSUME IndInv, [Next]_vars
  PROVE  IndInv' /\ ClaimStep
<1>1. ASSUME NEW t \in Threads, Work(t)
      PROVE  IndInv' /\ ClaimStep
  <2>1. CASE TakeFreePool(t)
    BY <2>1, TakeFreePoolOK DEF ClaimStep
  <2>2. CASE CreatePoolState(t)
    BY <2>2, CreatePoolStateOK DEF ClaimStep
  <2>3. CASE InitFails(t)
    BY <2>3, InitFailsOK DEF ClaimStep
  <2>4. CASE FindNoFreePool(t)
    BY <2>4, FindNoFreePoolOK DEF ClaimStep
  <2>5. CASE ConsumeOne(t)
    BY <2>5, ConsumeOneOK DEF ClaimStep
  <2>6. CASE FindNoRequest(t)
    BY <2>6, FindNoRequestOK DEF ClaimStep
  <2>7. CASE FinishNew(t)
    BY <2>7, FinishNewOK DEF ClaimStep
  <2>8. CASE StartSweep(t)
    BY <2>8, StartSweepOK DEF ClaimStep
  <2>9. CASE AddFreePool(t)
    BY <2>9, AddFreePoolOK DEF ClaimStep
  <2>10. CASE EndDtor(t)
    BY <2>10, EndDtorOK DEF ClaimStep
  <2>11. CASE SweepBlock(t)
    BY <2>11, SweepBlockOK DEF ClaimStep
  <2>12. CASE SweepNextPool(t)
    BY <2>12, SweepNextPoolOK DEF ClaimStep
  <2>13. CASE EndSweep(t)
    BY <2>13, EndSweepOK DEF ClaimStep
  <2> QED
    BY <1>1, <2>1, <2>2, <2>3, <2>4, <2>5, <2>6, <2>7, <2>8, <2>9, <2>10, <2>11, <2>12, <2>13
    DEF Work
<1>2. ASSUME NEW t \in Threads, Call(t)
      PROVE  IndInv' /\ ClaimStep
  <2>1. CASE Start(t)
    BY <2>1, StartOK DEF ClaimStep
  <2>2. CASE New(t)
    BY <2>2, NewOK DEF ClaimStep
  <2>3. CASE Clear(t)
    BY <2>3, ClearOK DEF ClaimStep
  <2>4. CASE Exit(t)
    BY <2>4, ExitOK DEF ClaimStep
  <2>5. ASSUME NEW x \in live, Delete(t, x)
        PROVE  IndInv' /\ ClaimStep
    BY <2>5, DeleteOK DEF ClaimStep
  <2> QED
    BY <1>2, <2>1, <2>2, <2>3, <2>4, <2>5 DEF Call
<1>3. CASE ExitProcess
  BY <1>3, ExitProcessOK DEF ClaimStep
<1>4. CASE DeleteState
  BY <1>4, DeleteStateOK DEF ClaimStep
<1>5. CASE UNCHANGED vars
  <2>1. UNCHANGED <<client, phase, state_, ps, queue, free_pools, stack, live, lost, fault>>
    BY <1>5 DEF vars
  <2>2. TypeOK' /\ ThreadsOK'
    <3>1. TypeOK'
      BY <2>1 DEF IndInv, TypeOK
    <3>2. \A t \in Threads : FramesFit(t)' <=> FramesFit(t)
      BY <2>1 DEF FramesFit
    <3>3. \A t \in Threads : ThreadFits(t)' <=> ThreadFits(t)
      BY <2>1 DEF ThreadFits
    <3> QED
      BY <2>1, <3>1, <3>2, <3>3 DEF IndInv, ThreadsOK
  <2>3. OwnersOK' /\ States' = States
    BY <2>1 DEF IndInv, OwnersOK, Offered, Swept, States, Does
  <2>4. Doomed' = Doomed /\ Asked' = Asked
    BY <2>1 DEF Doomed, Asked
  <2>5. Claimed' = Claimed
    BY <2>1, <2>4 DEF Claimed
  <2>6. ClaimsOK' /\ Routed'
    BY <2>1, <2>4 DEF IndInv, ClaimsOK, Routed
  <2>7. ClaimsAreThere' /\ StatesOK'
    BY <2>1, <2>3, <2>5 DEF IndInv, ClaimsAreThere, IsThere, StatesOK
  <2>8. ClaimStep
    BY <2>1, <2>4 DEF ClaimStep, Keeps
  <2> QED
    BY <2>2, <2>3, <2>6, <2>7, <2>8 DEF IndInv
<1> QED
  BY <1>1, <1>2, <1>3, <1>4, <1>5 DEF Next

(* The inductive invariant holds in every state.                           *)
LEMMA Invariant == Spec => []IndInv
<1>1. Init => IndInv
  BY InitOK
<1>2. IndInv /\ [Next]_vars => IndInv'
  BY StepOK
<1> QED
  BY <1>1, <1>2, PTL DEF Spec

(* Every variable keeps its type.                                          *)
THEOREM TypeCorrect == Spec => []TypeOK
<1>1. IndInv => TypeOK
  BY DEF IndInv
<1> QED
  BY <1>1, Invariant, PTL

-----------------------------------------------------------------------------
(* What follows from it.                                                   *)

(* A set without two elements.                                             *)
LEMMA AtMostOne ==
  ASSUME NEW S, \A a, b \in S : a = b
  PROVE  Cardinality(S) <= 1
<1>1. CASE S = {}
  BY <1>1, FS_EmptySet
<1>2. ASSUME NEW a \in S
      PROVE  Cardinality(S) <= 1
  <2>1. S = {a}
    BY <1>2
  <2> QED
    BY <2>1, FS_Singleton
<1> QED
  BY <1>1, <1>2

(* A request is in the queue of the state whose block it is for, and the   *)
(* block's header names the pool it is in.                                 *)
THEOREM RequestsStayRouted == Spec => []RequestsAreRouted
<1>1. ASSUME IndInv
      PROVE  RequestsAreRouted
  <2>1. ASSUME NEW s \in States, NEW i \in PoolIds(ps[s])
        PROVE  HeadersOK(Inner(ps[s], i).fp, <<s, i>>)
    BY <1>1 DEF IndInv, StatesOK, PoolStateOK
  <2>2. ASSUME NEW s \in Threads, NEW p \in Threads, NEW k \in DOMAIN queue[s][p]
        PROVE  queue[s][p][k][1] = s
    <3>1. queue[s][p][k] \in Range(queue[s][p])
      BY DEF Range
    <3> QED
      BY <1>1, <3>1 DEF IndInv, Routed
  <2> QED
    BY <2>1, <2>2 DEF RequestsAreRouted
<1> QED
  BY <1>1, Invariant, PTL

(* Where a state is held.                                                  *)
LEMMA HolderIs ==
  ASSUME IndInv, NEW s \in States, NEW h \in Holders(s)
  PROVE  \/ \E t \in Threads : state_[t] = s /\ h = <<"thread", t>>
         \/ \E p \in Threads : \E k \in DOMAIN free_pools[p] :
              free_pools[p][k] = s /\ s \in Offered(p) /\ h = <<"free", p, k>>
         \/ phase[Main] = "exiting" /\ s \in Swept /\ h = <<"sweep", Len(stack[Main])>>
<1>1. \A p \in Threads : \A k \in DOMAIN free_pools[p] :
        free_pools[p][k] = s => s \in Offered(p)
  BY DEF Offered, Range
<1>2. ASSUME phase[Main] = "exiting", NEW k \in Frames(Main, "sweep"), stack[Main][k].s = s
      PROVE  k = Len(stack[Main]) /\ s \in Swept
  <2>1. k \in DOMAIN stack[Main] /\ stack[Main][k].op = "sweep" /\ s \in Threads
    BY <1>2 DEF Frames, States
  <2>2. Shape(stack[Main])
    BY ClientAssumption DEF IndInv, ThreadsOK
  <2> QED
    BY <1>2, <2>1, <2>2 DEF Shape, Swept, SweptIn
<1>3. CASE h \in Offers(s)
  BY <1>1, <1>3 DEF Offers
<1>4. CASE h \in Deletions(s)
  BY <1>2, <1>4 DEF Deletions
<1> QED
  BY <1>3, <1>4 DEF Holders

(* A state is in the hands of one thread, or offered once, or being        *)
(* deleted; and it is lost only by an enqueue that ran out of memory.      *)
THEOREM StatesStayOwned == Spec => []StateOwnership
<1>1. ASSUME IndInv
      PROVE  StateOwnership
  <2>1. ASSUME NEW s \in States, NEW g \in Holders(s), NEW h \in Holders(s)
        PROVE  g = h
    <3>1. OwnersOK /\ ThreadsOK /\ s \in Threads /\ s # Null
      BY <1>1, NullAssumption DEF IndInv, States
    <3>2. ASSUME NEW t \in Threads, state_[t] = s
          PROVE  phase[Main] # "exiting" /\ \A p \in Threads : s \notin Offered(p)
      BY <3>1, <3>2 DEF OwnersOK, ThreadsOK, ThreadFits
    <3>3. ASSUME NEW t \in Threads, NEW u \in Threads, state_[t] = s, state_[u] = s
          PROVE  t = u
      BY <3>1, <3>3 DEF OwnersOK
    <3>4. ASSUME NEW p \in Threads, NEW q \in Threads, s \in Offered(p), s \in Offered(q)
          PROVE  p = q
      BY <3>1, <3>4 DEF OwnersOK
    <3>5. ASSUME NEW p \in Threads, NEW k \in DOMAIN free_pools[p], NEW l \in DOMAIN free_pools[p],
                 free_pools[p][k] = s, free_pools[p][l] = s
          PROVE  k = l
      BY <3>1, <3>5 DEF OwnersOK, NoRepeat
    <3>6. \A p \in Threads : s \in Offered(p) => s \notin Swept
      BY <3>1 DEF OwnersOK
    <3>7. /\ \/ \E t \in Threads : state_[t] = s /\ g = <<"thread", t>>
             \/ \E p \in Threads : \E k \in DOMAIN free_pools[p] :
                  free_pools[p][k] = s /\ s \in Offered(p) /\ g = <<"free", p, k>>
             \/ phase[Main] = "exiting" /\ s \in Swept /\ g = <<"sweep", Len(stack[Main])>>
          /\ \/ \E t \in Threads : state_[t] = s /\ h = <<"thread", t>>
             \/ \E p \in Threads : \E k \in DOMAIN free_pools[p] :
                  free_pools[p][k] = s /\ s \in Offered(p) /\ h = <<"free", p, k>>
             \/ phase[Main] = "exiting" /\ s \in Swept /\ h = <<"sweep", Len(stack[Main])>>
      BY <1>1, <2>1, HolderIs
    <3> QED
      BY <3>2, <3>3, <3>4, <3>5, <3>6, <3>7
  <2>2. \A s \in States : Cardinality(Holders(s)) <= 1
    BY <2>1, AtMostOne
  <2>3. ASSUME NEW s \in States, ~Does("nomem")
        PROVE  Holders(s) # {}
    <3>1. \/ \E t \in Threads : state_[t] = s
          \/ \E p \in Threads : s \in Offered(p)
          \/ s \in Swept
      BY <1>1, <2>3 DEF IndInv, OwnersOK
    <3>2. ASSUME NEW t \in Threads, state_[t] = s
          PROVE  <<"thread", t>> \in Holders(s)
      BY <3>2 DEF Holders
    <3>3. ASSUME NEW p \in Threads, s \in Offered(p)
          PROVE  Holders(s) # {}
      <4>1. PICK k \in DOMAIN free_pools[p] : free_pools[p][k] = s
        BY <3>3 DEF Offered, Range
      <4>2. <<"free", p, k>> \in Offers(s)
        BY <4>1 DEF Offers
      <4> QED
        BY <4>2 DEF Holders
    <3>4. ASSUME s \in Swept
          PROVE  Holders(s) # {}
      <4>1. phase[Main] = "exiting" /\ s \in SweptIn(stack[Main])
        BY <3>4 DEF Swept
      <4>2. PICK k \in DOMAIN stack[Main] : stack[Main][k].op = "sweep" /\ stack[Main][k].s = s
        BY <4>1 DEF SweptIn
      <4>3. <<"sweep", k>> \in Deletions(s)
        BY <4>1, <4>2 DEF Deletions, Frames
      <4> QED
        BY <4>3 DEF Holders
    <3> QED
      BY <3>1, <3>2, <3>3, <3>4
  <2> QED
    BY <2>2, <2>3 DEF StateOwnership
<1> QED
  BY <1>1, Invariant, PTL

(* What claims an object.                                                  *)
LEMMA ClaimIs ==
  ASSUME IndInv, NEW x \in Objects, NEW c \in Claims(x)
  PROVE  \/ x \in live /\ c = <<"live", x>>
         \/ x \in lost /\ c = <<"lost", x>>
         \/ \E t \in Threads : \E k \in DOMAIN stack[t] :
              /\ stack[t][k].op = "dtor" /\ stack[t][k].x = x
              /\ x \in Doomed[t] /\ c = <<"dtor", t, k>>
         \/ \E p \in Threads : \E k \in DOMAIN queue[x[1]][p] :
              /\ queue[x[1]][p][k] = x
              /\ x \in Asked[x[1]][p] /\ c = <<"request", p, k>>
<1>1. x[1] \in Threads
  BY ObjectIs
<1>2. \A t \in Threads : \A k \in DOMAIN stack[t] :
        stack[t][k].op = "dtor" /\ stack[t][k].x = x => x \in Doomed[t]
  BY DEF Doomed, DtorsIn
<1>3. \A p \in Threads : \A k \in DOMAIN queue[x[1]][p] :
        queue[x[1]][p][k] = x => x \in Asked[x[1]][p]
  BY <1>1 DEF Asked, Range
<1>4. CASE c \in DtorsOf(x)
  BY <1>2, <1>4 DEF DtorsOf, Frames
<1>5. CASE c \in RequestsOf(x)
  BY <1>3, <1>5 DEF RequestsOf
<1> QED
  BY <1>4, <1>5 DEF Claims

(* Something claims what is claimed.                                       *)
LEMMA ClaimedHasClaim ==
  ASSUME IndInv, NEW x \in Objects
  PROVE  Claims(x) # {} <=> x \in Claimed
<1>1. ASSUME x \in Claimed
      PROVE  Claims(x) # {}
  <2>1. \/ x \in live
        \/ x \in lost
        \/ \E t \in Threads : x \in Doomed[t]
        \/ \E s, p \in Threads : x \in Asked[s][p]
    BY <1>1 DEF Claimed, AllOf
  <2>2. ASSUME x \in live \/ x \in lost
        PROVE  Claims(x) # {}
    <3>1. <<"live", x>> \in Claims(x) \/ <<"lost", x>> \in Claims(x)
      BY <2>2 DEF Claims
    <3> QED
      BY <3>1
  <2>3. ASSUME NEW t \in Threads, x \in Doomed[t]
        PROVE  Claims(x) # {}
    <3>1. PICK k \in DOMAIN stack[t] : stack[t][k].op = "dtor" /\ stack[t][k].x = x
      BY <2>3 DEF Doomed, DtorsIn
    <3>2. <<"dtor", t, k>> \in DtorsOf(x)
      BY <3>1 DEF DtorsOf, Frames
    <3> QED
      BY <3>2 DEF Claims
  <2>4. ASSUME NEW s \in Threads, NEW p \in Threads, x \in Asked[s][p]
        PROVE  Claims(x) # {}
    <3>1. x \in Range(queue[s][p])
      BY <2>4 DEF Asked
    <3>2. x[1] = s
      BY <3>1 DEF IndInv, Routed
    <3>3. PICK k \in DOMAIN queue[s][p] : queue[s][p][k] = x
      BY <3>1 DEF Range
    <3>4. <<"request", p, k>> \in RequestsOf(x)
      BY <3>2, <3>3 DEF RequestsOf
    <3> QED
      BY <3>4 DEF Claims
  <2> QED
    BY <2>1, <2>2, <2>3, <2>4
<1>2. ASSUME NEW c \in Claims(x)
      PROVE  x \in Claimed
  <2>1. x[1] \in Threads
    BY ObjectIs
  <2>2. \/ x \in live
        \/ x \in lost
        \/ \E t \in Threads : x \in Doomed[t]
        \/ \E p \in Threads : x \in Asked[x[1]][p]
    BY <1>2, ClaimIs
  <2> QED
    BY <2>1, <2>2 DEF Claimed, AllOf
<1> QED
  BY <1>1, <1>2

(* Nothing is claimed twice.                                               *)
LEMMA OneClaim ==
  ASSUME IndInv, fault = "none", NEW x \in Objects
  PROVE  Cardinality(Claims(x)) <= 1
<1>1. /\ \A t \in Threads : OnceEach(stack[t])
      /\ \A s, p \in Threads : NoRepeat(queue[s][p])
      /\ Apart(live, lost, Doomed, Asked)
      /\ x[1] \in Threads
  BY ObjectIs DEF IndInv, ClaimsOK
<1>2. /\ ~(x \in live /\ x \in lost)
      /\ \A t \in Threads : x \in Doomed[t] => /\ x \notin live /\ x \notin lost
                                               /\ \A u \in Threads : x \in Doomed[u] => t = u
                                               /\ \A p \in Threads : x \notin Asked[x[1]][p]
      /\ \A p \in Threads : x \in Asked[x[1]][p] =>
                               /\ x \notin live /\ x \notin lost
                               /\ \A q \in Threads : x \in Asked[x[1]][q] => p = q
  BY <1>1 DEF Apart
<1>3. \A t \in Threads : \A k, l \in DOMAIN stack[t] :
        (/\ stack[t][k].op = "dtor" /\ stack[t][k].x = x
         /\ stack[t][l].op = "dtor" /\ stack[t][l].x = x) => k = l
  <2>1. ASSUME NEW t \in Threads, NEW k \in DOMAIN stack[t], NEW l \in DOMAIN stack[t],
               stack[t][k].op = "dtor", stack[t][k].x = x,
               stack[t][l].op = "dtor", stack[t][l].x = x
        PROVE  k = l
    <3>1. OnceEach(stack[t])
      BY <1>1
    <3> QED
      BY <2>1, <3>1 DEF OnceEach
  <2> QED
    BY <2>1
<1>4. \A p \in Threads : \A k, l \in DOMAIN queue[x[1]][p] :
        queue[x[1]][p][k] = x /\ queue[x[1]][p][l] = x => k = l
  BY <1>1 DEF NoRepeat
<1>5. ASSUME NEW c \in Claims(x), NEW d \in Claims(x)
      PROVE  c = d
  <2>1. /\ \/ x \in live /\ c = <<"live", x>>
           \/ x \in lost /\ c = <<"lost", x>>
           \/ \E t \in Threads : \E k \in DOMAIN stack[t] :
                /\ stack[t][k].op = "dtor" /\ stack[t][k].x = x
                /\ x \in Doomed[t] /\ c = <<"dtor", t, k>>
           \/ \E p \in Threads : \E k \in DOMAIN queue[x[1]][p] :
                /\ queue[x[1]][p][k] = x
                /\ x \in Asked[x[1]][p] /\ c = <<"request", p, k>>
        /\ \/ x \in live /\ d = <<"live", x>>
           \/ x \in lost /\ d = <<"lost", x>>
           \/ \E t \in Threads : \E k \in DOMAIN stack[t] :
                /\ stack[t][k].op = "dtor" /\ stack[t][k].x = x
                /\ x \in Doomed[t] /\ d = <<"dtor", t, k>>
           \/ \E p \in Threads : \E k \in DOMAIN queue[x[1]][p] :
                /\ queue[x[1]][p][k] = x
                /\ x \in Asked[x[1]][p] /\ d = <<"request", p, k>>
    BY <1>5, ClaimIs
  <2> QED
    BY <1>2, <1>3, <1>4, <2>1
<1> QED
  BY <1>5, AtMostOne

(* A block is on its pool's free list, or is accounted for once.           *)
THEOREM BlocksStayAccounted == Spec => []BlockAccounting
<1>1. ASSUME IndInv, fault = "none", NEW s \in States, NEW i \in PoolIds(ps[s])
      PROVE  /\ FreeListOK(Inner(ps[s], i).fp, UsedBlocks(s, i))
             /\ \A b \in Blocks : Cardinality(Claims(<<s, i, b>>)) <= 1
  <2>1. PoolStateOK(ps[s], s, PoolNames, MaxPools, Claimed) /\ s \in Threads
    BY <1>1 DEF IndInv, StatesOK, States
  <2>2. FreeListOK(Inner(ps[s], i).fp, UsedIn(Claimed, s, i)) /\ <<s, i>> \in PoolNames
    BY <1>1, <2>1 DEF PoolStateOK
  <2>3. \A b \in Blocks : <<s, i, b>> \in Objects
    BY <2>1, <2>2 DEF Objects, PoolNames
  <2>4. \A b \in Blocks : Claims(<<s, i, b>>) # {} <=> <<s, i, b>> \in Claimed
    BY <1>1, <2>3, ClaimedHasClaim
  <2>5. UsedBlocks(s, i) = UsedIn(Claimed, s, i)
    BY <2>4 DEF UsedBlocks, UsedIn
  <2>6. \A b \in Blocks : Cardinality(Claims(<<s, i, b>>)) <= 1
    BY <1>1, <2>3, OneClaim
  <2> QED
    BY <2>2, <2>5, <2>6
<1>2. IndInv => BlockAccounting
  BY <1>1 DEF BlockAccounting
<1> QED
  BY <1>2, Invariant, PTL

-----------------------------------------------------------------------------
(* The refinement.                                                         *)

(* The addresses that wait are the objects claimed by somebody else than   *)
(* the client.                                                             *)
Waiting == AllOf({}, lost, Doomed, Asked)

(* They are those AbstractPool has pending.                                *)
LEMMA PendingIs == TypeOK => Pending = Waiting
<1> SUFFICES ASSUME TypeOK
             PROVE  Pending = Waiting
  OBVIOUS
<1>1. /\ Doomed \in Dooms /\ Asked \in Asks /\ lost \in SUBSET Objects
      /\ \A t \in Threads : Doomed[t] = DtorsIn(stack[t])
      /\ \A s, p \in Threads : Asked[s][p] = Range(queue[s][p])
  BY ClaimedIs DEF TypeOK
<1>2. ASSUME NEW t \in Threads
      PROVE  {stack[t][k].x : k \in Frames(t, "dtor")} = Doomed[t]
  <2>1. \A k \in Frames(t, "dtor") : stack[t][k].x \in Objects
    <3>1. stack[t] \in Seq(Frame)
      BY DEF TypeOK
    <3> QED
      BY <3>1, ElementOfSeq, FrameIs DEF Frames
  <2> QED
    BY <1>1, <2>1 DEF Frames, DtorsIn
<1>3. ASSUME NEW s \in Threads, NEW p \in Threads
      PROVE  {queue[s][p][k] : k \in DOMAIN queue[s][p]} = Asked[s][p]
  BY <1>1 DEF Range
<1>4. Pending \subseteq Waiting
  <2>1. ASSUME NEW x \in Pending
        PROVE  \/ x \in lost
               \/ \E t \in Threads : x \in Doomed[t]
               \/ \E s, p \in Threads : x \in Asked[s][p]
    BY <1>2, <1>3, <2>1 DEF Pending, InDtors, InQueues
  <2>2. \A x : (\/ x \in lost
                \/ \E t \in Threads : x \in Doomed[t]
                \/ \E s, p \in Threads : x \in Asked[s][p]) => x \in Objects
    BY <1>1 DEF Dooms, Asks
  <2> QED
    BY <2>1, <2>2 DEF Waiting, AllOf
<1>5. Waiting \subseteq Pending
  BY <1>2, <1>3 DEF Waiting, AllOf, Pending, InDtors, InQueues
<1> QED
  BY <1>4, <1>5

(* A step of the abstract pool, or none.                                   *)
AddressStep == [Addresses!Next]_(Addresses!vars)

(* What a step does to the claims is such a step.                          *)
LEMMA ClaimsToAddresses ==
  ASSUME IndInv, IndInv', fault = "none", ClaimStep
  PROVE  AddressStep
<1>1. /\ Apart(live, lost, Doomed, Asked)
      /\ Doomed \in Dooms /\ Asked \in Asks
      /\ lost \in SUBSET Objects /\ live \in SUBSET Objects
  BY ClaimedIs DEF IndInv, ClaimsOK, TypeOK
<1>2. Pending = Waiting /\ Pending' = Waiting'
  <2>1. (TypeOK => Pending = Waiting)'
    BY PendingIs, PTL
  <2> QED
    BY <2>1, PendingIs DEF IndInv
<1>3. /\ Waiting \intersect live = {} /\ Waiting \subseteq Objects
      /\ Claimed = live \union Waiting
  BY <1>1 DEF Waiting, Claimed, AllOf, Apart
<1>4. ASSUME Keeps
      PROVE  live' = live /\ Waiting' = Waiting
  BY <1>4 DEF Keeps, Waiting
<1>5. ASSUME Takes
      PROVE  \E x \in Objects \ (live \union Waiting) :
               \/ live' = live \union {x} /\ Waiting' = Waiting
               \/ Waiting' = Waiting \union {x} /\ live' = live
  <2>1. PICK x \in Objects \ Claimed :
          \/ live' = With(live, x) /\ lost' = lost
          \/ lost' = With(lost, x) /\ live' = live
    BY <1>5 DEF Takes
  <2>2. Doomed' = Doomed /\ Asked' = Asked
    BY <1>5 DEF Takes
  <2>3. CASE live' = With(live, x) /\ lost' = lost
    <3>1. Waiting' = Waiting
      BY <2>2, <2>3 DEF Waiting
    <3> QED
      BY <1>3, <2>3, <3>1 DEF With
  <2>4. CASE lost' = With(lost, x) /\ live' = live
    <3>1. Waiting' = AllOf({}, With(lost, x), Doomed, Asked)
      BY <2>2, <2>4 DEF Waiting
    <3>2. Waiting' = Waiting \union {x}
      BY <3>1 DEF Waiting, AllOf, With
    <3> QED
      BY <1>3, <2>4, <3>2
  <2> QED
    BY <2>1, <2>3, <2>4
<1>6. ASSUME NEW t \in Threads, NEW x \in Objects, Doomed' = Started(Doomed, t, x),
             lost' = lost, Asked' = Asked
      PROVE  Waiting' = Waiting \union {x}
  <2>1. Waiting' = AllOf({}, lost, Started(Doomed, t, x), Asked)
    BY <1>6 DEF Waiting
  <2>2. \A u \in Threads : Started(Doomed, t, x)[u] = IF u = t THEN Doomed[t] \union {x} ELSE Doomed[u]
    BY <1>1 DEF Started, Dooms, With
  <2> QED
    BY <2>1, <2>2 DEF Waiting, AllOf
<1>7. ASSUME Destroys
      PROVE  \E x \in live : live' = live \ {x} /\ Waiting' = Waiting \union {x}
  <2>1. PICK t \in Threads, x \in live : live' = Without(live, x) /\ Doomed' = Started(Doomed, t, x)
    BY <1>7 DEF Destroys
  <2>2. lost' = lost /\ Asked' = Asked
    BY <1>7 DEF Destroys
  <2> QED
    BY <1>1, <1>6, <2>1, <2>2 DEF Without
<1>8. ASSUME DestroysAgain
      PROVE  live' = live /\ Waiting' = Waiting
  <2>1. PICK t \in Threads, x \in Claimed \ live : Doomed' = Started(Doomed, t, x)
    BY <1>8 DEF DestroysAgain
  <2>2. UNCHANGED <<live, lost>> /\ Asked' = Asked
    BY <1>8 DEF DestroysAgain
  <2>3. x \in Waiting
    BY <1>3, <2>1
  <2> QED
    BY <1>3, <1>6, <2>1, <2>2, <2>3
<1>9. ASSUME NEW t \in Threads, NEW x \in Doomed[t]
       PROVE  /\ x \in Waiting
              /\ AllOf({}, lost, Returned(Doomed, t, x), Asked) = Waiting \ {x}
              /\ AllOf({}, With(lost, x), Returned(Doomed, t, x), Asked) = Waiting
              /\ \A s \in Threads :
                   AllOf({}, lost, Returned(Doomed, t, x), Requested(Asked, s, t, x)) = Waiting
  <2>1. /\ x \in Objects /\ x \in Waiting
        /\ \A u \in Threads : Returned(Doomed, t, x)[u] = IF u = t THEN Doomed[t] \ {x} ELSE Doomed[u]
        /\ x \notin lost /\ \A s, p \in Threads : x \notin Asked[s][p]
        /\ \A u \in Threads : u # t => x \notin Doomed[u]
    BY <1>1, <1>9 DEF Returned, Dooms, Without, Apart, Waiting, AllOf
  <2>2. AllOf({}, lost, Returned(Doomed, t, x), Asked) = Waiting \ {x}
    BY <2>1 DEF AllOf, Waiting
  <2>3. AllOf({}, With(lost, x), Returned(Doomed, t, x), Asked) = Waiting
    BY <2>1 DEF AllOf, Waiting, With
  <2>4. ASSUME NEW s \in Threads
        PROVE  AllOf({}, lost, Returned(Doomed, t, x), Requested(Asked, s, t, x)) = Waiting
    <3>1. \A r, u \in Threads : Requested(Asked, s, t, x)[r][u] =
            IF r = s /\ u = t THEN Asked[r][u] \union {x} ELSE Asked[r][u]
      BY <1>1, <2>1 DEF Requested, Asks, With
    <3>2. \A y \in Objects : (\E r, u \in Threads : y \in Requested(Asked, s, t, x)[r][u]) <=>
                               y = x \/ \E r, u \in Threads : y \in Asked[r][u]
      <4>1. x \in Requested(Asked, s, t, x)[s][t]
        BY <3>1
      <4>2. \A r, u \in Threads : Asked[r][u] \subseteq Requested(Asked, s, t, x)[r][u]
        BY <3>1
      <4>3. \A r, u \in Threads : Requested(Asked, s, t, x)[r][u] \subseteq Asked[r][u] \union {x}
        BY <3>1
      <4> QED
        BY <4>1, <4>2, <4>3
    <3> QED
      BY <2>1, <3>2 DEF AllOf, Waiting
  <2> QED
    BY <2>1, <2>2, <2>3, <2>4
<1>10. ASSUME Returns
       PROVE  /\ live' = live
              /\ Waiting' = Waiting \/ \E x \in Waiting : Waiting' = Waiting \ {x}
  <2>1. PICK t \in Threads, s \in Threads : \E x \in Doomed[t] :
          /\ Doomed' = Returned(Doomed, t, x)
          /\ \/ lost' = lost /\ Asked' = Asked
             \/ lost' = With(lost, x) /\ Asked' = Asked
             \/ lost' = lost /\ Asked' = Requested(Asked, s, t, x)
    BY <1>10 DEF Returns
  <2>2. PICK x \in Doomed[t] :
          /\ Doomed' = Returned(Doomed, t, x)
          /\ \/ lost' = lost /\ Asked' = Asked
             \/ lost' = With(lost, x) /\ Asked' = Asked
             \/ lost' = lost /\ Asked' = Requested(Asked, s, t, x)
    BY <2>1
  <2>3. \/ Waiting' = AllOf({}, lost, Returned(Doomed, t, x), Asked)
        \/ Waiting' = AllOf({}, With(lost, x), Returned(Doomed, t, x), Asked)
        \/ Waiting' = AllOf({}, lost, Returned(Doomed, t, x), Requested(Asked, s, t, x))
    BY <2>2 DEF Waiting
  <2>4. Waiting' = Waiting \ {x} \/ Waiting' = Waiting
    BY <1>9, <2>3
  <2> QED
    BY <1>9, <1>10, <2>4 DEF Returns
<1>11. ASSUME Consumes
       PROVE  live' = live /\ \E x \in Waiting : Waiting' = Waiting \ {x}
  <2>1. PICK s \in Threads, p \in Threads : \E x \in Asked[s][p] : Asked' = Taken(Asked, s, p, x)
    BY <1>11 DEF Consumes
  <2>2. PICK x \in Asked[s][p] : Asked' = Taken(Asked, s, p, x)
    BY <2>1
  <2>3. UNCHANGED <<live, lost>> /\ Doomed' = Doomed
    BY <1>11 DEF Consumes
  <2>4. Waiting' = AllOf({}, lost, Doomed, Taken(Asked, s, p, x))
    BY <2>2, <2>3 DEF Waiting
  <2>5. /\ x \in Objects /\ x \notin lost
        /\ \A u \in Threads : x \notin Doomed[u]
        /\ \A r, u \in Threads : r # s \/ u # p => x \notin Asked[r][u]
    BY <1>1, <2>2 DEF Asks, Apart
  <2>6. \A r, u \in Threads : Taken(Asked, s, p, x)[r][u] =
          IF r = s /\ u = p THEN Asked[r][u] \ {x} ELSE Asked[r][u]
    BY <1>1, <2>5 DEF Taken, Asks, Without
  <2>7. x \in Waiting
    BY <2>2, <2>5 DEF Waiting, AllOf
  <2>8. \A y \in Objects : (\E r, u \in Threads : y \in Taken(Asked, s, p, x)[r][u]) <=>
                             y # x /\ \E r, u \in Threads : y \in Asked[r][u]
    <3>1. \A y \in Objects : \A r, u \in Threads :
            y \in Taken(Asked, s, p, x)[r][u] <=> y # x /\ y \in Asked[r][u]
      <4>1. ASSUME NEW y \in Objects, NEW r \in Threads, NEW u \in Threads
            PROVE  y \in Taken(Asked, s, p, x)[r][u] <=> y # x /\ y \in Asked[r][u]
        <5>1. CASE r = s /\ u = p
          BY <2>6, <5>1
        <5>2. CASE ~(r = s /\ u = p)
          BY <2>5, <2>6, <5>2
        <5> QED
          BY <5>1, <5>2
      <4> QED
        BY <4>1
    <3> QED
      BY <3>1
  <2>9. Waiting' = Waiting \ {x}
    BY <2>4, <2>5, <2>8 DEF Waiting, AllOf
  <2> QED
    BY <2>3, <2>7, <2>9
<1>12. \/ live' = live /\ Waiting' = Waiting
       \/ \E x \in Objects \ (live \union Waiting) :
            \/ live' = live \union {x} /\ Waiting' = Waiting
            \/ Waiting' = Waiting \union {x} /\ live' = live
       \/ \E x \in live : live' = live \ {x} /\ Waiting' = Waiting \union {x}
       \/ \E x \in Waiting : Waiting' = Waiting \ {x} /\ live' = live
  BY <1>4, <1>5, <1>7, <1>8, <1>10, <1>11 DEF ClaimStep
<1> QED
  BY <1>2, <1>12 DEF AddressStep, Addresses!Next, Addresses!vars, Addresses!New, Addresses!Destroy,
    Addresses!GiveBack

(* Every step after undefined behaviour is a stutter.                      *)
LEMMA FaultEndsAll ==
  ASSUME [Next]_vars, fault # "none"
  PROVE  UNCHANGED vars
<1>1. ASSUME NEW t \in Threads, Work(t)
      PROVE  FALSE
  BY <1>1 DEF Work, At, TakeFreePool, CreatePoolState, InitFails, FindNoFreePool, ConsumeOne,
    FindNoRequest, FinishNew, StartSweep, AddFreePool, Consumed, EndDtor, SweepBlock,
    SweepNextPool, EndSweep
<1>2. ASSUME NEW t \in Threads, Call(t)
      PROVE  FALSE
  BY <1>2 DEF Call, Start, New, Clear, Exit, Delete, MayCall
<1>3. ~ExitProcess /\ ~DeleteState
  BY DEF ExitProcess, DeleteState
<1> QED
  BY <1>1, <1>2, <1>3 DEF Next

(* The pool hands out addresses as the abstract pool does: it implements   *)
(* AbstractPool.                                                           *)
THEOREM HandsOutAddresses == Spec => Refines
<1>1. Init => Addresses!Init
  <2> SUFFICES ASSUME Init
               PROVE  Addresses!Init
    OBVIOUS
  <2>1. /\ live = {} /\ lost = {}
        /\ \A t \in Threads : stack[t] = << >>
        /\ \A s, p \in Threads : queue[s][p] = << >>
    BY DEF Init
  <2>2. InDtors = {}
    BY <2>1 DEF InDtors, Frames
  <2>3. InQueues = {}
    BY <2>1 DEF InQueues
  <2> QED
    BY <2>1, <2>2, <2>3 DEF Addresses!Init, Pending
<1>2. IndInv /\ IndInv' /\ [Next]_vars => AddressStep
  <2> SUFFICES ASSUME IndInv, IndInv', [Next]_vars
               PROVE  AddressStep
    OBVIOUS
  <2>1. CASE fault = "none"
    BY <2>1, StepOK, ClaimsToAddresses
  <2>2. CASE fault # "none"
    <3>1. UNCHANGED vars
      BY <2>2, FaultEndsAll
    <3>2. live' = live /\ Pending' = Pending
      BY <3>1 DEF vars, Pending, InDtors, InQueues, Frames
    <3> QED
      BY <3>2 DEF AddressStep, Addresses!vars
  <2> QED
    BY <2>1, <2>2
<1> QED
  BY <1>1, <1>2, Invariant, PTL DEF Spec, AddressStep, Refines, Addresses!Spec

-----------------------------------------------------------------------------
(* The list of free pools of a PoolState: what each operation does to its  *)
(* length, its head, its links, and to which pools have a free block.      *)

WithFp(st, i, g) == [st EXCEPT !.pools[i + 1].fp = g]

(* One pool's FixedPool changes: the list stays as it is.                  *)
LEMMA FpChanges ==
  ASSUME NEW Ids, NEW max \in Nat, NEW st \in PoolStateRecord(Ids, max),
         NEW i \in PoolIds(st), NEW g,
         NEW new, new = WithFp(st, i, g)
  PROVE  /\ new.num_free_pools = st.num_free_pools /\ new.next_pool = st.next_pool
         /\ PoolIds(new) = PoolIds(st)
         /\ Inner(new, i).fp = g
         /\ \A j \in PoolIds(st) : Inner(new, j).next_id = Inner(st, j).next_id
         /\ \A j \in PoolIds(st) : j # i => HasFreeBlock(new, j) = HasFreeBlock(st, j)
<1> DEFINE r == [next_id |-> Inner(st, i).next_id, fp |-> g]
           pools == [st.pools EXCEPT ![i + 1] = r]
<1>1. /\ DOMAIN st.pools = 1 .. Len(st.pools) /\ Len(st.pools) \in Nat
      /\ i \in Nat /\ i + 1 \in 1 .. Len(st.pools)
      /\ Inner(st, i) \in [next_id : 0 .. max, fp : FixedPoolRecord(Ids)]
      /\ \A j \in PoolIds(st) : j \in Nat /\ j + 1 \in 1 .. Len(st.pools)
      /\ st.pools \in Seq([next_id : 0 .. max, fp : FixedPoolRecord(Ids)])
  BY PoolStateIs
<1>2. new = [pools |-> pools, next_pool |-> st.next_pool, num_free_pools |-> st.num_free_pools]
  <2>1. i + 1 \in DOMAIN st.pools
    BY <1>1
  <2>2. /\ st \in PoolStateRecord(Ids, max)
        /\ Inner(st, i) \in [next_id : 0 .. max, fp : FixedPoolRecord(Ids)]
    BY <1>1
  <2>3. new = [pools |-> [st.pools EXCEPT ![i + 1] = [next_id |-> Inner(st, i).next_id, fp |-> g]],
               next_pool |-> st.next_pool, num_free_pools |-> st.num_free_pools]
    BY <2>1, <2>2, FpIs DEF WithFp
  <2> QED
    BY <2>3
<1>3. /\ Len(pools) = Len(st.pools)
      /\ pools[i + 1] = r
      /\ \A j \in PoolIds(st) : j # i => pools[j + 1] = st.pools[j + 1]
  BY <1>1
<1>4. /\ new.num_free_pools = st.num_free_pools /\ new.next_pool = st.next_pool
      /\ new.pools = pools
  BY <1>2
<1> HIDE DEF pools
<1>5. PoolIds(new) = PoolIds(st)
  BY <1>3, <1>4 DEF PoolIds
<1>6. Inner(new, i) = r /\ \A j \in PoolIds(st) : j # i => Inner(new, j) = Inner(st, j)
  BY <1>3, <1>4 DEF Inner
<1>7. r.next_id = Inner(st, i).next_id /\ r.fp = g
  OBVIOUS
<1> HIDE DEF r
<1>8. \A j \in PoolIds(st) : Inner(new, j).next_id = Inner(st, j).next_id
  BY <1>6, <1>7
<1>9. \A j \in PoolIds(st) : j # i => HasFreeBlock(new, j) = HasFreeBlock(st, j)
  BY <1>6 DEF HasFreeBlock
<1> QED
  BY <1>4, <1>5, <1>6, <1>7, <1>8, <1>9

(* An allocation, and the return of a block.                               *)
LEMMA ListAtAllocateIn ==
  ASSUME NEW Ids, NEW max \in Nat, NEW st \in PoolStateRecord(Ids, max),
         NEW i \in PoolIds(st), NEW id, NEW new, new = AllocateIn(st, i, id)
  PROVE  /\ new.num_free_pools = st.num_free_pools /\ new.next_pool = st.next_pool
         /\ PoolIds(new) = PoolIds(st)
         /\ \A j \in PoolIds(st) : Inner(new, j).next_id = Inner(st, j).next_id
         /\ \A j \in PoolIds(st) : j # i => HasFreeBlock(new, j) = HasFreeBlock(st, j)
<1>1. PICK g : g = ForcedAllocate(Inner(st, i).fp, id)
  OBVIOUS
<1>2. new = WithFp(st, i, g)
  BY <1>1 DEF AllocateIn, Inner, WithFp
<1> QED
  BY <1>2, FpChanges

LEMMA ListAtFreeIn ==
  ASSUME NEW Ids, NEW max \in Nat, NEW st \in PoolStateRecord(Ids, max),
         NEW i \in PoolIds(st), NEW b, NEW new, new = FreeIn(st, i, b)
  PROVE  /\ new.num_free_pools = st.num_free_pools /\ new.next_pool = st.next_pool
         /\ PoolIds(new) = PoolIds(st)
         /\ \A j \in PoolIds(st) : Inner(new, j).next_id = Inner(st, j).next_id
         /\ \A j \in PoolIds(st) : j # i => HasFreeBlock(new, j) = HasFreeBlock(st, j)
         /\ HasFreeBlock(new, i)
<1> DEFINE fp == Inner(st, i).fp
<1>1. PICK g : g = ForcedDeAllocate(fp, b)
  OBVIOUS
<1>2. new = WithFp(st, i, g)
  BY <1>1 DEF FreeIn, Inner, WithFp
<1>3. /\ new.num_free_pools = st.num_free_pools /\ new.next_pool = st.next_pool
      /\ PoolIds(new) = PoolIds(st)
      /\ Inner(new, i).fp = g
      /\ \A j \in PoolIds(st) : Inner(new, j).next_id = Inner(st, j).next_id
      /\ \A j \in PoolIds(st) : j # i => HasFreeBlock(new, j) = HasFreeBlock(st, j)
  BY <1>2, FpChanges
<1>4. fp \in FixedPoolRecord(Ids)
  BY PoolStateIs
<1> HIDE DEF fp
<1>5. fp.num_free_blocks \in Nat /\ DOMAIN fp = DOMAIN FreshPool
  BY <1>4, LayoutAssumption DEF FixedPoolRecord, FreshPool
<1>6. g.num_free_blocks = fp.num_free_blocks + 1
  BY <1>1, <1>4 DEF ForcedDeAllocate, FixedPoolRecord
<1>7. HasFreeBlock(new, i)
  BY <1>3, <1>5, <1>6 DEF HasFreeBlock, IsAnyBlockAvailable
<1> QED
  BY <1>3, <1>7

(* A full pool is pushed; one with a free block is not.                    *)
LEMMA ListAtPush ==
  ASSUME NEW Ids, NEW max \in Nat, NEW st \in PoolStateRecord(Ids, max),
         NEW i \in PoolIds(st), ~HasFreeBlock(st, i),
         NEW new, new = SetNextFreePool(st, i)
  PROVE  /\ new.num_free_pools = (st.num_free_pools + 1) % SizeT /\ new.next_pool = i
         /\ PoolIds(new) = PoolIds(st)
         /\ Inner(new, i).next_id = st.next_pool
         /\ \A j \in PoolIds(st) : j # i => Inner(new, j).next_id = Inner(st, j).next_id
         /\ \A j \in PoolIds(st) : HasFreeBlock(new, j) = HasFreeBlock(st, j)
<1> DEFINE r == [next_id |-> st.next_pool, fp |-> Inner(st, i).fp]
           pools == [st.pools EXCEPT ![i + 1] = r]
<1>1. /\ DOMAIN st.pools = 1 .. Len(st.pools) /\ Len(st.pools) \in Nat
      /\ i \in Nat /\ i + 1 \in 1 .. Len(st.pools)
      /\ Inner(st, i) \in [next_id : 0 .. max, fp : FixedPoolRecord(Ids)]
      /\ \A j \in PoolIds(st) : j \in Nat /\ j + 1 \in 1 .. Len(st.pools)
      /\ st.pools \in Seq([next_id : 0 .. max, fp : FixedPoolRecord(Ids)])
  BY PoolStateIs
<1>2. new = [pools |-> pools, next_pool |-> i,
             num_free_pools |-> (st.num_free_pools + 1) % SizeT]
  <2>1. [Inner(st, i) EXCEPT !.next_id = st.next_pool] = r
    BY <1>1
  <2>2. DOMAIN st = {"pools", "next_pool", "num_free_pools"}
    BY DEF PoolStateRecord
  <2> QED
    BY <1>1, <2>1, <2>2 DEF SetNextFreePool, PoolStateRecord, Inner
<1>3. /\ Len(pools) = Len(st.pools)
      /\ pools[i + 1] = r
      /\ \A j \in PoolIds(st) : j # i => pools[j + 1] = st.pools[j + 1]
  <2> HIDE DEF r
  <2>1. /\ DOMAIN pools = 1 .. Len(st.pools)
        /\ \A k \in 1 .. Len(st.pools) : pools[k] = IF k = i + 1 THEN r ELSE st.pools[k]
    BY <1>1
  <2>2. Len(pools) = Len(st.pools)
    BY <1>1
  <2>3. \A j \in PoolIds(st) : j # i => j + 1 # i + 1
    BY <1>1
  <2> QED
    BY <1>1, <2>1, <2>2, <2>3
<1>4. /\ new.num_free_pools = (st.num_free_pools + 1) % SizeT /\ new.next_pool = i
      /\ new.pools = pools
  BY <1>2
<1> HIDE DEF pools
<1>5. PoolIds(new) = PoolIds(st)
  BY <1>3, <1>4 DEF PoolIds
<1>6. Inner(new, i) = r /\ \A j \in PoolIds(st) : j # i => Inner(new, j) = Inner(st, j)
  BY <1>3, <1>4 DEF Inner
<1>7. r.next_id = st.next_pool /\ r.fp = Inner(st, i).fp
  OBVIOUS
<1> HIDE DEF r
<1>8. \A j \in PoolIds(st) : j # i => Inner(new, j).next_id = Inner(st, j).next_id
  BY <1>6
<1>9. \A j \in PoolIds(st) : HasFreeBlock(new, j) = HasFreeBlock(st, j)
  BY <1>6, <1>7 DEF HasFreeBlock
<1> QED
  BY <1>4, <1>5, <1>6, <1>7, <1>8, <1>9

(* A new pool becomes the head.                                            *)
LEMMA ListAtAddNewPool ==
  ASSUME NEW Ids, NEW max \in Nat, NEW st \in PoolStateRecord(Ids, max),
         NEW new, new = AddNewPool(st)
  PROVE  /\ new.num_free_pools = (st.num_free_pools + 1) % SizeT
         /\ new.next_pool = Len(st.pools)
         /\ Len(st.pools) \in PoolIds(new)
         /\ HasFreeBlock(new, Len(st.pools))
         /\ \A j \in PoolIds(new) : j \in PoolIds(st) \/ j = Len(st.pools)
         /\ \A j \in PoolIds(st) : HasFreeBlock(new, j) = HasFreeBlock(st, j)
<1> DEFINE n == Len(st.pools)
           r == InnerFixedPool(n)
           pools == Append(st.pools, r)
<1>1. /\ n \in Nat /\ \A j \in PoolIds(st) : j \in Nat /\ j + 1 \in 1 .. n
      /\ st.pools \in Seq([next_id : 0 .. max, fp : FixedPoolRecord(Ids)])
  BY PoolStateIs
<1>2. /\ new.num_free_pools = (st.num_free_pools + 1) % SizeT /\ new.next_pool = n
      /\ new.pools = pools
  BY DEF AddNewPool
<1>3. r.fp = FreshPool
  BY DEF InnerFixedPool
<1> HIDE DEF r
<1>4. Len(pools) = n + 1 /\ pools[n + 1] = r /\ \A j \in 1 .. n : pools[j] = st.pools[j]
  BY <1>1
<1> HIDE DEF pools
<1>5. /\ n \in PoolIds(new)
      /\ \A j \in PoolIds(new) : j \in PoolIds(st) \/ j = n
  BY <1>1, <1>2, <1>4 DEF PoolIds
<1>6. Inner(new, n) = r /\ \A j \in PoolIds(st) : Inner(new, j) = Inner(st, j)
  BY <1>1, <1>2, <1>4 DEF Inner
<1>7. HasFreeBlock(new, n)
  BY <1>3, <1>6, LayoutAssumption DEF HasFreeBlock, IsAnyBlockAvailable, FreshPool
<1>8. \A j \in PoolIds(st) : HasFreeBlock(new, j) = HasFreeBlock(st, j)
  BY <1>6 DEF HasFreeBlock
<1> QED
  BY <1>2, <1>5, <1>7, <1>8

(* The full head leaves the list.                                          *)
LEMMA ListAtDrop ==
  ASSUME NEW Ids, NEW max \in Nat, NEW st \in PoolStateRecord(Ids, max), st.num_free_pools > 0,
         NEW new, new = DropFullPool(st)
  PROVE  /\ new.num_free_pools = st.num_free_pools - 1
         /\ new.pools = st.pools /\ new.next_pool = st.next_pool
         /\ new \in PoolStateRecord(Ids, max)
<1>1. st.num_free_pools \in 0 .. SizeT - 1
  BY PoolStateIs
<1>2. new = [pools |-> st.pools, next_pool |-> st.next_pool,
             num_free_pools |-> st.num_free_pools - 1]
  BY <1>1 DEF DropFullPool, PoolStateRecord
<1>3. st.num_free_pools - 1 \in 0 .. SizeT - 1
  BY <1>1, SizeTAssumption
<1> QED
  BY <1>2, <1>3 DEF PoolStateRecord

-----------------------------------------------------------------------------
(* c is the list of the free pools of st.                                  *)
IsListOf(c, st) ==
  /\ st.num_free_pools > 0
  /\ c \in [1 .. st.num_free_pools -> PoolIds(st)]
  /\ ListsFreePools(st, c)

(* What it consists of.                                                    *)
LEMMA ListIs ==
  ASSUME NEW Ids, NEW max \in Nat, NEW st \in PoolStateRecord(Ids, max),
         NEW c, IsListOf(c, st), NEW n, n = st.num_free_pools
  PROVE  /\ n \in Nat /\ n > 0
         /\ \A k \in 1 .. n : c[k] \in PoolIds(st)
         /\ c[1] = st.next_pool
         /\ \A k, l \in 1 .. n : c[k] = c[l] => k = l
         /\ \A k \in 1 .. n - 1 : Inner(st, c[k]).next_id = c[k + 1]
         /\ \A k \in 2 .. n : HasFreeBlock(st, c[k])
         /\ \A j \in PoolIds(st) : HasFreeBlock(st, j) => \E k \in 1 .. n : c[k] = j
<1>1. n \in Nat
  <2>1. st.num_free_pools \in 0 .. SizeT - 1
    BY PoolStateIs
  <2> QED
    BY <2>1, SizeTAssumption
<1>2. n > 0 /\ c \in [1 .. n -> PoolIds(st)] /\ ListsFreePools(st, c)
  BY DEF IsListOf
<1> QED
  BY <1>1, <1>2 DEF ListsFreePools

(* The list stays while pools fill up that it begins with, and pools get a *)
(* free block that are in it.                                              *)
LEMMA ListStays ==
  ASSUME NEW st, NEW c, IsListOf(c, st), st.num_free_pools \in Nat, NEW new,
         new.num_free_pools = st.num_free_pools, new.next_pool = st.next_pool,
         PoolIds(new) = PoolIds(st),
         \A j \in PoolIds(st) : Inner(new, j).next_id = Inner(st, j).next_id,
         NEW i \in 1 .. st.num_free_pools,
         \A j \in PoolIds(st) : j # c[i] => HasFreeBlock(new, j) = HasFreeBlock(st, j),
         i = 1 \/ HasFreeBlock(new, c[i])
  PROVE  IsListOf(c, new)
<1> DEFINE n == st.num_free_pools
<1>1. /\ n \in Nat /\ n > 0 /\ \A k \in 1 .. n : c[k] \in PoolIds(st)
      /\ c \in [1 .. n -> PoolIds(st)]
      /\ c[1] = st.next_pool
      /\ \A k, l \in 1 .. n : c[k] = c[l] => k = l
      /\ \A k \in 1 .. n - 1 : Inner(st, c[k]).next_id = c[k + 1]
      /\ \A k \in 2 .. n : HasFreeBlock(st, c[k])
      /\ \A j \in PoolIds(st) : HasFreeBlock(st, j) => \E k \in 1 .. n : c[k] = j
  BY DEF IsListOf, ListsFreePools
<1>2. \A k \in 1 .. n - 1 : Inner(new, c[k]).next_id = c[k + 1]
  BY <1>1
<1>3. ASSUME NEW k \in 2 .. n
      PROVE  HasFreeBlock(new, c[k])
  BY <1>1, <1>3
<1>4. \A j \in PoolIds(new) : HasFreeBlock(new, j) => \E k \in 1 .. n : c[k] = j
  BY <1>1
<1> QED
  BY <1>1, <1>2, <1>3, <1>4 DEF IsListOf, ListsFreePools

(* A full pool comes before a head that has a free block.                  *)
LEMMA PushedList ==
  ASSUME NEW Ids, NEW max \in Nat, NEW st \in PoolStateRecord(Ids, max),
         NEW c, IsListOf(c, st), NEW i \in PoolIds(st), ~HasFreeBlock(st, i),
         HasFreeBlock(st, st.next_pool), st.num_free_pools + 1 < SizeT,
         NEW new, new = SetNextFreePool(st, i)
  PROVE  \E d : IsListOf(d, new) /\ d[1] = i
<1> DEFINE n == st.num_free_pools
           d == [k \in 1 .. n + 1 |-> IF k = 1 THEN i ELSE c[k - 1]]
<1>1. /\ n \in Nat /\ n > 0 /\ \A k \in 1 .. n : c[k] \in PoolIds(st)
      /\ c[1] = st.next_pool
      /\ \A k, l \in 1 .. n : c[k] = c[l] => k = l
      /\ \A k \in 1 .. n - 1 : Inner(st, c[k]).next_id = c[k + 1]
      /\ \A k \in 2 .. n : HasFreeBlock(st, c[k])
      /\ \A j \in PoolIds(st) : HasFreeBlock(st, j) => \E k \in 1 .. n : c[k] = j
  BY ListIs
<1>2. /\ new.num_free_pools = (n + 1) % SizeT /\ new.next_pool = i
      /\ PoolIds(new) = PoolIds(st)
      /\ Inner(new, i).next_id = st.next_pool
      /\ \A j \in PoolIds(st) : j # i => Inner(new, j).next_id = Inner(st, j).next_id
      /\ \A j \in PoolIds(st) : HasFreeBlock(new, j) = HasFreeBlock(st, j)
  BY ListAtPush
<1>3. (n + 1) % SizeT = n + 1
  <2>1. n + 1 \in Nat /\ SizeT \in Nat /\ n + 1 < SizeT
    BY <1>1, SizeTAssumption
  <2> QED
    BY <2>1, ModOfSmall
<1>4. \A k \in 1 .. n : c[k] # i /\ HasFreeBlock(st, c[k])
  BY <1>1
<1>5. /\ d[1] = i /\ d \in [1 .. n + 1 -> PoolIds(st)]
      /\ \A k \in 2 .. n + 1 : k - 1 \in 1 .. n /\ d[k] = c[k - 1]
      /\ \A k \in 1 .. n : d[k + 1] = c[k]
  BY <1>1
<1> HIDE DEF d
<1>6. \A k, l \in 1 .. n + 1 : d[k] = d[l] => k = l
  <2> SUFFICES ASSUME NEW k \in 1 .. n + 1, NEW l \in 1 .. n + 1, d[k] = d[l]
               PROVE  k = l
    OBVIOUS
  <2>1. CASE k = 1 \/ l = 1
    BY <1>1, <1>4, <1>5, <2>1
  <2>2. CASE k \in 2 .. n + 1 /\ l \in 2 .. n + 1
    BY <1>1, <1>5, <2>2
  <2> QED
    BY <1>1, <2>1, <2>2
<1>7. ASSUME NEW k \in 1 .. n
      PROVE  Inner(new, d[k]).next_id = d[k + 1]
  <2>1. CASE k = 1
    BY <1>1, <1>2, <1>5, <2>1
  <2>2. CASE k \in 2 .. n
    <3>1. k - 1 \in 1 .. n - 1 /\ d[k] = c[k - 1] /\ (k - 1) + 1 = k
      BY <1>1, <1>5, <2>2
    <3>2. Inner(st, c[k - 1]).next_id = c[k]
      BY <1>1, <3>1
    <3>3. c[k - 1] # i /\ c[k - 1] \in PoolIds(st)
      BY <1>1, <1>4, <3>1
    <3> QED
      BY <1>2, <1>5, <3>1, <3>2, <3>3
  <2> QED
    BY <1>1, <2>1, <2>2
<1>8. \A k \in 2 .. n + 1 : HasFreeBlock(new, d[k])
  BY <1>1, <1>2, <1>4, <1>5
<1>9. ASSUME NEW j \in PoolIds(new), HasFreeBlock(new, j)
      PROVE  \E k \in 1 .. n + 1 : d[k] = j
  <2>1. PICK k \in 1 .. n : c[k] = j
    BY <1>1, <1>2, <1>9
  <2>2. k + 1 \in 1 .. n + 1
    BY <1>1
  <2> QED
    BY <1>5, <2>1, <2>2
<1>10. new.num_free_pools = n + 1 /\ n + 1 > 0 /\ (n + 1) - 1 = n
  BY <1>1, <1>2, <1>3
<1>11. ListsFreePools(new, d)
  BY <1>2, <1>5, <1>6, <1>7, <1>8, <1>9, <1>10 DEF ListsFreePools
<1> QED
  BY <1>2, <1>5, <1>10, <1>11 DEF IsListOf

(* Without its full head the list begins with the pool that was linked to. *)
LEMMA DroppedList ==
  ASSUME NEW Ids, NEW max \in Nat, NEW st \in PoolStateRecord(Ids, max),
         NEW c, IsListOf(c, st), ~HasFreeBlock(st, st.next_pool),
         NEW drop, drop = DropFullPool(st), drop.num_free_pools > 0,
         NEW i, i = NextOfList(drop, st.next_pool),
         NEW new, new = [drop EXCEPT !.next_pool = i]
  PROVE  /\ i \in PoolIds(drop) /\ HasFreeBlock(drop, i) /\ new.next_pool = i
         /\ \E d : IsListOf(d, new)
<1> DEFINE n == st.num_free_pools
           d == [k \in 1 .. n - 1 |-> c[k + 1]]
<1>1. /\ n \in Nat /\ n > 0 /\ \A k \in 1 .. n : c[k] \in PoolIds(st)
      /\ c[1] = st.next_pool
      /\ \A k, l \in 1 .. n : c[k] = c[l] => k = l
      /\ \A k \in 1 .. n - 1 : Inner(st, c[k]).next_id = c[k + 1]
      /\ \A k \in 2 .. n : HasFreeBlock(st, c[k])
      /\ \A j \in PoolIds(st) : HasFreeBlock(st, j) => \E k \in 1 .. n : c[k] = j
  BY ListIs
<1>2. /\ drop.num_free_pools = n - 1
      /\ drop.pools = st.pools /\ drop \in PoolStateRecord(Ids, max)
  BY <1>1, ListAtDrop
<1>3. new.num_free_pools = n - 1 /\ new.pools = st.pools /\ new.next_pool = i
  BY <1>2 DEF PoolStateRecord
<1>4. /\ PoolIds(new) = PoolIds(st) /\ PoolIds(drop) = PoolIds(st)
      /\ \A j : Inner(new, j) = Inner(st, j) /\ Inner(drop, j) = Inner(st, j)
  BY <1>2, <1>3 DEF PoolIds, Inner
<1>5. \A j : HasFreeBlock(new, j) = HasFreeBlock(st, j) /\ HasFreeBlock(drop, j) = HasFreeBlock(st, j)
  BY <1>4 DEF HasFreeBlock
<1>6. n - 1 \in Nat /\ n - 1 > 0
  BY <1>1, <1>2
<1>7. i = c[2] /\ 2 \in 2 .. n /\ 2 \in 1 .. n
  BY <1>1, <1>4, <1>6 DEF NextOfList
<1>8. i \in PoolIds(drop) /\ HasFreeBlock(drop, i)
  BY <1>1, <1>4, <1>5, <1>7
<1>9. /\ d \in [1 .. n - 1 -> PoolIds(st)]
      /\ \A k \in 1 .. n - 1 : k + 1 \in 2 .. n /\ k + 1 \in 1 .. n /\ d[k] = c[k + 1]
      /\ d[1] = i
  <2>1. \A k \in 1 .. n - 1 : k + 1 \in 2 .. n /\ k + 1 \in 1 .. n
    BY <1>1
  <2>2. \A k \in 1 .. n - 1 : d[k] = c[k + 1]
    OBVIOUS
  <2>3. d \in [1 .. n - 1 -> PoolIds(st)]
    BY <1>1, <2>1
  <2>4. 1 \in 1 .. n - 1 /\ 1 + 1 = 2
    BY <1>6
  <2> QED
    BY <1>7, <2>1, <2>2, <2>3, <2>4
<1> HIDE DEF d
<1>10. \A k, l \in 1 .. n - 1 : d[k] = d[l] => k = l
  BY <1>1, <1>9
<1>11. ASSUME NEW k \in 1 .. (n - 1) - 1
       PROVE  Inner(new, d[k]).next_id = d[k + 1]
  <2>1. k \in 1 .. n - 1 /\ k + 1 \in 1 .. n - 1
    BY <1>1
  <2>2. Inner(st, c[k + 1]).next_id = c[(k + 1) + 1]
    BY <1>1, <2>1
  <2> QED
    BY <1>4, <1>9, <2>1, <2>2
<1>12. \A k \in 1 .. n - 1 : HasFreeBlock(new, d[k])
  BY <1>1, <1>5, <1>9
<1>13. ASSUME NEW j \in PoolIds(new), HasFreeBlock(new, j)
       PROVE  \E k \in 1 .. n - 1 : d[k] = j
  <2>1. PICK k \in 1 .. n : c[k] = j
    BY <1>1, <1>4, <1>5, <1>13
  <2>2. k # 1
    BY <1>1, <1>5, <1>13, <2>1
  <2>3. k - 1 \in 1 .. n - 1 /\ (k - 1) + 1 = k
    BY <1>1, <2>2
  <2> QED
    BY <1>9, <2>1, <2>3
<1>14. ListsFreePools(new, d)
  <2>1. \A k \in 2 .. n - 1 : HasFreeBlock(new, d[k])
    BY <1>1, <1>12
  <2> QED
    BY <1>3, <1>9, <1>10, <1>11, <1>13, <2>1 DEF ListsFreePools
<1> QED
  BY <1>3, <1>4, <1>6, <1>8, <1>9, <1>14 DEF IsListOf

(* A list of one full pool: every pool is full, and the new one is the     *)
(* list.                                                                   *)
LEMMA NewList ==
  ASSUME NEW Ids, NEW max \in Nat, NEW st \in PoolStateRecord(Ids, max),
         NEW c, IsListOf(c, st), ~HasFreeBlock(st, st.next_pool),
         NEW drop, drop = DropFullPool(st), drop.num_free_pools = 0,
         NEW new, new = AddNewPool(drop)
  PROVE  /\ \A i \in PoolIds(st) : ~HasFreeBlock(st, i)
         /\ \E d : IsListOf(d, new)
<1> DEFINE n == st.num_free_pools
           m == Len(st.pools)
           d == [k \in 1 .. 1 |-> m]
<1>1. /\ n \in Nat /\ n > 0
      /\ c[1] = st.next_pool
      /\ \A j \in PoolIds(st) : HasFreeBlock(st, j) => \E k \in 1 .. n : c[k] = j
  BY ListIs
<1>2. /\ drop.num_free_pools = n - 1
      /\ drop.pools = st.pools /\ drop \in PoolStateRecord(Ids, max)
  BY <1>1, ListAtDrop
<1>3. n = 1
  BY <1>1, <1>2
<1>4. \A i \in PoolIds(st) : ~HasFreeBlock(st, i)
  BY <1>1, <1>3
<1>5. \A i \in PoolIds(drop) : ~HasFreeBlock(drop, i)
  BY <1>2, <1>4 DEF PoolIds, HasFreeBlock, Inner
<1>6. /\ new.num_free_pools = (drop.num_free_pools + 1) % SizeT
      /\ new.next_pool = m
      /\ m \in PoolIds(new)
      /\ HasFreeBlock(new, m)
      /\ \A j \in PoolIds(new) : j \in PoolIds(drop) \/ j = m
      /\ \A j \in PoolIds(drop) : HasFreeBlock(new, j) = HasFreeBlock(drop, j)
  <2>1. Len(drop.pools) = m
    BY <1>2
  <2> QED
    BY <1>2, <2>1, ListAtAddNewPool
<1>7. new.num_free_pools = 1
  <2>1. 1 % SizeT = 1
    BY SizeTAssumption, ModOfSmall
  <2> QED
    BY <1>6, <2>1
<1> HIDE DEF m
<1>8. d \in [1 .. 1 -> PoolIds(new)] /\ d[1] = m
  BY <1>6
<1> HIDE DEF d
<1>9. \A j \in PoolIds(new) : HasFreeBlock(new, j) => j = m
  BY <1>5, <1>6
<1>10. ListsFreePools(new, d)
  <2>1. \A k \in 1 .. 1 : k = 1
    OBVIOUS
  <2>2. 1 .. 1 - 1 = {} /\ 2 .. 1 = {} /\ 1 \in 1 .. 1
    OBVIOUS
  <2>3. \A j \in PoolIds(new) : HasFreeBlock(new, j) => \E k \in 1 .. 1 : d[k] = j
    BY <1>8, <1>9, <2>2
  <2> QED
    BY <1>6, <1>7, <1>8, <2>1, <2>2, <2>3 DEF ListsFreePools
<1> QED
  BY <1>4, <1>7, <1>8, <1>10 DEF IsListOf

(* The one pool of a new state.                                            *)
LEMMA FirstList ==
  \E d : IsListOf(d, FreshPoolState)
<1> DEFINE st == FreshPoolState
           d == [k \in 1 .. 1 |-> 0]
<1>1. st.num_free_pools = 1 /\ st.next_pool = 0 /\ Len(st.pools) = 1
  BY DEF FreshPoolState
<1>2. PoolIds(st) = {0}
  BY <1>1 DEF PoolIds
<1> HIDE DEF st
<1>3. d \in [1 .. 1 -> PoolIds(st)] /\ d[1] = 0
  BY <1>2
<1> HIDE DEF d
<1>4. ListsFreePools(st, d)
  <2>1. \A k \in 1 .. 1 : k = 1
    OBVIOUS
  <2>2. 1 .. 1 - 1 = {} /\ 2 .. 1 = {} /\ 1 \in 1 .. 1
    OBVIOUS
  <2> QED
    BY <1>1, <1>2, <1>3, <2>1, <2>2 DEF ListsFreePools
<1> QED
  BY <1>1, <1>3, <1>4 DEF IsListOf, st

(* The list is what ChainExact asks for.                                   *)
LEMMA ListIsChain ==
  ASSUME NEW st, NEW c, IsListOf(c, st)
  PROVE  ChainOK(st)
  BY DEF IsListOf, ChainOK

-----------------------------------------------------------------------------
(* The frames of a thread's destructors, each with what follows it.        *)
DtorFrames(s) == {f \in Range(s) : f.op = "dtor"}

LEMMA FramesAfterPush ==
  ASSUME NEW s \in Seq(Frame), NEW f \in Frame
  PROVE  /\ Range(<<f>> \o s) = Range(s) \union {f}
         /\ f.op # "dtor" => DtorFrames(<<f>> \o s) = DtorFrames(s)
         /\ f.op = "dtor" => DtorFrames(<<f>> \o s) = DtorFrames(s) \union {f}
<1> DEFINE n == <<f>> \o s
<1>1. /\ n[1] = f /\ n \in Seq(Frame) /\ Len(n) = Len(s) + 1 /\ Len(s) \in Nat
      /\ \A k \in DOMAIN s : k + 1 \in DOMAIN n /\ n[k + 1] = s[k]
      /\ \A k \in DOMAIN n : k = 1 \/ (k - 1 \in DOMAIN s /\ n[k] = s[k - 1])
  BY PushIs
<1>2. 1 \in DOMAIN n
  BY <1>1
<1> HIDE DEF n
<1>3. ASSUME NEW g \in Range(n)
      PROVE  g \in Range(s) \union {f}
  <2>1. PICK k \in DOMAIN n : n[k] = g
    BY DEF Range
  <2> QED
    BY <1>1, <2>1 DEF Range
<1>4. ASSUME NEW g \in Range(s) \union {f}
      PROVE  g \in Range(n)
  <2>1. CASE g = f
    BY <1>1, <1>2, <2>1 DEF Range
  <2>2. CASE g \in Range(s)
    <3>1. PICK k \in DOMAIN s : s[k] = g
      BY <2>2 DEF Range
    <3>2. k + 1 \in DOMAIN n /\ n[k + 1] = g
      BY <1>1, <3>1
    <3> QED
      BY <3>2 DEF Range
  <2> QED
    BY <1>4, <2>1, <2>2
<1>5. Range(n) = Range(s) \union {f}
  BY <1>3, <1>4
<1> QED
  BY <1>5 DEF DtorFrames, n

LEMMA FramesAfterPop ==
  ASSUME NEW s \in Seq(Frame), s # << >>
  PROVE  /\ Range(s) = Range(Tail(s)) \union {Head(s)}
         /\ DtorFrames(Tail(s)) \subseteq DtorFrames(s)
         /\ Head(s).op # "dtor" => DtorFrames(Tail(s)) = DtorFrames(s)
<1>1. Head(s) \in Frame /\ Tail(s) \in Seq(Frame) /\ s = <<Head(s)>> \o Tail(s)
  BY PopIs
<1>2. Range(<<Head(s)>> \o Tail(s)) = Range(Tail(s)) \union {Head(s)}
  BY <1>1, FramesAfterPush
<1>3. Range(s) = Range(Tail(s)) \union {Head(s)}
  BY <1>1, <1>2
<1> QED
  BY <1>3 DEF DtorFrames

LEMMA NoFrames == Range(<< >>) = {} /\ DtorFrames(<< >>) = {}
  BY DEF Range, DtorFrames

(* A frame and the objects that are destroyed.                             *)
LEMMA DtorFrameIs ==
  ASSUME TypeOK, NEW t \in Threads, NEW f \in DtorFrames(stack[t])
  PROVE  /\ f \in Frame /\ f.op = "dtor" /\ f.x \in Objects
         /\ f.then \in {"free", "enqueue"}
         /\ f.x \in Doomed[t]
         /\ f \in Range(stack[t])
<1>1. PICK k \in DOMAIN stack[t] : stack[t][k] = f
  BY DEF DtorFrames, Range
<1>2. stack[t] \in Seq(Frame)
  BY DEF TypeOK
<1>3. f \in Frame /\ f.op = "dtor"
  BY <1>1, <1>2, ElementOfSeq DEF DtorFrames
<1>4. f.x \in Objects /\ f.then \in {"free", "enqueue"}
  BY <1>3, FrameIs
<1> QED
  BY <1>1, <1>3, <1>4 DEF Doomed, DtorsIn, DtorFrames

LEMMA DoomedHasFrame ==
  ASSUME TypeOK, NEW t \in Threads, NEW x \in Doomed[t]
  PROVE  \E f \in DtorFrames(stack[t]) : f.x = x
<1>1. PICK k \in DOMAIN stack[t] : stack[t][k].op = "dtor" /\ stack[t][k].x = x
  BY DEF Doomed, DtorsIn
<1> QED
  BY <1>1 DEF DtorFrames, Range

-----------------------------------------------------------------------------
(* What the steps that follow an object's header do, with its pool known.  *)

(* Pool::Delete.                                                           *)
LEMMA DeleteIs ==
  ASSUME IndInv, NEW t \in Threads, NEW x \in live, Delete(t, x)
  PROVE  /\ x \in Objects /\ x[1] \in Threads /\ IsThere(x) /\ fault = "none"
         /\ phase[t] = "running"
         /\ stack[t] = << >> \/ Head(stack[t]).op = "dtor"
         /\ \/ /\ state_[t] # x[1] /\ UNCHANGED ps
               /\ Push(t, Dtor(x, "enqueue")) /\ Dtor(x, "enqueue") \in Frame
            \/ /\ state_[t] = x[1]
               /\ ps' = [ps EXCEPT ![x[1]] = SetNextFreePool(@, x[2])]
               /\ Push(t, Dtor(x, "free")) /\ Dtor(x, "free") \in Frame
         /\ live' = live \ {x}
         /\ UNCHANGED <<client, phase, state_, queue, free_pools, lost, fault>>
<1>1. fault = "none" /\ phase[t] = "running"
      /\ (stack[t] = << >> \/ Head(stack[t]).op = "dtor")
  BY DEF Delete, MayCall, At
<1>2. /\ TypeOK /\ StatesOK /\ ClaimsAreThere /\ phase[Main] # "exiting"
      /\ x \in Objects /\ x \in Claimed
  BY <1>1, ClaimedIs DEF IndInv, TypeOK, ThreadsOK, ThreadFits
<1>3. IsThere(x) /\ x[1] \in Threads
  BY <1>2, ObjectIs DEF ClaimsAreThere
<1>4. PoolOf(x) = <<x[1], x[2]>>
  BY <1>2, <1>3, PoolOfIs
<1>5. PoolOf(x)[1] = x[1] /\ PoolOf(x)[2] = x[2]
  BY <1>4
<1>6. Dtor(x, "enqueue") \in Frame /\ Dtor(x, "free") \in Frame
  BY <1>2 DEF Dtor, Frame
<1> QED
  BY <1>1, <1>2, <1>3, <1>5, <1>6 DEF Delete

(* The destructor's return.                                                *)
LEMMA EndDtorIs ==
  ASSUME IndInv, NEW t \in Threads, EndDtor(t), NEW x, x = Head(stack[t]).x
  PROVE  /\ x \in Objects /\ x[1] \in Threads /\ IsThere(x) /\ x \in Doomed[t]
         /\ fault = "none" /\ stack[t] # << >>
         /\ Head(stack[t]) \in DtorFrames(stack[t])
         /\ \/ /\ Head(stack[t]).then = "free"
               /\ ps' = [ps EXCEPT ![x[1]] = FreeIn(@, x[2], x[3])]
               /\ UNCHANGED <<queue, lost>>
            \/ /\ Head(stack[t]).then = "enqueue"
               /\ queue' = [queue EXCEPT ![x[1]][t] = Append(@, x)]
               /\ UNCHANGED <<ps, lost>>
            \/ /\ Head(stack[t]).then = "enqueue" /\ Does("nomem")
               /\ UNCHANGED <<ps, queue>>
         /\ Pop(t)
         /\ UNCHANGED <<client, phase, state_, free_pools, live, fault>>
<1>1. /\ fault = "none" /\ stack[t] # << >> /\ Head(stack[t]).op = "dtor"
      /\ Head(stack[t]) \in Frame
  BY AtIs DEF EndDtor
<1>2. Head(stack[t]) \in DtorFrames(stack[t])
  BY <1>1, InCall DEF DtorFrames
<1>3. /\ TypeOK /\ StatesOK /\ x \in Objects /\ x \in Doomed[t]
      /\ Doomed[t] = DtorsIn(stack[t])
  BY <1>2, DtorFrameIs, ClaimedIs DEF IndInv
<1>4. IsThere(x) /\ x[1] \in Threads /\ x \in Claimed
  BY <1>1, <1>3, InCall, ObjectIs, ClaimedIs DEF FrameFits, IsThere
<1>5. PoolOf(x) = <<x[1], x[2]>>
  BY <1>3, <1>4, PoolOfIs
<1>6. PoolOf(x)[1] = x[1] /\ PoolOf(x)[2] = x[2]
  BY <1>5
<1> QED
  BY <1>1, <1>2, <1>3, <1>4, <1>6 DEF EndDtor

(* A request is taken.                                                     *)
LEMMA ConsumeOneIs ==
  ASSUME IndInv, NEW t \in Threads, ConsumeOne(t)
  PROVE  /\ fault = "none" /\ stack[t] # << >> /\ Head(stack[t]).op = "consume"
         /\ phase[t] = "running" /\ state_[t] \in Threads
         /\ \E g \in Frame : /\ g.op = "consume" /\ g.then = Head(stack[t]).then
                             /\ g.active = Head(stack[t]).active /\ ~g.dry
                             /\ stack' = [stack EXCEPT ![t] = <<g>> \o Tail(@)]
         /\ \E p \in Threads :
              LET s == state_[t]
                  x == Head(queue[s][p]) IN
              /\ queue[s][p] # << >>
              /\ queue' = [queue EXCEPT ![s][p] = Tail(@)]
              /\ x \in Objects /\ x[1] = s /\ IsThere(x) /\ x \in Asked[s][p]
              /\ ps' = [ps EXCEPT ![s] = FreeIn(SetNextFreePool(@, x[2]), x[2], x[3])]
         /\ UNCHANGED <<client, phase, state_, free_pools, live, lost, fault>>
<1> DEFINE h == Head(stack[t])
           g == [h EXCEPT !.dry = FALSE]
<1>1. /\ fault = "none" /\ stack[t] # << >> /\ h.op = "consume" /\ h \in Frame
  BY AtIs DEF ConsumeOne
<1>2. h \in [op : {"consume"}, then : {"new", "clear", "destroy"}, active : 0 .. MaxPools - 1,
             dry : BOOLEAN]
  BY <1>1 DEF Frame
<1>3. g \in [op : {"consume"}, then : {"new", "clear", "destroy"}, active : 0 .. MaxPools - 1,
             dry : BOOLEAN]
      /\ g.op = "consume" /\ g.then = h.then /\ g.active = h.active /\ ~g.dry
  BY <1>2
<1>4. g \in Frame
  BY <1>3 DEF Frame
<1>5. stack' = [stack EXCEPT ![t] = <<g>> \o Tail(@)]
  BY DEF ConsumeOne, Replace
<1>6. /\ phase[t] = "running" /\ state_[t] \in Threads /\ phase[Main] # "exiting"
      /\ TypeOK /\ StatesOK /\ Routed /\ ClaimsAreThere
  BY <1>1, InCall, NullAssumption DEF FrameFits, IndInv
<1> DEFINE s == state_[t]
<1>7. PICK p \in Threads :
        /\ queue[s][p] # << >>
        /\ ps' = [ps EXCEPT ![s] = FreeIn(SetNextFreePool(@, PoolOf(Head(queue[s][p]))[2]),
                                          PoolOf(Head(queue[s][p]))[2], Head(queue[s][p])[3])]
        /\ queue' = [queue EXCEPT ![s][p] = Tail(@)]
  BY DEF ConsumeOne
<1>8. PICK x : x = Head(queue[s][p])
  OBVIOUS
<1>9. queue[s][p] \in Seq(Objects)
  BY <1>6 DEF TypeOK
<1>10. x \in Objects /\ x \in Range(queue[s][p])
  BY <1>7, <1>8, <1>9, TakeFirst
<1>11. x \in Claimed /\ x \in Asked[s][p] /\ x[1] = s
  BY <1>6, <1>10, ClaimedIs DEF Routed
<1>12. IsThere(x)
  BY <1>6, <1>11 DEF ClaimsAreThere
<1>13. PoolOf(x) = <<x[1], x[2]>>
  BY <1>6, <1>11, <1>12, PoolOfIs
<1>14. PoolOf(x)[2] = x[2]
  BY <1>13
<1>15. UNCHANGED <<client, phase, state_, free_pools, live, lost, fault>>
  BY DEF ConsumeOne
<1> HIDE DEF g, h, s
<1>16. \E f \in Frame : /\ f.op = "consume" /\ f.then = h.then
                        /\ f.active = h.active /\ ~f.dry
                        /\ stack' = [stack EXCEPT ![t] = <<f>> \o Tail(@)]
  BY <1>3, <1>4, <1>5
<1> QED
  BY <1>1, <1>6, <1>7, <1>8, <1>10, <1>11, <1>12, <1>14, <1>15, <1>16 DEF h, s

-----------------------------------------------------------------------------
(* What a destructor is followed by is decided by who owns the state: the  *)
(* running thread frees the blocks of its own state and enqueues others.   *)
SendsOK ==
  \A t \in Threads : phase[t] = "running" =>
    \A f \in DtorFrames(stack[t]) : f.then = "free" <=> f.x[1] = state_[t]

(* A local client makes no requests.                                       *)
LocalOK ==
  Does("local") =>
    /\ \A s, p \in Threads : queue[s][p] = << >>
    /\ \A t \in Threads : \A f \in DtorFrames(stack[t]) : f.then = "free"

LocalInv == SendsOK /\ LocalOK

(* No destructor starts, and a thread in one stays what it is.             *)
Rests ==
  \A u \in Threads :
    /\ DtorFrames(stack'[u]) \subseteq DtorFrames(stack[u])
    /\ DtorFrames(stack'[u]) = {} \/ UNCHANGED <<phase[u], state_[u]>>

LEMMA RestsIf ==
  ASSUME TypeOK, NEW t \in Threads, NEW new, stack' = [stack EXCEPT ![t] = new],
         DtorFrames(new) \subseteq DtorFrames(stack[t]),
         \A u \in Threads \ {t} : UNCHANGED <<phase[u], state_[u]>>,
         DtorFrames(new) = {} \/ UNCHANGED <<phase[t], state_[t]>>
  PROVE  Rests
<1>1. stack'[t] = new /\ \A u \in Threads : u # t => stack'[u] = stack[u]
  BY DEF TypeOK
<1> QED
  BY <1>1 DEF Rests

LEMMA RestsAtPush ==
  ASSUME TypeOK, NEW t \in Threads, NEW f \in Frame, f.op # "dtor", Push(t, f),
         \A u \in Threads \ {t} : UNCHANGED <<phase[u], state_[u]>>,
         stack[t] = << >> \/ UNCHANGED <<phase[t], state_[t]>>
  PROVE  Rests
<1>1. stack[t] \in Seq(Frame)
  BY DEF TypeOK
<1>2. DtorFrames(<<f>> \o stack[t]) = DtorFrames(stack[t])
  BY <1>1, FramesAfterPush
<1>3. stack[t] = << >> => DtorFrames(<<f>> \o stack[t]) = {}
  BY <1>2, NoFrames
<1> QED
  BY <1>2, <1>3, RestsIf DEF Push

LEMMA RestsAtReplace ==
  ASSUME TypeOK, NEW t \in Threads, stack[t] # << >>, NEW f \in Frame, f.op # "dtor",
         Replace(t, f), UNCHANGED <<phase, state_>>
  PROVE  Rests
<1>1. stack[t] \in Seq(Frame) /\ Tail(stack[t]) \in Seq(Frame)
  BY PopIs DEF TypeOK
<1>2. DtorFrames(<<f>> \o Tail(stack[t])) \subseteq DtorFrames(stack[t])
  BY <1>1, FramesAfterPush, FramesAfterPop
<1> QED
  BY <1>2, RestsIf DEF Replace

LEMMA RestsAtPop ==
  ASSUME TypeOK, NEW t \in Threads, stack[t] # << >>, Pop(t),
         \A u \in Threads \ {t} : UNCHANGED <<phase[u], state_[u]>>,
         Tail(stack[t]) = << >> \/ UNCHANGED <<phase[t], state_[t]>>
  PROVE  Rests
<1>1. stack[t] \in Seq(Frame)
  BY DEF TypeOK
<1>2. DtorFrames(Tail(stack[t])) \subseteq DtorFrames(stack[t])
  BY <1>1, FramesAfterPop
<1>3. Tail(stack[t]) = << >> => DtorFrames(Tail(stack[t])) = {}
  BY NoFrames
<1> QED
  BY <1>2, <1>3, RestsIf DEF Pop

(* Which calls are at the bottom of a stack.                               *)
LEMMA AtBottom ==
  ASSUME IndInv, NEW t \in Threads, stack[t] # << >>,
         \/ Head(stack[t]).op \in {"init", "sweep"}
         \/ Head(stack[t]).op = "consume" /\ Head(stack[t]).then # "new"
  PROVE  Tail(stack[t]) = << >>
<1>1. stack[t] \in Seq(Frame) /\ Shape(stack[t])
  BY InCall
<1>2. Head(stack[t]).op # "dtor"
  OBVIOUS
<1> QED
  BY <1>1, <1>2, PopOther

(* The frames the steps replace or push.                                   *)
LEMMA NextFrames ==
  ASSUME IndInv, NEW t \in Threads
  PROVE  /\ Scan \in Frame
         /\ \A then \in {"clear", "destroy"} : Consume(then, 0) \in Frame
         /\ New(t) => Consume("new", ps[state_[t]].next_pool) \in Frame
                      \/ HasFreeBlock(ps[state_[t]], ps[state_[t]].next_pool)
         /\ FindNoRequest(t) => [Head(stack[t]) EXCEPT !.dry = TRUE] \in Frame
                               /\ [Head(stack[t]) EXCEPT !.dry = TRUE].op = "consume"
                               /\ [Head(stack[t]) EXCEPT !.dry = TRUE].then = Head(stack[t]).then
                               /\ [Head(stack[t]) EXCEPT !.dry = TRUE].active = Head(stack[t]).active
<1>1. MaxPools \in Nat \ {0} /\ 0 \in 0 .. MaxPools - 1
  BY ClientAssumption
<1>2. Scan \in Frame
  BY DEF Scan, Frame
<1>3. \A then \in {"new", "clear", "destroy"}, a \in 0 .. MaxPools - 1 : Consume(then, a) \in Frame
  BY DEF Consume, Frame
<1>4. ASSUME New(t), ~HasFreeBlock(ps[state_[t]], ps[state_[t]].next_pool)
      PROVE  Consume("new", ps[state_[t]].next_pool) \in Frame
  <2>1. state_[t] \in Threads
    BY <1>4, ClientAssumption DEF New
  <2>2. TypeOK /\ StatesOK /\ ThreadsOK
    BY DEF IndInv
  <2>3. ps[state_[t]] # Null
    BY <2>1, <2>2, NullAssumption DEF ThreadsOK, ThreadFits
  <2>4. ps[state_[t]] \in PoolStateRecord(PoolNames, MaxPools)
    BY <2>1, <2>2, <2>3, StateIs
  <2>5. ps[state_[t]].next_pool \in 0 .. MaxPools - 1
    BY <2>4 DEF PoolStateRecord
  <2> QED
    BY <1>3, <2>5
<1>5. ASSUME FindNoRequest(t)
      PROVE  /\ [Head(stack[t]) EXCEPT !.dry = TRUE] \in Frame
             /\ [Head(stack[t]) EXCEPT !.dry = TRUE].op = "consume"
             /\ [Head(stack[t]) EXCEPT !.dry = TRUE].then = Head(stack[t]).then
             /\ [Head(stack[t]) EXCEPT !.dry = TRUE].active = Head(stack[t]).active
  <2>1. Head(stack[t]) \in Frame /\ Head(stack[t]).op = "consume"
    BY <1>5, AtIs DEF FindNoRequest
  <2>2. Head(stack[t]) \in [op : {"consume"}, then : {"new", "clear", "destroy"},
                            active : 0 .. MaxPools - 1, dry : BOOLEAN]
    BY <2>1 DEF Frame
  <2>3. [Head(stack[t]) EXCEPT !.dry = TRUE] \in
          [op : {"consume"}, then : {"new", "clear", "destroy"},
           active : 0 .. MaxPools - 1, dry : BOOLEAN]
    BY <2>2
  <2> QED
    BY <2>2, <2>3 DEF Frame
<1> QED
  BY <1>2, <1>3, <1>4, <1>5, <1>1

(* The steps that start no destructor.                                     *)
Starts(t) == SweepBlock(t) \/ \E x \in live : Delete(t, x)

LEMMA OthersRest ==
  ASSUME IndInv, Next, \A t \in Threads : ~Starts(t)
  PROVE  Rests
<1>1. TypeOK
  BY DEF IndInv
<1>2. ASSUME NEW t \in Threads, Work(t)
      PROVE  Rests
  <2>1. CASE TakeFreePool(t) \/ CreatePoolState(t) \/ InitFails(t)
    <3>1. At(t, "init") /\ Pop(t)
      BY <2>1 DEF TakeFreePool, CreatePoolState, InitFails
    <3>2. stack[t] # << >> /\ Tail(stack[t]) = << >>
      BY <3>1, AtIs, AtBottom
    <3>3. \A u \in Threads \ {t} : UNCHANGED <<phase[u], state_[u]>>
      BY <1>1, <2>1 DEF TakeFreePool, CreatePoolState, InitFails, TypeOK
    <3> QED
      BY <1>1, <3>1, <3>2, <3>3, RestsAtPop
  <2>2. CASE FindNoFreePool(t)
    <3>1. stack[t] # << >> /\ Head(stack[t]).op = "init" /\ Head(stack[t]) \in Frame
      BY <2>2, AtIs DEF FindNoFreePool
    <3>2. PICK p \in Threads : Replace(t, [Head(stack[t]) EXCEPT !.seen = @ \union {p}])
      BY <2>2 DEF FindNoFreePool
    <3>3. Head(stack[t]) \in [op : {"init"}, seen : SUBSET Threads]
      BY <3>1 DEF Frame
    <3>4. [Head(stack[t]) EXCEPT !.seen = @ \union {p}] \in [op : {"init"}, seen : SUBSET Threads]
      BY <3>3
    <3>5. PICK f : f = [Head(stack[t]) EXCEPT !.seen = @ \union {p}]
      OBVIOUS
    <3>6. f \in Frame /\ f.op # "dtor"
      BY <3>4, <3>5 DEF Frame
    <3>7. Replace(t, f) /\ UNCHANGED <<phase, state_>>
      BY <2>2, <3>2, <3>5 DEF FindNoFreePool
    <3> QED
      BY <1>1, <3>1, <3>6, <3>7, RestsAtReplace
  <2>3. CASE ConsumeOne(t)
    <3>1. PICK g \in Frame : g.op = "consume" /\ stack' = [stack EXCEPT ![t] = <<g>> \o Tail(@)]
      BY <2>3, ConsumeOneIs
    <3>2. Replace(t, g) /\ g.op # "dtor" /\ stack[t] # << >> /\ UNCHANGED <<phase, state_>>
      BY <2>3, <3>1, ConsumeOneIs DEF Replace
    <3> QED
      BY <1>1, <3>2, RestsAtReplace
  <2>4. CASE FindNoRequest(t)
    <3>1. PICK f : f = [Head(stack[t]) EXCEPT !.dry = TRUE]
      OBVIOUS
    <3>2. f \in Frame /\ f.op # "dtor"
      BY <2>4, <3>1, NextFrames
    <3>3. Replace(t, f) /\ UNCHANGED <<phase, state_>> /\ stack[t] # << >>
      BY <2>4, <3>1 DEF FindNoRequest, At
    <3> QED
      BY <1>1, <3>2, <3>3, RestsAtReplace
  <2>5. CASE FinishNew(t) \/ EndDtor(t) \/ EndSweep(t)
    <3>1. stack[t] # << >> /\ Pop(t) /\ UNCHANGED <<phase, state_>>
      BY <2>5 DEF FinishNew, Consumed, EndDtor, EndSweep, At
    <3> QED
      BY <1>1, <3>1, RestsAtPop
  <2>6. CASE AddFreePool(t)
    <3>1. stack[t] # << >> /\ Pop(t) /\ Head(stack[t]).op = "consume" /\ Head(stack[t]).then = "destroy"
      BY <2>6 DEF AddFreePool, Consumed, At
    <3>2. Tail(stack[t]) = << >>
      BY <3>1, AtBottom
    <3>3. \A u \in Threads \ {t} : UNCHANGED <<phase[u], state_[u]>>
      BY <1>1, <2>6 DEF AddFreePool, TypeOK
    <3> QED
      BY <1>1, <3>1, <3>2, <3>3, RestsAtPop
  <2>7. CASE StartSweep(t)
    <3>1. /\ stack[t] # << >> /\ Head(stack[t]).op = "consume" /\ Head(stack[t]).then = "clear"
          /\ Replace(t, Sweep(state_[t], 0, 0, Len(ps[state_[t]].pools)))
          /\ UNCHANGED <<phase, state_>>
      BY <2>7 DEF StartSweep, Consumed, At
    <3>2. Tail(stack[t]) = << >> /\ stack[t] \in Seq(Frame)
      BY <3>1, AtBottom, InCall
    <3>3. PICK f : f = Sweep(state_[t], 0, 0, Len(ps[state_[t]].pools))
      OBVIOUS
    <3>4. f.op = "sweep"
      BY <3>3 DEF Sweep
    <3>5. DtorFrames(<<f>> \o << >>) = {}
      BY <3>4 DEF DtorFrames, Range
    <3>6. stack' = [stack EXCEPT ![t] = <<f>> \o << >>]
      BY <3>1, <3>2, <3>3 DEF Replace
    <3> QED
      BY <1>1, <3>1, <3>5, <3>6, RestsIf
  <2>8. CASE SweepNextPool(t)
    <3>1. /\ stack[t] # << >> /\ Head(stack[t]).op = "sweep"
          /\ Replace(t, [Head(stack[t]) EXCEPT !.i = @ + 1, !.b = 0])
          /\ UNCHANGED <<phase, state_>>
      BY <2>8 DEF SweepNextPool, At
    <3>2. Tail(stack[t]) = << >> /\ Head(stack[t]) \in Frame
      BY <3>1, AtBottom, InCall
    <3>3. PICK f : f = [Head(stack[t]) EXCEPT !.i = @ + 1, !.b = 0]
      OBVIOUS
    <3>4. f.op = "sweep"
      BY <3>1, <3>2, <3>3 DEF Frame
    <3>5. DtorFrames(<<f>> \o << >>) = {}
      BY <3>4 DEF DtorFrames, Range
    <3>6. stack' = [stack EXCEPT ![t] = <<f>> \o << >>]
      BY <3>1, <3>2, <3>3 DEF Replace
    <3> QED
      BY <1>1, <3>1, <3>5, <3>6, RestsIf
  <2> QED
    BY <1>2, <2>1, <2>2, <2>3, <2>4, <2>5, <2>6, <2>7, <2>8 DEF Work, Starts
<1>3. ASSUME NEW t \in Threads, Call(t)
      PROVE  Rests
  <2>1. CASE Start(t)
    <3>1. /\ phase[t] = "unborn" /\ Push(t, Scan) /\ Scan.op # "dtor" /\ Scan \in Frame
          /\ \A u \in Threads \ {t} : UNCHANGED <<phase[u], state_[u]>>
      BY <1>1, <2>1, NextFrames DEF Start, TypeOK, Scan
    <3>2. stack[t] = << >>
      BY <3>1 DEF IndInv, ThreadsOK, ThreadFits
    <3> QED
      BY <1>1, <3>1, <3>2, RestsAtPush
  <2>2. CASE New(t)
    <3>1. UNCHANGED <<phase, state_>> /\ state_[t] \in Threads
      BY <2>2, ClientAssumption DEF New
    <3>2. CASE HasFreeBlock(ps[state_[t]], ps[state_[t]].next_pool)
      <4>1. UNCHANGED stack
        BY <2>2, <3>2 DEF New
      <4> QED
        BY <3>1, <4>1 DEF Rests
    <3>3. CASE ~HasFreeBlock(ps[state_[t]], ps[state_[t]].next_pool)
      <4>1. PICK f : f = Consume("new", ps[state_[t]].next_pool)
        OBVIOUS
      <4>2. f \in Frame /\ Push(t, f)
        BY <2>2, <3>3, <4>1, NextFrames DEF New
      <4>3. f.op # "dtor"
        BY <4>1 DEF Consume
      <4> QED
        BY <1>1, <3>1, <4>2, <4>3, RestsAtPush
    <3> QED
      BY <3>2, <3>3
  <2>3. CASE Clear(t) \/ Exit(t)
    <3>1. PICK then \in {"clear", "destroy"} : Push(t, Consume(then, 0))
      BY <2>3 DEF Clear, Exit
    <3>2. Consume(then, 0) \in Frame /\ Consume(then, 0).op # "dtor"
      BY NextFrames DEF Consume
    <3>3. UNCHANGED <<phase, state_>>
      BY <2>3 DEF Clear, Exit
    <3> QED
      BY <1>1, <3>1, <3>2, <3>3, RestsAtPush
  <2> QED
    BY <1>3, <2>1, <2>2, <2>3 DEF Call, Starts
<1>4. CASE ExitProcess
  <2>1. stack[Main] = << >> /\ Main \in Threads
    BY <1>4, ClientAssumption DEF ExitProcess, IndInv, ThreadsOK, ThreadFits
  <2>2. \A u \in Threads : stack'[u] = stack[u] /\ (u # Main => UNCHANGED <<phase[u], state_[u]>>)
    BY <1>1, <1>4 DEF ExitProcess, TypeOK
  <2>3. DtorFrames(stack[Main]) = {}
    BY <2>1, NoFrames
  <2> QED
    BY <2>2, <2>3 DEF Rests
<1>5. CASE DeleteState
  <2>1. PICK s : Push(Main, Sweep(s, 0, 0, Len(ps[s].pools)))
    BY <1>5 DEF DeleteState
  <2>2. stack[Main] = << >> /\ Main \in Threads /\ UNCHANGED <<phase, state_>>
    BY <1>5, ClientAssumption DEF DeleteState
  <2>3. PICK f : f = Sweep(s, 0, 0, Len(ps[s].pools))
    OBVIOUS
  <2>4. f.op = "sweep"
    BY <2>3 DEF Sweep
  <2>5. DtorFrames(<<f>> \o << >>) = {}
    BY <2>4 DEF DtorFrames, Range
  <2>6. stack' = [stack EXCEPT ![Main] = <<f>> \o << >>]
    BY <2>1, <2>2, <2>3 DEF Push
  <2> QED
    BY <1>1, <2>2, <2>5, <2>6, RestsIf
<1> QED
  BY <1>2, <1>3, <1>4, <1>5 DEF Next

(* The loop over the used blocks, h, finds the object x, and goes on as g  *)
(* when the destructor d has returned.                                     *)
SweepsFrom(t, x, h, d, g) ==
  /\ h = Head(stack[t]) /\ h.op = "sweep" /\ stack[t] # << >> /\ Tail(stack[t]) = << >>
  /\ fault = "none" /\ x[1] = h.s /\ h.s \in Threads /\ ps[h.s] # Null /\ x \in Claimed
  /\ phase[t] \in {"running", "exiting"}
  /\ phase[t] = "running" => h.s = state_[t]
  /\ d = Dtor(x, "free") /\ d.op = "dtor" /\ d.x = x /\ d.then = "free"
  /\ g.op = "sweep" /\ g.s = h.s /\ g.i = h.i /\ g.n = h.n
  /\ stack' = [stack EXCEPT ![t] = <<d, g>>]
  /\ live' = live \ {x}
  /\ fault' = IF x \in live THEN fault ELSE "no object"
  /\ UNCHANGED <<client, phase, state_, ps, queue, free_pools, lost>>

LEMMA SweepBlockIs ==
  ASSUME IndInv, NEW t \in Threads, SweepBlock(t)
  PROVE  \E x \in Objects, h, d, g \in Frame : SweepsFrom(t, x, h, d, g)
<1> DEFINE F == [op : {"sweep"}, s : Threads, i : 0 .. MaxPools - 1, b : 0 .. NumBlocks,
                 n : 1 .. MaxPools]
<1>1. PICK h \in Frame : h = Head(stack[t]) /\ h.op = "sweep"
  <2>1. At(t, "sweep")
    BY DEF SweepBlock
  <2>2. Head(stack[t]) \in Frame /\ Head(stack[t]).op = "sweep"
    BY <2>1, AtIs
  <2> QED
    BY <2>2
<1>2. fault = "none" /\ stack[t] # << >>
  BY DEF SweepBlock, At
<1>3. TypeOK /\ ClaimsOK /\ Routed /\ ClaimsAreThere /\ StatesOK /\ MaxPools \in Nat
  BY ClientIs DEF IndInv
<1>4. /\ stack[t] \in Seq(Frame) /\ Shape(stack[t]) /\ phase[t] \in {"running", "exiting"}
      /\ phase[t] = "running" => state_[t] # Null
      /\ FrameFits(h, phase[t], state_[t], ps)
      /\ Tail(stack[t]) \in Seq(Frame)
  BY <1>1, <1>2, InCall
<1>5. h \in F
  BY <1>1 DEF Frame
<1>6. PICK s \in Threads, i \in 0 .. MaxPools - 1 :
        s = h.s /\ i = h.i /\ ps[s] # Null /\ i \in PoolIds(ps[s])
  <2>1. /\ h.s \in Threads /\ h.i \in 0 .. MaxPools - 1 /\ h.i \in Nat /\ h.n \in Nat
        /\ h.i < h.n /\ h.n <= Len(ps[h.s].pools) /\ ps[h.s] # Null
    BY <1>1, <1>3, <1>4, <1>5 DEF FrameFits
  <2>2. Len(ps[h.s].pools) \in Nat
    BY <1>3, <2>1, StateIs
  <2> QED
    BY <2>1, <2>2 DEF PoolIds
<1>7. PICK b : b = CHOOSE a \in UsedAhead(h) : \A c \in UsedAhead(h) : a <= c
  OBVIOUS
<1>8. UsedAhead(h) # {} /\ UsedAhead(h) \in SUBSET Nat
  <2>1. h.b \in Nat /\ NumBlocks \in Nat
    BY <1>5, LayoutAssumption
  <2>2. UsedAhead(h) \in SUBSET Nat
    BY <2>1 DEF UsedAhead
  <2> QED
    BY <1>1, <2>2 DEF SweepBlock
<1>9. /\ b \in Blocks /\ b + 1 \in 0 .. NumBlocks
      /\ IsBlockUsed(Inner(ps[s], i).fp, b)
  <2>1. b \in UsedAhead(h)
    BY <1>7, <1>8, FirstOf
  <2>2. h.b \in Nat /\ NumBlocks \in Nat
    BY <1>5, LayoutAssumption
  <2> QED
    BY <1>6, <2>1, <2>2 DEF UsedAhead, Blocks
<1>10. PICK x \in Objects : x = <<s, i, b>>
  BY <1>6, <1>9 DEF Objects
<1>11. x[1] = s /\ x[2] = i /\ x[3] = b
  BY <1>10
<1>12. x \in Claimed
  <2>1. PoolStateOK(ps[s], s, PoolNames, MaxPools, Claimed)
    BY <1>3, <1>6, StateIs
  <2>2. MaxPools \in Nat
    BY <1>3
  <2> QED
    BY <1>6, <1>9, <1>10, <2>1, <2>2, UsedMarkOK
<1>13. PICK d \in Frame : d = Dtor(x, "free") /\ d.op = "dtor" /\ d.x = x
  <2>1. /\ Dtor(x, "free") \in Frame /\ Dtor(x, "free").op = "dtor"
        /\ Dtor(x, "free").x = x
    BY DEF Frame, Dtor
  <2> QED
    BY <2>1
<1>14. PICK g \in Frame :
         /\ g = [h EXCEPT !.b = b + 1] /\ g.op = "sweep" /\ g.s = h.s /\ g.i = h.i /\ g.n = h.n
  <2>1. [h EXCEPT !.b = b + 1] \in F
    BY <1>5, <1>9
  <2> QED
    BY <1>5, <2>1 DEF Frame
<1>15. /\ stack' = [stack EXCEPT ![t] = <<d, g>> \o Tail(@)]
       /\ live' = live \ {x}
       /\ fault' = IF x \in live THEN fault ELSE "no object"
       /\ UNCHANGED <<client, phase, state_, ps, queue, free_pools, lost>>
  <2>1. <<h.s, h.i, CHOOSE b2 \in UsedAhead(h) : \A c \in UsedAhead(h) : b2 <= c>> = x
    BY <1>6, <1>7, <1>10
  <2> QED
    BY <1>1, <1>11, <1>13, <1>14, <2>1 DEF SweepBlock<1>16. Tail(stack[t]) = << >>
  BY <1>1, <1>2, AtBottom
<1>17. phase[t] = "running" => h.s = state_[t]
  BY <1>1, <1>4 DEF FrameFits
<1>18. d.then = "free"
  BY <1>13 DEF Dtor
<1>19. stack' = [stack EXCEPT ![t] = <<d, g>>]
  <2>1. <<d, g>> \o << >> = <<d, g>>
    OBVIOUS
  <2> QED
    BY <1>15, <1>16, <2>1
<1>20. x[1] = h.s /\ h.s \in Threads /\ ps[h.s] # Null
  BY <1>6, <1>11
<1> WITNESS x \in Objects, h \in Frame, d \in Frame, g \in Frame
<1> QED
  BY <1>1, <1>2, <1>4, <1>12, <1>13, <1>14, <1>15, <1>16, <1>17, <1>18, <1>19, <1>20
  DEF SweepsFrom


(* The frames after a destructor has started.                              *)
LEMMA SweptFrames ==
  ASSUME TypeOK, NEW t \in Threads, NEW d \in Frame, NEW g \in Frame,
         d.op = "dtor", g.op # "dtor", stack' = [stack EXCEPT ![t] = <<d, g>>]
  PROVE  /\ DtorFrames(stack'[t]) = {d} /\ Range(stack'[t]) = {d, g}
         /\ \A u \in Threads : u # t => stack'[u] = stack[u]
<1>1. stack'[t] = <<d, g>> /\ \A u \in Threads : u # t => stack'[u] = stack[u]
  BY DEF TypeOK
<1>2. Range(<<d, g>>) = {d, g}
  BY DEF Range
<1> QED
  BY <1>1, <1>2 DEF DtorFrames

LEMMA DeletedFrames ==
  ASSUME TypeOK, NEW t \in Threads, NEW f \in Frame, f.op = "dtor", Push(t, f)
  PROVE  /\ DtorFrames(stack'[t]) = DtorFrames(stack[t]) \union {f}
         /\ Range(stack'[t]) = Range(stack[t]) \union {f}
         /\ \A u \in Threads : u # t => stack'[u] = stack[u]
<1>1. /\ stack'[t] = <<f>> \o stack[t] /\ \A u \in Threads : u # t => stack'[u] = stack[u]
      /\ stack[t] \in Seq(Frame)
  BY DEF Push, TypeOK
<1> QED
  BY <1>1, FramesAfterPush

(* The queues change when a request is put or taken.                       *)
LEMMA QueuesRest ==
  ASSUME Next, \A t \in Threads : ~ConsumeOne(t) /\ ~EndDtor(t)
  PROVE  UNCHANGED queue
<1>1. ASSUME NEW t \in Threads, Work(t)
      PROVE  UNCHANGED queue
  BY <1>1 DEF Work, TakeFreePool, CreatePoolState, InitFails, FindNoFreePool,
    FindNoRequest, FinishNew, StartSweep, AddFreePool, SweepBlock, SweepNextPool, EndSweep
<1>2. ASSUME NEW t \in Threads, Call(t)
      PROVE  UNCHANGED queue
  BY <1>2 DEF Call, Start, New, Clear, Exit, Delete
<1> QED
  BY <1>1, <1>2 DEF Next, ExitProcess, DeleteState

LEMMA ClientStays == Next => UNCHANGED client
<1>1. ASSUME NEW t \in Threads, Work(t)
      PROVE  UNCHANGED client
  BY <1>1 DEF Work, TakeFreePool, CreatePoolState, InitFails, FindNoFreePool, ConsumeOne, EndDtor,
    FindNoRequest, FinishNew, StartSweep, AddFreePool, SweepBlock, SweepNextPool, EndSweep
<1>2. ASSUME NEW t \in Threads, Call(t)
      PROVE  UNCHANGED client
  BY <1>2 DEF Call, Start, New, Clear, Exit, Delete
<1> QED
  BY <1>1, <1>2 DEF Next, ExitProcess, DeleteState

LEMMA SendsStep ==
  ASSUME IndInv, LocalInv, Next
  PROVE  /\ SendsOK'
         /\ Does("local") =>
              \A t \in Threads : \A f \in DtorFrames(stack'[t]) : f.then = "free"
<1>1. TypeOK /\ SendsOK /\ LocalOK
  BY DEF IndInv, LocalInv
<1>2. CASE Rests
  <2>1. ASSUME NEW t \in Threads, phase'[t] = "running", NEW f \in DtorFrames(stack'[t])
        PROVE  f.then = "free" <=> f.x[1] = state_'[t]
    <3>1. f \in DtorFrames(stack[t]) /\ UNCHANGED <<phase[t], state_[t]>>
      BY <1>2, <2>1 DEF Rests
    <3> QED
      BY <1>1, <2>1, <3>1 DEF SendsOK
  <2>2. ASSUME Does("local"), NEW t \in Threads, NEW f \in DtorFrames(stack'[t])
        PROVE  f.then = "free"
    BY <1>1, <1>2, <2>2 DEF Rests, LocalOK
  <2> QED
    BY <2>1, <2>2 DEF SendsOK
<1>3. ASSUME NEW t \in Threads, SweepBlock(t)
      PROVE  /\ SendsOK'
             /\ Does("local") =>
                  \A u \in Threads : \A f \in DtorFrames(stack'[u]) : f.then = "free"
  <2>1. PICK x \in Objects, h \in Frame, d \in Frame, g \in Frame : SweepsFrom(t, x, h, d, g)
    BY <1>3, SweepBlockIs
  <2>2. DtorFrames(stack'[t]) = {d} /\ \A u \in Threads : u # t => stack'[u] = stack[u]
    BY <1>1, <2>1, SweptFrames DEF SweepsFrom
  <2>3. /\ phase[t] = "running" => x[1] = state_[t]
        /\ d.x = x /\ d.then = "free" /\ UNCHANGED <<phase, state_>>
    BY <2>1 DEF SweepsFrom
  <2>4. ASSUME NEW u \in Threads, NEW f \in DtorFrames(stack'[u])
        PROVE  /\ phase'[u] = "running" => (f.then = "free" <=> f.x[1] = state_'[u])
               /\ Does("local") => f.then = "free"
    <3>1. CASE u = t
      BY <2>2, <2>3, <2>4, <3>1
    <3>2. CASE u # t
      BY <1>1, <2>2, <2>3, <2>4, <3>2 DEF SendsOK, LocalOK
    <3> QED
      BY <3>1, <3>2
  <2> QED
    BY <2>4 DEF SendsOK
<1>4. ASSUME NEW t \in Threads, NEW x \in live, Delete(t, x)
      PROVE  /\ SendsOK'
             /\ Does("local") =>
                  \A u \in Threads : \A f \in DtorFrames(stack'[u]) : f.then = "free"
  <2>1. PICK then \in {"free", "enqueue"} : /\ then = "free" <=> state_[t] = x[1]
                                            /\ Push(t, Dtor(x, then)) /\ Dtor(x, then) \in Frame
    BY <1>4, DeleteIs
  <2>2. UNCHANGED <<phase, state_>> /\ (Does("local") => state_[t] = x[1])
    BY <1>4 DEF Delete, AsTheClientDoes
  <2>3. PICK d \in Frame : d = Dtor(x, then)
    BY <2>1
  <2>4. d.op = "dtor" /\ d.x = x /\ d.then = then
    BY <2>3 DEF Dtor
  <2>5. /\ DtorFrames(stack'[t]) = DtorFrames(stack[t]) \union {d}
        /\ \A u \in Threads : u # t => stack'[u] = stack[u]
    BY <1>1, <2>1, <2>3, <2>4, DeletedFrames
  <2> QED
    BY <1>1, <2>1, <2>2, <2>4, <2>5 DEF SendsOK, LocalOK
<1> QED
  BY <1>2, <1>3, <1>4, OthersRest DEF Starts

LEMMA QueuesStayEmpty ==
  ASSUME IndInv, LocalInv, Next, Does("local")
  PROVE  \A s, p \in Threads : queue'[s][p] = << >>
<1>1. \A s, p \in Threads : queue[s][p] = << >>
  BY DEF LocalInv, LocalOK
<1>2. ASSUME NEW t \in Threads, ConsumeOne(t)
      PROVE  FALSE
  <2>1. \E p \in Threads : queue[state_[t]][p] # << >>
    BY <1>2 DEF ConsumeOne
  <2>2. state_[t] \in Threads
    BY <1>2, ConsumeOneIs
  <2> QED
    BY <1>1, <2>1, <2>2
<1>3. ASSUME NEW t \in Threads, EndDtor(t)
      PROVE  UNCHANGED queue
  <2>1. Head(stack[t]) \in DtorFrames(stack[t])
    BY <1>3, EndDtorIs
  <2>2. Head(stack[t]).then = "free"
    BY <2>1 DEF LocalInv, LocalOK
  <2> QED
    BY <1>3, <2>2, EndDtorIs
<1> QED
  BY <1>1, <1>2, <1>3, QueuesRest

LEMMA LocalStep ==
  ASSUME IndInv, LocalInv, [Next]_vars
  PROVE  LocalInv'
<1>1. CASE Next
  <2>1. UNCHANGED client
    BY <1>1, ClientStays
  <2> QED
    BY <1>1, <2>1, SendsStep, QueuesStayEmpty DEF LocalInv, LocalOK, Does
<1>2. CASE UNCHANGED vars
  <2>1. UNCHANGED <<client, phase, state_, queue, stack>>
    BY <1>2 DEF vars
  <2> QED
    BY <2>1 DEF LocalInv, SendsOK, LocalOK, Does
<1> QED
  BY <1>1, <1>2

LEMMA LocalInit == Init => LocalInv
<1> SUFFICES ASSUME Init
             PROVE  LocalInv
  OBVIOUS
<1>1. \A t \in Threads : DtorFrames(stack[t]) = {}
  BY NoFrames DEF Init
<1>2. \A s, p \in Threads : queue[s][p] = << >>
  BY DEF Init
<1> QED
  BY <1>1, <1>2 DEF LocalInv, SendsOK, LocalOK

LEMMA LocalInvariant == Spec => []LocalInv
<1>1. IndInv /\ LocalInv /\ [Next]_vars => LocalInv'
  BY LocalStep
<1> QED
  BY <1>1, LocalInit, Invariant, PTL DEF Spec

-----------------------------------------------------------------------------
(* Clear: the frames it has on a stack, and whether it has found the       *)
(* queues empty.                                                           *)
ClearFrames(s) == {f \in Range(s) : f.op = "sweep" \/ (f.op = "consume" /\ f.then = "clear")}
Emptied(s)     == \E f \in ClearFrames(s) : f.op = "sweep" \/ f.dry
Clearing(t)    == phase[t] = "running" /\ ClearFrames(stack[t]) # {}

(* InClear says the same of a thread.                                      *)
LEMMA ClearingIs ==
  ASSUME IndInv, NEW t \in Threads
  PROVE  InClear(t) <=> Clearing(t)
<1>1. \A f \in Range(stack[t]) : f.op = "consume" => phase[t] = "running"
  <2>1. ASSUME NEW f \in Range(stack[t]), f.op = "consume"
        PROVE  phase[t] = "running"
    <3>1. FrameFits(f, phase[t], state_[t], ps) /\ ThreadFits(t)
      BY <2>1 DEF IndInv, ThreadsOK, FramesFit
    <3> QED
      BY <2>1, <3>1 DEF FrameFits, ThreadFits
  <2> QED
    BY <2>1
<1>2. \A f \in Range(stack[t]) : \E k \in DOMAIN stack[t] : stack[t][k] = f
  BY DEF Range
<1>3. \A k \in DOMAIN stack[t] : stack[t][k] \in Range(stack[t])
  BY DEF Range
<1> QED
  BY <1>1, <1>2, <1>3 DEF InClear, Clearing, ClearFrames, Frames

(* A thread is in Clear because it was, or because it calls it; it has     *)
(* emptied the queues because it had, or because it finds them empty.      *)
ClearsOn(u) ==
  /\ Clearing(u)' => Clear(u) \/ (Clearing(u) /\ UNCHANGED state_[u])
  /\ Clearing(u)' /\ Emptied(stack'[u]) => Emptied(stack[u]) \/ FindNoRequest(u)

LEMMA ClearsOnIf ==
  ASSUME TypeOK, NEW t \in Threads, NEW new, stack' = [stack EXCEPT ![t] = new],
         \A u \in Threads \ {t} : UNCHANGED <<phase[u], state_[u]>>,
         \/ ClearFrames(new) = {}
         \/ phase'[t] # "running"
         \/ /\ UNCHANGED <<phase[t], state_[t]>>
            /\ ClearFrames(stack[t]) # {}
            /\ Emptied(new) => Emptied(stack[t])
  PROVE  \A u \in Threads : ClearsOn(u)
<1>1. stack'[t] = new /\ \A u \in Threads : u # t => stack'[u] = stack[u]
  BY DEF TypeOK
<1>2. ASSUME NEW u \in Threads, u # t
      PROVE  ClearsOn(u)
  BY <1>1, <1>2 DEF ClearsOn, Clearing
<1>3. ClearsOn(t)
  BY <1>1 DEF ClearsOn, Clearing
<1> QED
  BY <1>2, <1>3

LEMMA ClearsOnIfFewer ==
  ASSUME TypeOK, NEW t \in Threads, NEW new, stack' = [stack EXCEPT ![t] = new],
         \A u \in Threads \ {t} : UNCHANGED <<phase[u], state_[u]>>,
         ClearFrames(new) = {} \/ UNCHANGED <<phase[t], state_[t]>>,
         ClearFrames(new) \subseteq ClearFrames(stack[t])
  PROVE  \A u \in Threads : ClearsOn(u)
<1>1. Emptied(new) => Emptied(stack[t])
  BY DEF Emptied
<1>2. ClearFrames(new) # {} => ClearFrames(stack[t]) # {}
  OBVIOUS
<1> QED
  BY <1>1, <1>2, ClearsOnIf

LEMMA ClearsOnAtPush ==
  ASSUME TypeOK, NEW t \in Threads, NEW f \in Frame, ClearFrames(<<f>>) = {}, Push(t, f),
         UNCHANGED <<phase, state_>>
  PROVE  \A u \in Threads : ClearsOn(u)
<1>1. stack[t] \in Seq(Frame)
  BY DEF TypeOK
<1>2. Range(<<f>> \o stack[t]) = Range(stack[t]) \union {f}
  BY <1>1, FramesAfterPush
<1>3. f \in Range(<<f>>)
  BY DEF Range
<1>4. ClearFrames(<<f>> \o stack[t]) \subseteq ClearFrames(stack[t])
  BY <1>2, <1>3 DEF ClearFrames
<1> QED
  BY <1>4, ClearsOnIfFewer DEF Push

LEMMA ClearsOnAtPop ==
  ASSUME TypeOK, NEW t \in Threads, stack[t] # << >>, Pop(t),
         \A u \in Threads \ {t} : UNCHANGED <<phase[u], state_[u]>>,
         Tail(stack[t]) = << >> \/ UNCHANGED <<phase[t], state_[t]>>
  PROVE  \A u \in Threads : ClearsOn(u)
<1>1. stack[t] \in Seq(Frame)
  BY DEF TypeOK
<1>2. Range(Tail(stack[t])) \subseteq Range(stack[t])
  BY <1>1, FramesAfterPop
<1>3. ClearFrames(Tail(stack[t])) \subseteq ClearFrames(stack[t])
  BY <1>2 DEF ClearFrames
<1>4. Tail(stack[t]) = << >> => ClearFrames(Tail(stack[t])) = {}
  BY NoFrames DEF ClearFrames
<1> QED
  BY <1>3, <1>4, ClearsOnIfFewer DEF Pop

(* The innermost frame is replaced.                                        *)
LEMMA ClearsOnAtReplace ==
  ASSUME TypeOK, NEW t \in Threads, stack[t] # << >>, NEW g \in Frame, Replace(t, g),
         UNCHANGED <<phase, state_>>,
         g \in ClearFrames(<<g>>) =>
           /\ Head(stack[t]) \in ClearFrames(stack[t])
           /\ g.op = "sweep" \/ g.dry => Head(stack[t]).op = "sweep" \/ Head(stack[t]).dry
  PROVE  \A u \in Threads : ClearsOn(u)
<1>1. stack[t] \in Seq(Frame) /\ Tail(stack[t]) \in Seq(Frame)
  BY PopIs DEF TypeOK
<1> DEFINE new == <<g>> \o Tail(stack[t])
<1>2. /\ Range(new) = Range(Tail(stack[t])) \union {g}
      /\ Range(stack[t]) = Range(Tail(stack[t])) \union {Head(stack[t])}
  BY <1>1, FramesAfterPush, FramesAfterPop
<1>3. g \in Range(<<g>>)
  BY DEF Range
<1> HIDE DEF new
<1>4. ClearFrames(new) \subseteq ClearFrames(stack[t]) \union {g}
      /\ (g \in ClearFrames(new) => g \in ClearFrames(<<g>>))
  BY <1>2, <1>3 DEF ClearFrames
<1>5. ClearFrames(new) # {} => ClearFrames(stack[t]) # {}
  BY <1>4
<1>6. Emptied(new) => Emptied(stack[t])
  BY <1>4 DEF Emptied
<1> QED
  BY <1>5, <1>6, ClearsOnIf DEF Replace, new

LEMMA ClearStep ==
  ASSUME IndInv, Next
  PROVE  \A u \in Threads : ClearsOn(u)
<1>1. TypeOK
  BY DEF IndInv
<1>2. ASSUME NEW t \in Threads, Work(t)
      PROVE  \A u \in Threads : ClearsOn(u)
  <2>1. CASE TakeFreePool(t) \/ CreatePoolState(t) \/ InitFails(t)
    <3>1. At(t, "init") /\ Pop(t)
      BY <2>1 DEF TakeFreePool, CreatePoolState, InitFails
    <3>2. stack[t] # << >> /\ Tail(stack[t]) = << >>
      BY <3>1, AtIs, AtBottom
    <3>3. \A u \in Threads \ {t} : UNCHANGED <<phase[u], state_[u]>>
      BY <1>1, <2>1 DEF TakeFreePool, CreatePoolState, InitFails, TypeOK
    <3> QED
      BY <1>1, <3>1, <3>2, <3>3, ClearsOnAtPop
  <2>2. CASE FindNoFreePool(t)
    <3>1. stack[t] # << >> /\ Head(stack[t]).op = "init" /\ Head(stack[t]) \in Frame
      BY <2>2, AtIs DEF FindNoFreePool
    <3>2. PICK p \in Threads : Replace(t, [Head(stack[t]) EXCEPT !.seen = @ \union {p}])
      BY <2>2 DEF FindNoFreePool
    <3>3. Head(stack[t]) \in [op : {"init"}, seen : SUBSET Threads]
      BY <3>1 DEF Frame
    <3>4. [Head(stack[t]) EXCEPT !.seen = @ \union {p}] \in [op : {"init"}, seen : SUBSET Threads]
      BY <3>3
    <3>5. PICK f : f = [Head(stack[t]) EXCEPT !.seen = @ \union {p}]
      OBVIOUS
    <3>6. f \in Frame /\ f.op = "init"
      BY <3>4, <3>5 DEF Frame
    <3>7. Replace(t, f) /\ UNCHANGED <<phase, state_>>
      BY <2>2, <3>2, <3>5 DEF FindNoFreePool
    <3>8. f \notin ClearFrames(<<f>>)
      BY <3>6 DEF ClearFrames
    <3> QED
      BY <1>1, <3>1, <3>6, <3>7, <3>8, ClearsOnAtReplace
  <2>3. CASE ConsumeOne(t)
    <3>1. /\ stack[t] # << >> /\ Head(stack[t]).op = "consume" /\ UNCHANGED <<phase, state_>>
          /\ \E g \in Frame : /\ g.op = "consume" /\ g.then = Head(stack[t]).then /\ ~g.dry
                              /\ stack' = [stack EXCEPT ![t] = <<g>> \o Tail(@)]
      BY <2>3, ConsumeOneIs
    <3>2. PICK g \in Frame : g.op = "consume" /\ g.then = Head(stack[t]).then /\ ~g.dry
                             /\ Replace(t, g)
      BY <3>1 DEF Replace
    <3>3. Head(stack[t]) \in Range(stack[t])
      BY <3>1, InCall
    <3>4. g \in ClearFrames(<<g>>) => Head(stack[t]) \in ClearFrames(stack[t])
      BY <3>1, <3>2, <3>3 DEF ClearFrames
    <3>5. ~(g.op = "sweep" \/ g.dry)
      BY <3>2
    <3> QED
      BY <1>1, <3>1, <3>2, <3>4, <3>5, ClearsOnAtReplace
  <2>4. CASE FindNoRequest(t)
    <3>1. PICK f : f = [Head(stack[t]) EXCEPT !.dry = TRUE]
      OBVIOUS
    <3>2. f \in Frame /\ f.op = "consume" /\ f.then = Head(stack[t]).then
      BY <2>4, <3>1, NextFrames
    <3>3. /\ stack' = [stack EXCEPT ![t] = <<f>> \o Tail(@)] /\ UNCHANGED <<phase, state_>>
          /\ stack[t] # << >> /\ Head(stack[t]).op = "consume"
      BY <2>4, <3>1 DEF FindNoRequest, At, Replace
    <3>4. /\ stack[t] \in Seq(Frame) /\ Tail(stack[t]) \in Seq(Frame)
          /\ Head(stack[t]) \in Range(stack[t])
      BY <3>3, InCall
    <3>5. /\ Range(<<f>> \o Tail(stack[t])) = Range(Tail(stack[t])) \union {f}
          /\ Range(stack[t]) = Range(Tail(stack[t])) \union {Head(stack[t])}
      BY <3>2, <3>3, <3>4, FramesAfterPush, FramesAfterPop
    <3>6. ClearFrames(<<f>> \o Tail(stack[t])) # {} => ClearFrames(stack[t]) # {}
      BY <3>2, <3>3, <3>4, <3>5 DEF ClearFrames
    <3>7. /\ stack'[t] = <<f>> \o Tail(stack[t])
          /\ \A u \in Threads : u # t => stack'[u] = stack[u]
      BY <1>1, <3>3 DEF TypeOK
    <3> QED
      BY <2>4, <3>3, <3>6, <3>7 DEF ClearsOn, Clearing
  <2>5. CASE FinishNew(t) \/ EndDtor(t) \/ EndSweep(t)
    <3>1. stack[t] # << >> /\ Pop(t) /\ UNCHANGED <<phase, state_>>
      BY <2>5 DEF FinishNew, Consumed, EndDtor, EndSweep, At
    <3> QED
      BY <1>1, <3>1, ClearsOnAtPop
  <2>6. CASE AddFreePool(t)
    <3>1. stack[t] # << >> /\ Pop(t) /\ Head(stack[t]).op = "consume" /\ Head(stack[t]).then = "destroy"
      BY <2>6 DEF AddFreePool, Consumed, At
    <3>2. Tail(stack[t]) = << >>
      BY <3>1, AtBottom
    <3>3. \A u \in Threads \ {t} : UNCHANGED <<phase[u], state_[u]>>
      BY <1>1, <2>6 DEF AddFreePool, TypeOK
    <3> QED
      BY <1>1, <3>1, <3>2, <3>3, ClearsOnAtPop
  <2>7. CASE StartSweep(t)
    <3>1. /\ stack[t] # << >> /\ Head(stack[t]).op = "consume" /\ Head(stack[t]).then = "clear"
          /\ Head(stack[t]).dry
          /\ Replace(t, Sweep(state_[t], 0, 0, Len(ps[state_[t]].pools)))
          /\ UNCHANGED <<phase, state_>>
      BY <2>7 DEF StartSweep, Consumed, At
    <3>2. Head(stack[t]) \in ClearFrames(stack[t])
      BY <3>1, InCall DEF ClearFrames
    <3>3. Emptied(stack[t]) /\ ClearFrames(stack[t]) # {}
      BY <3>1, <3>2 DEF Emptied
    <3> QED
      BY <1>1, <3>1, <3>3, ClearsOnIf DEF Replace
  <2>8. CASE SweepNextPool(t)
    <3>1. /\ stack[t] # << >> /\ Head(stack[t]).op = "sweep"
          /\ Replace(t, [Head(stack[t]) EXCEPT !.i = @ + 1, !.b = 0])
          /\ UNCHANGED <<phase, state_>>
      BY <2>8 DEF SweepNextPool, At
    <3>2. Head(stack[t]) \in ClearFrames(stack[t])
      BY <3>1, InCall DEF ClearFrames
    <3>3. Emptied(stack[t]) /\ ClearFrames(stack[t]) # {}
      BY <3>1, <3>2 DEF Emptied
    <3> QED
      BY <1>1, <3>1, <3>3, ClearsOnIf DEF Replace
  <2>9. CASE SweepBlock(t)
    <3>1. PICK x \in Objects, h \in Frame, d \in Frame, g \in Frame : SweepsFrom(t, x, h, d, g)
      BY <2>9, SweepBlockIs
    <3>2. /\ stack[t] # << >> /\ Head(stack[t]).op = "sweep"
          /\ stack' = [stack EXCEPT ![t] = <<d, g>>]
          /\ UNCHANGED <<phase, state_>>
      BY <3>1 DEF SweepsFrom
    <3>3. Head(stack[t]) \in ClearFrames(stack[t])
      BY <3>2, InCall DEF ClearFrames
    <3>4. Emptied(stack[t]) /\ ClearFrames(stack[t]) # {}
      BY <3>2, <3>3 DEF Emptied
    <3> QED
      BY <1>1, <3>2, <3>4, ClearsOnIf
  <2> QED
    BY <1>2, <2>1, <2>2, <2>3, <2>4, <2>5, <2>6, <2>7, <2>8, <2>9 DEF Work
<1>3. ASSUME NEW t \in Threads, Call(t)
      PROVE  \A u \in Threads : ClearsOn(u)
  <2>1. CASE Start(t)
    <3>1. /\ phase[t] = "unborn" /\ stack' = [stack EXCEPT ![t] = <<Scan>> \o @]
          /\ \A u \in Threads \ {t} : UNCHANGED <<phase[u], state_[u]>>
      BY <1>1, <2>1 DEF Start, Push, TypeOK
    <3>2. stack[t] = << >>
      BY <3>1 DEF IndInv, ThreadsOK, ThreadFits
    <3>3. PICK f \in Frame : f = Scan /\ f.op = "init"
      BY NextFrames DEF Scan
    <3>4. ClearFrames(<<f>> \o << >>) = {}
      BY <3>3 DEF ClearFrames, Range
    <3>5. stack' = [stack EXCEPT ![t] = <<f>> \o << >>]
      BY <3>1, <3>2, <3>3
    <3> QED
      BY <1>1, <3>1, <3>4, <3>5, ClearsOnIf
  <2>2. CASE New(t)
    <3>1. UNCHANGED <<phase, state_>> /\ state_[t] \in Threads
      BY <2>2, ClientAssumption DEF New
    <3>2. CASE HasFreeBlock(ps[state_[t]], ps[state_[t]].next_pool)
      <4>1. UNCHANGED stack
        BY <2>2, <3>2 DEF New
      <4> QED
        BY <3>1, <4>1 DEF ClearsOn, Clearing
    <3>3. CASE ~HasFreeBlock(ps[state_[t]], ps[state_[t]].next_pool)
      <4>1. PICK f : f = Consume("new", ps[state_[t]].next_pool)
        OBVIOUS
      <4>2. f \in Frame /\ Push(t, f)
        BY <2>2, <3>3, <4>1, NextFrames DEF New
      <4>3. f.op = "consume" /\ f.then = "new"
        BY <4>1 DEF Consume
      <4>4. ClearFrames(<<f>>) = {}
        BY <4>3 DEF ClearFrames, Range
      <4> QED
        BY <1>1, <3>1, <4>2, <4>4, ClearsOnAtPush
    <3> QED
      BY <3>2, <3>3
  <2>3. CASE Clear(t)
    <3>1. PICK f \in Frame : f = Consume("clear", 0)
      BY NextFrames
    <3>2. f.op = "consume" /\ ~f.dry
      BY <3>1 DEF Consume
    <3>3. stack[t] = << >> /\ Push(t, f) /\ UNCHANGED <<phase, state_>>
      BY <2>3, <3>1 DEF Clear
    <3>4. Range(<<f>> \o << >>) = {f}
      BY DEF Range
    <3>5. /\ stack'[t] = <<f>> \o << >>
          /\ \A u \in Threads : u # t => stack'[u] = stack[u]
      BY <1>1, <3>3 DEF Push, TypeOK
    <3>6. ~Emptied(stack'[t])
      BY <3>2, <3>4, <3>5 DEF Emptied, ClearFrames
    <3> QED
      BY <2>3, <3>3, <3>5, <3>6 DEF ClearsOn, Clearing
  <2>4. CASE Exit(t)
    <3>1. PICK f \in Frame : f = Consume("destroy", 0)
      BY NextFrames
    <3>2. f.op = "consume" /\ f.then = "destroy"
      BY <3>1 DEF Consume
    <3>3. ClearFrames(<<f>>) = {}
      BY <3>2 DEF ClearFrames, Range
    <3>4. Push(t, f) /\ UNCHANGED <<phase, state_>>
      BY <2>4, <3>1 DEF Exit
    <3> QED
      BY <1>1, <3>3, <3>4, ClearsOnAtPush
  <2>5. ASSUME NEW x \in live, Delete(t, x)
        PROVE  \A u \in Threads : ClearsOn(u)
    <3>1. PICK then \in {"free", "enqueue"} : Push(t, Dtor(x, then)) /\ Dtor(x, then) \in Frame
      BY <2>5, DeleteIs
    <3>2. PICK f \in Frame : f = Dtor(x, then) /\ Push(t, f)
      BY <3>1
    <3>3. f.op = "dtor"
      BY <3>2 DEF Dtor
    <3>4. ClearFrames(<<f>>) = {}
      BY <3>3 DEF ClearFrames, Range
    <3>5. UNCHANGED <<phase, state_>>
      BY <2>5 DEF Delete
    <3> QED
      BY <1>1, <3>2, <3>4, <3>5, ClearsOnAtPush
  <2> QED
    BY <1>3, <2>1, <2>2, <2>3, <2>4, <2>5 DEF Call
<1>4. CASE ExitProcess
  <2>1. UNCHANGED <<stack, state_>> /\ \A u \in Threads : phase'[u] = "running" => phase[u] = "running"
    BY <1>1, <1>4 DEF ExitProcess, TypeOK
  <2> QED
    BY <2>1 DEF ClearsOn, Clearing
<1>5. CASE DeleteState
  <2>1. PICK s : Push(Main, Sweep(s, 0, 0, Len(ps[s].pools)))
    BY <1>5 DEF DeleteState
  <2>2. phase'[Main] # "running" /\ Main \in Threads /\ UNCHANGED <<phase, state_>>
    BY <1>5, ClientAssumption DEF DeleteState
  <2>3. stack' = [stack EXCEPT ![Main] = <<Sweep(s, 0, 0, Len(ps[s].pools))>> \o @]
    BY <2>1 DEF Push
  <2> QED
    BY <1>1, <2>2, <2>3, ClearsOnIf
<1> QED
  BY <1>2, <1>3, <1>4, <1>5 DEF Next

-----------------------------------------------------------------------------
(* No other thread destroys an object of a state that is being cleared, and *)
(* once its queues were found empty they stay so.                          *)
AloneOK ==
  \A t, u \in Threads : t # u /\ Clearing(t) =>
    \A f \in DtorFrames(stack[u]) : f.x[1] # state_[t]

EmptiedOK ==
  \A t \in Threads : Clearing(t) /\ Emptied(stack[t]) =>
    \A p \in Threads : queue[state_[t]][p] = << >>

(* For a client that leaves nothing: no block is lost, and every sweep     *)
(* finds objects.                                                          *)
TidyOK == LeavesNothing => lost = {} /\ fault # "no object"

ExitsOK == \A t \in Threads : phase[t] = "exiting" => Does("exit")

TidyInv == LocalInv /\ AloneOK /\ EmptiedOK /\ TidyOK /\ ExitsOK

LEMMA AloneStep ==
  ASSUME IndInv, AloneOK, Next
  PROVE  AloneOK'
<1>1. TypeOK
  BY DEF IndInv
<1> SUFFICES ASSUME NEW t \in Threads, NEW u \in Threads, t # u, Clearing(t)',
                    NEW f \in DtorFrames(stack'[u])
             PROVE  f.x[1] # state_'[t]
  BY DEF AloneOK
<1>2. Clear(t) \/ (Clearing(t) /\ state_'[t] = state_[t])
  BY ClearStep DEF ClearsOn
<1>3. CASE Clear(t)
  <2>1. stack'[u] = stack[u] /\ state_'[t] = state_[t]
    BY <1>1, <1>3 DEF Clear, Push, TypeOK
  <2>2. f.op = "dtor" /\ \E k \in DOMAIN stack[u] : stack[u][k] = f
    BY <2>1 DEF DtorFrames, Range
  <2>3. PICK k \in Frames(u, "dtor") : stack[u][k] = f
    BY <2>2 DEF Frames
  <2> QED
    BY <1>3, <2>1, <2>3 DEF Clear
<1>4. CASE Clearing(t) /\ state_'[t] = state_[t]
  <2>1. ASSUME f \in DtorFrames(stack[u])
        PROVE  f.x[1] # state_'[t]
    BY <1>4, <2>1 DEF AloneOK
  <2>2. CASE \A v \in Threads : ~Starts(v)
    <3>1. Rests
      BY <2>2, OthersRest
    <3> QED
      BY <2>1, <3>1 DEF Rests
  <2>3. ASSUME NEW v \in Threads, NEW x \in live, Delete(v, x)
        PROVE  f.x[1] # state_'[t]
    <3>1. PICK then \in {"free", "enqueue"} : Push(v, Dtor(x, then)) /\ Dtor(x, then) \in Frame
      BY <2>3, DeleteIs
    <3>2. PICK d \in Frame : d = Dtor(x, then) /\ Push(v, d) /\ d.op = "dtor" /\ d.x = x
      BY <3>1 DEF Dtor
    <3>3. /\ DtorFrames(stack'[v]) = DtorFrames(stack[v]) \union {d}
          /\ \A w \in Threads : w # v => stack'[w] = stack[w]
      BY <1>1, <3>2, DeletedFrames
    <3>4. CASE f = d /\ u = v
      <4>1. ~(InClear(t) /\ state_[t] = x[1])
        BY <2>3, <3>4 DEF Delete
      <4> QED
        BY <1>4, <3>2, <3>4, <4>1, ClearingIs
    <3> QED
      BY <2>1, <3>3, <3>4
  <2>4. ASSUME NEW v \in Threads, SweepBlock(v)
        PROVE  f.x[1] # state_'[t]
    <3>1. PICK x \in Objects, h \in Frame, d \in Frame, g \in Frame : SweepsFrom(v, x, h, d, g)
      BY <2>4, SweepBlockIs
    <3>2. /\ DtorFrames(stack'[v]) = {d}
          /\ \A w \in Threads : w # v => stack'[w] = stack[w]
      BY <1>1, <3>1, SweptFrames DEF SweepsFrom
    <3>3. CASE u = v
      <4>1. f = d /\ d.x = x /\ x[1] = h.s
        BY <3>1, <3>2, <3>3 DEF SweepsFrom
      <4>2. phase[u] = "running"
        <5>1. phase[u] \in {"running", "exiting"} /\ phase[t] = "running"
          BY <1>4, <3>1, <3>3 DEF SweepsFrom, Clearing
        <5> QED
          BY <5>1 DEF IndInv, ThreadsOK, ThreadFits
      <4>3. h.s = state_[u] /\ state_[u] # Null
        BY <3>1, <3>3, <4>2, NullAssumption DEF SweepsFrom
      <4>4. state_[u] # state_[t]
        BY <4>3 DEF IndInv, OwnersOK
      <4> QED
        BY <1>4, <4>1, <4>3, <4>4
    <3> QED
      BY <2>1, <3>2, <3>3
  <2> QED
    BY <2>2, <2>3, <2>4 DEF Starts
<1> QED
  BY <1>2, <1>3, <1>4

LEMMA EmptiedStep ==
  ASSUME IndInv, SendsOK, AloneOK, EmptiedOK, Next
  PROVE  EmptiedOK'
<1>1. TypeOK
  BY DEF IndInv
<1> SUFFICES ASSUME NEW t \in Threads, Clearing(t)', Emptied(stack'[t]), NEW p \in Threads
             PROVE  queue'[state_'[t]][p] = << >>
  BY DEF EmptiedOK
<1>2. /\ Clear(t) \/ (Clearing(t) /\ state_'[t] = state_[t])
      /\ Emptied(stack[t]) \/ FindNoRequest(t)
  BY ClearStep DEF ClearsOn
<1>3. CASE FindNoRequest(t)
  BY <1>3 DEF FindNoRequest
<1>4. CASE Emptied(stack[t])
  <2>1. stack[t] # << >>
    BY <1>4, NoFrames DEF Emptied, ClearFrames
  <2>2. Clearing(t) /\ state_'[t] = state_[t]
    BY <1>2, <2>1 DEF Clear
  <2>3. queue[state_[t]][p] = << >>
    BY <1>4, <2>2 DEF EmptiedOK
  <2>7. state_[t] \in Threads
    <3>1. PICK g \in Range(stack[t]) : g \in ClearFrames(stack[t])
      BY <2>2 DEF Clearing, ClearFrames
    <3>2. FrameFits(g, phase[t], state_[t], ps) /\ ThreadFits(t)
      BY <3>1 DEF IndInv, ThreadsOK, FramesFit
    <3>3. g \in Frame
      <4>1. stack[t] \in Seq(Frame)
        BY <1>1 DEF TypeOK
      <4> QED
        BY <3>1, <4>1 DEF Range
    <3>4. state_[t] # Null
      <4>1. CASE g.op = "sweep"
        <5>1. g.s \in Threads /\ g.s = state_[t]
          BY <2>2, <3>2, <3>3, <4>1, FrameIs DEF FrameFits, Clearing
        <5> QED
          BY <5>1, NullAssumption
      <4>2. CASE g.op = "consume"
        BY <3>2, <4>2 DEF FrameFits
      <4> QED
        BY <3>1, <4>1, <4>2 DEF ClearFrames
    <3> QED
      BY <1>1, <3>4 DEF TypeOK
  <2>4. ASSUME NEW v \in Threads, ConsumeOne(v)
        PROVE  queue'[state_[t]][p] = << >>
    <3>1. PICK q \in Threads : /\ queue[state_[v]][q] # << >>
                               /\ queue' = [queue EXCEPT ![state_[v]][q] = Tail(@)]
      BY <2>4 DEF ConsumeOne
    <3>2. \A a, b \in Threads : a # state_[v] \/ b # q => queue'[a][b] = queue[a][b]
      BY <1>1, <3>1 DEF TypeOK
    <3> QED
      BY <2>3, <2>7, <3>1, <3>2
  <2>5. ASSUME NEW v \in Threads, EndDtor(v)
        PROVE  queue'[state_[t]][p] = << >>
    <3>1. PICK x : x = Head(stack[v]).x
      OBVIOUS
    <3>2. PICK h : h = Head(stack[v])
      OBVIOUS
    <3>3. /\ x[1] \in Threads /\ h \in DtorFrames(stack[v]) /\ h.x = x
          /\ \/ UNCHANGED queue
             \/ /\ h.then = "enqueue"
                /\ queue' = [queue EXCEPT ![x[1]][v] = Append(@, x)]
      BY <2>5, <3>1, <3>2, EndDtorIs
    <3>4. CASE UNCHANGED queue
      BY <2>3, <3>4
    <3>5. CASE /\ h.then = "enqueue"
               /\ queue' = [queue EXCEPT ![x[1]][v] = Append(@, x)]
      <4>1. x[1] # state_[t]
        <5>1. CASE v # t
          BY <2>2, <3>3, <5>1 DEF AloneOK
        <5>2. CASE v = t
          <6>1. phase[v] = "running"
            BY <2>2, <5>2 DEF Clearing
          <6> QED
            BY <3>3, <3>5, <5>2, <6>1 DEF SendsOK
        <5> QED
          BY <5>1, <5>2
      <4>2. queue'[state_[t]] = queue[state_[t]]
        BY <1>1, <2>7, <3>5, <4>1 DEF TypeOK
      <4> QED
        BY <2>3, <4>2
    <3> QED
      BY <3>3, <3>4, <3>5
  <2>6. ASSUME \A v \in Threads : ~ConsumeOne(v) /\ ~EndDtor(v)
        PROVE  queue'[state_[t]][p] = << >>
    <3>1. UNCHANGED queue
      BY <2>6, QueuesRest
    <3> QED
      BY <2>3, <3>1
  <2>8. queue'[state_[t]][p] = << >>
    BY <2>4, <2>5, <2>6
  <2> QED
    BY <2>2, <2>8
<1> QED
  BY <1>2, <1>3, <1>4

(* A block is lost to a constructor that throws or an enqueue that fails.  *)
LEMMA LosesNothing ==
  ASSUME Next, ~Does("throw"), ~Does("nomem")
  PROVE  UNCHANGED lost
<1>1. \A t : \A s, i, st : Construct(t, s, i, st) => UNCHANGED lost
  BY DEF Construct
<1>2. \A t \in Threads : Work(t) => UNCHANGED lost
  <2>1. \A t : FinishNew(t) => UNCHANGED lost
    BY <1>1 DEF FinishNew, FinishNewHere, FinishNewNext, FinishNewAdd
  <2>2. \A t : EndDtor(t) => UNCHANGED lost
    BY DEF EndDtor
  <2> QED
    BY <2>1, <2>2 DEF Work, TakeFreePool, CreatePoolState, InitFails, FindNoFreePool, ConsumeOne,
      FindNoRequest, StartSweep, AddFreePool, SweepBlock, SweepNextPool, EndSweep
<1>3. \A t \in Threads : Call(t) => UNCHANGED lost
  <2>1. \A t : New(t) => UNCHANGED lost
    BY <1>1 DEF New
  <2> QED
    BY <2>1 DEF Call, Start, Clear, Exit, Delete
<1> QED
  BY <1>2, <1>3 DEF Next, ExitProcess, DeleteState

(* Only SweepBlock runs a destructor without looking.                      *)
LEMMA OnlySweepsBlindly ==
  ASSUME Next, \A t \in Threads : ~SweepBlock(t), fault # "no object"
  PROVE  fault' # "no object"
<1>1. \A t \in Threads : Work(t) => fault' # "no object"
  <2>1. \A t : FinishNew(t) => fault' # "no object"
    BY DEF FinishNew, FinishNewHere, FinishNewNext, FinishNewAdd
  <2> QED
    BY <2>1 DEF Work, TakeFreePool, CreatePoolState, InitFails, FindNoFreePool, ConsumeOne,
      FindNoRequest, StartSweep, AddFreePool, EndDtor, SweepNextPool, EndSweep
<1>2. \A t \in Threads : Call(t) => fault' # "no object"
  BY DEF Call, Start, New, Clear, Exit, Delete
<1> QED
  BY <1>1, <1>2 DEF Next, ExitProcess, DeleteState

(* What is in use in the state swept is an object's.                       *)
LEMMA SweepFindsLive ==
  ASSUME IndInv, TidyInv, LeavesNothing, NEW t \in Threads,
         NEW x \in Objects, NEW h \in Frame, NEW d \in Frame, NEW g \in Frame,
         SweepsFrom(t, x, h, d, g)
  PROVE  x \in live
<1>1. TypeOK
  BY DEF IndInv
<1>2. /\ h = Head(stack[t]) /\ h.op = "sweep" /\ stack[t] # << >> /\ Tail(stack[t]) = << >>
      /\ x[1] = h.s /\ x \in Claimed /\ phase[t] \in {"running", "exiting"}
      /\ phase[t] = "running" => h.s = state_[t]
  BY DEF SweepsFrom
<1>3. x \notin lost
  BY DEF TidyInv, TidyOK
<1>4. stack[t] \in Seq(Frame) /\ h \in Range(stack[t])
  BY <1>1, <1>2, InCall
<1>5. (Clearing(t) /\ Emptied(stack[t])) \/ phase[t] = "exiting"
  BY <1>2, <1>4 DEF Clearing, Emptied, ClearFrames
<1>6. ASSUME NEW u \in Threads, x \in Doomed[u]
      PROVE  FALSE
  <2>1. PICK f \in DtorFrames(stack[u]) : f.x = x
    BY <1>1, <1>6, DoomedHasFrame
  <2>2. u # t
    <3>1. DtorFrames(stack[t]) = {}
      BY <1>2, <1>4, FramesAfterPop, NoFrames
    <3> QED
      BY <2>1, <3>1
  <2>3. phase[t] # "exiting"
    <3>1. stack[u] # << >>
      BY <2>1, NoFrames
    <3> QED
      BY <2>2, <3>1 DEF IndInv, ThreadsOK, ThreadFits, TypeOK
  <2> QED
    BY <1>2, <1>5, <2>1, <2>2, <2>3 DEF TidyInv, AloneOK
<1>7. ASSUME NEW s \in Threads, NEW p \in Threads, x \in Asked[s][p]
      PROVE  FALSE
  <2>1. x \in Range(queue[s][p])
    BY <1>1, <1>7, ClaimedIs
  <2>2. x[1] = s /\ queue[s][p] # << >>
    <3>1. queue[s][p] # << >>
      BY <2>1, NoFrames
    <3> QED
      BY <2>1, <3>1 DEF IndInv, Routed
  <2>3. CASE phase[t] = "exiting"
    <3>1. Does("local")
      BY <2>3 DEF TidyInv, ExitsOK, LeavesNothing
    <3> QED
      BY <2>2, <3>1 DEF TidyInv, LocalInv, LocalOK
  <2>4. CASE phase[t] # "exiting"
    BY <1>2, <1>5, <2>2, <2>4 DEF TidyInv, EmptiedOK
  <2> QED
    BY <2>3, <2>4
<1> QED
  BY <1>2, <1>3, <1>6, <1>7 DEF Claimed, AllOf

LEMMA TidyStep ==
  ASSUME IndInv, TidyInv, [Next]_vars
  PROVE  TidyInv'
<1>1. CASE UNCHANGED vars
  <2>1. LocalInv'
    BY LocalStep DEF TidyInv
  <2>2. \A t \in Threads : Clearing(t)' <=> Clearing(t)
    BY <1>1 DEF Clearing, vars
  <2> QED
    BY <1>1, <2>1, <2>2 DEF TidyInv, AloneOK, EmptiedOK, TidyOK, ExitsOK, LeavesNothing, Does, vars
<1>2. CASE Next
  <2>1. LocalInv'
    BY LocalStep DEF TidyInv
  <2>2. AloneOK'
    BY <1>2, AloneStep DEF TidyInv
  <2>3. EmptiedOK'
    BY <1>2, EmptiedStep DEF TidyInv, LocalInv
  <2>4. UNCHANGED client
    BY <1>2, ClientStays
  <2>5. TidyOK'
    <3> SUFFICES ASSUME LeavesNothing
                 PROVE  lost' = {} /\ fault' # "no object"
      BY <2>4 DEF TidyOK, LeavesNothing, Does
    <3>1. lost = {} /\ fault # "no object"
      BY DEF TidyInv, TidyOK
    <3>2. lost' = {}
      BY <1>2, <3>1, LosesNothing DEF LeavesNothing
    <3>3. ASSUME NEW t \in Threads, SweepBlock(t)
          PROVE  fault' # "no object"
      <4>1. PICK x \in Objects, h \in Frame, d \in Frame, g \in Frame : SweepsFrom(t, x, h, d, g)
        BY <3>3, SweepBlockIs
      <4>2. x \in live
        BY <4>1, SweepFindsLive
      <4> QED
        BY <3>1, <4>1, <4>2 DEF SweepsFrom
    <3> QED
      BY <1>2, <3>1, <3>2, <3>3, OnlySweepsBlindly
  <2>6. ExitsOK'
    <3>1. \A t \in Threads : phase'[t] = "exiting" => phase[t] = "exiting" \/ Does("exit")
      <4>1. ASSUME NEW t \in Threads, Work(t) \/ Call(t)
            PROVE  \A u \in Threads : phase'[u] = "exiting" => phase[u] = "exiting"
        <5>1. FinishNew(t) \/ New(t) => UNCHANGED phase
          BY DEF FinishNew, New
        <5>2. \/ UNCHANGED phase
              \/ phase' = [phase EXCEPT ![t] = "running"]
              \/ phase' = [phase EXCEPT ![t] = "unborn"]
              \/ phase' = [phase EXCEPT ![t] = "exited"]
          BY <4>1, <5>1 DEF Work, Call, TakeFreePool, CreatePoolState, InitFails, FindNoFreePool,
            ConsumeOne, FindNoRequest, StartSweep, AddFreePool, EndDtor, SweepBlock,
            SweepNextPool, EndSweep, Start, Clear, Exit, Delete
        <5>3. phase \in [Threads -> {"unborn", "running", "exited", "exiting"}]
          BY DEF IndInv, TypeOK
        <5> QED
          BY <5>2, <5>3
      <4>2. CASE ExitProcess
        BY <4>2 DEF ExitProcess
      <4>3. CASE DeleteState
        BY <4>3 DEF DeleteState
      <4> QED
        BY <1>2, <4>1, <4>2, <4>3 DEF Next
    <3> QED
      BY <2>4, <3>1 DEF TidyInv, ExitsOK, Does
  <2> QED
    BY <2>1, <2>2, <2>3, <2>5, <2>6 DEF TidyInv
<1> QED
  BY <1>1, <1>2

LEMMA TidyInvariant == Spec => [](IndInv /\ TidyInv)
<1>1. Init => TidyInv
  <2> SUFFICES ASSUME Init
               PROVE  TidyInv
    OBVIOUS
  <2>1. LocalInv
    BY LocalInit
  <2>2. \A t \in Threads : stack[t] = << >> /\ phase[t] = "unborn"
    BY DEF Init
  <2>3. AloneOK /\ EmptiedOK
    BY <2>2 DEF AloneOK, EmptiedOK, Clearing
  <2> QED
    BY <2>1, <2>2, <2>3 DEF TidyInv, TidyOK, ExitsOK, Init
<1>2. TidyInv /\ IndInv /\ IndInv' /\ [Next]_vars => TidyInv'
  BY TidyStep
<1> QED
  BY <1>1, <1>2, Invariant, PTL DEF Spec

(* A destructor runs only on a live object, for every client that leaves   *)
(* no block in use for no object and no request at the end of the process. *)
THEOREM ObjectsDestroyedOnce == Spec => [](LeavesNothing => NoDoubleDestroy)
<1>1. TidyInv => (LeavesNothing => NoDoubleDestroy)
  BY DEF TidyInv, TidyOK, NoDoubleDestroy
<1> QED
  BY <1>1, TidyInvariant, PTL

-----------------------------------------------------------------------------
(* A thread in New that is waiting for its requests.                       *)
NewFrames(s) == {f \in Range(s) : f.op = "consume" /\ f.then = "new"}

(* It was, or it calls New and finds the active pool full.                 *)
NewStays(u) ==
  \A f \in NewFrames(stack'[u]) :
    /\ UNCHANGED state_[u]
    /\ \E h \in NewFrames(stack[u]) : h.active = f.active

NewWaits(u) ==
  /\ New(u) /\ UNCHANGED ps
  /\ ~HasFreeBlock(ps[state_[u]], ps[state_[u]].next_pool)
  /\ \A f \in NewFrames(stack'[u]) :
       \/ f.active = ps[state_[u]].next_pool
       \/ \E h \in NewFrames(stack[u]) : h.active = f.active

LEMMA NewStaysIf ==
  ASSUME TypeOK, NEW t \in Threads, NEW new, stack' = [stack EXCEPT ![t] = new],
         \A u \in Threads \ {t} : UNCHANGED state_[u],
         \/ NewFrames(new) = {}
         \/ /\ UNCHANGED state_[t]
            /\ \A f \in NewFrames(new) : \E h \in NewFrames(stack[t]) : h.active = f.active
  PROVE  \A u \in Threads : NewStays(u)
<1>1. stack'[t] = new /\ \A u \in Threads : u # t => stack'[u] = stack[u]
  BY DEF TypeOK
<1>2. ASSUME NEW u \in Threads, u # t
      PROVE  NewStays(u)
  BY <1>1, <1>2 DEF NewStays
<1>3. NewStays(t)
  BY <1>1 DEF NewStays
<1> QED
  BY <1>2, <1>3

LEMMA NewStaysAtPush ==
  ASSUME TypeOK, NEW t \in Threads, NEW f \in Frame, f.op # "consume" \/ f.then # "new",
         Push(t, f), \A u \in Threads \ {t} : UNCHANGED state_[u],
         stack[t] = << >> \/ UNCHANGED state_[t]
  PROVE  \A u \in Threads : NewStays(u)
<1>1. stack[t] \in Seq(Frame)
  BY DEF TypeOK
<1>2. Range(<<f>> \o stack[t]) = Range(stack[t]) \union {f}
  BY <1>1, FramesAfterPush
<1>3. NewFrames(<<f>> \o stack[t]) \subseteq NewFrames(stack[t])
  BY <1>2 DEF NewFrames
<1>4. stack[t] = << >> => NewFrames(stack[t]) = {}
  BY NoFrames DEF NewFrames
<1> QED
  BY <1>3, <1>4, NewStaysIf DEF Push

LEMMA NewStaysAtPop ==
  ASSUME TypeOK, NEW t \in Threads, stack[t] # << >>, Pop(t),
         \A u \in Threads \ {t} : UNCHANGED state_[u],
         Tail(stack[t]) = << >> \/ UNCHANGED state_[t]
  PROVE  \A u \in Threads : NewStays(u)
<1>1. stack[t] \in Seq(Frame)
  BY DEF TypeOK
<1>2. Range(Tail(stack[t])) \subseteq Range(stack[t])
  BY <1>1, FramesAfterPop
<1>3. NewFrames(Tail(stack[t])) \subseteq NewFrames(stack[t])
  BY <1>2 DEF NewFrames
<1>4. Tail(stack[t]) = << >> => NewFrames(Tail(stack[t])) = {}
  BY NoFrames DEF NewFrames
<1> QED
  BY <1>3, <1>4, NewStaysIf DEF Pop

LEMMA NewStaysAtReplace ==
  ASSUME TypeOK, NEW t \in Threads, stack[t] # << >>, NEW g \in Frame, Replace(t, g),
         UNCHANGED state_,
         g.op = "consume" /\ g.then = "new" =>
           /\ Head(stack[t]).op = "consume" /\ Head(stack[t]).then = "new"
           /\ Head(stack[t]).active = g.active
  PROVE  \A u \in Threads : NewStays(u)
<1>1. stack[t] \in Seq(Frame) /\ Tail(stack[t]) \in Seq(Frame)
  BY PopIs DEF TypeOK
<1>2. /\ Range(<<g>> \o Tail(stack[t])) = Range(Tail(stack[t])) \union {g}
      /\ Range(stack[t]) = Range(Tail(stack[t])) \union {Head(stack[t])}
  BY <1>1, FramesAfterPush, FramesAfterPop
<1>3. PICK new : new = <<g>> \o Tail(stack[t])
  OBVIOUS
<1>4. ASSUME NEW f \in NewFrames(new)
      PROVE  \E h \in NewFrames(stack[t]) : h.active = f.active
  <2>1. f \in Range(Tail(stack[t])) \/ f = g
    BY <1>2, <1>3, <1>4 DEF NewFrames
  <2>2. f.op = "consume" /\ f.then = "new"
    BY <1>4 DEF NewFrames
  <2> QED
    BY <1>2, <2>1, <2>2 DEF NewFrames
<1>5. stack' = [stack EXCEPT ![t] = new]
  BY <1>3 DEF Replace
<1> QED
  BY <1>4, <1>5, NewStaysIf

LEMMA NewStep ==
  ASSUME IndInv, Next
  PROVE  \A u \in Threads : NewStays(u) \/ NewWaits(u)
<1>1. TypeOK
  BY DEF IndInv
<1>2. ASSUME NEW t \in Threads, Work(t)
      PROVE  \A u \in Threads : NewStays(u)
  <2>1. CASE TakeFreePool(t) \/ CreatePoolState(t) \/ InitFails(t)
    <3>1. At(t, "init") /\ Pop(t)
      BY <2>1 DEF TakeFreePool, CreatePoolState, InitFails
    <3>2. stack[t] # << >> /\ Tail(stack[t]) = << >>
      BY <3>1, AtIs, AtBottom
    <3>3. \A u \in Threads \ {t} : UNCHANGED state_[u]
      BY <1>1, <2>1 DEF TakeFreePool, CreatePoolState, InitFails, TypeOK
    <3> QED
      BY <1>1, <3>1, <3>2, <3>3, NewStaysAtPop
  <2>2. CASE FindNoFreePool(t)
    <3>1. stack[t] # << >> /\ Head(stack[t]).op = "init" /\ Head(stack[t]) \in Frame
      BY <2>2, AtIs DEF FindNoFreePool
    <3>2. PICK p \in Threads : Replace(t, [Head(stack[t]) EXCEPT !.seen = @ \union {p}])
      BY <2>2 DEF FindNoFreePool
    <3>3. Head(stack[t]) \in [op : {"init"}, seen : SUBSET Threads]
      BY <3>1 DEF Frame
    <3>4. [Head(stack[t]) EXCEPT !.seen = @ \union {p}] \in [op : {"init"}, seen : SUBSET Threads]
      BY <3>3
    <3>5. PICK f : f = [Head(stack[t]) EXCEPT !.seen = @ \union {p}]
      OBVIOUS
    <3>6. f \in Frame /\ f.op = "init"
      BY <3>4, <3>5 DEF Frame
    <3>7. Replace(t, f) /\ UNCHANGED state_
      BY <2>2, <3>2, <3>5 DEF FindNoFreePool
    <3> QED
      BY <1>1, <3>1, <3>6, <3>7, NewStaysAtReplace
  <2>3. CASE ConsumeOne(t)
    <3>1. /\ stack[t] # << >> /\ Head(stack[t]).op = "consume" /\ UNCHANGED state_
          /\ \E g \in Frame : /\ g.op = "consume" /\ g.then = Head(stack[t]).then
                              /\ g.active = Head(stack[t]).active
                              /\ stack' = [stack EXCEPT ![t] = <<g>> \o Tail(@)]
      BY <2>3, ConsumeOneIs
    <3>2. PICK g \in Frame : /\ g.op = "consume" /\ g.then = Head(stack[t]).then
                             /\ g.active = Head(stack[t]).active
                             /\ Replace(t, g)
      BY <3>1 DEF Replace
    <3> QED
      BY <1>1, <3>1, <3>2, NewStaysAtReplace
  <2>4. CASE FindNoRequest(t)
    <3>1. PICK f : f = [Head(stack[t]) EXCEPT !.dry = TRUE]
      OBVIOUS
    <3>2. /\ f \in Frame /\ f.op = "consume" /\ f.then = Head(stack[t]).then
          /\ f.active = Head(stack[t]).active
      BY <2>4, <3>1, NextFrames
    <3>3. /\ Replace(t, f) /\ UNCHANGED state_
          /\ stack[t] # << >> /\ Head(stack[t]).op = "consume"
      BY <2>4, <3>1 DEF FindNoRequest, At
    <3> QED
      BY <1>1, <3>2, <3>3, NewStaysAtReplace
  <2>5. CASE FinishNew(t) \/ EndDtor(t) \/ EndSweep(t)
    <3>1. stack[t] # << >> /\ Pop(t) /\ UNCHANGED state_
      BY <2>5 DEF FinishNew, Consumed, EndDtor, EndSweep, At
    <3> QED
      BY <1>1, <3>1, NewStaysAtPop
  <2>6. CASE AddFreePool(t)
    <3>1. stack[t] # << >> /\ Pop(t) /\ Head(stack[t]).op = "consume" /\ Head(stack[t]).then = "destroy"
      BY <2>6 DEF AddFreePool, Consumed, At
    <3>2. Tail(stack[t]) = << >>
      BY <3>1, AtBottom
    <3>3. \A u \in Threads \ {t} : UNCHANGED state_[u]
      BY <1>1, <2>6 DEF AddFreePool, TypeOK
    <3> QED
      BY <1>1, <3>1, <3>2, <3>3, NewStaysAtPop
  <2>7. CASE StartSweep(t) \/ SweepNextPool(t)
    <3>1. /\ stack[t] # << >> /\ UNCHANGED state_
          /\ Head(stack[t]).op = "sweep" \/ (Head(stack[t]).op = "consume" /\ Head(stack[t]).then = "clear")
          /\ \E f : f.op = "sweep" /\ Replace(t, f)
      <4>1. CASE StartSweep(t)
        <5>1. Sweep(state_[t], 0, 0, Len(ps[state_[t]].pools)).op = "sweep"
          BY DEF Sweep
        <5> QED
          BY <4>1, <5>1 DEF StartSweep, Consumed, At
      <4>2. CASE SweepNextPool(t)
        <5>1. /\ stack[t] # << >> /\ Head(stack[t]).op = "sweep"
              /\ Replace(t, [Head(stack[t]) EXCEPT !.i = @ + 1, !.b = 0])
              /\ UNCHANGED state_
          BY <4>2 DEF SweepNextPool, At
        <5>2. Head(stack[t]) \in Frame
          BY <5>1, InCall
        <5>3. [Head(stack[t]) EXCEPT !.i = @ + 1, !.b = 0].op = "sweep"
          BY <5>1, <5>2 DEF Frame
        <5> QED
          BY <5>1, <5>3
      <4> QED
        BY <2>7, <4>1, <4>2
    <3>2. Tail(stack[t]) = << >>
      BY <3>1, AtBottom
    <3>3. PICK f : f.op = "sweep" /\ stack' = [stack EXCEPT ![t] = <<f>> \o << >>]
      BY <3>1, <3>2 DEF Replace
    <3>4. NewFrames(<<f>> \o << >>) = {}
      BY <3>3 DEF NewFrames, Range
    <3> QED
      BY <1>1, <3>1, <3>3, <3>4, NewStaysIf
  <2>8. CASE SweepBlock(t)
    <3>1. PICK x \in Objects, h \in Frame, d \in Frame, g \in Frame : SweepsFrom(t, x, h, d, g)
      BY <2>8, SweepBlockIs
    <3>2. /\ stack' = [stack EXCEPT ![t] = <<d, g>>]
          /\ d.op = "dtor" /\ g.op = "sweep" /\ UNCHANGED state_
      BY <3>1 DEF SweepsFrom
    <3>3. NewFrames(<<d, g>>) = {}
      BY <3>2 DEF NewFrames, Range
    <3> QED
      BY <1>1, <3>2, <3>3, NewStaysIf
  <2> QED
    BY <1>2, <2>1, <2>2, <2>3, <2>4, <2>5, <2>6, <2>7, <2>8 DEF Work
<1>3. ASSUME NEW t \in Threads, Call(t)
      PROVE  \A u \in Threads : NewStays(u) \/ NewWaits(u)
  <2>1. CASE Start(t)
    <3>1. /\ phase[t] = "unborn" /\ Push(t, Scan) /\ Scan \in Frame /\ Scan.op # "consume"
          /\ \A u \in Threads \ {t} : UNCHANGED state_[u]
      BY <1>1, <2>1, NextFrames DEF Start, TypeOK, Scan
    <3>2. stack[t] = << >>
      BY <3>1 DEF IndInv, ThreadsOK, ThreadFits
    <3> QED
      BY <1>1, <3>1, <3>2, NewStaysAtPush
  <2>2. CASE New(t)
    <3>1. UNCHANGED state_ /\ state_[t] \in Threads
      BY <2>2, ClientAssumption DEF New
    <3>2. CASE HasFreeBlock(ps[state_[t]], ps[state_[t]].next_pool)
      <4>1. UNCHANGED stack
        BY <2>2, <3>2 DEF New
      <4> QED
        BY <3>1, <4>1 DEF NewStays
    <3>3. CASE ~HasFreeBlock(ps[state_[t]], ps[state_[t]].next_pool)
      <4>1. PICK f : f = Consume("new", ps[state_[t]].next_pool)
        OBVIOUS
      <4>2. f \in Frame /\ Push(t, f) /\ UNCHANGED ps
        BY <2>2, <3>3, <4>1, NextFrames DEF New
      <4>3. f.active = ps[state_[t]].next_pool
        BY <4>1 DEF Consume
      <4>4. stack[t] \in Seq(Frame)
        BY <1>1 DEF TypeOK
      <4>5. /\ stack'[t] = <<f>> \o stack[t]
            /\ \A u \in Threads : u # t => stack'[u] = stack[u]
        BY <1>1, <4>2 DEF Push, TypeOK
      <4>6. Range(stack'[t]) = Range(stack[t]) \union {f}
        BY <4>2, <4>4, <4>5, FramesAfterPush
      <4>7. NewWaits(t)
        BY <2>2, <3>3, <4>2, <4>3, <4>6 DEF NewWaits, NewFrames
      <4>8. \A u \in Threads : u # t => NewStays(u)
        BY <3>1, <4>5 DEF NewStays
      <4> QED
        BY <4>7, <4>8
    <3> QED
      BY <3>2, <3>3
  <2>3. CASE Clear(t) \/ Exit(t)
    <3>1. PICK then \in {"clear", "destroy"} : Push(t, Consume(then, 0))
      BY <2>3 DEF Clear, Exit
    <3>2. Consume(then, 0) \in Frame /\ Consume(then, 0).then # "new"
      BY NextFrames DEF Consume
    <3>3. UNCHANGED state_
      BY <2>3 DEF Clear, Exit
    <3> QED
      BY <1>1, <3>1, <3>2, <3>3, NewStaysAtPush
  <2>4. ASSUME NEW x \in live, Delete(t, x)
        PROVE  \A u \in Threads : NewStays(u)
    <3>1. PICK then \in {"free", "enqueue"} : Push(t, Dtor(x, then)) /\ Dtor(x, then) \in Frame
      BY <2>4, DeleteIs
    <3>2. Dtor(x, then).op # "consume" /\ UNCHANGED state_
      BY <2>4 DEF Delete, Dtor
    <3> QED
      BY <1>1, <3>1, <3>2, NewStaysAtPush
  <2> QED
    BY <1>3, <2>1, <2>2, <2>3, <2>4 DEF Call
<1>4. CASE ExitProcess
  <2>1. UNCHANGED <<stack, state_>>
    BY <1>4 DEF ExitProcess
  <2> QED
    BY <2>1 DEF NewStays
<1>5. CASE DeleteState
  <2>1. PICK s : Push(Main, Sweep(s, 0, 0, Len(ps[s].pools)))
    BY <1>5 DEF DeleteState
  <2>2. stack[Main] = << >> /\ Main \in Threads /\ UNCHANGED state_
    BY <1>5, ClientAssumption DEF DeleteState
  <2>3. PICK f : f = Sweep(s, 0, 0, Len(ps[s].pools))
    OBVIOUS
  <2>4. f.op = "sweep"
    BY <2>3 DEF Sweep
  <2>5. NewFrames(<<f>> \o << >>) = {}
    BY <2>4 DEF NewFrames, Range
  <2>6. stack' = [stack EXCEPT ![Main] = <<f>> \o << >>]
    BY <2>1, <2>2, <2>3 DEF Push
  <2> QED
    BY <1>1, <2>2, <2>5, <2>6, NewStaysIf
<1> QED
  BY <1>2, <1>3, <1>4, <1>5 DEF Next

-----------------------------------------------------------------------------
(* How many pools the list can get: each push is for an object whose block *)
(* comes back to its state, or follows a New that counted the list.        *)
Capacity == MaxPools * NumBlocks

Coming(s) ==
  {x \in Objects :
     x[1] = s /\ \/ x \in live
                 \/ \E t \in Threads : \E f \in DtorFrames(stack[t]) : f.x = x /\ f.then = "enqueue"
                 \/ \E p \in Threads : x \in Range(queue[s][p])}

Renews(s) == \E t \in Threads : state_[t] = s /\ NewFrames(stack[t]) # {}

RoomFor(s) ==
  /\ ps[s].num_free_pools > 0
  /\ ps[s].num_free_pools + Cardinality(Coming(s))
       <= client.listed + Capacity + (IF Renews(s) THEN 0 ELSE 1)

RoomOK == ~Does("nomem") => \A s \in States : RoomFor(s)

(* A state has no more objects than blocks.                                *)
LEMMA OfOneState ==
  ASSUME NEW s \in Threads, NEW C \in SUBSET {x \in Objects : x[1] = s}
  PROVE  /\ IsFiniteSet(C) /\ Cardinality(C) \in Nat /\ Capacity \in Nat
         /\ Cardinality(C) <= Capacity
<1> DEFINE T == (0 .. MaxPools - 1) \X (0 .. NumBlocks - 1)
           f == [x \in C |-> <<x[2], x[3]>>]
<1>1. MaxPools \in Nat \ {0} /\ NumBlocks \in Nat
  BY ClientAssumption, LayoutAssumption
<1>2. /\ IsFiniteSet(0 .. MaxPools - 1) /\ Cardinality(0 .. MaxPools - 1) = MaxPools
      /\ IsFiniteSet(0 .. NumBlocks - 1) /\ Cardinality(0 .. NumBlocks - 1) = NumBlocks
  <2>1. 0 \in Int /\ MaxPools - 1 \in Int /\ NumBlocks - 1 \in Int
    BY <1>1
  <2>2. /\ IsFiniteSet(0 .. MaxPools - 1)
        /\ Cardinality(0 .. MaxPools - 1) = IF 0 > MaxPools - 1 THEN 0 ELSE MaxPools - 1 - 0 + 1
    BY <2>1, FS_Interval
  <2>3. /\ IsFiniteSet(0 .. NumBlocks - 1)
        /\ Cardinality(0 .. NumBlocks - 1) = IF 0 > NumBlocks - 1 THEN 0 ELSE NumBlocks - 1 - 0 + 1
    BY <2>1, FS_Interval
  <2> QED
    BY <1>1, <2>2, <2>3
<1>3. IsFiniteSet(T) /\ Cardinality(T) = MaxPools * NumBlocks
  BY <1>2, FS_Product
<1>4. f \in Injection(C, T)
  <2>1. \A x \in C : x \in Objects /\ x[1] = s
    OBVIOUS
  <2>2. \A x \in C : x = <<s, x[2], x[3]>> /\ x[2] \in 0 .. MaxPools - 1 /\ x[3] \in 0 .. NumBlocks - 1
    BY <2>1, ObjectIs DEF Blocks
  <2>3. f \in [C -> T]
    BY <2>2
  <2>4. ASSUME NEW a \in C, NEW b \in C, f[a] = f[b]
        PROVE  a = b
    <3>1. a[2] = b[2] /\ a[3] = b[3]
      BY <2>4
    <3> QED
      BY <2>2, <3>1
  <2> QED
    BY <2>3, <2>4 DEF Injection, IsInjective
<1>5. IsFiniteSet(C) /\ Cardinality(C) <= Cardinality(T)
  BY <1>3, <1>4, FS_Injection
<1>6. Cardinality(C) \in Nat
  BY <1>5, FS_CardinalityType
<1>7. Cardinality(T) \in Nat
  BY <1>3, FS_CardinalityType
<1> QED
  BY <1>3, <1>5, <1>6, <1>7 DEF Capacity

LEMMA ComingIs ==
  ASSUME NEW s \in Threads
  PROVE  /\ IsFiniteSet(Coming(s)) /\ Cardinality(Coming(s)) \in Nat /\ Capacity \in Nat
         /\ Cardinality(Coming(s)) <= Capacity
         /\ IsFiniteSet(Coming(s)') /\ Cardinality(Coming(s)') \in Nat
         /\ Cardinality(Coming(s)') <= Capacity
<1>1. Coming(s) \in SUBSET {x \in Objects : x[1] = s}
  BY DEF Coming
<1>2. Coming(s)' \in SUBSET {x \in Objects : x[1] = s}
  BY DEF Coming
<1>3. /\ IsFiniteSet(Coming(s)) /\ Cardinality(Coming(s)) \in Nat /\ Capacity \in Nat
      /\ Cardinality(Coming(s)) <= Capacity
  BY <1>1, OfOneState
<1>4. PICK C : C = Coming(s)'
  OBVIOUS
<1>5. IsFiniteSet(C) /\ Cardinality(C) \in Nat /\ Cardinality(C) <= Capacity
  BY <1>2, <1>4, OfOneState
<1> QED
  BY <1>3, <1>4, <1>5

LEMMA WidthIs ==
  ASSUME TypeOK
  PROVE  client.listed \in Nat /\ Capacity \in Nat /\ client.listed + Capacity + 1 < SizeT
<1>1. client \in Clients
  BY DEF TypeOK
<1>2. client.listed \in Nat
  BY <1>1, ClientAssumption
<1>3. Capacity \in Nat
  BY ClientAssumption, ComingIs
<1>4. client.listed + Capacity + 1 < SizeT
  BY <1>1, WidthAssumption DEF Capacity
<1> QED
  BY <1>2, <1>3, <1>4

LEMMA CountIs ==
  ASSUME NEW st \in PoolStateRecord(PoolNames, MaxPools)
  PROVE  st.num_free_pools \in Nat
  BY SizeTAssumption DEF PoolStateRecord

(* The list stays as long, or the push is for an object that comes back.   *)
LEMMA RoomStays ==
  ASSUME NEW s \in Threads, TypeOK, ps[s] # Null, RoomFor(s), UNCHANGED client,
         ps'[s].num_free_pools = ps[s].num_free_pools,
         Coming(s)' \subseteq Coming(s), Renews(s)' => Renews(s)
  PROVE  RoomFor(s)'
<1>1. /\ Cardinality(Coming(s)') \in Nat /\ Cardinality(Coming(s)) \in Nat
      /\ Cardinality(Coming(s)') <= Cardinality(Coming(s))
  <2>1. IsFiniteSet(Coming(s)) /\ Coming(s)' \in SUBSET Coming(s)
    BY ComingIs
  <2> QED
    BY <2>1, ComingIs, FS_Subset
<1>2. ps[s].num_free_pools \in Nat
  BY CountIs DEF TypeOK
<1> DEFINE c == Cardinality(Coming(s))
           d == Cardinality(Coming(s)')
           n == ps[s].num_free_pools
           m == ps'[s].num_free_pools
<1>3. client.listed \in Nat /\ Capacity \in Nat /\ UNCHANGED client.listed
  BY WidthIs
<1>4. n > 0 /\ n + c <= client.listed + Capacity + (IF Renews(s) THEN 0 ELSE 1)
  BY DEF RoomFor
<1>5. RoomFor(s)' <=> m > 0 /\ m + d <= client'.listed + Capacity + (IF Renews(s)' THEN 0 ELSE 1)
  BY DEF RoomFor, Capacity
<1>6. n \in Nat /\ c \in Nat /\ d \in Nat /\ d <= c /\ m = n
  BY <1>1, <1>2
<1> HIDE DEF c, d, n, m
<1> QED
  BY <1>3, <1>4, <1>5, <1>6

LEMMA RoomAtPush ==
  ASSUME NEW s \in Threads, TypeOK, ps[s] # Null, RoomFor(s), UNCHANGED client,
         \/ ps'[s].num_free_pools = ps[s].num_free_pools
         \/ ps'[s].num_free_pools = (ps[s].num_free_pools + 1) % SizeT,
         NEW x \in Coming(s), Coming(s)' \subseteq Coming(s) \ {x}, Renews(s)' => Renews(s)
  PROVE  /\ RoomFor(s)'
         /\ ps[s].num_free_pools + 1 < SizeT
<1>1. /\ Cardinality(Coming(s)') \in Nat /\ Cardinality(Coming(s)) \in Nat
      /\ Cardinality(Coming(s)') <= Cardinality(Coming(s)) - 1
  <2>1. IsFiniteSet(Coming(s)) /\ Cardinality(Coming(s)) \in Nat
    BY ComingIs
  <2>2. /\ IsFiniteSet(Coming(s) \ {x})
        /\ Cardinality(Coming(s) \ {x}) = Cardinality(Coming(s)) - 1
    BY <2>1, FS_RemoveElement
  <2>3. Cardinality(Coming(s)') <= Cardinality(Coming(s) \ {x})
    BY <2>2, FS_Subset
  <2>4. Cardinality(Coming(s)') \in Nat
    BY ComingIs
  <2> QED
    BY <2>1, <2>2, <2>3, <2>4
<1>2. ps[s].num_free_pools \in Nat
  BY CountIs DEF TypeOK
<1> DEFINE c == Cardinality(Coming(s))
           d == Cardinality(Coming(s)')
           n == ps[s].num_free_pools
           m == ps'[s].num_free_pools
<1>3. /\ client.listed \in Nat /\ Capacity \in Nat /\ UNCHANGED client.listed
      /\ client.listed + Capacity + 1 < SizeT /\ SizeT \in Nat
  BY WidthIs, SizeTAssumption
<1>4. n > 0 /\ n + c <= client.listed + Capacity + (IF Renews(s) THEN 0 ELSE 1)
  BY DEF RoomFor
<1>5. RoomFor(s)' <=> m > 0 /\ m + d <= client'.listed + Capacity + (IF Renews(s)' THEN 0 ELSE 1)
  BY DEF RoomFor, Capacity
<1>6. n \in Nat /\ c \in Nat /\ d \in Nat /\ d <= c - 1 /\ (m = n \/ m = (n + 1) % SizeT)
  BY <1>1, <1>2
<1> HIDE DEF c, d, n, m
<1>7. n + 1 < SizeT
  BY <1>3, <1>4, <1>6
<1>8. (n + 1) % SizeT = n + 1
  BY <1>3, <1>6, <1>7
<1>9. m = n \/ m = n + 1
  BY <1>6, <1>8
<1>10. RoomFor(s)'
  BY <1>3, <1>4, <1>5, <1>6, <1>9
<1> QED
  BY <1>7, <1>10 DEF n

(* Room enough for what New takes.                                         *)
LEMMA RoomAtTake ==
  ASSUME NEW s \in Threads, TypeOK, TypeOK', ps[s] # Null, ps'[s] # Null, RoomFor(s),
         UNCHANGED client,
         ps'[s].num_free_pools > 0, ps'[s].num_free_pools <= ps[s].num_free_pools,
         NEW y, Coming(s)' \subseteq Coming(s) \union {y}, Renews(s), ~Renews(s)'
  PROVE  RoomFor(s)'
<1>1. /\ Cardinality(Coming(s)') \in Nat /\ Cardinality(Coming(s)) \in Nat
      /\ Cardinality(Coming(s)') <= Cardinality(Coming(s)) + 1
  <2>1. IsFiniteSet(Coming(s)) /\ Cardinality(Coming(s)) \in Nat
    BY ComingIs
  <2>2. /\ IsFiniteSet(Coming(s) \union {y})
        /\ \/ Cardinality(Coming(s) \union {y}) = Cardinality(Coming(s))
           \/ Cardinality(Coming(s) \union {y}) = Cardinality(Coming(s)) + 1
    BY <2>1, FS_AddElement
  <2>3. Cardinality(Coming(s)') <= Cardinality(Coming(s) \union {y})
    BY <2>2, FS_Subset
  <2>4. Cardinality(Coming(s)') \in Nat
    BY ComingIs
  <2> QED
    BY <2>1, <2>2, <2>3, <2>4
<1>2. ps[s].num_free_pools \in Nat /\ ps'[s].num_free_pools \in Nat
  <2>1. /\ ps[s] \in PoolStateRecord(PoolNames, MaxPools)
        /\ ps'[s] \in PoolStateRecord(PoolNames, MaxPools)
    BY DEF TypeOK
  <2> QED
    BY <2>1, CountIs
<1> DEFINE c == Cardinality(Coming(s))
           d == Cardinality(Coming(s)')
           n == ps[s].num_free_pools
           m == ps'[s].num_free_pools
<1>3. client.listed \in Nat /\ Capacity \in Nat /\ UNCHANGED client.listed
  BY WidthIs
<1>4. n + c <= client.listed + Capacity
  BY <1>3 DEF RoomFor
<1>5. RoomFor(s)' <=> m > 0 /\ m + d <= client'.listed + Capacity + 1
  BY DEF RoomFor, Capacity
<1>6. n \in Nat /\ c \in Nat /\ d \in Nat /\ m \in Nat /\ d <= c + 1 /\ m > 0 /\ m <= n
  BY <1>1, <1>2
<1> HIDE DEF c, d, n, m
<1> QED
  BY <1>3, <1>4, <1>5, <1>6

(* A list New has counted, or of a new state.                              *)
LEMMA RoomAgain ==
  ASSUME NEW s \in Threads, TypeOK', ps'[s] # Null, client'.listed \in Nat,
         ps'[s].num_free_pools > 0,
         \/ ps'[s].num_free_pools <= client'.listed
         \/ ps'[s].num_free_pools = 1 /\ ~Renews(s)'
  PROVE  RoomFor(s)'
<1>1. /\ Cardinality(Coming(s)') \in Nat /\ Capacity \in Nat
      /\ Cardinality(Coming(s)') <= Capacity
  BY ComingIs
<1>2. ps'[s].num_free_pools \in Nat
  <2>1. ps'[s] \in PoolStateRecord(PoolNames, MaxPools)
    BY DEF TypeOK
  <2> QED
    BY <2>1, CountIs
<1> DEFINE d == Cardinality(Coming(s)')
           m == ps'[s].num_free_pools
<1>3. RoomFor(s)' <=> m > 0 /\ m + d <= client'.listed + Capacity + (IF Renews(s)' THEN 0 ELSE 1)
  BY DEF RoomFor, Capacity
<1>4. d \in Nat /\ m \in Nat /\ d <= Capacity /\ m > 0
      /\ (m <= client'.listed \/ (m = 1 /\ ~Renews(s)'))
  BY <1>1, <1>2
<1> HIDE DEF d, m
<1> QED
  BY <1>1, <1>3, <1>4

-----------------------------------------------------------------------------
(* What each step does to the objects that come back.                      *)
LEMMA ComingRests ==
  ASSUME NEW s \in Threads, Rests, NEW N, live' \subseteq live \union N,
         \A p \in Threads : Range(queue'[s][p]) \subseteq Range(queue[s][p])
  PROVE  Coming(s)' \subseteq Coming(s) \union {y \in N : y[1] = s}
  BY DEF Coming, Rests

LEMMA ComingAtSweep ==
  ASSUME IndInv, NEW t \in Threads, SweepBlock(t), NEW s \in Threads
  PROVE  Coming(s)' \subseteq Coming(s)
<1>1. PICK x \in Objects, h \in Frame, d \in Frame, g \in Frame : SweepsFrom(t, x, h, d, g)
  BY SweepBlockIs
<1>2. /\ DtorFrames(stack'[t]) = {d} /\ d.then = "free"
      /\ \A w \in Threads : w # t => stack'[w] = stack[w]
      /\ live' \subseteq live /\ UNCHANGED queue
  BY <1>1, SweptFrames DEF SweepsFrom, IndInv
<1> QED
  BY <1>2 DEF Coming

LEMMA ComingAtDelete ==
  ASSUME IndInv, NEW t \in Threads, NEW x \in live, Delete(t, x), NEW s \in Threads
  PROVE  /\ Coming(s)' \subseteq Coming(s)
         /\ state_[t] = x[1] /\ s = x[1] => /\ x \in Coming(s)
                                            /\ Coming(s)' \subseteq Coming(s) \ {x}
<1>1. TypeOK
  BY DEF IndInv
<1>2. /\ x \in Objects /\ fault = "none" /\ live' = live \ {x} /\ UNCHANGED queue
      /\ \/ state_[t] # x[1] /\ Push(t, Dtor(x, "enqueue")) /\ Dtor(x, "enqueue") \in Frame
         \/ state_[t] = x[1] /\ Push(t, Dtor(x, "free")) /\ Dtor(x, "free") \in Frame
  BY DeleteIs
<1>3. PICK f \in Frame : /\ Push(t, f) /\ f.op = "dtor" /\ f.x = x
                         /\ (state_[t] = x[1] => f.then = "free")
  BY <1>2 DEF Dtor
<1>4. /\ DtorFrames(stack'[t]) = DtorFrames(stack[t]) \union {f}
      /\ \A u \in Threads : u # t => stack'[u] = stack[u]
  BY <1>1, <1>3, DeletedFrames
<1>5. ASSUME NEW y \in Coming(s)'
      PROVE  /\ y \in Coming(s)
             /\ f.then = "free" /\ y = x => FALSE
  <2>1. /\ y \in Objects /\ y[1] = s
        /\ \/ y \in live \ {x}
           \/ \E u \in Threads : \E g \in DtorFrames(stack'[u]) : g.x = y /\ g.then = "enqueue"
           \/ \E p \in Threads : y \in Range(queue[s][p])
    BY <1>2, <1>5 DEF Coming
  <2>2. CASE y \in live \ {x}
    BY <2>1, <2>2 DEF Coming
  <2>3. ASSUME NEW u \in Threads, NEW g \in DtorFrames(stack'[u]), g.x = y, g.then = "enqueue"
        PROVE  /\ y \in Coming(s)
               /\ f.then = "free" /\ y = x => FALSE
    <3>1. CASE g \in DtorFrames(stack[u])
      <4>1. y \in Coming(s)
        BY <2>1, <2>3, <3>1 DEF Coming
      <4>2. y \in Doomed[u]
        BY <1>1, <2>3, <3>1, DtorFrameIs
      <4>3. y # x
        BY <1>2, <4>2 DEF IndInv, ClaimsOK, Apart
      <4> QED
        BY <4>1, <4>3
    <3>2. CASE g \notin DtorFrames(stack[u])
      <4>1. g = f
        BY <1>4, <2>3, <3>2
      <4> QED
        BY <1>3, <2>1, <2>3, <4>1 DEF Coming
    <3> QED
      BY <3>1, <3>2
  <2>4. ASSUME NEW p \in Threads, y \in Range(queue[s][p])
        PROVE  /\ y \in Coming(s)
               /\ f.then = "free" /\ y = x => FALSE
    <3>1. y \in Coming(s)
      BY <2>1, <2>4 DEF Coming
    <3>2. y \in Asked[s][p]
      BY <1>1, <2>4, ClaimedIs
    <3>3. y # x
      BY <1>2, <3>2 DEF IndInv, ClaimsOK, Apart
    <3> QED
      BY <3>1, <3>3
  <2> QED
    BY <2>1, <2>2, <2>3, <2>4
<1>6. s = x[1] => x \in Coming(s)
  BY <1>2 DEF Coming
<1> QED
  BY <1>3, <1>5, <1>6

LEMMA ComingAtEndDtor ==
  ASSUME IndInv, ~Does("nomem"), NEW t \in Threads, EndDtor(t), NEW s \in Threads
  PROVE  Coming(s)' \subseteq Coming(s)
<1>1. TypeOK
  BY DEF IndInv
<1>2. PICK h : h = Head(stack[t])
  OBVIOUS
<1>3. PICK x : x = h.x
  OBVIOUS
<1>4. /\ x \in Objects /\ x[1] \in Threads /\ stack[t] # << >> /\ Pop(t)
      /\ h \in DtorFrames(stack[t]) /\ UNCHANGED live
      /\ \/ UNCHANGED queue
         \/ h.then = "enqueue" /\ queue' = [queue EXCEPT ![x[1]][t] = Append(@, x)]
  BY <1>2, <1>3, EndDtorIs
<1>5. stack[t] \in Seq(Frame)
  BY <1>1 DEF TypeOK
<1>6. /\ DtorFrames(stack'[t]) \subseteq DtorFrames(stack[t])
      /\ \A u \in Threads : u # t => stack'[u] = stack[u]
  <2>1. stack' = [stack EXCEPT ![t] = Tail(@)] /\ stack[t] # << >>
    BY <1>4 DEF Pop
  <2>2. /\ stack'[t] = Tail(stack[t])
        /\ \A u \in Threads : u # t => stack'[u] = stack[u]
    BY <1>1, <2>1 DEF TypeOK
  <2>3. DtorFrames(Tail(stack[t])) \subseteq DtorFrames(stack[t])
    BY <1>5, <2>1, FramesAfterPop
  <2> QED
    BY <2>2, <2>3
<1>7. \A p \in Threads : \A y \in Range(queue'[s][p]) :
        y \in Range(queue[s][p]) \/ (y = x /\ h.then = "enqueue")
  <2>1. CASE UNCHANGED queue
    BY <2>1
  <2>2. CASE h.then = "enqueue" /\ queue' = [queue EXCEPT ![x[1]][t] = Append(@, x)]
    <3>1. queue[x[1]][t] \in Seq(Objects)
      <4>1. x[1] \in Threads
        BY <1>4
      <4> QED
        BY <1>1, <4>1 DEF TypeOK
    <3>2. Range(Append(queue[x[1]][t], x)) = With(Range(queue[x[1]][t]), x)
      BY <1>4, <3>1, PutLast
    <3>3. \A p \in Threads : queue'[s][p] = IF s = x[1] /\ p = t THEN Append(queue[s][p], x)
                                            ELSE queue[s][p]
      BY <1>1, <2>2 DEF TypeOK
    <3> QED
      BY <2>2, <3>2, <3>3 DEF With
  <2> QED
    BY <1>4, <2>1, <2>2
<1> QED
  BY <1>3, <1>4, <1>6, <1>7 DEF Coming

LEMMA ComingAtConsume ==
  ASSUME IndInv, NEW t \in Threads, ConsumeOne(t), NEW s \in Threads
  PROVE  /\ Coming(s)' \subseteq Coming(s)
         /\ s = state_[t] => \E x \in Coming(s) : Coming(s)' \subseteq Coming(s) \ {x}
<1>1. TypeOK
  BY DEF IndInv
<1>2. PICK r \in Threads : r = state_[t]
  BY ConsumeOneIs
<1>3. PICK p \in Threads : /\ queue[r][p] # << >>
                           /\ queue' = [queue EXCEPT ![r][p] = Tail(@)]
  BY <1>2 DEF ConsumeOne
<1>4. fault = "none" /\ UNCHANGED live
  BY ConsumeOneIs
<1>5. Rests
  <2>1. PICK g \in Frame : g.op = "consume" /\ stack' = [stack EXCEPT ![t] = <<g>> \o Tail(@)]
    BY ConsumeOneIs
  <2>2. Replace(t, g) /\ g.op # "dtor" /\ stack[t] # << >> /\ UNCHANGED <<phase, state_>>
    BY <2>1, ConsumeOneIs DEF Replace
  <2> QED
    BY <1>1, <2>1, <2>2, RestsAtReplace
<1>6. PICK x : x = Head(queue[r][p])
  OBVIOUS
<1>7. queue[r][p] \in Seq(Objects) /\ NoRepeat(queue[r][p])
  BY <1>1, <1>4 DEF TypeOK, IndInv, ClaimsOK
<1>8. /\ x \in Objects /\ x \in Range(queue[r][p])
      /\ Range(Tail(queue[r][p])) = Without(Range(queue[r][p]), x)
  BY <1>3, <1>6, <1>7, TakeFirst
<1>9. x[1] = r /\ x \in Asked[r][p]
  BY <1>1, <1>8, ClaimedIs DEF IndInv, Routed
<1>10. \A q \in Threads : queue'[s][q] = IF s = r /\ q = p THEN Tail(queue[s][q]) ELSE queue[s][q]
  BY <1>1, <1>3 DEF TypeOK
<1>11. \A q \in Threads : Range(queue'[s][q]) \subseteq Range(queue[s][q])
  BY <1>8, <1>10 DEF Without
<1>12. Coming(s)' \subseteq Coming(s)
  <2>1. live' \subseteq live \union {}
    BY <1>4
  <2> QED
    BY <1>5, <1>11, <2>1, ComingRests
<1>13. ASSUME s = r
       PROVE  x \in Coming(s) /\ Coming(s)' \subseteq Coming(s) \ {x}
  <2>1. x \in Coming(s)
    BY <1>8, <1>9, <1>13 DEF Coming
  <2>2. x \notin live
    BY <1>4, <1>9 DEF IndInv, ClaimsOK, Apart
  <2>3. \A u \in Threads : \A f \in DtorFrames(stack[u]) : f.x # x
    <3> SUFFICES ASSUME NEW u \in Threads, NEW f \in DtorFrames(stack[u]), f.x = x
                 PROVE  FALSE
      OBVIOUS
    <3>1. x \in Doomed[u]
      BY <1>1, DtorFrameIs
    <3> QED
      BY <1>4, <1>9, <3>1 DEF IndInv, ClaimsOK, Apart
  <2>4. \A q \in Threads : x \notin Range(queue'[s][q])
    <3>1. \A q \in Threads : q # p => x \notin Asked[r][q]
      BY <1>4, <1>9 DEF IndInv, ClaimsOK, Apart
    <3>2. \A q \in Threads : q # p => x \notin Range(queue[r][q])
      BY <1>1, <3>1, ClaimedIs
    <3> QED
      BY <1>8, <1>10, <1>13, <3>2 DEF Without
  <2>5. x \notin Coming(s)'
    BY <1>4, <1>5, <2>2, <2>3, <2>4 DEF Coming, Rests
  <2> QED
    BY <1>12, <2>1, <2>5
<1> QED
  BY <1>2, <1>12, <1>13

-----------------------------------------------------------------------------
(* What each step does to the length of a list.                            *)
CountStays(s) == ps'[s] # Null => ps[s] # Null /\ ps'[s].num_free_pools = ps[s].num_free_pools

LEMMA RenewsOn ==
  ASSUME IndInv, Next, \A u \in Threads : ~New(u), NEW s
  PROVE  Renews(s)' => Renews(s)
<1> SUFFICES ASSUME NEW u \in Threads, state_'[u] = s, NewFrames(stack'[u]) # {}
             PROVE  Renews(s)
  BY DEF Renews
<1>1. NewStays(u)
  BY NewStep DEF NewWaits
<1>2. PICK f : f \in NewFrames(stack'[u])
  OBVIOUS
<1> QED
  BY <1>1, <1>2 DEF NewStays, Renews

LEMMA RelinkCounts ==
  ASSUME IndInv, NEW s \in Threads, ps[s] # Null, NEW i \in PoolIds(ps[s]), Relink(s, i)
  PROVE  \A r \in Threads : CountStays(r)
<1>1. /\ TypeOK /\ MaxPools \in Nat /\ ps[s] \in PoolStateRecord(PoolNames, MaxPools)
      /\ i + 1 \in DOMAIN ps[s].pools
  <2>1. TypeOK /\ MaxPools \in Nat /\ ps[s] \in PoolStateRecord(PoolNames, MaxPools)
    BY StateIs, ClientIs DEF IndInv
  <2> QED
    BY <2>1, PoolStateIs
<1>2. CASE phase[Main] = "exiting"
  BY <1>2 DEF Relink, CountStays
<1>3. CASE phase[Main] # "exiting"
  <2>1. PICK new : new = [ps[s] EXCEPT !.pools[i + 1].next_id = i + 1]
    OBVIOUS
  <2>2. new.num_free_pools = ps[s].num_free_pools
    BY <1>1, <2>1 DEF PoolStateRecord
  <2>3. ps' = [ps EXCEPT ![s] = new]
    BY <1>3, <2>1 DEF Relink
  <2> QED
    BY <1>1, <2>2, <2>3 DEF CountStays, TypeOK
<1> QED
  BY <1>2, <1>3

(* A block is freed; its pool was pushed before, if it was full.           *)
LEMMA FreeCounts ==
  ASSUME IndInv, NEW x \in Objects, IsThere(x)
  PROVE  /\ FreeIn(ps[x[1]], x[2], x[3]).num_free_pools = ps[x[1]].num_free_pools
         /\ FreeIn(SetNextFreePool(ps[x[1]], x[2]), x[2], x[3]).num_free_pools
              = SetNextFreePool(ps[x[1]], x[2]).num_free_pools
         /\ SetNextFreePool(ps[x[1]], x[2]).num_free_pools
              \in {ps[x[1]].num_free_pools, (ps[x[1]].num_free_pools + 1) % SizeT}
<1>1. PICK s \in Threads : s = x[1] /\ ps[s] # Null
  BY ObjectIs DEF IsThere
<1>2. PICK i : i = x[2] /\ i \in PoolIds(ps[s])
  BY <1>1 DEF IsThere
<1>3. PICK b : b = x[3]
  OBVIOUS
<1>4. PICK st : st = ps[s]
  OBVIOUS
<1>5. /\ PoolStateOK(st, s, PoolNames, MaxPools, Claimed) /\ MaxPools \in Nat
      /\ st \in PoolStateRecord(PoolNames, MaxPools)
  BY <1>1, <1>4, StateIs, ClientIs DEF IndInv
<1>6. PICK pushed : pushed = SetNextFreePool(st, i)
  OBVIOUS
<1>7. /\ PoolStateOK(pushed, s, PoolNames, MaxPools, Claimed)
      /\ Len(pushed.pools) = Len(st.pools)
  <2>1. i \in PoolIds(st)
    BY <1>2, <1>4
  <2>2. /\ PoolStateOK(SetNextFreePool(st, i), s, PoolNames, MaxPools, Claimed)
        /\ SamePools(SetNextFreePool(st, i), st)
    BY <1>5, <2>1, SetNextFreePoolOK
  <2> QED
    BY <1>6, <2>2 DEF SamePools
<1>8. pushed \in PoolStateRecord(PoolNames, MaxPools) /\ i \in PoolIds(pushed)
  BY <1>2, <1>4, <1>7 DEF PoolStateOK, PoolIds
<1>9. FreeIn(st, i, b).num_free_pools = st.num_free_pools
  BY <1>2, <1>4, <1>5, ListAtFreeIn
<1>10. FreeIn(pushed, i, b).num_free_pools = pushed.num_free_pools
  BY <1>5, <1>8, ListAtFreeIn
<1>11. pushed.num_free_pools \in {st.num_free_pools, (st.num_free_pools + 1) % SizeT}
  <2>1. CASE HasFreeBlock(st, i)
    BY <1>6, <2>1 DEF SetNextFreePool
  <2>2. CASE ~HasFreeBlock(st, i)
    BY <1>2, <1>4, <1>5, <1>6, <2>2, ListAtPush
  <2> QED
    BY <2>1, <2>2
<1> QED
  BY <1>1, <1>2, <1>3, <1>4, <1>6, <1>9, <1>10, <1>11

LEMMA CountsRest ==
  ASSUME IndInv, \A s \in States : ps[s].num_free_pools > 0, Next,
         \A t \in Threads : ~CreatePoolState(t) /\ ~New(t) /\ ~FinishNew(t) /\ ~ConsumeOne(t),
         \A t \in Threads : \A x \in live : ~Delete(t, x)
  PROVE  \A s \in Threads : CountStays(s)
<1>1. TypeOK
  BY DEF IndInv
<1>2. ASSUME NEW t \in Threads, Work(t)
      PROVE  \A s \in Threads : CountStays(s)
  <2>1. CASE TakeFreePool(t)
    <3>1. PICK p \in Threads :
            /\ free_pools[p] # << >>
            /\ free_pools' = [free_pools EXCEPT ![p] = Tail(@)]
            /\ ps[Head(free_pools[p])].num_free_pools # 0 => UNCHANGED ps
      BY <2>1 DEF TakeFreePool
    <3>2. Head(free_pools[p]) \in Threads /\ ps[Head(free_pools[p])] # Null
      BY <1>1, <3>1, TakeOffer DEF IndInv, OwnersOK
    <3>3. UNCHANGED ps
      BY <3>1, <3>2 DEF States
    <3> QED
      BY <3>3 DEF CountStays
  <2>2. CASE InitFails(t) \/ FindNoFreePool(t) \/ FindNoRequest(t) \/ AddFreePool(t) \/ SweepBlock(t)
    <3>1. UNCHANGED ps
      BY <2>2 DEF InitFails, FindNoFreePool, FindNoRequest, AddFreePool, SweepBlock
    <3> QED
      BY <3>1 DEF CountStays
  <2>3. CASE EndDtor(t)
    <3>1. PICK x \in Objects :
            /\ x[1] \in Threads /\ IsThere(x)
            /\ UNCHANGED ps \/ ps' = [ps EXCEPT ![x[1]] = FreeIn(@, x[2], x[3])]
      BY <2>3, EndDtorIs
    <3>2. PICK st : st = FreeIn(ps[x[1]], x[2], x[3])
      OBVIOUS
    <3>3. st.num_free_pools = ps[x[1]].num_free_pools
      BY <3>1, <3>2, FreeCounts
    <3>4. UNCHANGED ps \/ ps' = [ps EXCEPT ![x[1]] = st]
      BY <3>1, <3>2
    <3> QED
      BY <1>1, <3>1, <3>3, <3>4 DEF CountStays, TypeOK, IsThere
  <2>4. CASE StartSweep(t)
    <3>1. /\ stack[t] # << >> /\ Head(stack[t]).op = "consume" /\ Relink(state_[t], 0)
      BY <2>4 DEF StartSweep, Consumed, At
    <3>2. /\ state_[t] # Null /\ ps[state_[t]] # Null
      BY <3>1, InCall DEF FrameFits
    <3>3. state_[t] \in Threads
      BY <1>1, <3>2 DEF TypeOK
    <3>4. 0 \in PoolIds(ps[state_[t]])
      BY <3>2, <3>3, StateIs DEF IndInv
    <3> QED
      BY <3>1, <3>2, <3>3, <3>4, RelinkCounts
  <2>5. CASE SweepNextPool(t)
    <3>1. PICK f : f = Head(stack[t])
      OBVIOUS
    <3>2. /\ stack[t] # << >> /\ f.op = "sweep" /\ f.i + 1 < f.n /\ Relink(f.s, f.i + 1)
      BY <2>5, <3>1 DEF SweepNextPool, At
    <3>3. f \in Frame /\ FrameFits(f, phase[t], state_[t], ps)
      BY <3>1, <3>2, InCall
    <3>4. /\ f.s \in Threads /\ f.i \in 0 .. MaxPools - 1 /\ f.n \in 1 .. MaxPools
          /\ ps[f.s] # Null /\ f.n <= Len(ps[f.s].pools)
      BY <3>2, <3>3, FrameIs DEF FrameFits
    <3>5. Len(ps[f.s].pools) \in Nat
      BY <3>4, StateIs DEF IndInv
    <3>6. f.i + 1 \in PoolIds(ps[f.s])
      BY <3>2, <3>4, <3>5 DEF PoolIds
    <3> QED
      BY <3>2, <3>4, <3>6, RelinkCounts
  <2>6. CASE EndSweep(t)
    <3>1. \A s \in Threads : ps'[s] = Null \/ ps'[s] = ps[s]
      BY <1>1, <2>6 DEF EndSweep, TypeOK
    <3> QED
      BY <3>1 DEF CountStays
  <2> QED
    BY <1>2, <2>1, <2>2, <2>3, <2>4, <2>5, <2>6 DEF Work
<1>3. ASSUME NEW t \in Threads, Call(t)
      PROVE  \A s \in Threads : CountStays(s)
  <2>1. UNCHANGED ps
    BY <1>3 DEF Call, Start, Clear, Exit
  <2> QED
    BY <2>1 DEF CountStays
<1>4. CASE ExitProcess \/ DeleteState
  <2>1. UNCHANGED ps
    BY <1>4 DEF ExitProcess, DeleteState
  <2> QED
    BY <2>1 DEF CountStays
<1> QED
  BY <1>2, <1>3, <1>4 DEF Next

-----------------------------------------------------------------------------
(* The room is kept.                                                       *)
LEMMA RoomAtRest ==
  ASSUME IndInv, RoomOK, ~Does("nomem"), Next,
         \A t \in Threads : ~CreatePoolState(t) /\ ~New(t) /\ ~FinishNew(t) /\ ~ConsumeOne(t),
         \A t \in Threads : \A x \in live : ~Delete(t, x),
         NEW s \in Threads, ps'[s] # Null
  PROVE  RoomFor(s)'
<1>1. TypeOK /\ UNCHANGED client
  BY ClientStays DEF IndInv
<1>2. \A r \in States : RoomFor(r)
  BY DEF RoomOK
<1>3. ps[s] # Null /\ ps'[s].num_free_pools = ps[s].num_free_pools
  BY <1>2, CountsRest DEF RoomFor, CountStays
<1>4. Renews(s)' => Renews(s)
  BY RenewsOn
<1>5. Coming(s)' \subseteq Coming(s)
  <2>1. ASSUME NEW t \in Threads, SweepBlock(t)
        PROVE  Coming(s)' \subseteq Coming(s)
    BY <2>1, ComingAtSweep
  <2>2. ASSUME NEW t \in Threads, EndDtor(t)
        PROVE  Coming(s)' \subseteq Coming(s)
    BY <2>2, ComingAtEndDtor
  <2>3. ASSUME \A t \in Threads : ~SweepBlock(t) /\ ~EndDtor(t)
        PROVE  Coming(s)' \subseteq Coming(s)
    <3>1. Rests
      BY <2>3, OthersRest DEF Starts
    <3>2. UNCHANGED queue
      BY <2>3, QueuesRest
    <3>3. UNCHANGED live
      <4>1. \A t \in Threads : Work(t) => UNCHANGED live
        BY <2>3 DEF Work, TakeFreePool, InitFails, FindNoFreePool, FindNoRequest, StartSweep,
          AddFreePool, SweepNextPool, EndSweep
      <4>2. \A t \in Threads : Call(t) => UNCHANGED live
        BY DEF Call, Start, Clear, Exit
      <4> QED
        BY <4>1, <4>2 DEF Next, ExitProcess, DeleteState
    <3>4. live' \subseteq live \union {}
      BY <3>3
    <3>5. \A p \in Threads : Range(queue'[s][p]) \subseteq Range(queue[s][p])
      BY <3>2
    <3> QED
      BY <3>1, <3>4, <3>5, ComingRests
  <2> QED
    BY <2>1, <2>2, <2>3
<1> QED
  BY <1>1, <1>2, <1>3, <1>4, <1>5, RoomStays DEF States

(* One state changes, and not what else comes back.                        *)
LEMMA RoomOfOthers ==
  ASSUME TypeOK, RoomOK, ~Does("nomem"), UNCHANGED client, NEW s \in Threads, ps'[s] # Null,
         ps'[s] = ps[s], Coming(s)' \subseteq Coming(s), Renews(s)' => Renews(s)
  PROVE  RoomFor(s)'
BY RoomStays DEF RoomOK, States

LEMMA RoomAtDelete ==
  ASSUME IndInv, RoomOK, ~Does("nomem"), NEW t \in Threads, NEW x \in live, Delete(t, x),
         NEW s \in Threads, ps'[s] # Null
  PROVE  RoomFor(s)'
<1>1. TypeOK /\ UNCHANGED client /\ Next
  BY DEF IndInv, Next, Call, Delete
<1>2. /\ x \in Objects /\ x[1] \in Threads /\ IsThere(x)
      /\ \/ state_[t] # x[1] /\ UNCHANGED ps
         \/ state_[t] = x[1] /\ ps' = [ps EXCEPT ![x[1]] = SetNextFreePool(@, x[2])]
  BY DeleteIs
<1>3. Renews(s)' => Renews(s)
  <2> SUFFICES ASSUME NEW u \in Threads, state_'[u] = s, NewFrames(stack'[u]) # {}
               PROVE  Renews(s)
    BY DEF Renews
  <2>1. PICK then \in {"free", "enqueue"} : Push(t, Dtor(x, then)) /\ Dtor(x, then) \in Frame
    BY DeleteIs
  <2>2. Dtor(x, then).op # "consume" /\ UNCHANGED state_
    BY DEF Delete, Dtor
  <2>3. NewStays(u)
    BY <1>1, <2>1, <2>2, NewStaysAtPush
  <2>4. PICK f : f \in NewFrames(stack'[u])
    OBVIOUS
  <2> QED
    BY <2>3, <2>4 DEF NewStays, Renews
<1>4. /\ Coming(s)' \subseteq Coming(s)
      /\ state_[t] = x[1] /\ s = x[1] => x \in Coming(s) /\ Coming(s)' \subseteq Coming(s) \ {x}
  BY ComingAtDelete
<1>5. CASE state_[t] = x[1] /\ s = x[1]
  <2>1. ps[s] # Null /\ RoomFor(s)
    BY <1>2, <1>5 DEF IsThere, RoomOK, States
  <2>2. PICK st : st = SetNextFreePool(ps[s], x[2])
    OBVIOUS
  <2>3. st.num_free_pools \in {ps[s].num_free_pools, (ps[s].num_free_pools + 1) % SizeT}
    BY <1>2, <1>5, <2>2, FreeCounts
  <2>4. ps' = [ps EXCEPT ![s] = st]
    BY <1>2, <1>5, <2>2
  <2>5. ps'[s] = st
    BY <1>1, <2>4 DEF TypeOK
  <2> QED
    BY <1>1, <1>3, <1>4, <1>5, <2>1, <2>3, <2>5, RoomAtPush
<1>6. CASE ~(state_[t] = x[1] /\ s = x[1])
  <2>1. ps'[s] = ps[s]
    BY <1>1, <1>2, <1>6 DEF TypeOK
  <2> QED
    BY <1>1, <1>3, <1>4, <2>1, RoomOfOthers
<1> QED
  BY <1>5, <1>6

LEMMA RoomAtConsume ==
  ASSUME IndInv, RoomOK, ~Does("nomem"), NEW t \in Threads, ConsumeOne(t),
         NEW s \in Threads, ps'[s] # Null
  PROVE  RoomFor(s)'
<1>1. TypeOK /\ UNCHANGED client
  BY ConsumeOneIs DEF IndInv
<1>2. PICK r \in Threads : r = state_[t]
  BY ConsumeOneIs
<1>3. PICK x \in Objects :
        /\ x[1] = r /\ IsThere(x)
        /\ ps' = [ps EXCEPT ![r] = FreeIn(SetNextFreePool(@, x[2]), x[2], x[3])]
  BY <1>2, ConsumeOneIs
<1>4. Renews(s)' => Renews(s)
  <2> SUFFICES ASSUME NEW u \in Threads, state_'[u] = s, NewFrames(stack'[u]) # {}
               PROVE  Renews(s)
    BY DEF Renews
  <2>1. /\ stack[t] # << >> /\ Head(stack[t]).op = "consume" /\ UNCHANGED state_
        /\ \E g \in Frame : /\ g.op = "consume" /\ g.then = Head(stack[t]).then
                            /\ g.active = Head(stack[t]).active
                            /\ stack' = [stack EXCEPT ![t] = <<g>> \o Tail(@)]
    BY ConsumeOneIs
  <2>2. PICK g \in Frame : /\ g.op = "consume" /\ g.then = Head(stack[t]).then
                           /\ g.active = Head(stack[t]).active
                           /\ Replace(t, g)
    BY <2>1 DEF Replace
  <2>3. NewStays(u)
    BY <1>1, <2>1, <2>2, NewStaysAtReplace
  <2>4. PICK f : f \in NewFrames(stack'[u])
    OBVIOUS
  <2> QED
    BY <2>3, <2>4 DEF NewStays, Renews
<1>5. /\ Coming(s)' \subseteq Coming(s)
      /\ s = r => \E y \in Coming(s) : Coming(s)' \subseteq Coming(s) \ {y}
  BY <1>2, ComingAtConsume
<1>6. CASE s = r
  <2>1. ps[s] # Null /\ RoomFor(s)
    BY <1>3, <1>6 DEF IsThere, RoomOK, States
  <2>2. PICK st : st = FreeIn(SetNextFreePool(ps[s], x[2]), x[2], x[3])
    OBVIOUS
  <2>3. st.num_free_pools \in {ps[s].num_free_pools, (ps[s].num_free_pools + 1) % SizeT}
    BY <1>3, <1>6, <2>2, FreeCounts
  <2>4. ps' = [ps EXCEPT ![s] = st]
    BY <1>3, <1>6, <2>2
  <2>5. ps'[s] = st
    BY <1>1, <2>4 DEF TypeOK
  <2>6. PICK y \in Coming(s) : Coming(s)' \subseteq Coming(s) \ {y}
    BY <1>5, <1>6
  <2> QED
    BY <1>1, <1>4, <2>1, <2>3, <2>5, <2>6, RoomAtPush
<1>7. CASE s # r
  <2>1. ps'[s] = ps[s]
    BY <1>1, <1>3, <1>7 DEF TypeOK
  <2> QED
    BY <1>1, <1>4, <1>5, <2>1, RoomOfOthers
<1> QED
  BY <1>6, <1>7

LEMMA RenewsOnIf ==
  ASSUME NEW s, \A u \in Threads : state_'[u] = s => NewStays(u)
  PROVE  Renews(s)' => Renews(s)
<1> SUFFICES ASSUME NEW u \in Threads, state_'[u] = s, NewFrames(stack'[u]) # {}
             PROVE  Renews(s)
  BY DEF Renews
<1>1. PICK f : f \in NewFrames(stack'[u])
  OBVIOUS
<1> QED
  BY <1>1 DEF NewStays, Renews

LEMMA RoomAtCreate ==
  ASSUME IndInv, RoomOK, ~Does("nomem"), NEW t \in Threads, CreatePoolState(t),
         NEW s \in Threads, ps'[s] # Null
  PROVE  RoomFor(s)'
<1>1. TypeOK /\ UNCHANGED client
  BY DEF IndInv, CreatePoolState
<1>2. /\ At(t, "init") /\ Pop(t) /\ UNCHANGED <<live, queue>>
      /\ ps' = [ps EXCEPT ![t] = FreshPoolState] /\ state_' = [state_ EXCEPT ![t] = t]
      /\ UNCHANGED phase
  BY DEF CreatePoolState
<1>3. stack[t] # << >> /\ Tail(stack[t]) = << >>
  BY <1>2, AtIs, AtBottom
<1>4. \A u \in Threads \ {t} : UNCHANGED <<phase[u], state_[u]>>
  BY <1>1, <1>2 DEF TypeOK
<1>5. IndInv'
  BY CreatePoolStateOK
<1>6. CASE s = t
  <2>1. stack'[t] = << >>
    BY <1>1, <1>2, <1>3 DEF Pop, TypeOK
  <2>2. NewFrames(stack'[t]) = {}
    BY <2>1, NoFrames DEF NewFrames
  <2>3. \A u \in Threads : u # t => state_'[u] # t
    <3>1. state_'[t] = t /\ state_'[t] # Null
      BY <1>1, <1>2, NullAssumption DEF TypeOK
    <3> QED
      BY <1>5, <3>1 DEF IndInv, OwnersOK
  <2>4. ~Renews(s)'
    BY <1>6, <2>2, <2>3 DEF Renews
  <2>5. ps'[s].num_free_pools = 1
    BY <1>1, <1>2, <1>6 DEF TypeOK, FreshPoolState
  <2>6. TypeOK' /\ client'.listed \in Nat
    BY <1>1, <1>5, WidthIs DEF IndInv
  <2> QED
    BY <2>4, <2>5, <2>6, RoomAgain
<1>7. CASE s # t
  <2>1. ps'[s] = ps[s]
    BY <1>1, <1>2, <1>7 DEF TypeOK
  <2>2. Rests
    BY <1>1, <1>2, <1>3, <1>4, RestsAtPop
  <2>3. Coming(s)' \subseteq Coming(s)
    <3>1. live' \subseteq live \union {}
      BY <1>2
    <3>2. \A p \in Threads : Range(queue'[s][p]) \subseteq Range(queue[s][p])
      BY <1>2
    <3> QED
      BY <2>2, <3>1, <3>2, ComingRests
  <2>4. \A u \in Threads : NewStays(u)
    BY <1>1, <1>2, <1>3, <1>4, NewStaysAtPop
  <2>5. Renews(s)' => Renews(s)
    BY <2>4, RenewsOnIf
  <2> QED
    BY <1>1, <2>1, <2>3, <2>5, RoomOfOthers
<1> QED
  BY <1>6, <1>7

(* A block is allocated in pool i of s, whose other members st tells.      *)
LEMMA ConstructIs ==
  ASSUME NEW t, NEW s \in Threads, NEW st \in PoolStateRecord(PoolNames, MaxPools),
         NEW i \in PoolIds(st), Construct(t, s, i, st)
  PROVE  /\ ps' = [ps EXCEPT ![s] = AllocateIn(st, i, <<s, i>>)]
         /\ AllocateIn(st, i, <<s, i>>).num_free_pools = st.num_free_pools
         /\ \E y : y[1] = s /\ live' \subseteq live \union {y}
<1>1. MaxPools \in Nat
  BY ClientAssumption
<1>2. AllocateIn(st, i, <<s, i>>).num_free_pools = st.num_free_pools
  BY <1>1, ListAtAllocateIn
<1>3. PICK y : y = <<s, i, Inner(st, i).fp.next>>
  OBVIOUS
<1>4. y[1] = s /\ live' \subseteq live \union {y}
  BY <1>3 DEF Construct
<1>5. ps' = [ps EXCEPT ![s] = AllocateIn(st, i, <<s, i>>)]
  BY DEF Construct
<1> QED
  BY <1>2, <1>4, <1>5

LEMMA RoomAtNew ==
  ASSUME IndInv, RoomOK, ~Does("nomem"), NEW t \in Threads, New(t),
         NEW s \in Threads, ps'[s] # Null
  PROVE  RoomFor(s)'
<1>1. TypeOK /\ TypeOK' /\ UNCHANGED <<client, queue, phase, state_>>
  BY NewOK DEF IndInv, New
<1>2. PICK r \in Threads : r = state_[t]
  BY ClientAssumption DEF New
<1>3. phase[t] = "running" /\ ps[r].num_free_pools <= client.listed
  BY <1>2 DEF New, MayCall
<1>4. ps[r] # Null
  BY <1>2, <1>3, NullAssumption DEF IndInv, ThreadsOK, ThreadFits
<1>5. /\ ps[r] \in PoolStateRecord(PoolNames, MaxPools)
      /\ ps[r].next_pool \in PoolIds(ps[r])
  BY <1>4, StateIs DEF IndInv
<1>6. ps[r].num_free_pools > 0
  BY <1>4 DEF RoomOK, States, RoomFor
<1>7. client'.listed \in Nat
  BY <1>1, WidthIs
<1>8. CASE HasFreeBlock(ps[r], ps[r].next_pool)
  <2>1. Construct(t, r, ps[r].next_pool, ps[r]) /\ UNCHANGED stack
    BY <1>2, <1>8 DEF New
  <2>2. PICK new : /\ ps' = [ps EXCEPT ![r] = new]
                   /\ new.num_free_pools = ps[r].num_free_pools
    <3>1. PICK new : new = AllocateIn(ps[r], ps[r].next_pool, <<r, ps[r].next_pool>>)
      OBVIOUS
    <3>2. ps' = [ps EXCEPT ![r] = new] /\ new.num_free_pools = ps[r].num_free_pools
      BY <1>5, <2>1, <3>1, ConstructIs
    <3> QED
      BY <3>2
  <2>3. PICK y : y[1] = r /\ live' \subseteq live \union {y}
    BY <1>5, <2>1, ConstructIs
  <2>4. CASE s = r
    <3>1. ps'[s].num_free_pools = ps[r].num_free_pools
      BY <1>1, <2>2, <2>4 DEF TypeOK
    <3> QED
      BY <1>1, <1>3, <1>6, <1>7, <3>1, RoomAgain
  <2>5. CASE s # r
    <3>1. ps'[s] = ps[s]
      BY <1>1, <2>2, <2>5 DEF TypeOK
    <3>2. Rests
      BY <1>1, <2>1 DEF Rests
    <3>3. Coming(s)' \subseteq Coming(s)
      <4>1. \A p \in Threads : Range(queue'[s][p]) \subseteq Range(queue[s][p])
        BY <1>1
      <4>2. Coming(s)' \subseteq Coming(s) \union {z \in {y} : z[1] = s}
        BY <2>3, <3>2, <4>1, ComingRests
      <4> QED
        BY <2>3, <2>5, <4>2
    <3>4. Renews(s)' => Renews(s)
      BY <1>1, <2>1 DEF Renews
    <3> QED
      BY <1>1, <3>1, <3>3, <3>4, RoomOfOthers
  <2> QED
    BY <2>4, <2>5
<1>9. CASE ~HasFreeBlock(ps[r], ps[r].next_pool)
  <2>1. PICK f : f = Consume("new", ps[r].next_pool)
    OBVIOUS
  <2>2. Push(t, f) /\ UNCHANGED <<ps, live>>
    BY <1>2, <1>9, <2>1 DEF New
  <2>3. f \in Frame /\ f.op # "dtor"
    BY <1>2, <1>9, <2>1, NextFrames DEF Consume
  <2>4. CASE s = r
    <3>1. ps'[s].num_free_pools = ps[r].num_free_pools
      BY <2>2, <2>4
    <3> QED
      BY <1>1, <1>3, <1>6, <1>7, <3>1, RoomAgain
  <2>5. CASE s # r
    <3>1. Rests
      BY <1>1, <2>2, <2>3, RestsAtPush
    <3>2. Coming(s)' \subseteq Coming(s)
      <4>1. live' \subseteq live \union {}
        BY <2>2
      <4>2. \A p \in Threads : Range(queue'[s][p]) \subseteq Range(queue[s][p])
        BY <1>1
      <4> QED
        BY <3>1, <4>1, <4>2, ComingRests
    <3>3. \A u \in Threads : state_'[u] = s => u # t
      BY <1>1, <1>2, <2>5
    <3>4. \A u \in Threads : u # t => stack'[u] = stack[u]
      BY <1>1, <2>2 DEF Push, TypeOK
    <3>5. \A u \in Threads : state_'[u] = s => NewStays(u)
      BY <1>1, <3>3, <3>4 DEF NewStays
    <3>6. Renews(s)' => Renews(s)
      BY <3>5, RenewsOnIf
    <3>7. ps'[s] = ps[s]
      BY <2>2
    <3> QED
      BY <1>1, <3>2, <3>6, <3>7, RoomOfOthers
  <2> QED
    BY <2>4, <2>5
<1> QED
  BY <1>8, <1>9

(* New returns: the frame is gone, and what the list then is.              *)
LEMMA FinishNewIs ==
  ASSUME IndInv, NEW t \in Threads, FinishNew(t)
  PROVE  \E s \in Threads : \E active :
           /\ s = state_[t] /\ ps[s] # Null /\ active = Head(stack[t]).active
           /\ active \in PoolIds(ps[s])
           /\ fault = "none" /\ stack[t] # << >> /\ phase[t] = "running"
           /\ Head(stack[t]) \in NewFrames(stack[t]) /\ NewFrames(Tail(stack[t])) = {}
           /\ \/ FinishNewHere(t, s, active)
              \/ FinishNewNext(t, s, active)
              \/ FinishNewAdd(t, s, active)
           /\ Pop(t)
           /\ UNCHANGED <<client, phase, state_, queue, free_pools>>
<1> DEFINE h == Head(stack[t])
           active == h.active
<1>1. stack[t] # << >> /\ h.op = "consume" /\ h.then = "new" /\ fault = "none"
  BY AtIs DEF FinishNew, Consumed
<1>2. PICK s \in Threads : s = state_[t] /\ ps[s] # Null /\ active \in PoolIds(ps[s])
  BY <1>1, InCall DEF FrameFits
<1>3. /\ \/ FinishNewHere(t, s, active)
         \/ FinishNewNext(t, s, active)
         \/ FinishNewAdd(t, s, active)
      /\ Pop(t)
      /\ UNCHANGED <<client, phase, state_, queue, free_pools>>
  BY <1>2 DEF FinishNew
<1>4. /\ stack[t] \in Seq(Frame) /\ Shape(stack[t]) /\ Tail(stack[t]) \in Seq(Frame)
      /\ h \in Range(stack[t]) /\ phase[t] = "running"
  <2>1. state_[t] # Null
    BY <1>2, NullAssumption
  <2> QED
    BY <1>1, <2>1, InCall
<1>5. h \in NewFrames(stack[t])
  BY <1>1, <1>4 DEF NewFrames
<1>6. NewFrames(Tail(stack[t])) = {}
  <2> SUFFICES ASSUME NEW f \in NewFrames(Tail(stack[t]))
               PROVE  FALSE
    OBVIOUS
  <2>1. f.op = "consume" /\ f \in Range(Tail(stack[t]))
    BY DEF NewFrames
  <2>2. PICK k \in DOMAIN Tail(stack[t]) : Tail(stack[t])[k] = f
    BY <2>1 DEF Range
  <2>3. k + 1 \in DOMAIN stack[t] /\ stack[t][k + 1] = f /\ k + 1 # 1
    BY <1>1, <1>4, <2>2
  <2> QED
    BY <1>4, <2>1, <2>3 DEF Shape
<1> QED
  BY <1>1, <1>2, <1>3, <1>4, <1>5, <1>6

(* ... the list one shorter than before, or as long.                       *)
LEMMA FinishNewCounts ==
  ASSUME IndInv, ~Does("nomem"), NEW t \in Threads, FinishNew(t),
         NEW s \in Threads, s = state_[t], ps[s].num_free_pools > 0
  PROVE  /\ \E new : /\ ps' = [ps EXCEPT ![s] = new]
                     /\ new.num_free_pools > 0
                     /\ new.num_free_pools <= ps[s].num_free_pools
         /\ \E y : y[1] = s /\ live' \subseteq live \union {y}
<1>1. PICK active :
        /\ ps[s] # Null /\ active \in PoolIds(ps[s])
        /\ \/ FinishNewHere(t, s, active)
           \/ FinishNewNext(t, s, active)
           \/ FinishNewAdd(t, s, active)
  BY FinishNewIs
<1>2. /\ TypeOK /\ MaxPools \in Nat
      /\ PoolStateOK(ps[s], s, PoolNames, MaxPools, Claimed)
      /\ ps[s] \in PoolStateRecord(PoolNames, MaxPools)
      /\ Len(ps[s].pools) \in Nat /\ Len(ps[s].pools) <= MaxPools
  BY <1>1, StateIs, ClientIs DEF IndInv
<1>3. PICK n \in Nat : n = ps[s].num_free_pools /\ n > 0 /\ n < SizeT
  <2>1. ps[s].num_free_pools \in 0 .. SizeT - 1
    BY <1>2, PoolStateIs
  <2> QED
    BY <2>1, SizeTAssumption
<1>4. ASSUME NEW st \in PoolStateRecord(PoolNames, MaxPools), NEW i \in PoolIds(st),
             Construct(t, s, i, st), st.num_free_pools > 0, st.num_free_pools <= n
      PROVE  /\ \E new : /\ ps' = [ps EXCEPT ![s] = new]
                         /\ new.num_free_pools > 0
                         /\ new.num_free_pools <= ps[s].num_free_pools
             /\ \E y : y[1] = s /\ live' \subseteq live \union {y}
  <2>1. PICK new : new = AllocateIn(st, i, <<s, i>>)
    OBVIOUS
  <2>2. ps' = [ps EXCEPT ![s] = new]
    BY <1>4, <2>1, ConstructIs
  <2>3. new.num_free_pools = st.num_free_pools
    BY <1>4, <2>1, ConstructIs
  <2>4. PICK y : y[1] = s /\ live' \subseteq live \union {y}
    BY <1>4, ConstructIs
  <2> QED
    BY <1>3, <1>4, <2>2, <2>3, <2>4
<1>5. PICK drop : drop = DropFullPool(ps[s])
  OBVIOUS
<1>6. /\ drop.num_free_pools = n - 1 /\ drop.pools = ps[s].pools
      /\ drop \in PoolStateRecord(PoolNames, MaxPools)
  BY <1>2, <1>3, <1>5, ListAtDrop
<1>7. CASE FinishNewHere(t, s, active)
  <2>1. Construct(t, s, active, ps[s])
    BY <1>7 DEF FinishNewHere
  <2>2. ps[s].num_free_pools > 0 /\ ps[s].num_free_pools <= n
    BY <1>3
  <2> QED
    BY <1>1, <1>2, <1>4, <2>1, <2>2
<1>8. CASE FinishNewNext(t, s, active)
  <2>1. PICK i : i = NextOfList(drop, active)
    OBVIOUS
  <2>2. CASE UNCHANGED <<ps, live>>
    <3>1. ps' = [ps EXCEPT ![s] = ps[s]]
      BY <1>2, <2>2 DEF TypeOK
    <3>2. ps[s].num_free_pools > 0 /\ ps[s].num_free_pools <= ps[s].num_free_pools
      BY <1>3
    <3>3. <<s>>[1] = s /\ live' \subseteq live \union {<<s>>}
      BY <2>2
    <3> QED
      BY <3>1, <3>2, <3>3
  <2>3. CASE /\ i < Len(drop.pools)
             /\ Construct(t, s, i, [drop EXCEPT !.next_pool = i])
    <3>1. i \in Nat
      <4>1. active \in PoolIds(drop)
        BY <1>1, <1>6 DEF PoolIds
      <4>2. Inner(drop, active).next_id \in 0 .. MaxPools
        BY <1>2, <1>6, <4>1, PoolStateIs
      <4> QED
        BY <1>2, <2>1, <4>2 DEF NextOfList
    <3>2. i \in PoolIds(drop) /\ i \in 0 .. MaxPools - 1
      BY <1>2, <1>6, <2>3, <3>1 DEF PoolIds
    <3>3. PICK st : st = [drop EXCEPT !.next_pool = i]
      OBVIOUS
    <3>4. /\ st.pools = drop.pools /\ st.num_free_pools = drop.num_free_pools
          /\ st \in PoolStateRecord(PoolNames, MaxPools)
      BY <1>6, <3>2, <3>3 DEF PoolStateRecord
    <3>5. i \in PoolIds(st)
      BY <3>2, <3>4 DEF PoolIds
    <3>6. st.num_free_pools > 0 /\ st.num_free_pools <= n
      <4>1. drop.num_free_pools > 0
        BY <1>5, <1>8 DEF FinishNewNext
      <4> QED
        BY <1>3, <1>6, <3>4, <4>1
    <3>7. Construct(t, s, i, st)
      BY <2>3, <3>3
    <3> QED
      BY <1>4, <3>4, <3>5, <3>6, <3>7
  <2> QED
    BY <1>5, <1>8, <2>1, <2>2, <2>3 DEF FinishNewNext
<1>9. CASE FinishNewAdd(t, s, active)
  <2>1. PICK st : st = AddNewPool(drop)
    OBVIOUS
  <2>2. /\ drop.num_free_pools = 0 /\ st.next_pool < client.pools
        /\ Construct(t, s, st.next_pool, st)
    BY <1>5, <1>9, <2>1 DEF FinishNewAdd
  <2>3. /\ PoolStateOK(drop, s, PoolNames, MaxPools, Claimed)
        /\ phase[Main] # "exiting"
    <3>1. PoolStateOK(DropFullPool(ps[s]), s, PoolNames, MaxPools, Claimed)
      BY <1>2, DropFullPoolOK
    <3>2. phase[t] = "running"
      BY FinishNewIs
    <3> QED
      BY <1>5, <3>1, <3>2 DEF IndInv, ThreadsOK, ThreadFits
  <2>4. st.next_pool = Len(drop.pools) /\ st.num_free_pools = (drop.num_free_pools + 1) % SizeT
    BY <2>1 DEF AddNewPool
  <2>5. /\ PoolStateOK(st, s, PoolNames, MaxPools, Claimed)
        /\ Len(st.pools) = Len(ps[s].pools) + 1
    BY <1>1, <1>6, <2>1, <2>2, <2>3, <2>4, PoolAdded
  <2>6. st \in PoolStateRecord(PoolNames, MaxPools) /\ st.next_pool \in PoolIds(st)
    <3>1. st \in PoolStateRecord(PoolNames, MaxPools) /\ st.next_pool < Len(st.pools)
      BY <2>5 DEF PoolStateOK
    <3>2. st.next_pool \in Nat
      BY <3>1 DEF PoolStateRecord
    <3> QED
      BY <3>1, <3>2 DEF PoolIds
  <2>7. st.num_free_pools = 1
    <3>1. (0 + 1) % SizeT = 1
      BY SizeTAssumption
    <3> QED
      BY <2>2, <2>4, <3>1
  <2>8. st.num_free_pools > 0 /\ st.num_free_pools <= n
    BY <1>3, <2>7
  <2> QED
    BY <1>4, <2>2, <2>6, <2>8
<1> QED
  BY <1>1, <1>7, <1>8, <1>9

LEMMA RoomAtFinishNew ==
  ASSUME IndInv, RoomOK, ~Does("nomem"), NEW t \in Threads, FinishNew(t),
         NEW s \in Threads, ps'[s] # Null
  PROVE  RoomFor(s)'
<1>1. TypeOK /\ TypeOK' /\ UNCHANGED <<client, queue, phase, state_>>
  BY FinishNewOK DEF IndInv, FinishNew
<1>2. PICK r \in Threads :
        /\ r = state_[t] /\ ps[r] # Null /\ stack[t] # << >>
        /\ NewFrames(stack[t]) # {} /\ NewFrames(Tail(stack[t])) = {} /\ Pop(t)
  BY FinishNewIs
<1>3. RoomFor(r)
  BY <1>2 DEF RoomOK, States
<1>4. PICK new : /\ ps' = [ps EXCEPT ![r] = new]
                 /\ new.num_free_pools > 0
                 /\ new.num_free_pools <= ps[r].num_free_pools
  BY <1>2, <1>3, FinishNewCounts DEF RoomFor
<1>5. PICK y : y[1] = r /\ live' \subseteq live \union {y}
  BY <1>2, <1>3, FinishNewCounts DEF RoomFor
<1>6. Rests
  BY <1>1, <1>2, RestsAtPop
<1>7. \A p \in Threads : Range(queue'[s][p]) \subseteq Range(queue[s][p])
  BY <1>1
<1>8. Coming(s)' \subseteq Coming(s) \union {z \in {y} : z[1] = s}
  BY <1>5, <1>6, <1>7, ComingRests
<1>9. CASE s = r
  <2>1. Renews(s)
    BY <1>2, <1>9 DEF Renews
  <2>2. ~Renews(s)'
    <3>1. stack'[t] = Tail(stack[t])
      BY <1>1, <1>2 DEF Pop, TypeOK
    <3>2. \A u \in Threads : u # t => state_'[u] # r
      <4>1. state_[t] # Null
        BY <1>2, NullAssumption
      <4> QED
        BY <1>1, <1>2, <4>1 DEF IndInv, OwnersOK
    <3> QED
      BY <1>2, <1>9, <3>1, <3>2 DEF Renews
  <2>3. ps'[s] = new
    BY <1>1, <1>4, <1>9 DEF TypeOK
  <2>4. Coming(s)' \subseteq Coming(s) \union {y}
    BY <1>8
  <2> QED
    BY <1>1, <1>2, <1>3, <1>4, <1>9, <2>1, <2>2, <2>3, <2>4, RoomAtTake
<1>10. CASE s # r
  <2>1. ps'[s] = ps[s]
    BY <1>1, <1>4, <1>10 DEF TypeOK
  <2>2. Coming(s)' \subseteq Coming(s)
    BY <1>5, <1>8, <1>10
  <2>3. \A u \in Threads : NewStays(u)
    BY <1>1, <1>2, NewStaysAtPop
  <2>4. Renews(s)' => Renews(s)
    BY <2>3, RenewsOnIf
  <2> QED
    BY <1>1, <2>1, <2>2, <2>4, RoomOfOthers
<1> QED
  BY <1>9, <1>10

LEMMA RoomStep ==
  ASSUME IndInv, RoomOK, [Next]_vars
  PROVE  RoomOK'
<1>1. CASE UNCHANGED vars
  <2>1. \A s \in Threads : RoomFor(s)' <=> RoomFor(s)
    BY <1>1 DEF vars, RoomFor, Coming, Renews, Capacity
  <2> QED
    BY <1>1, <2>1 DEF vars, RoomOK, States, Does
<1>2. CASE Next
  <2>1. UNCHANGED client
    BY <1>2, ClientStays
  <2> SUFFICES ASSUME ~Does("nomem"), NEW s \in Threads, ps'[s] # Null
               PROVE  RoomFor(s)'
    BY <2>1 DEF RoomOK, States, Does
  <2>2. ASSUME NEW t \in Threads, CreatePoolState(t)
        PROVE  RoomFor(s)'
    BY <2>2, RoomAtCreate
  <2>3. ASSUME NEW t \in Threads, New(t)
        PROVE  RoomFor(s)'
    BY <2>3, RoomAtNew
  <2>4. ASSUME NEW t \in Threads, FinishNew(t)
        PROVE  RoomFor(s)'
    BY <2>4, RoomAtFinishNew
  <2>5. ASSUME NEW t \in Threads, ConsumeOne(t)
        PROVE  RoomFor(s)'
    BY <2>5, RoomAtConsume
  <2>6. ASSUME NEW t \in Threads, NEW x \in live, Delete(t, x)
        PROVE  RoomFor(s)'
    BY <2>6, RoomAtDelete
  <2>7. ASSUME \A t \in Threads : ~CreatePoolState(t) /\ ~New(t) /\ ~FinishNew(t) /\ ~ConsumeOne(t),
               \A t \in Threads : \A x \in live : ~Delete(t, x)
        PROVE  RoomFor(s)'
    BY <1>2, <2>7, RoomAtRest
  <2> QED
    BY <2>2, <2>3, <2>4, <2>5, <2>6, <2>7
<1> QED
  BY <1>1, <1>2

LEMMA RoomInvariant == Spec => [](IndInv /\ TidyInv /\ RoomOK)
<1>1. Init => RoomOK
  BY DEF Init, RoomOK, States
<1>2. RoomOK /\ IndInv /\ [Next]_vars => RoomOK'
  BY RoomStep
<1> QED
  BY <1>1, <1>2, TidyInvariant, PTL DEF Spec

(* num_free_pools is never 0, unless New failed to add a pool.             *)
THEOREM ListStaysInUse == Spec => [](~Does("nomem") => ListNeverEmpty)
<1>1. RoomOK => (~Does("nomem") => ListNeverEmpty)
  BY DEF RoomOK, RoomFor, ListNeverEmpty
<1> QED
  BY <1>1, RoomInvariant, PTL

-----------------------------------------------------------------------------
(* What holds for a careful client: a thread is in one call at a time, and *)
(* never in Clear; ...                                                     *)
OneCall(s) ==
  s = << >> \/ \E f : /\ s = <<f>> /\ f.op # "sweep"
                      /\ f.op = "consume" => f.then # "clear"

OneCallOK == \A t \in Threads : OneCall(stack[t])

(* ... one that waits in New found the head of the list full, and it is;   *)
WaitsOK ==
  \A t \in Threads : \A f \in NewFrames(stack[t]) :
    /\ f.active = ps[state_[t]].next_pool
    /\ ~HasFreeBlock(ps[state_[t]], f.active)

(* ... the list of each state is exact, and has the pools of the objects   *)
(* whose destructor runs, which will get a block.                          *)
ListedIn(c, n, s) ==
  \A t \in Threads : \A f \in DtorFrames(stack[t]) :
    f.x[1] = s => \E k \in 1 .. n : c[k] = f.x[2]

Listed(s) == \E c : IsListOf(c, ps[s]) /\ ListedIn(c, ps[s].num_free_pools, s)

ListsOK == \A s \in States : Listed(s)

CareOK ==
  IsCareful =>
    /\ fault \notin {"full pool", "out of range"}
    /\ phase[Main] # "exiting" => OneCallOK /\ WaitsOK /\ ListsOK

-----------------------------------------------------------------------------
(* The list with its head allocated from, and with a block freed.          *)
LEMMA ListTaken ==
  ASSUME NEW Ids, NEW max \in Nat, NEW st \in PoolStateRecord(Ids, max),
         NEW c, IsListOf(c, st), NEW i, i = st.next_pool, NEW id,
         NEW new, new = AllocateIn(st, i, id)
  PROVE  IsListOf(c, new)
<1>1. /\ st.num_free_pools \in Nat /\ st.num_free_pools > 0
      /\ \A k \in 1 .. st.num_free_pools : c[k] \in PoolIds(st)
      /\ c[1] = i
  BY ListIs
<1>2. 1 \in 1 .. st.num_free_pools /\ i \in PoolIds(st)
  BY <1>1
<1>3. /\ new.num_free_pools = st.num_free_pools /\ new.next_pool = st.next_pool
      /\ PoolIds(new) = PoolIds(st)
      /\ \A j \in PoolIds(st) : Inner(new, j).next_id = Inner(st, j).next_id
      /\ \A j \in PoolIds(st) : j # i => HasFreeBlock(new, j) = HasFreeBlock(st, j)
  BY <1>2, ListAtAllocateIn
<1> QED
  BY <1>1, <1>2, <1>3, ListStays

LEMMA ListFreed ==
  ASSUME NEW Ids, NEW max \in Nat, NEW st \in PoolStateRecord(Ids, max),
         NEW c, IsListOf(c, st), NEW i \in PoolIds(st),
         \E k \in 1 .. st.num_free_pools : c[k] = i, NEW b,
         NEW new, new = FreeIn(st, i, b)
  PROVE  IsListOf(c, new)
<1>1. PICK k \in 1 .. st.num_free_pools : c[k] = i
  OBVIOUS
<1>2. st.num_free_pools \in Nat
  BY ListIs
<1>3. /\ new.num_free_pools = st.num_free_pools /\ new.next_pool = st.next_pool
      /\ PoolIds(new) = PoolIds(st)
      /\ \A j \in PoolIds(st) : Inner(new, j).next_id = Inner(st, j).next_id
      /\ \A j \in PoolIds(st) : j # i => HasFreeBlock(new, j) = HasFreeBlock(st, j)
      /\ HasFreeBlock(new, i)
  BY ListAtFreeIn
<1> QED
  BY <1>1, <1>2, <1>3, ListStays

-----------------------------------------------------------------------------
(* A thread that is in a call is in just one.                              *)
LEMMA InOneCall ==
  ASSUME NEW s, OneCall(s), s # << >>
  PROVE  /\ s = <<Head(s)>> /\ Tail(s) = << >> /\ Head(s).op # "sweep"
         /\ Head(s).op = "consume" => Head(s).then # "clear"
         /\ Range(s) = {Head(s)}
<1>1. PICK f : s = <<f>> /\ f.op # "sweep" /\ (f.op = "consume" => f.then # "clear")
  BY DEF OneCall
<1>2. Head(s) = f /\ Tail(s) = << >>
  BY <1>1
<1>3. Range(s) = {f}
  BY <1>1 DEF Range
<1> QED
  BY <1>1, <1>2, <1>3

(* With nest 0 the pool is not called from a destructor.                   *)
LEMMA CallsAlone ==
  ASSUME TypeOK, client.nest = 0, NEW t \in Threads, MayCall(t)
  PROVE  stack[t] = << >>
<1> SUFFICES ASSUME stack[t] # << >>
             PROVE  FALSE
  OBVIOUS
<1>1. stack[t] \in Seq(Frame)
  BY DEF TypeOK
<1>2. Head(stack[t]).op = "dtor" /\ Cardinality(Frames(t, "dtor")) <= 0
  BY DEF MayCall, At
<1>3. 1 \in Frames(t, "dtor")
  BY <1>1, <1>2, PopIs DEF Frames
<1>4. IsFiniteSet(Frames(t, "dtor"))
  <2>1. Frames(t, "dtor") \subseteq 1 .. Len(stack[t]) /\ Len(stack[t]) \in Nat
    BY <1>1 DEF Frames
  <2>2. IsFiniteSet(1 .. Len(stack[t]))
    BY <2>1, FS_Interval
  <2> QED
    BY <2>1, <2>2, FS_Subset
<1>5. Cardinality(Frames(t, "dtor")) \in Nat
  BY <1>4, FS_CardinalityType
<1>6. Cardinality(Frames(t, "dtor")) = 0
  BY <1>2, <1>5
<1> QED
  BY <1>3, <1>4, <1>6, FS_EmptySet

(* Until the end, a local client's destructors run in the owner's thread.  *)
LEMMA DtorIsOwners ==
  ASSUME IndInv, LocalInv, Does("local"), phase[Main] # "exiting",
         NEW t \in Threads, NEW f \in DtorFrames(stack[t])
  PROVE  f.x[1] = state_[t] /\ f.then = "free" /\ stack[t] # << >> /\ f \in Range(stack[t])
<1>1. f \in Range(stack[t])
  BY DEF DtorFrames
<1>2. stack[t] # << >>
  BY <1>1, NoFrames
<1>3. phase[t] = "running"
  BY <1>2, InCall
<1>4. f.then = "free"
  BY DEF LocalInv, LocalOK
<1> QED
  BY <1>1, <1>2, <1>3, <1>4 DEF LocalInv, SendsOK

LEMMA SoleOwner ==
  ASSUME IndInv, NEW t \in Threads, NEW u \in Threads, NEW s \in Threads,
         state_[t] = s, state_[u] = s
  PROVE  t = u
  BY NullAssumption DEF IndInv, OwnersOK

(* The end of the process goes on.                                         *)
LEMMA EndGoesOn ==
  ASSUME IndInv, Next, phase[Main] = "exiting"
  PROVE  phase'[Main] = "exiting"
<1>1. TypeOK /\ Main \in Threads
  BY ClientAssumption DEF IndInv
<1>2. ASSUME NEW t \in Threads, Start(t)
      PROVE  phase'[Main] = "exiting"
  BY <1>2 DEF Start
<1>3. ASSUME NEW t \in Threads, InitFails(t) \/ AddFreePool(t)
      PROVE  phase'[Main] = "exiting"
  <2>1. stack[t] # << >> /\ Head(stack[t]).op \in {"init", "consume"}
    BY <1>3 DEF InitFails, AddFreePool, Consumed, At
  <2>2. phase[t] = "running"
    BY <2>1, InCall DEF FrameFits
  <2> QED
    BY <2>2, InCall, <2>1
<1>4. CASE ExitProcess
  BY <1>1, <1>4 DEF ExitProcess, TypeOK
<1>5. CASE DeleteState
  BY <1>5 DEF DeleteState
<1>6. ASSUME NEW t \in Threads, Work(t), ~InitFails(t), ~AddFreePool(t)
      PROVE  phase'[Main] = "exiting"
  <2>1. UNCHANGED phase
    BY <1>6 DEF Work, TakeFreePool, CreatePoolState, FindNoFreePool, ConsumeOne, FindNoRequest,
                FinishNew, StartSweep, EndDtor, SweepBlock, SweepNextPool, EndSweep
  <2> QED
    BY <2>1
<1>7. ASSUME NEW t \in Threads, Call(t), ~Start(t)
      PROVE  phase'[Main] = "exiting"
  <2>1. UNCHANGED phase
    BY <1>7 DEF Call, New, Clear, Exit, Delete
  <2> QED
    BY <2>1
<1> QED
  BY <1>2, <1>3, <1>4, <1>5, <1>6, <1>7 DEF Next

(* Only New's end lands on a pool that is full or not there.               *)
LEMMA FaultStays ==
  ASSUME Next, \A t \in Threads : ~FinishNew(t)
  PROVE  fault' \in {fault, "no object"}
<1>1. ASSUME NEW t \in Threads, Work(t)
      PROVE  fault' \in {fault, "no object"}
  BY <1>1 DEF Work, TakeFreePool, CreatePoolState, InitFails, FindNoFreePool, ConsumeOne,
              FindNoRequest, StartSweep, AddFreePool, EndDtor, SweepBlock, SweepNextPool, EndSweep
<1>2. ASSUME NEW t \in Threads, Call(t)
      PROVE  fault' \in {fault, "no object"}
  BY <1>2 DEF Call, Start, New, Clear, Exit, Delete
<1>3. CASE ExitProcess \/ DeleteState
  BY <1>3 DEF ExitProcess, DeleteState
<1> QED
  BY <1>1, <1>2, <1>3 DEF Next

(* The steps that change the calls: the call returns, goes on, or begins.  *)
LEMMA OneCallIf ==
  ASSUME TypeOK, OneCallOK, NEW t \in Threads, NEW new, stack' = [stack EXCEPT ![t] = new],
         OneCall(new)
  PROVE  OneCallOK'
<1>1. stack'[t] = new /\ \A u \in Threads : u # t => stack'[u] = stack[u]
  BY DEF TypeOK
<1>2. ASSUME NEW u \in Threads
      PROVE  OneCall(stack'[u])
  <2>1. CASE u = t
    BY <1>1, <2>1
  <2>2. CASE u # t
    BY <1>1, <2>2 DEF OneCallOK
  <2> QED
    BY <2>1, <2>2
<1>3. (\A u \in Threads : OneCall(stack'[u])) => OneCallOK'
  BY DEF OneCallOK, OneCall
<1> QED
  BY <1>2, <1>3

LEMMA OneCallAtPush ==
  ASSUME TypeOK, OneCallOK, NEW t \in Threads, stack[t] = << >>, NEW f, Push(t, f),
         f.op # "sweep", f.op = "consume" => f.then # "clear"
  PROVE  OneCallOK'
<1>1. stack' = [stack EXCEPT ![t] = <<f>>]
  BY DEF Push
<1>2. OneCall(<<f>>)
  BY DEF OneCall
<1> QED
  BY <1>1, <1>2, OneCallIf

LEMMA OneCallAtReplace ==
  ASSUME TypeOK, OneCallOK, NEW t \in Threads, stack[t] # << >>, NEW f, Replace(t, f),
         f.op # "sweep", f.op = "consume" => f.then # "clear"
  PROVE  OneCallOK'
<1>1. Tail(stack[t]) = << >>
  BY InOneCall DEF OneCallOK
<1>2. stack' = [stack EXCEPT ![t] = <<f>>]
  <2>1. <<f>> \o << >> = <<f>>
    OBVIOUS
  <2> QED
    BY <1>1, <2>1 DEF Replace
<1>3. OneCall(<<f>>)
  BY DEF OneCall
<1> QED
  BY <1>2, <1>3, OneCallIf

LEMMA OneCallAtPop ==
  ASSUME TypeOK, OneCallOK, NEW t \in Threads, stack[t] # << >>, Pop(t)
  PROVE  OneCallOK' /\ stack'[t] = << >> /\ \A u \in Threads : u # t => stack'[u] = stack[u]
<1>1. Tail(stack[t]) = << >>
  BY InOneCall DEF OneCallOK
<1>2. stack' = [stack EXCEPT ![t] = << >>]
  BY <1>1 DEF Pop
<1>3. OneCall(<< >>)
  BY DEF OneCall
<1>4. stack'[t] = << >> /\ \A u \in Threads : u # t => stack'[u] = stack[u]
  BY <1>2 DEF TypeOK
<1> QED
  BY <1>2, <1>3, <1>4, OneCallIf

(* What a careful client does not do.                                      *)
LEMMA NeverClears ==
  ASSUME IndInv, LocalInv, OneCallOK, IsCareful, phase[Main] # "exiting", NEW t \in Threads
  PROVE  /\ ~At(t, "sweep") /\ ~StartSweep(t) /\ ~Clear(t) /\ ~ConsumeOne(t) /\ ~DeleteState
         /\ ~InitFails(t)
         /\ MayCall(t) => stack[t] = << >>
<1>1. ~At(t, "sweep") /\ ~StartSweep(t)
  <2>1. stack[t] # << >> => /\ Head(stack[t]).op # "sweep"
                            /\ Head(stack[t]).op = "consume" => Head(stack[t]).then # "clear"
    BY InOneCall DEF OneCallOK
  <2> QED
    BY <2>1 DEF At, StartSweep, Consumed
<1>2. ~ConsumeOne(t)
  <2> SUFFICES ASSUME ConsumeOne(t)
               PROVE  FALSE
    OBVIOUS
  <2>1. \E p \in Threads : queue[state_[t]][p] # << >> /\ state_[t] \in Threads
    BY ConsumeOneIs
  <2> QED
    BY <2>1 DEF IsCareful, LocalInv, LocalOK
<1>3. ~Clear(t) /\ ~InitFails(t) /\ ~DeleteState
  BY DEF Clear, InitFails, DeleteState, IsCareful
<1>4. MayCall(t) => stack[t] = << >>
  BY CallsAlone DEF IsCareful, IndInv
<1> QED
  BY <1>1, <1>2, <1>3, <1>4

LEMMA OneCallStep ==
  ASSUME IndInv, LocalInv, OneCallOK, IsCareful, Next, phase[Main] # "exiting"
  PROVE  OneCallOK'
<1>1. TypeOK
  BY DEF IndInv
<1>2. ASSUME NEW t \in Threads, Work(t)
      PROVE  OneCallOK'
  <2>1. CASE \/ TakeFreePool(t) \/ CreatePoolState(t) \/ FinishNew(t) \/ AddFreePool(t)
             \/ EndDtor(t)
    <3>1. stack[t] # << >> /\ Pop(t)
      BY <2>1 DEF TakeFreePool, CreatePoolState, FinishNew, AddFreePool, EndDtor, Consumed, At
    <3> QED
      BY <1>1, <3>1, OneCallAtPop
  <2>2. CASE FindNoFreePool(t)
    <3>1. stack[t] # << >> /\ Head(stack[t]).op = "init" /\ Head(stack[t]) \in Frame
      BY <2>2, AtIs DEF FindNoFreePool
    <3>2. PICK p \in Threads : Replace(t, [Head(stack[t]) EXCEPT !.seen = @ \union {p}])
      BY <2>2 DEF FindNoFreePool
    <3>3. [Head(stack[t]) EXCEPT !.seen = @ \union {p}].op = "init"
      BY <3>1 DEF Frame
    <3> QED
      BY <1>1, <3>1, <3>2, <3>3, OneCallAtReplace
  <2>3. CASE FindNoRequest(t)
    <3>1. PICK f : f = [Head(stack[t]) EXCEPT !.dry = TRUE]
      OBVIOUS
    <3>2. f.op = "consume" /\ f.then = Head(stack[t]).then
      BY <2>3, <3>1, NextFrames
    <3>3. /\ Replace(t, f) /\ stack[t] # << >> /\ Head(stack[t]).op = "consume"
      BY <2>3, <3>1 DEF FindNoRequest, At
    <3>4. f.then # "clear"
      BY <3>2, <3>3, InOneCall DEF OneCallOK
    <3> QED
      BY <1>1, <3>2, <3>3, <3>4, OneCallAtReplace
  <2>4. ~ConsumeOne(t) /\ ~StartSweep(t) /\ ~InitFails(t) /\ ~At(t, "sweep")
    BY NeverClears
  <2> QED
    BY <1>2, <2>1, <2>2, <2>3, <2>4 DEF Work, SweepBlock, SweepNextPool, EndSweep
<1>3. ASSUME NEW t \in Threads, Call(t)
      PROVE  OneCallOK'
  <2>1. CASE Start(t)
    <3>1. stack[t] = << >> /\ Push(t, Scan)
      BY <2>1 DEF Start, IndInv, ThreadsOK, ThreadFits
    <3> QED
      BY <1>1, <3>1, OneCallAtPush DEF Scan
  <2>2. CASE New(t)
    <3>1. stack[t] = << >>
      BY <2>2, NeverClears DEF New
    <3>2. CASE UNCHANGED stack
      BY <3>2 DEF OneCallOK
    <3>3. CASE Push(t, Consume("new", ps[state_[t]].next_pool))
      <4>1. PICK f : f = Consume("new", ps[state_[t]].next_pool)
        OBVIOUS
      <4>2. f.op = "consume" /\ f.then = "new"
        BY <4>1 DEF Consume
      <4> QED
        BY <1>1, <3>1, <3>3, <4>1, <4>2, OneCallAtPush
    <3> QED
      BY <2>2, <3>2, <3>3 DEF New
  <2>3. CASE Exit(t)
    <3>1. stack[t] = << >> /\ Push(t, Consume("destroy", 0))
      BY <2>3 DEF Exit
    <3>2. Consume("destroy", 0).op = "consume" /\ Consume("destroy", 0).then = "destroy"
      BY DEF Consume
    <3> QED
      BY <1>1, <3>1, <3>2, OneCallAtPush
  <2>4. ASSUME NEW x \in live, Delete(t, x)
        PROVE  OneCallOK'
    <3>1. stack[t] = << >>
      BY <2>4, NeverClears DEF Delete
    <3>2. PICK then \in {"free", "enqueue"} : Push(t, Dtor(x, then))
      BY <2>4 DEF Delete
    <3>3. Dtor(x, then).op = "dtor"
      BY DEF Dtor
    <3> QED
      BY <1>1, <3>1, <3>2, <3>3, OneCallAtPush
  <2>5. ~Clear(t)
    BY NeverClears
  <2> QED
    BY <1>3, <2>1, <2>2, <2>3, <2>4, <2>5 DEF Call
<1>4. CASE ExitProcess
  <2>1. UNCHANGED stack
    BY <1>4 DEF ExitProcess
  <2> QED
    BY <2>1 DEF OneCallOK
<1>5. ~DeleteState
  BY DEF DeleteState
<1> QED
  BY <1>2, <1>3, <1>4, <1>5 DEF Next

(* All but five steps leave the PoolStates alone.                          *)
LEMMA CareRests ==
  ASSUME IndInv, LocalInv, RoomOK, OneCallOK, IsCareful, Next, phase[Main] # "exiting",
         \A t \in Threads : ~CreatePoolState(t) /\ ~New(t) /\ ~FinishNew(t) /\ ~EndDtor(t),
         \A t \in Threads : \A x \in live : ~Delete(t, x)
  PROVE  UNCHANGED ps /\ Rests
<1>1. ASSUME NEW t \in Threads, Work(t)
      PROVE  UNCHANGED ps
  <2>1. CASE TakeFreePool(t)
    <3>1. PICK p \in Threads :
            /\ free_pools[p] # << >>
            /\ free_pools' = [free_pools EXCEPT ![p] = Tail(@)]
            /\ ps[Head(free_pools[p])].num_free_pools # 0 => UNCHANGED ps
      BY <2>1 DEF TakeFreePool
    <3>2. Head(free_pools[p]) \in Threads /\ ps[Head(free_pools[p])] # Null
      BY <3>1, TakeOffer DEF IndInv, OwnersOK
    <3>3. ps[Head(free_pools[p])].num_free_pools > 0
      BY <3>2 DEF States, RoomOK, RoomFor, IsCareful
    <3> QED
      BY <3>1, <3>3
  <2>2. CASE FindNoFreePool(t) \/ FindNoRequest(t) \/ AddFreePool(t)
    BY <2>2 DEF FindNoFreePool, FindNoRequest, AddFreePool
  <2>3. ~ConsumeOne(t) /\ ~StartSweep(t) /\ ~InitFails(t) /\ ~At(t, "sweep")
    BY NeverClears
  <2> QED
    BY <1>1, <2>1, <2>2, <2>3 DEF Work, SweepBlock, SweepNextPool, EndSweep
<1>2. ASSUME NEW t \in Threads, Call(t)
      PROVE  UNCHANGED ps
  BY <1>2 DEF Call, Start, Clear, Exit
<1>3. ASSUME ExitProcess \/ DeleteState
      PROVE  UNCHANGED ps
  BY <1>3 DEF ExitProcess, DeleteState
<1>4. \A t \in Threads : ~Starts(t)
  BY NeverClears DEF Starts, SweepBlock
<1>5. UNCHANGED ps
  BY <1>1, <1>2, <1>3 DEF Next
<1>6. Rests
  BY <1>4, OthersRest
<1> QED
  BY <1>5, <1>6

-----------------------------------------------------------------------------
(* New's wait and the lists, when one PoolState changes or none does.      *)
LEMMA WaitsAt ==
  ASSUME TypeOK, WaitsOK, NEW r, NEW new, ps' = [ps EXCEPT ![r] = new],
         \A u \in Threads : state_'[u] = r => NewFrames(stack'[u]) = {},
         \A u \in Threads : NewStays(u),
         \A u \in Threads : NewFrames(stack[u]) # {} => state_[u] \in Threads
  PROVE  WaitsOK'
<1> SUFFICES ASSUME NEW u \in Threads, NEW f \in NewFrames(stack'[u])
             PROVE  /\ f.active = ps'[state_'[u]].next_pool
                    /\ ~HasFreeBlock(ps'[state_'[u]], f.active)
  BY DEF WaitsOK, NewFrames, HasFreeBlock, IsAnyBlockAvailable, Inner
<1>1. UNCHANGED state_[u]
  BY DEF NewStays
<1>2. PICK h \in NewFrames(stack[u]) : h.active = f.active
  BY DEF NewStays
<1>3. state_'[u] # r /\ state_[u] \in Threads
  BY <1>2
<1>4. ps'[state_'[u]] = ps[state_[u]]
  BY <1>1, <1>3 DEF TypeOK
<1> QED
  BY <1>2, <1>4 DEF WaitsOK

LEMMA WaitsRest ==
  ASSUME TypeOK, WaitsOK, UNCHANGED ps, \A u \in Threads : NewStays(u) \/ NewWaits(u)
  PROVE  WaitsOK'
<1> SUFFICES ASSUME NEW u \in Threads, NEW f \in NewFrames(stack'[u])
             PROVE  /\ f.active = ps[state_'[u]].next_pool
                    /\ ~HasFreeBlock(ps[state_'[u]], f.active)
  BY DEF WaitsOK, NewFrames, HasFreeBlock, IsAnyBlockAvailable, Inner
<1>1. CASE NewStays(u)
  <2>1. UNCHANGED state_[u]
    BY <1>1 DEF NewStays
  <2>2. PICK h \in NewFrames(stack[u]) : h.active = f.active
    BY <1>1 DEF NewStays
  <2> QED
    BY <2>1, <2>2 DEF WaitsOK
<1>2. CASE NewWaits(u)
  <2>1. UNCHANGED state_
    BY <1>2 DEF NewWaits, New
  <2>2. /\ ~HasFreeBlock(ps[state_[u]], ps[state_[u]].next_pool)
        /\ f.active = ps[state_[u]].next_pool \/ \E h \in NewFrames(stack[u]) : h.active = f.active
    BY <1>2 DEF NewWaits
  <2> QED
    BY <2>1, <2>2 DEF WaitsOK
<1> QED
  BY <1>1, <1>2

LEMMA ListsAt ==
  ASSUME TypeOK, ListsOK, NEW r \in Threads, NEW new, ps' = [ps EXCEPT ![r] = new],
         NEW c, IsListOf(c, new), ListedIn(c, new.num_free_pools, r)',
         \A u \in Threads : \A f \in DtorFrames(stack'[u]) :
           f \in DtorFrames(stack[u]) \/ f.x[1] = r
  PROVE  ListsOK'
<1>1. ps'[r] = new /\ \A s \in Threads : s # r => ps'[s] = ps[s]
  BY DEF TypeOK
<1> SUFFICES ASSUME NEW s \in Threads, ps'[s] # Null
             PROVE  Listed(s)'
  BY DEF ListsOK, States
<1>2. CASE s = r
  <2>1. ps'[s] = new
    BY <1>1, <1>2
  <2>2. IsListOf(c, ps'[s]) /\ ListedIn(c, ps[s].num_free_pools, s)'
    BY <1>2, <2>1 DEF ListedIn
  <2> QED
    BY <2>2 DEF Listed, IsListOf, ListsFreePools, PoolIds, Inner, HasFreeBlock,
                IsAnyBlockAvailable
<1>3. CASE s # r
  <2>1. ps'[s] = ps[s]
    BY <1>1, <1>3
  <2>2. PICK d : IsListOf(d, ps[s]) /\ ListedIn(d, ps[s].num_free_pools, s)
    BY <2>1 DEF ListsOK, States, Listed
  <2>3. IsListOf(d, ps'[s])
    BY <2>1, <2>2
  <2>4. ListedIn(d, ps[s].num_free_pools, s)'
    BY <1>3, <2>1, <2>2 DEF ListedIn
  <2> QED
    BY <2>3, <2>4 DEF Listed, IsListOf, ListsFreePools, PoolIds, Inner, HasFreeBlock,
                      IsAnyBlockAvailable
<1> QED
  BY <1>2, <1>3

LEMMA ListsRest ==
  ASSUME TypeOK, ListsOK, UNCHANGED ps, Rests
  PROVE  ListsOK'
<1>1. \A u \in Threads : DtorFrames(stack'[u]) \subseteq DtorFrames(stack[u])
  BY DEF Rests
<1> SUFFICES ASSUME NEW s \in Threads, ps'[s] # Null
             PROVE  Listed(s)'
  BY DEF ListsOK, States
<1>2. PICK d : IsListOf(d, ps[s]) /\ ListedIn(d, ps[s].num_free_pools, s)
  BY DEF ListsOK, States, Listed
<1>3. ListedIn(d, ps[s].num_free_pools, s)'
  BY <1>1, <1>2 DEF ListedIn
<1> QED
  BY <1>2, <1>3 DEF Listed

-----------------------------------------------------------------------------
(* The steps that change a PoolState, while the process does not end.      *)
CareNow ==
  /\ IndInv /\ LocalInv /\ RoomOK /\ IsCareful /\ phase[Main] # "exiting"
  /\ OneCallOK /\ WaitsOK /\ ListsOK

LEMMA CareIs ==
  ASSUME CareNow
  PROVE  /\ TypeOK /\ IndInv /\ LocalInv /\ RoomOK /\ IsCareful /\ Does("local")
         /\ phase[Main] # "exiting" /\ MaxPools \in Nat
         /\ OneCallOK /\ WaitsOK /\ ListsOK
         /\ \A u \in Threads : NewFrames(stack[u]) # {} => state_[u] \in Threads
         /\ \A u \in Threads : \A f \in DtorFrames(stack[u]) : ps[f.x[1]] # Null
<1>1. TypeOK /\ IndInv /\ ThreadsOK /\ IsCareful
  BY DEF CareNow, IndInv
<1>2. ASSUME NEW u \in Threads, NEW f \in NewFrames(stack[u])
      PROVE  state_[u] \in Threads
  <2>1. FrameFits(f, phase[u], state_[u], ps) /\ f.op = "consume"
    BY <1>1 DEF NewFrames, ThreadsOK, FramesFit
  <2>2. state_[u] # Null
    BY <2>1 DEF FrameFits
  <2> QED
    BY <1>1, <2>2 DEF TypeOK
<1>3. ASSUME NEW u \in Threads, NEW f \in DtorFrames(stack[u])
      PROVE  ps[f.x[1]] # Null
  <2>1. FrameFits(f, phase[u], state_[u], ps) /\ f.op = "dtor"
    BY <1>1 DEF DtorFrames, ThreadsOK, FramesFit
  <2> QED
    BY <2>1 DEF FrameFits
<1> QED
  BY <1>1, <1>2, <1>3, ClientIs DEF CareNow, IsCareful

LEMMA CareState ==
  ASSUME CareNow, NEW s \in Threads, ps[s] # Null
  PROVE  /\ ps[s] \in PoolStateRecord(PoolNames, MaxPools)
         /\ Len(ps[s].pools) \in Nat /\ Len(ps[s].pools) <= MaxPools
         /\ ps[s].next_pool \in PoolIds(ps[s])
         /\ PoolStateOK(ps[s], s, PoolNames, MaxPools, Claimed)
         /\ ps[s].num_free_pools > 0 /\ RoomFor(s)
         /\ \E c : IsListOf(c, ps[s]) /\ ListedIn(c, ps[s].num_free_pools, s)
<1>1. s \in States
  BY DEF States
<1>2. Listed(s) /\ RoomFor(s)
  BY <1>1, CareIs DEF ListsOK, RoomOK, IsCareful
<1>3. TypeOK /\ StatesOK
  BY CareIs DEF IndInv
<1> QED
  BY <1>2, <1>3, StateIs DEF Listed, RoomFor

(* The owner of r has none of its objects' destructors to run.             *)
LEMMA ListedAlone ==
  ASSUME CareNow, NEW t \in Threads, NEW r \in Threads, state_[t] = r,
         \A u \in Threads : \A f \in DtorFrames(stack'[u]) :
           u # t /\ f \in DtorFrames(stack[u]),
         NEW c, NEW n
  PROVE  ListedIn(c, n, r)'
<1> SUFFICES ASSUME NEW u \in Threads, NEW f \in DtorFrames(stack'[u]), f.x[1] = r
             PROVE  FALSE
  BY DEF ListedIn
<1>1. u # t /\ f \in DtorFrames(stack[u])
  OBVIOUS
<1>2. state_[u] = r
  BY <1>1, CareIs, DtorIsOwners
<1> QED
  BY <1>1, <1>2, CareIs, SoleOwner

(* The owner t of r has its PoolState changed, and is in no New after it.  *)
LEMMA CareAtOwn ==
  ASSUME CareNow, NEW t \in Threads, NEW r \in Threads, state_[t] = r, UNCHANGED state_,
         NEW new, ps' = [ps EXCEPT ![r] = new],
         \A u \in Threads : NewStays(u), NewFrames(stack'[t]) = {},
         \A u \in Threads : \A f \in DtorFrames(stack'[u]) :
           f \in DtorFrames(stack[u]) \/ f.x[1] = r,
         NEW c, IsListOf(c, new), ListedIn(c, new.num_free_pools, r)'
  PROVE  WaitsOK' /\ ListsOK'
<1>1. ASSUME NEW u \in Threads, state_'[u] = r
      PROVE  NewFrames(stack'[u]) = {}
  <2>1. u = t
    BY <1>1, CareIs, SoleOwner
  <2> QED
    BY <2>1
<1>2. WaitsOK'
  BY <1>1, CareIs, WaitsAt
<1>3. ListsOK'
  BY CareIs, ListsAt
<1> QED
  BY <1>2, <1>3

-----------------------------------------------------------------------------
LEMMA CareAtCreate ==
  ASSUME CareNow, NEW t \in Threads, CreatePoolState(t)
  PROVE  WaitsOK' /\ ListsOK'
<1>1. /\ stack[t] # << >> /\ Head(stack[t]).op = "init" /\ Pop(t)
      /\ ps' = [ps EXCEPT ![t] = FreshPoolState] /\ state_' = [state_ EXCEPT ![t] = t]
  BY DEF CreatePoolState, At
<1>2. Tail(stack[t]) = << >>
  BY <1>1, CareIs, AtBottom
<1>3. stack'[t] = << >> /\ \A u \in Threads : u # t => stack'[u] = stack[u]
  BY <1>1, <1>2, CareIs DEF Pop, TypeOK
<1>4. ps[t] = Null
  <2>1. phase[t] = "running" /\ state_[t] = Null
    BY <1>1, CareIs, InCall DEF FrameFits
  <2> QED
    BY <2>1, CareIs DEF IndInv, ThreadsOK, ThreadFits
<1>5. \A u \in Threads : u # t => UNCHANGED state_[u]
  BY <1>1, CareIs DEF TypeOK
<1>6. \A u \in Threads : NewStays(u)
  BY <1>1, <1>2, <1>5, CareIs, NewStaysAtPop
<1>7. ASSUME NEW u \in Threads, state_'[u] = t
      PROVE  NewFrames(stack'[u]) = {}
  <2>1. CASE u = t
    BY <1>3, <2>1, NoFrames DEF NewFrames
  <2>2. CASE u # t
    <3>1. state_[u] = t
      BY <1>5, <1>7, <2>2
    <3>2. ps[t] # Null
      BY <3>1, CareIs, NullAssumption DEF IndInv, ThreadsOK, ThreadFits
    <3> QED
      BY <1>4, <3>2
  <2> QED
    BY <2>1, <2>2
<1>8. WaitsOK'
  BY <1>1, <1>6, <1>7, CareIs, WaitsAt
<1>9. PICK c : IsListOf(c, FreshPoolState)
  BY FirstList
<1>10. ASSUME NEW u \in Threads, NEW f \in DtorFrames(stack'[u])
       PROVE  f \in DtorFrames(stack[u]) /\ f.x[1] # t
  <2>1. u # t
    BY <1>3, <1>10, NoFrames
  <2>2. f \in DtorFrames(stack[u])
    BY <1>3, <1>10, <2>1
  <2> QED
    BY <1>4, <2>2, CareIs
<1>11. ListedIn(c, FreshPoolState.num_free_pools, t)'
  BY <1>10 DEF ListedIn, FreshPoolState
<1>12. ListsOK'
  BY <1>1, <1>9, <1>10, <1>11, CareIs, ListsAt
<1> QED
  BY <1>8, <1>12

LEMMA CareAtNew ==
  ASSUME CareNow, Next, NEW t \in Threads, New(t)
  PROVE  WaitsOK' /\ ListsOK'
<1>1. stack[t] = << >> /\ UNCHANGED state_ /\ phase[t] = "running"
  BY CareIs, NeverClears DEF New, MayCall
<1>2. PICK r \in Threads : r = state_[t]
  BY ClientAssumption DEF New
<1>3. ps[r] # Null
  BY <1>1, <1>2, CareIs, NullAssumption DEF IndInv, ThreadsOK, ThreadFits
<1>4. CASE HasFreeBlock(ps[r], ps[r].next_pool)
  <2>1. Construct(t, r, ps[r].next_pool, ps[r]) /\ UNCHANGED stack
    BY <1>2, <1>4 DEF New
  <2>2. PICK new : new = AllocateIn(ps[r], ps[r].next_pool, <<r, ps[r].next_pool>>)
    OBVIOUS
  <2>3. ps' = [ps EXCEPT ![r] = new]
    <3>1. /\ ps[r] \in PoolStateRecord(PoolNames, MaxPools)
          /\ ps[r].next_pool \in PoolIds(ps[r])
      BY <1>3, CareState
    <3>2. ps' = [ps EXCEPT ![r] = AllocateIn(ps[r], ps[r].next_pool, <<r, ps[r].next_pool>>)]
      BY <2>1, <3>1, ConstructIs
    <3> QED
      BY <2>2, <3>2
  <2>4. PICK c : IsListOf(c, ps[r])
    BY <1>3, CareState
  <2>5. IsListOf(c, new)
    BY <1>3, <2>2, <2>4, CareIs, CareState, ListTaken
  <2>6. NewFrames(stack'[t]) = {} /\ DtorFrames(stack'[t]) = {}
    BY <1>1, <2>1, NoFrames DEF NewFrames
  <2>7. \A u \in Threads : NewStays(u)
    BY <1>1, <2>1 DEF NewStays
  <2>8. \A u \in Threads : \A f \in DtorFrames(stack'[u]) : u # t /\ f \in DtorFrames(stack[u])
    BY <2>1, <2>6
  <2>9. ListedIn(c, new.num_free_pools, r)'
    BY <1>2, <2>8, ListedAlone
  <2> QED
    BY <1>1, <1>2, <2>3, <2>5, <2>6, <2>7, <2>8, <2>9, CareAtOwn
<1>5. CASE ~HasFreeBlock(ps[r], ps[r].next_pool)
  <2>1. PICK f : f = Consume("new", ps[r].next_pool)
    OBVIOUS
  <2>2. Push(t, f) /\ UNCHANGED <<ps, phase>>
    BY <1>2, <1>5, <2>1 DEF New
  <2>3. f \in Frame /\ f.op # "dtor"
    BY <1>2, <1>5, <2>1, CareIs, NextFrames DEF Consume
  <2>4. Rests
    BY <1>1, <2>2, <2>3, CareIs, RestsAtPush
  <2> QED
    BY <2>2, <2>4, CareIs, NewStep, WaitsRest, ListsRest
<1> QED
  BY <1>4, <1>5

LEMMA CareAtDelete ==
  ASSUME CareNow, NEW t \in Threads, NEW x \in live, Delete(t, x)
  PROVE  WaitsOK' /\ ListsOK'
<1>1. stack[t] = << >> /\ UNCHANGED state_ /\ AsTheClientDoes(t, x)
  BY CareIs, NeverClears DEF Delete
<1>2. PICK r \in Threads : r = x[1] /\ r = state_[t]
  BY <1>1, CareIs, DeleteIs DEF AsTheClientDoes
<1>3. PICK f \in Frame : f = Dtor(x, "free") /\ Push(t, f)
  BY <1>2, CareIs, DeleteIs
<1>4. f.op = "dtor" /\ f.x = x
  BY <1>3 DEF Dtor
<1>5. ps[r] # Null /\ x[2] \in PoolIds(ps[r])
  BY <1>2, CareIs, DeleteIs DEF IsThere
<1>6. PICK new : new = SetNextFreePool(ps[r], x[2])
  OBVIOUS
<1>7. ps' = [ps EXCEPT ![r] = new]
  BY <1>2, <1>6, CareIs, DeleteIs
<1>8. /\ DtorFrames(stack'[t]) = {f} /\ NewFrames(stack'[t]) = {}
      /\ \A u \in Threads : u # t => stack'[u] = stack[u]
  <2>1. /\ DtorFrames(stack'[t]) = DtorFrames(stack[t]) \union {f}
        /\ Range(stack'[t]) = Range(stack[t]) \union {f}
        /\ \A u \in Threads : u # t => stack'[u] = stack[u]
    BY <1>3, <1>4, CareIs, DeletedFrames
  <2>2. DtorFrames(stack[t]) = {} /\ Range(stack[t]) = {}
    BY <1>1, NoFrames
  <2> QED
    BY <1>4, <2>1, <2>2 DEF NewFrames
<1>9. \A u \in Threads : NewStays(u)
  BY <1>1, <1>3, <1>4, CareIs, NewStaysAtPush
<1>10. \A u \in Threads : \A g \in DtorFrames(stack'[u]) : g \in DtorFrames(stack[u]) \/ g.x[1] = r
  BY <1>2, <1>4, <1>8
<1>11. PICK c : /\ IsListOf(c, new)
                /\ \E k \in 1 .. new.num_free_pools : c[k] = x[2]
  <2>1. PICK d : IsListOf(d, ps[r])
    BY <1>5, CareState
  <2>2. CASE HasFreeBlock(ps[r], x[2])
    <3>1. new = ps[r]
      BY <1>6, <2>2 DEF SetNextFreePool
    <3>2. \E k \in 1 .. ps[r].num_free_pools : d[k] = x[2]
      BY <1>5, <2>1, <2>2, CareIs, CareState, ListIs
    <3> QED
      BY <2>1, <3>1, <3>2
  <2>3. CASE ~HasFreeBlock(ps[r], x[2])
    <3>1. HasFreeBlock(ps[r], ps[r].next_pool)
      BY <1>1, <1>2, <2>3, CareIs DEF AsTheClientDoes, IsCareful
    <3>2. ps[r].num_free_pools + 1 < SizeT
      <4>1. /\ x \in Coming(r) /\ Coming(r)' \subseteq Coming(r) \ {x}
        BY <1>2, CareIs, ComingAtDelete
      <4>2. UNCHANGED client
        BY DEF Delete
      <4>3. ps'[r] = new
        BY <1>7, CareIs DEF TypeOK
      <4>4. new.num_free_pools = (ps[r].num_free_pools + 1) % SizeT
        BY <1>5, <1>6, <2>3, CareIs, CareState, ListAtPush
      <4>5. Renews(r)' => Renews(r)
        BY <1>9, RenewsOnIf
      <4> QED
        BY <1>5, <4>1, <4>2, <4>3, <4>4, <4>5, CareIs, CareState, RoomAtPush
    <3>3. PICK e : IsListOf(e, new) /\ e[1] = x[2]
      BY <1>5, <1>6, <2>1, <2>3, <3>1, <3>2, CareIs, CareState, PushedList
    <3>4. new.num_free_pools \in Nat
      <4>1. new.num_free_pools = (ps[r].num_free_pools + 1) % SizeT
        BY <1>5, <1>6, <2>3, CareIs, CareState, ListAtPush
      <4>2. ps[r].num_free_pools \in Nat
        BY <1>5, CareState, CountIs
      <4> QED
        BY <4>1, <4>2, SizeTAssumption
    <3>5. 1 \in 1 .. new.num_free_pools
      BY <3>3, <3>4 DEF IsListOf
    <3> QED
      BY <3>3, <3>5
  <2> QED
    BY <2>2, <2>3
<1>12. ListedIn(c, new.num_free_pools, r)'
  <2> SUFFICES ASSUME NEW u \in Threads, NEW g \in DtorFrames(stack'[u]), g.x[1] = r
               PROVE  \E k \in 1 .. new.num_free_pools : c[k] = g.x[2]
    BY DEF ListedIn
  <2>1. CASE u = t
    BY <1>4, <1>8, <1>11, <2>1
  <2>2. CASE u # t
    <3>1. g \in DtorFrames(stack[u])
      BY <1>8, <2>2
    <3>2. state_[u] = r
      BY <3>1, CareIs, DtorIsOwners
    <3> QED
      BY <1>2, <2>2, <3>2, CareIs, SoleOwner
  <2> QED
    BY <2>1, <2>2
<1> QED
  BY <1>1, <1>2, <1>7, <1>8, <1>9, <1>10, <1>11, <1>12, CareAtOwn

LEMMA CareAtEndDtor ==
  ASSUME CareNow, NEW t \in Threads, EndDtor(t)
  PROVE  WaitsOK' /\ ListsOK'
<1>1. PICK x : x = Head(stack[t]).x
  OBVIOUS
<1>2. /\ x \in Objects /\ x[1] \in Threads /\ IsThere(x) /\ stack[t] # << >>
      /\ Head(stack[t]) \in DtorFrames(stack[t])
      /\ Head(stack[t]).then = "free" => ps' = [ps EXCEPT ![x[1]] = FreeIn(@, x[2], x[3])]
      /\ Pop(t) /\ UNCHANGED state_
  BY <1>1, CareIs, EndDtorIs
<1>3. Head(stack[t]).then = "free" /\ x[1] = state_[t]
  BY <1>1, <1>2, CareIs, DtorIsOwners
<1>4. PICK r \in Threads : r = x[1] /\ r = state_[t]
  BY <1>2, <1>3
<1>5. ps[r] # Null /\ x[2] \in PoolIds(ps[r])
  BY <1>2, <1>4 DEF IsThere
<1>6. PICK new : new = FreeIn(ps[r], x[2], x[3])
  OBVIOUS
<1>7. ps' = [ps EXCEPT ![r] = new]
  BY <1>2, <1>3, <1>4, <1>6
<1>8. stack'[t] = << >> /\ \A u \in Threads : u # t => stack'[u] = stack[u]
  BY <1>2, CareIs, OneCallAtPop
<1>9. NewFrames(stack'[t]) = {} /\ DtorFrames(stack'[t]) = {}
  BY <1>8, NoFrames DEF NewFrames
<1>10. \A u \in Threads : NewStays(u)
  BY <1>2, CareIs, NewStaysAtPop
<1>11. \A u \in Threads : \A f \in DtorFrames(stack'[u]) : u # t /\ f \in DtorFrames(stack[u])
  BY <1>8, <1>9
<1>12. PICK c : IsListOf(c, ps[r]) /\ ListedIn(c, ps[r].num_free_pools, r)
  BY <1>5, CareState
<1>13. \E k \in 1 .. ps[r].num_free_pools : c[k] = x[2]
  BY <1>1, <1>2, <1>4, <1>12 DEF ListedIn
<1>14. IsListOf(c, new)
  BY <1>5, <1>6, <1>12, <1>13, CareIs, CareState, ListFreed
<1>15. ListedIn(c, new.num_free_pools, r)'
  BY <1>4, <1>11, ListedAlone
<1> QED
  BY <1>2, <1>4, <1>7, <1>9, <1>10, <1>11, <1>14, <1>15, CareAtOwn

(* The end of New finds the next pool of the list, or that there is none.  *)
LEMMA FinishNewLists ==
  ASSUME CareNow, NEW t \in Threads, FinishNew(t), NEW s \in Threads, s = state_[t]
  PROVE  /\ UNCHANGED fault
         /\ ps[s] # Null
         /\ \E new, c : /\ ps' = [ps EXCEPT ![s] = new] /\ IsListOf(c, new)
                        /\ \/ PoolIds(new) = PoolIds(ps[s])
                           \/ \A i \in PoolIds(ps[s]) : ~HasFreeBlock(ps[s], i)
<1>1. PICK active :
        /\ ps[s] # Null /\ active = Head(stack[t]).active
        /\ Head(stack[t]) \in NewFrames(stack[t]) /\ phase[t] = "running"
        /\ \/ FinishNewHere(t, s, active)
           \/ FinishNewNext(t, s, active)
           \/ FinishNewAdd(t, s, active)
  BY CareIs, FinishNewIs
<1>2. active = ps[s].next_pool /\ ~HasFreeBlock(ps[s], active)
  BY <1>1, CareIs DEF WaitsOK
<1>3. /\ ps[s] \in PoolStateRecord(PoolNames, MaxPools) /\ MaxPools \in Nat
      /\ Len(ps[s].pools) \in Nat /\ Len(ps[s].pools) <= MaxPools
      /\ active \in PoolIds(ps[s]) /\ ps[s].num_free_pools > 0
      /\ PoolStateOK(ps[s], s, PoolNames, MaxPools, Claimed)
  BY <1>1, <1>2, CareIs, CareState
<1>4. PICK c : IsListOf(c, ps[s])
  BY <1>1, CareState
<1>5. PICK drop : drop = DropFullPool(ps[s])
  OBVIOUS
<1>6. /\ drop.pools = ps[s].pools /\ drop \in PoolStateRecord(PoolNames, MaxPools)
      /\ PoolIds(drop) = PoolIds(ps[s])
  BY <1>3, <1>5, ListAtDrop DEF PoolIds
<1>7. ASSUME NEW st \in PoolStateRecord(PoolNames, MaxPools), NEW i \in PoolIds(st),
             i = st.next_pool, Construct(t, s, i, st), NEW d, IsListOf(d, st)
      PROVE  \E new : ps' = [ps EXCEPT ![s] = new] /\ IsListOf(d, new) /\ PoolIds(new) = PoolIds(st)
  <2>1. PICK new : new = AllocateIn(st, i, <<s, i>>)
    OBVIOUS
  <2>2. ps' = [ps EXCEPT ![s] = new]
    BY <1>7, <2>1, ConstructIs
  <2>3. IsListOf(d, new)
    BY <1>3, <1>7, <2>1, ListTaken
  <2>4. PoolIds(new) = PoolIds(st)
    BY <1>3, <2>1, ListAtAllocateIn
  <2> QED
    BY <2>2, <2>3, <2>4
<1>8. ~FinishNewHere(t, s, active)
  BY <1>2 DEF FinishNewHere
<1>9. CASE FinishNewNext(t, s, active)
  <2>1. PICK i : i = NextOfList(drop, active)
    OBVIOUS
  <2>2. PICK st : st = [drop EXCEPT !.next_pool = i]
    OBVIOUS
  <2>3. drop.num_free_pools > 0
    BY <1>5, <1>9 DEF FinishNewNext
  <2>4. /\ i \in PoolIds(drop) /\ HasFreeBlock(drop, i) /\ st.next_pool = i
        /\ \E d : IsListOf(d, st)
    BY <1>2, <1>3, <1>4, <1>5, <2>1, <2>2, <2>3, DroppedList
  <2>5. i \in Nat /\ i < Len(drop.pools) /\ i \in 0 .. MaxPools - 1
    BY <1>3, <1>6, <2>4 DEF PoolIds
  <2>6. Construct(t, s, i, st) /\ UNCHANGED fault
    BY <1>5, <1>9, <2>1, <2>2, <2>4, <2>5 DEF FinishNewNext
  <2>7. st \in PoolStateRecord(PoolNames, MaxPools) /\ st.pools = drop.pools
    BY <1>6, <2>2, <2>5 DEF PoolStateRecord
  <2>8. PoolIds(st) = PoolIds(drop)
    BY <2>7 DEF PoolIds
  <2>9. PICK d : IsListOf(d, st)
    BY <2>4
  <2>10. PICK new : ps' = [ps EXCEPT ![s] = new] /\ IsListOf(d, new) /\ PoolIds(new) = PoolIds(st)
    BY <1>7, <2>4, <2>6, <2>7, <2>8, <2>9
  <2> QED
    BY <1>1, <1>6, <2>6, <2>8, <2>10
<1>10. CASE FinishNewAdd(t, s, active)
  <2>1. PICK st : st = AddNewPool(drop)
    OBVIOUS
  <2>2. /\ drop.num_free_pools = 0 /\ st.next_pool < client.pools
        /\ Construct(t, s, st.next_pool, st) /\ UNCHANGED fault
    BY <1>5, <1>10, <2>1, CareIs DEF FinishNewAdd, IsCareful
  <2>3. PoolStateOK(drop, s, PoolNames, MaxPools, Claimed)
    BY <1>3, <1>5, DropFullPoolOK
  <2>4. st.next_pool = Len(drop.pools)
    BY <2>1 DEF AddNewPool
  <2>5. PoolStateOK(st, s, PoolNames, MaxPools, Claimed)
    BY <1>1, <1>6, <2>1, <2>2, <2>3, <2>4, CareIs, PoolAdded
  <2>6. st \in PoolStateRecord(PoolNames, MaxPools) /\ st.next_pool \in PoolIds(st)
    <3>1. st \in PoolStateRecord(PoolNames, MaxPools) /\ st.next_pool < Len(st.pools)
      BY <2>5 DEF PoolStateOK
    <3>2. st.next_pool \in Nat
      BY <3>1 DEF PoolStateRecord
    <3> QED
      BY <3>1, <3>2 DEF PoolIds
  <2>7. /\ \A i \in PoolIds(ps[s]) : ~HasFreeBlock(ps[s], i)
        /\ \E d : IsListOf(d, st)
    BY <1>2, <1>3, <1>4, <1>5, <2>1, <2>2, NewList
  <2>8. PICK d : IsListOf(d, st)
    BY <2>7
  <2>9. PICK new : ps' = [ps EXCEPT ![s] = new] /\ IsListOf(d, new)
    BY <1>7, <2>2, <2>6, <2>8
  <2> QED
    BY <1>1, <2>2, <2>7, <2>9
<1> QED
  BY <1>1, <1>8, <1>9, <1>10

LEMMA CareAtFinishNew ==
  ASSUME CareNow, NEW t \in Threads, FinishNew(t)
  PROVE  WaitsOK' /\ ListsOK'
<1>1. PICK r \in Threads : r = state_[t] /\ stack[t] # << >> /\ Pop(t) /\ UNCHANGED state_
  BY CareIs, FinishNewIs
<1>2. PICK new, c : ps' = [ps EXCEPT ![r] = new] /\ IsListOf(c, new)
  BY <1>1, FinishNewLists
<1>3. stack'[t] = << >> /\ \A u \in Threads : u # t => stack'[u] = stack[u]
  BY <1>1, CareIs, OneCallAtPop
<1>4. NewFrames(stack'[t]) = {} /\ DtorFrames(stack'[t]) = {}
  BY <1>3, NoFrames DEF NewFrames
<1>5. \A u \in Threads : NewStays(u)
  BY <1>1, CareIs, NewStaysAtPop
<1>6. \A u \in Threads : \A f \in DtorFrames(stack'[u]) : u # t /\ f \in DtorFrames(stack[u])
  BY <1>3, <1>4
<1>7. ListedIn(c, new.num_free_pools, r)'
  BY <1>1, <1>6, ListedAlone
<1> QED
  BY <1>1, <1>2, <1>4, <1>5, <1>6, <1>7, CareAtOwn

-----------------------------------------------------------------------------
LEMMA CareNowStep ==
  ASSUME CareNow, Next
  PROVE  WaitsOK' /\ ListsOK'
<1>1. ASSUME NEW t \in Threads, CreatePoolState(t)
      PROVE  WaitsOK' /\ ListsOK'
  BY <1>1, CareAtCreate
<1>2. ASSUME NEW t \in Threads, New(t)
      PROVE  WaitsOK' /\ ListsOK'
  BY <1>2, CareAtNew
<1>3. ASSUME NEW t \in Threads, FinishNew(t)
      PROVE  WaitsOK' /\ ListsOK'
  BY <1>3, CareAtFinishNew
<1>4. ASSUME NEW t \in Threads, EndDtor(t)
      PROVE  WaitsOK' /\ ListsOK'
  BY <1>4, CareAtEndDtor
<1>5. ASSUME NEW t \in Threads, NEW x \in live, Delete(t, x)
      PROVE  WaitsOK' /\ ListsOK'
  BY <1>5, CareAtDelete
<1>6. ASSUME \A t \in Threads : ~CreatePoolState(t) /\ ~New(t) /\ ~FinishNew(t) /\ ~EndDtor(t),
             \A t \in Threads : \A x \in live : ~Delete(t, x)
      PROVE  WaitsOK' /\ ListsOK'
  <2>1. UNCHANGED ps /\ Rests
    BY <1>6, CareIs, CareRests
  <2> QED
    BY <2>1, CareIs, NewStep, WaitsRest, ListsRest
<1> QED
  BY <1>1, <1>2, <1>3, <1>4, <1>5, <1>6

LEMMA CareStep ==
  ASSUME IndInv, TidyInv, RoomOK, CareOK, [Next]_vars
  PROVE  CareOK'
<1>1. CASE UNCHANGED vars
  <2>1. OneCallOK' <=> OneCallOK
    BY <1>1 DEF vars, OneCallOK
  <2>2. WaitsOK' <=> WaitsOK
    BY <1>1 DEF vars, WaitsOK
  <2>3. ListsOK' <=> ListsOK
    BY <1>1 DEF vars, ListsOK, States, Listed, ListedIn
  <2>4. IsCareful' <=> IsCareful
    BY <1>1 DEF vars, IsCareful, Does
  <2> QED
    BY <1>1, <2>1, <2>2, <2>3, <2>4 DEF vars, CareOK
<1>2. CASE Next
  <2>1. IsCareful' <=> IsCareful
    BY <1>2, ClientStays DEF IsCareful, Does
  <2>2. LocalInv
    BY DEF TidyInv
  <2>3. ASSUME IsCareful, NEW t \in Threads, FinishNew(t)
        PROVE  CareNow
    <3>1. phase[Main] # "exiting"
      BY <2>3, FinishNewIs DEF IndInv, ThreadsOK, ThreadFits
    <3> QED
      BY <2>2, <2>3, <3>1 DEF CareNow, CareOK
  <2>4. ASSUME IsCareful
        PROVE  fault' \notin {"full pool", "out of range"}
    <3>1. ASSUME NEW t \in Threads, FinishNew(t)
          PROVE  fault' = fault
      <4>1. state_[t] \in Threads
        BY <3>1, FinishNewIs
      <4> QED
        BY <2>3, <2>4, <3>1, <4>1, FinishNewLists
    <3>2. fault' = fault \/ fault' \in {fault, "no object"}
      BY <1>2, <3>1, FaultStays
    <3> QED
      BY <2>4, <3>2 DEF CareOK
  <2>5. ASSUME IsCareful, phase'[Main] # "exiting"
        PROVE  OneCallOK' /\ WaitsOK' /\ ListsOK'
    <3>1. CareNow
      BY <1>2, <2>2, <2>5, EndGoesOn DEF CareNow, CareOK
    <3> QED
      BY <1>2, <3>1, CareIs, OneCallStep, CareNowStep
  <2> QED
    BY <2>1, <2>4, <2>5 DEF CareOK
<1> QED
  BY <1>1, <1>2

LEMMA CareInit == Init => CareOK
<1> SUFFICES ASSUME Init
             PROVE  CareOK
  OBVIOUS
<1>1. \A t \in Threads : stack[t] = << >> /\ ps[t] = Null
  BY DEF Init
<1>2. OneCallOK
  BY <1>1 DEF OneCallOK, OneCall
<1>3. WaitsOK
  BY <1>1, NoFrames DEF WaitsOK, NewFrames
<1>4. ListsOK
  BY <1>1 DEF ListsOK, States
<1> QED
  BY <1>2, <1>3, <1>4 DEF Init, CareOK

LEMMA CareInvariant == Spec => [](IndInv /\ TidyInv /\ RoomOK /\ CareOK)
<1>1. IndInv /\ TidyInv /\ RoomOK /\ CareOK /\ [Next]_vars => CareOK'
  BY CareStep
<1> QED
  BY <1>1, CareInit, RoomInvariant, PTL DEF Spec

(* For a careful client the list of free pools is exact until the end.     *)
THEOREM ListStaysExact == Spec => []ChainExact
<1>1. CareOK => ChainExact
  <2> SUFFICES ASSUME CareOK, IsCareful, phase[Main] # "exiting", NEW s \in States
               PROVE  ChainOK(ps[s])
    BY DEF ChainExact
  <2>1. PICK c : IsListOf(c, ps[s])
    BY DEF CareOK, ListsOK, Listed
  <2> QED
    BY <2>1, ListIsChain
<1> QED
  BY <1>1, CareInvariant, PTL

(* For a careful client nothing undefined ever happens, unless a           *)
(* constructor threw: New uses a pool that is there and has a free block,  *)
(* and the sweep at the end finds an object in each used block.            *)
THEOREM CarefulClientsAreSafe == Spec => []NoFault
<1>1. IndInv /\ TidyInv /\ CareOK => NoFault
  <2> SUFFICES ASSUME IndInv, TidyInv, CareOK, IsCareful
               PROVE  fault = "none" \/ (Does("throw") /\ fault = "no object")
    BY DEF NoFault
  <2>1. fault \notin {"full pool", "out of range"}
    BY DEF CareOK
  <2>2. ~Does("throw") => fault # "no object"
    <3>1. ~Does("throw") => LeavesNothing
      BY DEF LeavesNothing, IsCareful
    <3> QED
      BY <3>1 DEF TidyInv, TidyOK
  <2>3. fault \in {"none", "out of range", "full pool", "no object"}
    BY DEF IndInv, TypeOK
  <2> QED
    BY <2>1, <2>2, <2>3
<1> QED
  BY <1>1, CareInvariant, PTL

-----------------------------------------------------------------------------
(* A pool is added only by New, when it found no other.                    *)
SamePoolIds(s) == ps'[s] # Null => PoolIds(ps'[s]) = PoolIds(ps[s])

LEMMA SameIfOne ==
  ASSUME TypeOK, NEW r \in Threads, NEW new, ps' = [ps EXCEPT ![r] = new],
         new = Null \/ PoolIds(new) = PoolIds(ps[r]), NEW s \in Threads
  PROVE  SamePoolIds(s)
<1>1. ps'[r] = new /\ (s # r => ps'[s] = ps[s])
  BY DEF TypeOK
<1>2. CASE s = r
  BY <1>1, <1>2 DEF SamePoolIds
<1>3. CASE s # r
  BY <1>1, <1>3 DEF SamePoolIds
<1> QED
  BY <1>2, <1>3

LEMMA SameAtPush ==
  ASSUME IndInv, NEW x \in Objects, IsThere(x)
  PROVE  /\ PoolIds(SetNextFreePool(ps[x[1]], x[2])) = PoolIds(ps[x[1]])
         /\ PoolIds(FreeIn(ps[x[1]], x[2], x[3])) = PoolIds(ps[x[1]])
<1>1. x[1] \in Threads
  BY ObjectIs
<1>2. /\ ps[x[1]] \in PoolStateRecord(PoolNames, MaxPools) /\ x[2] \in PoolIds(ps[x[1]])
      /\ MaxPools \in Nat
  BY <1>1, StateIs, ClientIs DEF IsThere, IndInv
<1>3. PoolIds(FreeIn(ps[x[1]], x[2], x[3])) = PoolIds(ps[x[1]])
  BY <1>2, ListAtFreeIn
<1>4. CASE HasFreeBlock(ps[x[1]], x[2])
  BY <1>3, <1>4 DEF SetNextFreePool
<1>5. CASE ~HasFreeBlock(ps[x[1]], x[2])
  BY <1>2, <1>3, <1>5, ListAtPush
<1> QED
  BY <1>3, <1>4, <1>5

LEMMA GrowsByNew ==
  ASSUME IndInv, TidyInv, RoomOK, CareOK, IsCareful, Next, \A t \in Threads : ~FinishNew(t),
         NEW s \in Threads, ps[s] # Null
  PROVE  SamePoolIds(s)
<1>1. TypeOK /\ LocalInv /\ MaxPools \in Nat
  BY ClientIs DEF IndInv, TidyInv
<1>2. ASSUME NEW t \in Threads, Work(t)
      PROVE  SamePoolIds(s)
  <2>1. CASE TakeFreePool(t)
    <3>1. PICK p \in Threads :
            /\ free_pools[p] # << >>
            /\ free_pools' = [free_pools EXCEPT ![p] = Tail(@)]
            /\ ps[Head(free_pools[p])].num_free_pools # 0 => UNCHANGED ps
      BY <2>1 DEF TakeFreePool
    <3>2. Head(free_pools[p]) \in Threads /\ ps[Head(free_pools[p])] # Null
      BY <1>1, <3>1, TakeOffer DEF IndInv, OwnersOK
    <3>3. ps[Head(free_pools[p])].num_free_pools > 0
      BY <3>2 DEF States, RoomOK, RoomFor, IsCareful
    <3> QED
      BY <3>1, <3>3 DEF SamePoolIds
  <2>2. CASE CreatePoolState(t)
    <3>1. ps' = [ps EXCEPT ![t] = FreshPoolState]
      BY <2>2 DEF CreatePoolState
    <3>2. ps[t] = Null
      <4>1. stack[t] # << >> /\ Head(stack[t]).op = "init"
        BY <2>2 DEF CreatePoolState, At
      <4>2. phase[t] = "running" /\ state_[t] = Null
        BY <4>1, InCall DEF FrameFits
      <4> QED
        BY <4>2 DEF IndInv, ThreadsOK, ThreadFits
    <3>3. ps'[s] = ps[s]
      BY <1>1, <3>1, <3>2 DEF TypeOK
    <3> QED
      BY <3>3 DEF SamePoolIds
  <2>3. CASE InitFails(t) \/ FindNoFreePool(t) \/ FindNoRequest(t) \/ AddFreePool(t) \/ SweepBlock(t)
    <3>1. UNCHANGED ps
      BY <2>3 DEF InitFails, FindNoFreePool, FindNoRequest, AddFreePool, SweepBlock
    <3> QED
      BY <3>1 DEF SamePoolIds
  <2>4. ~ConsumeOne(t)
    <3> SUFFICES ASSUME ConsumeOne(t)
                 PROVE  FALSE
      OBVIOUS
    <3>1. \E p \in Threads : queue[state_[t]][p] # << >> /\ state_[t] \in Threads
      BY ConsumeOneIs
    <3> QED
      BY <1>1, <3>1 DEF IsCareful, LocalInv, LocalOK
  <2>5. CASE StartSweep(t) \/ SweepNextPool(t)
    <3>1. phase[Main] = "exiting"
      <4> SUFFICES ASSUME phase[Main] # "exiting"
                   PROVE  FALSE
        OBVIOUS
      <4>1. ~At(t, "sweep") /\ ~StartSweep(t)
        BY <1>1, NeverClears DEF CareOK
      <4> QED
        BY <2>5, <4>1 DEF SweepNextPool
    <3>2. UNCHANGED ps
      BY <2>5, <3>1 DEF StartSweep, SweepNextPool, Relink
    <3> QED
      BY <3>2 DEF SamePoolIds
  <2>6. CASE EndDtor(t)
    <3>1. PICK x \in Objects :
            /\ x[1] \in Threads /\ IsThere(x)
            /\ UNCHANGED ps \/ ps' = [ps EXCEPT ![x[1]] = FreeIn(@, x[2], x[3])]
      BY <2>6, EndDtorIs
    <3>2. PICK new : new = FreeIn(ps[x[1]], x[2], x[3])
      OBVIOUS
    <3>3. PoolIds(new) = PoolIds(ps[x[1]])
      BY <3>1, <3>2, SameAtPush
    <3>4. UNCHANGED ps \/ ps' = [ps EXCEPT ![x[1]] = new]
      BY <3>1, <3>2
    <3>5. CASE UNCHANGED ps
      BY <3>5 DEF SamePoolIds
    <3>6. CASE ps' = [ps EXCEPT ![x[1]] = new]
      BY <1>1, <3>1, <3>3, <3>6, SameIfOne
    <3> QED
      BY <3>4, <3>5, <3>6
  <2>7. CASE EndSweep(t)
    <3>1. ps'[s] = Null \/ ps'[s] = ps[s]
      BY <1>1, <2>7 DEF EndSweep, TypeOK
    <3> QED
      BY <3>1 DEF SamePoolIds
  <2> QED
    BY <1>2, <2>1, <2>2, <2>3, <2>4, <2>5, <2>6, <2>7 DEF Work
<1>3. ASSUME NEW t \in Threads, Call(t)
      PROVE  SamePoolIds(s)
  <2>1. CASE New(t)
    <3>1. PICK r \in Threads : r = state_[t]
      BY <2>1, ClientAssumption DEF New
    <3>2. ps[r] # Null
      BY <2>1, <3>1, NullAssumption DEF New, MayCall, IndInv, ThreadsOK, ThreadFits
    <3>3. ps[r] \in PoolStateRecord(PoolNames, MaxPools) /\ ps[r].next_pool \in PoolIds(ps[r])
      BY <3>2, StateIs DEF IndInv
    <3>4. CASE UNCHANGED ps
      BY <3>4 DEF SamePoolIds
    <3>5. CASE Construct(t, r, ps[r].next_pool, ps[r])
      <4>1. PICK new : new = AllocateIn(ps[r], ps[r].next_pool, <<r, ps[r].next_pool>>)
        OBVIOUS
      <4>2. ps' = [ps EXCEPT ![r] = new]
        BY <3>3, <3>5, <4>1, ConstructIs
      <4>3. PoolIds(new) = PoolIds(ps[r])
        BY <1>1, <3>3, <4>1, ListAtAllocateIn
      <4> QED
        BY <1>1, <4>2, <4>3, SameIfOne
    <3> QED
      BY <2>1, <3>1, <3>4, <3>5 DEF New
  <2>2. ASSUME NEW x \in live, Delete(t, x)
        PROVE  SamePoolIds(s)
    <3>1. /\ x \in Objects /\ x[1] \in Threads /\ IsThere(x)
          /\ UNCHANGED ps \/ ps' = [ps EXCEPT ![x[1]] = SetNextFreePool(@, x[2])]
      BY <2>2, DeleteIs
    <3>2. PICK new : new = SetNextFreePool(ps[x[1]], x[2])
      OBVIOUS
    <3>3. PoolIds(new) = PoolIds(ps[x[1]])
      BY <3>1, <3>2, SameAtPush
    <3>4. CASE UNCHANGED ps
      BY <3>4 DEF SamePoolIds
    <3>5. CASE ps' = [ps EXCEPT ![x[1]] = new]
      BY <1>1, <3>1, <3>3, <3>5, SameIfOne
    <3> QED
      BY <3>1, <3>2, <3>4, <3>5
  <2>3. CASE Start(t) \/ Clear(t) \/ Exit(t)
    <3>1. UNCHANGED ps
      BY <2>3 DEF Start, Clear, Exit
    <3> QED
      BY <3>1 DEF SamePoolIds
  <2> QED
    BY <1>3, <2>1, <2>2, <2>3 DEF Call
<1>4. CASE ExitProcess \/ DeleteState
  <2>1. UNCHANGED ps
    BY <1>4 DEF ExitProcess, DeleteState
  <2> QED
    BY <2>1 DEF SamePoolIds
<1> QED
  BY <1>2, <1>3, <1>4 DEF Next

LEMMA GrowStep ==
  ASSUME IndInv, TidyInv, RoomOK, CareOK, [Next]_vars, IsCareful, NEW s \in Threads, Grows(s)
  PROVE  \A i \in PoolIds(ps[s]) : ~HasFreeBlock(ps[s], i)
<1>1. TypeOK /\ LocalInv /\ ps[s] # Null /\ ps'[s] # Null /\ ps'[s] # ps[s]
  <2>1. ps[s] # Null => Len(ps[s].pools) \in Nat
    BY StateIs DEF IndInv
  <2> QED
    BY <2>1 DEF Grows, IndInv, TidyInv
<1>2. Next
  BY <1>1 DEF vars
<1>3. PoolIds(ps'[s]) # PoolIds(ps[s])
  <2>1. PICK m, n : m = Len(ps[s].pools) /\ n = Len(ps'[s].pools)
    OBVIOUS
  <2>2. IndInv'
    BY StepOK
  <2>3. m \in Nat /\ n \in Nat /\ n > m
    <3>1. TypeOK' /\ StatesOK'
      BY <2>2 DEF IndInv
    <3>2. ps'[s] \in PoolStateRecord(PoolNames, MaxPools)
      BY <1>1, <3>1 DEF TypeOK
    <3>3. n \in Nat
      BY <2>1, <3>2, ClientIs, <1>1, PoolStateIs
    <3>4. m \in Nat
      BY <1>1, <2>1, StateIs DEF IndInv
    <3> QED
      BY <2>1, <3>3, <3>4 DEF Grows
  <2>4. m \in 0 .. n - 1 /\ m \notin 0 .. m - 1
    BY <2>3
  <2> QED
    BY <2>1, <2>4 DEF PoolIds
<1>4. PICK t \in Threads : FinishNew(t)
  BY <1>1, <1>2, <1>3, GrowsByNew DEF SamePoolIds
<1>5. CareNow
  <2>1. phase[Main] # "exiting"
    BY <1>4, FinishNewIs DEF IndInv, ThreadsOK, ThreadFits
  <2> QED
    BY <1>1, <2>1 DEF CareNow, CareOK
<1>6. PICK r \in Threads : r = state_[t]
  BY <1>4, FinishNewIs
<1>7. PICK new, c : /\ ps' = [ps EXCEPT ![r] = new]
                    /\ \/ PoolIds(new) = PoolIds(ps[r])
                       \/ \A i \in PoolIds(ps[r]) : ~HasFreeBlock(ps[r], i)
  BY <1>4, <1>5, <1>6, FinishNewLists
<1>8. s = r
  BY <1>1, <1>7 DEF TypeOK
<1>9. ps'[s] = new
  BY <1>1, <1>7, <1>8 DEF TypeOK
<1> QED
  BY <1>3, <1>7, <1>8, <1>9

(* For a careful client New adds a pool only when every block of the state *)
(* is in use.                                                              *)
THEOREM GrowsWhenFull == Spec => GrowsOnlyWhenFull
<1>1. IndInv /\ TidyInv /\ RoomOK /\ CareOK /\ [Next]_vars =>
        [\A s \in Threads :
           IsCareful /\ Grows(s) => \A i \in PoolIds(ps[s]) : ~HasFreeBlock(ps[s], i)]_vars
  BY GrowStep
<1> QED
  BY <1>1, CareInvariant, PTL DEF Spec, GrowsOnlyWhenFull
=============================================================================
