------------------------------ MODULE PoolOps ------------------------------
(***************************************************************************)
(* The operations of Pool<T>::PoolState on the value of its members: the   *)
(* FixedPools of one owner, in the order they were created, and the list   *)
(* of "free pools" threaded through them by next_id, its length kept in    *)
(* num_free_pools.  A pool is named by its position in pools, which is     *)
(* what InnerFixedPool::id always holds.                                   *)
(***************************************************************************)
EXTENDS FixedPoolOps, Sequences

CONSTANT SizeT   (* 2^64: num_free_pools is a size_t                       *)

ASSUME SizeTAssumption == SizeT \in Nat /\ SizeT > 2

Inner(ps, i) == ps.pools[i + 1]

(* InnerFixedPool's constructor: pool number i.                            *)
InnerFixedPool(i) == [next_id |-> i + 1, fp |-> FreshPool]

(* PoolState's constructor: one pool, which is the whole list.             *)
FreshPoolState ==
  [pools |-> <<InnerFixedPool(0)>>, next_pool |-> 0, num_free_pools |-> 1]

HasFreeBlock(ps, i) == IsAnyBlockAvailable(Inner(ps, i).fp)

(* A mistake: the new pool is not counted.                                 *)
AddNewPoolUncounted(ps) ==
  [pools          |-> Append(ps.pools, InnerFixedPool(Len(ps.pools))),
   next_pool      |-> Len(ps.pools),
   num_free_pools |-> ps.num_free_pools]

AddNewPool(ps) ==
  [pools          |-> Append(ps.pools, InnerFixedPool(Len(ps.pools))),
   next_pool      |-> Len(ps.pools),
   num_free_pools |-> (ps.num_free_pools + 1) % SizeT]

(* Mistakes: the pushed pool keeps its old link; nothing is pushed.        *)
SetNextFreePoolUnlinked(ps, i) ==
  IF HasFreeBlock(ps, i)
  THEN ps
  ELSE [ps EXCEPT !.num_free_pools = (@ + 1) % SizeT, !.next_pool = i]

SetNextFreePoolNever(ps, i) == ps

(* Pushes pool i, unless it has a free block and so is in the list.        *)
SetNextFreePool(ps, i) ==
  IF HasFreeBlock(ps, i)
  THEN ps
  ELSE [ps EXCEPT !.num_free_pools = (@ + 1) % SizeT,
                  !.pools[i + 1].next_id = ps.next_pool,
                  !.next_pool = i]

AllocateIn(ps, i, id) == [ps EXCEPT !.pools[i + 1].fp = ForcedAllocate(@, id)]
FreeIn(ps, i, b)      == [ps EXCEPT !.pools[i + 1].fp = ForcedDeAllocate(@, b)]

(* A mistake: the full pool is still counted.                              *)
DropFullPoolCounts(ps) == ps

(* The end of GetActiveFixedPool, when the active pool the call began with *)
(* is still full: one pool fewer is free, and the next of the list, if one *)
(* is left, becomes the head.                                              *)
DropFullPool(ps) ==
  [ps EXCEPT !.num_free_pools = IF @ = 0 THEN SizeT - 1 ELSE @ - 1]

NextOfList(ps, active) == Inner(ps, active).next_id

-----------------------------------------------------------------------------
PoolStateRecord(Ids, MaxPools) ==
  [ pools          : Seq([next_id : 0 .. MaxPools, fp : FixedPoolRecord(Ids)]),
    next_pool      : 0 .. MaxPools - 1,
    num_free_pools : 0 .. SizeT - 1 ]

PoolIds(ps) == 0 .. Len(ps.pools) - 1

(* c lists the free pools from next_pool on, in the order of next_id: each *)
(* once, every pool with a free block among them, and only the first may   *)
(* be full.                                                                *)
ListsFreePools(ps, c) ==
  LET n == ps.num_free_pools IN
  /\ c[1] = ps.next_pool
  /\ \A k, l \in 1 .. n : c[k] = c[l] => k = l
  /\ \A k \in 1 .. n - 1 : Inner(ps, c[k]).next_id = c[k + 1]
  /\ \A k \in 2 .. n : HasFreeBlock(ps, c[k])
  /\ \A i \in PoolIds(ps) : HasFreeBlock(ps, i) => \E k \in 1 .. n : c[k] = i

ChainOK(ps) ==
  /\ ps.num_free_pools > 0
  /\ \E c \in [1 .. ps.num_free_pools -> PoolIds(ps)] : ListsFreePools(ps, c)
=============================================================================
