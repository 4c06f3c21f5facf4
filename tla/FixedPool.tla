----------------------------- MODULE FixedPool -----------------------------
(***************************************************************************)
(* FixedPool used directly, as test_fixed_pool does: several pools of the  *)
(* same shape and a client that allocates from them and gives blocks back, *)
(* possibly to the wrong pool.                                             *)
(***************************************************************************)
EXTENDS FixedPoolOps

CONSTANT Pools   (* the pools, named by their id_ *)

ASSUME PoolsAssumption == NoId \notin Pools

VARIABLES
  fp,     (* the members of each pool                                      *)
  lent,   (* the blocks clients hold: pairs <<pool, block>>                *)
  ret     (* what the last Allocate returned                               *)

vars == <<fp, lent, ret>>

Init ==
  /\ fp = [q \in Pools |-> FreshPool]
  /\ lent = {}
  /\ ret = Null

Allocate(q) ==
  \/ /\ fp[q].num_free_blocks = 0
     /\ ret' = Null
     /\ UNCHANGED <<fp, lent>>
  \/ /\ fp[q].num_free_blocks # 0
     /\ fp' = [fp EXCEPT ![q] = ForcedAllocate(@, q)]
     /\ ret' = <<q, fp[q].next>>
     /\ lent' = lent \union {ret'}

(* A mistake: the header is not compared with the pool.                    *)
DeAllocateAnywhere(q, x) ==
  /\ fp' = [fp EXCEPT ![q] = ForcedDeAllocate(@, x[2])]
  /\ lent' = lent \ {x}
  /\ UNCHANGED ret

(* A client gives x back through pool q; a block whose header names        *)
(* another pool is left alone.                                             *)
DeAllocate(q, x) ==
  \/ /\ fp[x[1]].pool_identifier[x[2]] # q
     /\ UNCHANGED vars
  \/ /\ fp[x[1]].pool_identifier[x[2]] = q
     /\ fp' = [fp EXCEPT ![q] = ForcedDeAllocate(@, x[2])]
     /\ lent' = lent \ {x}
     /\ UNCHANGED ret

ReclaimAll(q) ==
  /\ fp' = [fp EXCEPT ![q] = FreshPool]
  /\ lent' = lent \ ({q} \X Blocks)
  /\ UNCHANGED ret

Next ==
  \/ \E q \in Pools : Allocate(q) \/ ReclaimAll(q)
  \/ \E q \in Pools, x \in lent : DeAllocate(q, x)

Spec == Init /\ [][Next]_vars

-----------------------------------------------------------------------------
Held(q) == {b \in Blocks : <<q, b>> \in lent}

(* The type invariant: every member stays in its range, next_ stays inside *)
(* the array or null.                                                      *)
TypeOK ==
  /\ fp \in [Pools -> FixedPoolRecord(Pools)]
  /\ lent \subseteq Pools \X Blocks
  /\ ret \in (Pools \X Blocks) \union {Null}

(* The intrusive free list of each pool, threaded through the headers and  *)
(* continued by the blocks never touched so far, holds exactly the blocks  *)
(* no client holds, each once (ForcedAllocate, ForcedDeAllocate).          *)
FreeListExact == \A q \in Pools : FreeListOK(fp[q], Held(q))

(* IsBlockUsed never claims a block that is free: whoever walks the blocks *)
(* to destroy objects (DeleteObjectsFromPool) meets no block without one.  *)
UsedIsSound ==
  \A q \in Pools : \A b \in Blocks : IsBlockUsed(fp[q], b) => b \in Held(q)

(* Every header written so far names its pool and no other has been        *)
(* touched, across ReclaimAll's memset (InitOneBlock).                     *)
HeadersWritten == \A q \in Pools : HeadersOK(fp[q], q)

(* The header of a block a client holds names the pool it comes from,      *)
(* which DeAllocate and Pool::Delete rely on to route it.                  *)
HeaderNamesPool ==
  \A x \in lent : fp[x[1]].pool_identifier[x[2]] = x[1]

(* The pools behave as the abstract allocator.                             *)
Allocator == INSTANCE AbstractAllocator

Refines == Allocator!Spec
=============================================================================
