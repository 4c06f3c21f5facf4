------------------------------ MODULE FreeList ------------------------------
(***************************************************************************)
(* moodycamel::ConcurrentQueue's FreeList (concurrentqueue.h), the stack   *)
(* of free blocks every thread pushes to and pops from without locks.  A   *)
(* node may be popped, used and pushed again while another thread still    *)
(* wants to pop it; a reference count in the node guards against that, and *)
(* one bit of the word that holds it says that the node is to go back on   *)
(* the list when the last reference is gone.                               *)
(*                                                                         *)
(* A step is one access to shared memory, in the order of the code; reads  *)
(* see the last write.                                                     *)
(***************************************************************************)
EXTENDS Integers, FiniteSets

CONSTANTS
  Threads,
  Nodes,
  SHOULD_BE_ON_FREELIST,   (* the top bit of freeListRefs                  *)
  Null

ASSUME FreeListAssumption ==
  /\ SHOULD_BE_ON_FREELIST \in Nat
  /\ IsFiniteSet(Threads) /\ IsFiniteSet(Nodes)
  /\ Cardinality(Threads) + 1 < SHOULD_BE_ON_FREELIST
  /\ Null \notin Nodes

VARIABLES
  freeListHead,
  freeListRefs,
  freeListNext,
  fresh,       (* the nodes never handed out: the initial block pool       *)
  used,        (* the nodes in use                                         *)
  pc,          (* each thread's next step ...                              *)
  node,        (* ... the node it is about (prevHead, or add's node)       *)
  refs,        (* ... the count it read                                    *)
  link,        (* ... next (try_get), or the head it read (add)            *)
  seen         (* ... the head try_get goes on with                        *)

shared == <<freeListHead, freeListRefs, freeListNext>>
locals == <<pc, node, refs, link, seen>>
vars   == <<shared, fresh, used, locals>>

Init ==
  /\ freeListHead = Null
  /\ freeListRefs = [n \in Nodes |-> 0]
  /\ freeListNext = [n \in Nodes |-> Null]
  /\ fresh = Nodes
  /\ used = {}
  /\ pc = [t \in Threads |-> "idle"]
  /\ node = [t \in Threads |-> Null]
  /\ refs = [t \in Threads |-> 0]
  /\ link = [t \in Threads |-> Null]
  /\ seen = [t \in Threads |-> Null]

REFS_MASK(r) == r % SHOULD_BE_ON_FREELIST

(* fetch_add, in 32 bits.                                                  *)
Added(n, by) ==
  [freeListRefs EXCEPT ![n] = (@ + by) % (2 * SHOULD_BE_ON_FREELIST)]

GoTo(t, step) == pc' = [pc EXCEPT ![t] = step]

(* The call returns; the locals are gone.                                  *)
Return(t) ==
  /\ GoTo(t, "idle")
  /\ node' = [node EXCEPT ![t] = Null]
  /\ refs' = [refs EXCEPT ![t] = 0]
  /\ link' = [link EXCEPT ![t] = Null]
  /\ seen' = [seen EXCEPT ![t] = Null]

(* A mistake: no test for the end of the list.                             *)
LoopUnchecked(t, head) ==
  /\ GoTo(t, "refs")
  /\ node' = [node EXCEPT ![t] = head]
  /\ refs' = [refs EXCEPT ![t] = 0]
  /\ link' = [link EXCEPT ![t] = Null]
  /\ seen' = [seen EXCEPT ![t] = Null]

(* The loop of try_get with head as its head.                              *)
Loop(t, head) ==
  \/ /\ head = Null
     /\ Return(t)
  \/ /\ head # Null
     /\ GoTo(t, "refs")
     /\ node' = [node EXCEPT ![t] = head]
     /\ refs' = [refs EXCEPT ![t] = 0]
     /\ link' = [link EXCEPT ![t] = Null]
     /\ seen' = [seen EXCEPT ![t] = Null]

-----------------------------------------------------------------------------
(* try_get_block_from_initial_pool                                         *)
TakeFresh(t) ==
  /\ pc[t] = "idle"
  /\ \E n \in fresh : fresh' = fresh \ {n} /\ used' = used \union {n}
  /\ UNCHANGED <<shared, locals>>

(* A mistake: the node goes on the list whoever still refers to it.        *)
AddAtOnce(t) ==
  /\ pc[t] = "idle"
  /\ \E n \in used :
       /\ used' = used \ {n}
       /\ freeListRefs' = Added(n, SHOULD_BE_ON_FREELIST)
       /\ GoTo(t, "push")
       /\ node' = [node EXCEPT ![t] = n]
  /\ UNCHANGED <<freeListHead, freeListNext, fresh, refs, link, seen>>

(* add: a node still referred to is left to the last who refers to it.     *)
Add(t) ==
  /\ pc[t] = "idle"
  /\ \E n \in used :
       /\ used' = used \ {n}
       /\ freeListRefs' = Added(n, SHOULD_BE_ON_FREELIST)
       /\ \/ /\ freeListRefs[n] = 0
             /\ GoTo(t, "push")
             /\ node' = [node EXCEPT ![t] = n]
          \/ /\ freeListRefs[n] # 0
             /\ UNCHANGED <<pc, node>>
  /\ UNCHANGED <<freeListHead, freeListNext, fresh, refs, link, seen>>

-----------------------------------------------------------------------------
(* try_get                                                                 *)
TryGet(t) ==
  /\ pc[t] = "idle"
  /\ freeListHead # Null
  /\ Loop(t, freeListHead)
  /\ UNCHANGED <<shared, fresh, used>>

(* The count of a node on the list is not 0.                               *)
ReadRefs(t) ==
  /\ pc[t] = "refs"
  /\ \/ /\ REFS_MASK(freeListRefs[node[t]]) = 0
        /\ GoTo(t, "head")
        /\ UNCHANGED refs
     \/ /\ REFS_MASK(freeListRefs[node[t]]) # 0
        /\ GoTo(t, "acquire")
        /\ refs' = [refs EXCEPT ![t] = freeListRefs[node[t]]]
  /\ UNCHANGED <<shared, fresh, used, node, link, seen>>

(* A mistake: a count of 0 is taken for any other.                         *)
ReadRefsUnchecked(t) ==
  /\ pc[t] = "refs"
  /\ GoTo(t, "acquire")
  /\ refs' = [refs EXCEPT ![t] = freeListRefs[node[t]]]
  /\ UNCHANGED <<shared, fresh, used, node, link, seen>>

Acquire(t) ==
  /\ pc[t] = "acquire"
  /\ \/ /\ freeListRefs[node[t]] = refs[t]
        /\ freeListRefs' = Added(node[t], 1)
        /\ GoTo(t, "next")
     \/ /\ freeListRefs[node[t]] # refs[t]
        /\ GoTo(t, "head")
        /\ UNCHANGED freeListRefs
  /\ UNCHANGED <<freeListHead, freeListNext, fresh, used, node, refs, link, seen>>

(* A mistake: another try with the same node.                              *)
ReadHeadAgainNot(t) ==
  /\ pc[t] = "head"
  /\ Loop(t, node[t])
  /\ UNCHANGED <<shared, fresh, used>>

ReadHeadAgain(t) ==
  /\ pc[t] = "head"
  /\ Loop(t, freeListHead)
  /\ UNCHANGED <<shared, fresh, used>>

ReadNext(t) ==
  /\ pc[t] = "next"
  /\ link' = [link EXCEPT ![t] = freeListNext[node[t]]]
  /\ GoTo(t, "pop")
  /\ UNCHANGED <<shared, fresh, used, node, refs, seen>>

Pop(t) ==
  /\ pc[t] = "pop"
  /\ \/ /\ freeListHead = node[t]
        /\ freeListHead' = link[t]
        /\ GoTo(t, "got")
        /\ UNCHANGED seen
     \/ /\ freeListHead # node[t]
        /\ seen' = [seen EXCEPT ![t] = freeListHead]
        /\ GoTo(t, "release")
        /\ UNCHANGED freeListHead
  /\ UNCHANGED <<freeListRefs, freeListNext, fresh, used, node, refs, link>>

(* A mistake: the list's reference is kept.                                *)
GotKeepsOne(t) ==
  /\ pc[t] = "got"
  /\ freeListRefs' = Added(node[t], -1)
  /\ used' = used \union {node[t]}
  /\ Return(t)
  /\ UNCHANGED <<freeListHead, freeListNext, fresh>>

(* The thread's reference and the list's are given up.                     *)
Got(t) ==
  /\ pc[t] = "got"
  /\ freeListRefs' = Added(node[t], -2)
  /\ used' = used \union {node[t]}
  /\ Return(t)
  /\ UNCHANGED <<freeListHead, freeListNext, fresh>>

(* A mistake: the node is left to others.                                  *)
ReleaseOnly(t) ==
  /\ pc[t] = "release"
  /\ freeListRefs' = Added(node[t], -1)
  /\ Loop(t, seen[t])
  /\ UNCHANGED <<freeListHead, freeListNext, fresh, used>>

(* The last to refer to a node that is to go back puts it on the list.     *)
Release(t) ==
  /\ pc[t] = "release"
  /\ freeListRefs' = Added(node[t], -1)
  /\ \/ /\ freeListRefs[node[t]] = SHOULD_BE_ON_FREELIST + 1
        /\ GoTo(t, "push")
        /\ UNCHANGED <<node, refs, link, seen>>
     \/ /\ freeListRefs[node[t]] # SHOULD_BE_ON_FREELIST + 1
        /\ Loop(t, seen[t])
  /\ UNCHANGED <<freeListHead, freeListNext, fresh, used>>

-----------------------------------------------------------------------------
(* add_knowing_refcount_is_zero, called by add (with seen Null) or within  *)
(* try_get.                                                                *)
ReadHead(t) ==
  /\ pc[t] = "push"
  /\ link' = [link EXCEPT ![t] = freeListHead]
  /\ GoTo(t, "link")
  /\ UNCHANGED <<shared, fresh, used, node, refs, seen>>

Link(t) ==
  /\ pc[t] = "link"
  /\ freeListNext' = [freeListNext EXCEPT ![node[t]] = link[t]]
  /\ GoTo(t, "count")
  /\ UNCHANGED <<freeListHead, freeListRefs, fresh, used, node, refs, link, seen>>

(* The bit is cleared with it.                                             *)
SetRefs(t) ==
  /\ pc[t] = "count"
  /\ freeListRefs' = [freeListRefs EXCEPT ![node[t]] = 1]
  /\ GoTo(t, "put")
  /\ UNCHANGED <<freeListHead, freeListNext, fresh, used, node, refs, link, seen>>

Put(t) ==
  /\ pc[t] = "put"
  /\ \/ /\ freeListHead = link[t]
        /\ freeListHead' = node[t]
        /\ Loop(t, seen[t])
     \/ /\ freeListHead # link[t]
        /\ link' = [link EXCEPT ![t] = freeListHead]
        /\ GoTo(t, "unput")
        /\ UNCHANGED <<freeListHead, node, refs, seen>>
  /\ UNCHANGED <<freeListRefs, freeListNext, fresh, used>>

(* The push failed: again if nobody refers to the node meanwhile.          *)
Unput(t) ==
  /\ pc[t] = "unput"
  /\ freeListRefs' = Added(node[t], SHOULD_BE_ON_FREELIST - 1)
  /\ \/ /\ freeListRefs[node[t]] = 1
        /\ GoTo(t, "link")
        /\ UNCHANGED <<node, refs, link, seen>>
     \/ /\ freeListRefs[node[t]] # 1
        /\ Loop(t, seen[t])
  /\ UNCHANGED <<freeListHead, freeListNext, fresh, used>>

-----------------------------------------------------------------------------
(* What a thread in a call does next.                                      *)
Work(t) ==
  \/ ReadRefs(t) \/ Acquire(t) \/ ReadHeadAgain(t) \/ ReadNext(t) \/ Pop(t)
  \/ Got(t) \/ Release(t)
  \/ ReadHead(t) \/ Link(t) \/ SetRefs(t) \/ Put(t) \/ Unput(t)

Next ==
  \E t \in Threads : TakeFresh(t) \/ Add(t) \/ TryGet(t) \/ Work(t)

Spec == Init /\ [][Next]_vars

(* Every thread goes on with a call it has begun.                          *)
FairSpec == Spec /\ \A t \in Threads : WF_vars(Work(t))
=============================================================================
