------------------------- MODULE FreeListProperties -------------------------
(***************************************************************************)
(* What is expected of the free list.                                      *)
(***************************************************************************)
EXTENDS FreeList, Sequences

Steps == {"idle", "refs", "acquire", "head", "next", "pop", "got", "release",
          "push", "link", "count", "put", "unput"}

(* The type invariant.                                                     *)
TypeOK ==
  /\ freeListHead \in Nodes \union {Null}
  /\ freeListRefs \in [Nodes -> 0 .. 2 * SHOULD_BE_ON_FREELIST - 1]
  /\ freeListNext \in [Nodes -> Nodes \union {Null}]
  /\ fresh \subseteq Nodes
  /\ used \subseteq Nodes
  /\ pc \in [Threads -> Steps]
  /\ node \in [Threads -> Nodes \union {Null}]
  /\ \A t \in Threads : pc[t] # "idle" => node[t] # Null
  /\ refs \in [Threads -> 0 .. 2 * SHOULD_BE_ON_FREELIST - 1]
  /\ link \in [Threads -> Nodes \union {Null}]
  /\ seen \in [Threads -> Nodes \union {Null}]

-----------------------------------------------------------------------------
At(steps, n) == {t \in Threads : pc[t] \in steps /\ node[t] = n}

(* c lists the nodes from the end of the list to its head: each leads to   *)
(* the one before it in c, and the first one nowhere.                      *)
IsListFrom(head, next, c) ==
  /\ head = IF c = << >> THEN Null ELSE c[Len(c)]
  /\ \A i, j \in DOMAIN c : c[i] = c[j] => i = j
  /\ \A i \in DOMAIN c : next[c[i]] = IF i = 1 THEN Null ELSE c[i - 1]

IsList(c) == IsListFrom(freeListHead, freeListNext, c)

Lists  == UNION {[1 .. k -> Nodes] : k \in 0 .. Cardinality(Nodes)}
List   == CHOOSE c \in Lists : IsList(c)
Listed == {List[i] : i \in DOMAIN List}

(* The list has an end, and each node is in one place only: never handed   *)
(* out, in use, on the list, in the hands of the thread that has popped it *)
(* or pushes it, or to be pushed by the last of the threads that refer to  *)
(* it.  None is handed out twice and none gets lost.                       *)
Places(n) ==
  {<<"fresh", x>> : x \in fresh \intersect {n}} \union
  {<<"used", x>>  : x \in used \intersect {n}} \union
  {<<"list", k>>  : k \in {k \in DOMAIN List : List[k] = n}} \union
  {<<"thread", t>> : t \in At({"got", "push", "link", "count", "put", "unput"}, n)} \union
  {<<"referred", x>> : x \in {x \in {n} : freeListRefs[x] > SHOULD_BE_ON_FREELIST}}

NodesAccounted ==
  /\ \E c \in Lists : IsList(c)
  /\ \A n \in Nodes : Cardinality(Places(n)) = 1

(* The count of a node is the number of references: one of each thread     *)
(* between the increment and the decrement, and one of the list, which a   *)
(* thread has that popped the node or is about to push it.                 *)
RefsExact ==
  \A n \in Nodes :
    REFS_MASK(freeListRefs[n]) =
      Cardinality(At({"next", "pop", "release", "got"}, n)) +
      Cardinality(At({"got", "put", "unput"}, n)) +
      Cardinality(Listed \intersect {n})

(* When the compare-and-exchange of try_get finds its node at the head, it *)
(* puts in the node's present successor, although the node may have been   *)
(* away and back in the meantime; and the node popped is not one that is   *)
(* to go back (the assertion of try_get).                                  *)
PopIsSafe ==
  \A t \in Threads :
    /\ pc[t] = "pop" /\ freeListHead = node[t] => link[t] = freeListNext[node[t]]
    /\ pc[t] = "got" => freeListRefs[node[t]] < SHOULD_BE_ON_FREELIST

(* As long as some thread is in a call, some call returns, if all that are *)
(* in a call go on: threads do not keep one another in their loops.        *)
SomeReturn == \E t \in Threads : pc[t] # "idle" /\ pc'[t] = "idle"

LockFree == []<>(\A t \in Threads : pc[t] = "idle") \/ []<><<SomeReturn>>_vars
=============================================================================
