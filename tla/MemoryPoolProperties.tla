------------------------ MODULE MemoryPoolProperties ------------------------
(***************************************************************************)
(* What is expected of Pool<T> and PoolManager<T>.                         *)
(***************************************************************************)
EXTENDS MemoryPool

States == {s \in Threads : ps[s] # Null}

(* The type invariant.                                                     *)
Frame ==
  [op : {"dtor"}, x : Objects, then : {"free", "enqueue"}] \union
  [op : {"init"}, seen : SUBSET Threads] \union
  [op : {"consume"}, then : {"new", "clear", "destroy"}, active : 0 .. MaxPools - 1,
   dry : BOOLEAN] \union
  [op : {"sweep"}, s : Threads, i : 0 .. MaxPools - 1, b : 0 .. NumBlocks,
   n : 1 .. MaxPools]

TypeOK ==
  /\ client \in Clients
  /\ phase \in [Threads -> {"unborn", "running", "exited", "exiting"}]
  /\ state_ \in [Threads -> Threads \union {Null}]
  /\ ps \in [Threads -> PoolStateRecord(PoolNames, MaxPools) \union {Null}]
  /\ queue \in [Threads -> [Threads -> Seq(Objects)]]
  /\ free_pools \in [Threads -> Seq(Threads)]
  /\ stack \in [Threads -> Seq(Frame)]
  /\ live \subseteq Objects
  /\ lost \subseteq Objects
  /\ fault \in {"none", "out of range", "full pool", "no object"}

-----------------------------------------------------------------------------
(* Who accounts for a block that is not free: the client, a destructor     *)
(* that has not returned, or a place in a queue.                           *)
DtorsOf(x) ==
  UNION {{<<"dtor", t, k>> : k \in {k \in Frames(t, "dtor") : stack[t][k].x = x}} :
         t \in Threads}

RequestsOf(x) ==
  UNION {{<<"request", p, k>> :
            k \in {k \in DOMAIN queue[x[1]][p] : queue[x[1]][p][k] = x}} :
         p \in Threads}

Claims(x) ==
  {<<"live", y>> : y \in live \intersect {x}} \union
  {<<"lost", y>> : y \in lost \intersect {x}} \union
  DtorsOf(x) \union RequestsOf(x)

UsedBlocks(s, i) == {b \in Blocks : Claims(<<s, i, b>>) # {}}

(* Across threads, queues, nested destructors, exits and Clear, a block is *)
(* on its pool's free list or accounted for by exactly one of a live       *)
(* object, a destructor in progress and a pending request, never two.      *)
BlockAccounting ==
  fault = "none" =>
    \A s \in States : \A i \in PoolIds(ps[s]) :
      /\ FreeListOK(Inner(ps[s], i).fp, UsedBlocks(s, i))
      /\ \A b \in Blocks : Cardinality(Claims(<<s, i, b>>)) <= 1

(* The headers of the blocks written so far name their pool, so a request  *)
(* reaches the queue of the state it belongs to and, there, its own pool.  *)
RequestsAreRouted ==
  /\ \A s \in States : \A i \in PoolIds(ps[s]) :
       HeadersOK(Inner(ps[s], i).fp, <<s, i>>)
  /\ \A s, p \in Threads : \A k \in DOMAIN queue[s][p] : queue[s][p][k][1] = s

(* A PoolState is in the hands of one thread, or in free_pools_ once, or   *)
(* being deleted: no two threads ever share one, and none gets lost unless *)
(* the enqueue ran out of memory (Init's GetFreePool, Destroy's            *)
(* AddFreePool).                                                           *)
Offers(s) ==
  UNION {{<<"free", p, k>> : k \in {k \in DOMAIN free_pools[p] : free_pools[p][k] = s}} :
         p \in Threads}

Deletions(s) ==
  {<<"sweep", k>> : k \in {k \in Frames(Main, "sweep") :
                            phase[Main] = "exiting" /\ stack[Main][k].s = s}}

Holders(s) ==
  {<<"thread", t>> : t \in {t \in Threads : state_[t] = s}} \union
  Offers(s) \union Deletions(s)

StateOwnership ==
  \A s \in States : /\ Cardinality(Holders(s)) <= 1
                    /\ ~Does("nomem") => Holders(s) # {}

(* A destructor runs only on a live object: Clear and DeleteState take     *)
(* "used" from the headers (DeleteObjectsFromPool), never a free block or  *)
(* one destroyed already.                                                  *)
NoDoubleDestroy == fault # "no object"

(* It holds for a client that leaves no block in use for no object, and no *)
(* request behind at the end of the process.                               *)
LeavesNothing == ~Does("throw") /\ ~Does("nomem") /\ (Does("exit") => Does("local"))

(* num_free_pools is never 0 between calls, so that New's decrement cannot *)
(* wrap and Init never has to add a pool (memory_pool.h:290), unless New   *)
(* failed to add one.                                                      *)
ListNeverEmpty == \A s \in States : ps[s].num_free_pools > 0

(* Addresses are handed out as the abstract pool says.                     *)
InDtors  == UNION {{stack[t][k].x : k \in Frames(t, "dtor")} : t \in Threads}
InQueues == UNION {{queue[s][p][k] : k \in DOMAIN queue[s][p]} : s, p \in Threads}
Pending  == lost \union InDtors \union InQueues

Addresses == INSTANCE AbstractPool WITH Addresses <- Objects, pending <- Pending

Refines == Addresses!Spec

-----------------------------------------------------------------------------
(* A careful client, which neither clears nor lets a destructor call.      *)
IsCareful ==
  /\ Does("local") /\ Does("careful")
  /\ ~Does("clear") /\ ~Does("nomem")
  /\ client.nest = 0

(* For a careful client: the list of free pools is exact, until the states *)
(* are deleted at the end of the process...                                *)
ChainExact ==
  IsCareful /\ phase[Main] # "exiting" => \A s \in States : ChainOK(ps[s])

(* ... New never lands on a full pool or outside pools; the sweep at the   *)
(* end, which may find a block where a constructor threw, is all that may  *)
(* go wrong...                                                             *)
NoFault == IsCareful => fault = "none" \/ (Does("throw") /\ fault = "no object")

(* ... and a pool is added only when every block of the state is in use.   *)
Grows(s) == ps[s] # Null /\ ps'[s] # Null /\ Len(ps'[s].pools) > Len(ps[s].pools)

GrowsOnlyWhenFull ==
  [][\A s \in Threads :
       IsCareful /\ Grows(s) => \A i \in PoolIds(ps[s]) : ~HasFreeBlock(ps[s], i)]_vars

-----------------------------------------------------------------------------
(* The loops that dequeue end, however the other threads' requests come in *)
(* meanwhile: ConsumeDeallocRequests' do-while, Init's scan.                *)
Dequeues(t) == At(t, "consume") \/ At(t, "init")

LoopsEnd == \A t \in Threads : Dequeues(t) ~> ~Dequeues(t)

(* At the end of the process every PoolState is deleted.                   *)
ExitDeletesStates == phase[Main] = "exiting" ~> States = {}

-----------------------------------------------------------------------------
(* What the comments in memory_pool.h say of the pool beyond that, and the *)
(* code does not keep.                                                     *)

(* "Returns the active pool which has free block(s) or adds/creates a new  *)
(* pool and returns it" (memory_pool.h:186): GetActiveFixedPool returns a  *)
(* pool that has a free block ...                                          *)
ActivePoolHasRoom == fault # "full pool"

(* ... and that is one of the state's pools.                               *)
ActivePoolIsThere == fault # "out of range"

(* "Calls all the allocated object's destructor" (memory_pool.h:145): when *)
(* Clear has been over the blocks, no object of the state is left.         *)
LiveIn(s) == {x \in live : x[1] = s}

ClearDestroysAll ==
  \A t \in Threads :
    At(t, "sweep") /\ phase[t] = "running" /\ SweepIsDone(Head(stack[t])) =>
      LiveIn(Head(stack[t]).s) = {}
=============================================================================
