----------------------------- MODULE MemoryPool -----------------------------
(***************************************************************************)
(* Pool<T> and PoolManager<T> (memory_pool.h): threads that create and     *)
(* delete objects, hand them to one another, start and exit.  Each running *)
(* thread owns one PoolState; a thread that deletes an object of another   *)
(* state destroys it and leaves the block in that state's queue, to be     *)
(* taken by whichever thread owns the state when it next consumes.         *)
(*                                                                         *)
(* A PoolState is named by the thread that created it, an object by its    *)
(* block <<state, pool, block>>.  Members only the owner reads and writes  *)
(* change in one step; what is shared (the queues) or is the client's code *)
(* (destructors, which may call the pool again) ends a step.  The frames   *)
(* of the calls in progress are on the thread's stack, innermost first.    *)
(***************************************************************************)
EXTENDS PoolOps, FiniteSets

CONSTANTS
  Threads,
  Main,       (* the thread that runs the static destructors               *)
  Makers,     (* bound: objects are created in these threads' states       *)
  MaxPools,   (* bound: the pools of a state                               *)
  Clients     (* the programs that use the pool: what each does, uses, and *)
              (* its bounds.  No New starts that could add a pool beyond   *)
              (* pools, nor while num_free_pools is beyond listed, nor     *)
              (* with live objects; nest destructors may be in progress    *)
              (* when the pool is called from another                      *)

(* "clear": calls Clear.  "throw": constructors may throw.  "nomem": an    *)
(* allocation may fail, and does beyond pools: a new pool is not added     *)
(* (the exception leaves New), an enqueue is not done (its result is not   *)
(* looked at).  "exit": the process ends normally.  "local": a thread      *)
(* deletes only objects of the state it owns.  "careful": outside          *)
(* destructors, an object of a full pool is deleted only while the active  *)
(* pool has a free block.                                                  *)
ASSUME ClientAssumption ==
  /\ Main \in Threads
  /\ Makers \subseteq Threads
  /\ MaxPools \in Nat \ {0}
  /\ Clients \subseteq
       [uses : SUBSET {"clear", "throw", "nomem", "exit", "local", "careful"},
        pools : 1 .. MaxPools, listed : Nat, live : Nat, nest : Nat]

(* num_free_pools, a size_t, counts every push within these bounds.        *)
ASSUME WidthAssumption ==
  \A c \in Clients : c.listed + MaxPools * NumBlocks + 1 < SizeT

(* The name of a pool of a state, as its blocks' headers have it.          *)
PoolNames == Threads \X (0 .. MaxPools - 1)

(* nullptr is neither a thread's name nor a PoolState.                     *)
ASSUME NullAssumption ==
  /\ Null \notin Threads
  /\ Null \notin PoolStateRecord(PoolNames, MaxPools)

VARIABLES
  client,      (* the client, which stays the same                         *)
  phase,       (* "unborn", "running", "exited"; "exiting" for the process *)
  state_,      (* Pool::state_ of each thread                              *)
  ps,          (* the PoolStates: Null when not created, or deleted        *)
  queue,       (* dealloc_req_queue of each state, by enqueueing thread    *)
  free_pools,  (* PoolManager::free_pools_, by enqueueing thread           *)
  stack,       (* the calls in progress of each thread                     *)
  live,        (* objects constructed and not yet destroyed                *)
  lost,        (* blocks in use for no object, that nobody will free       *)
  fault        (* the undefined behaviour met, which ends everything       *)

vars ==
  <<client, phase, state_, ps, queue, free_pools, stack, live, lost, fault>>

Objects == Threads \X (0 .. MaxPools - 1) \X Blocks

Does(use) == use \in client.uses

Init ==
  /\ client \in Clients
  /\ phase = [t \in Threads |-> "unborn"]
  /\ state_ = [t \in Threads |-> Null]
  /\ ps = [s \in Threads |-> Null]
  /\ queue = [s \in Threads |-> [p \in Threads |-> << >>]]
  /\ free_pools = [p \in Threads |-> << >>]
  /\ stack = [t \in Threads |-> << >>]
  /\ live = {}
  /\ lost = {}
  /\ fault = "none"

-----------------------------------------------------------------------------
(* Frames.  "dtor": ~T of x runs; then its block is freed or enqueued.     *)
(* "init": GetFreePool; seen are the producers whose queue it found empty. *)
(* "consume": ConsumeDeallocRequests; dry when no queue had an element.    *)
(* "sweep": the loop over the used blocks, from block b of pool i on, of   *)
(* the n pools of state s.                                                 *)

Dtor(x, then)         == [op |-> "dtor", x |-> x, then |-> then]
Scan                  == [op |-> "init", seen |-> {}]
Consume(then, active) ==
  [op |-> "consume", then |-> then, active |-> active, dry |-> FALSE]
Sweep(s, i, b, n)     == [op |-> "sweep", s |-> s, i |-> i, b |-> b, n |-> n]

At(t, op)  == fault = "none" /\ stack[t] # << >> /\ Head(stack[t]).op = op
Push(t, f) == stack' = [stack EXCEPT ![t] = <<f>> \o @]
Pop(t)     == stack' = [stack EXCEPT ![t] = Tail(@)]
Replace(t, f) == stack' = [stack EXCEPT ![t] = <<f>> \o Tail(@)]

Frames(t, op)   == {k \in DOMAIN stack[t] : stack[t][k].op = op}
InClear(t) ==
  \/ phase[t] = "running" /\ Frames(t, "sweep") # {}
  \/ \E k \in Frames(t, "consume") : stack[t][k].then = "clear"

(* A thread calls the pool when it is not in it, or from a destructor.     *)
MayCall(t) ==
  /\ fault = "none" /\ phase[t] = "running"
  /\ stack[t] = << >> \/ At(t, "dtor")
  /\ Cardinality(Frames(t, "dtor")) <= client.nest

(* The header of x: the InnerFixedPool (its state and number) it is in.    *)
PoolOf(x) == Inner(ps[x[1]], x[2]).fp.pool_identifier[x[3]]

-----------------------------------------------------------------------------
(* Pool::Init: an abandoned state, or a new one.                           *)
Start(t) ==
  /\ fault = "none" /\ phase[t] = "unborn"
  /\ phase[Main] # "exiting"
  /\ phase' = [phase EXCEPT ![t] = "running"]
  /\ Push(t, Scan)
  /\ UNCHANGED <<client, state_, ps, queue, free_pools, live, lost, fault>>

(* A mistake: GetFreePool leaves the state in the queue.                   *)
TakeFreePoolPeeks(t) ==
  /\ At(t, "init")
  /\ \E p \in Threads :
       /\ free_pools[p] # << >>
       /\ state_' = [state_ EXCEPT ![t] = Head(free_pools[p])]
  /\ Pop(t)
  /\ UNCHANGED <<client, phase, ps, queue, free_pools, live, lost, fault>>

TakeFreePool(t) ==
  /\ At(t, "init")
  /\ \E p \in Threads :
       /\ free_pools[p] # << >>
       /\ LET s == Head(free_pools[p]) IN
          /\ state_' = [state_ EXCEPT ![t] = s]
          /\ \/ /\ ps[s].num_free_pools # 0
                /\ UNCHANGED ps
             \/ /\ ps[s].num_free_pools = 0
                /\ Len(ps[s].pools) < client.pools
                /\ ps' = [ps EXCEPT ![s] = AddNewPool(@)]
       /\ free_pools' = [free_pools EXCEPT ![p] = Tail(@)]
  /\ Pop(t)
  /\ UNCHANGED <<client, phase, queue, live, lost, fault>>

CreatePoolState(t) ==
  /\ At(t, "init")
  /\ Head(stack[t]).seen = Threads
  /\ ps' = [ps EXCEPT ![t] = FreshPoolState]
  /\ state_' = [state_ EXCEPT ![t] = t]
  /\ Pop(t)
  /\ UNCHANGED <<client, phase, queue, free_pools, live, lost, fault>>

(* The allocation of either fails: the constructor of the thread's Pool    *)
(* throws, a state already taken from free_pools_ is forgotten, and the    *)
(* thread's next use of the pool starts again.                             *)
InitFails(t) ==
  /\ Does("nomem")
  /\ At(t, "init")
  /\ \/ /\ Head(stack[t]).seen = Threads
        /\ UNCHANGED free_pools
     \/ \E p \in Threads :
          /\ free_pools[p] # << >>
          /\ ps[Head(free_pools[p])].num_free_pools = 0
          /\ free_pools' = [free_pools EXCEPT ![p] = Tail(@)]
  /\ phase' = [phase EXCEPT ![t] = "unborn"]
  /\ Pop(t)
  /\ UNCHANGED <<client, state_, ps, queue, live, lost, fault>>

(* try_dequeue finds the queue of producer p empty and passes on.  It may  *)
(* also miss a state while another thread, which reached for one in vain,  *)
(* has not yet taken its dequeueOptimisticCount back.                      *)
FindNoFreePool(t) ==
  /\ At(t, "init")
  /\ \E p \in Threads \ Head(stack[t]).seen :
       /\ free_pools[p] = << >> \/ \E u \in Threads \ {t} : At(u, "init")
       /\ Replace(t, [Head(stack[t]) EXCEPT !.seen = @ \union {p}])
  /\ UNCHANGED <<client, phase, state_, ps, queue, free_pools, live, lost, fault>>

-----------------------------------------------------------------------------
(* ForcedAllocate in pool i of the thread's state, then T's constructor.   *)
Construct(t, s, i, st) ==
  LET x == <<s, i, Inner(st, i).fp.next>> IN
  /\ ps' = [ps EXCEPT ![s] = AllocateIn(st, i, <<s, i>>)]
  /\ \/ live' = live \union {x} /\ UNCHANGED lost
     \/ /\ Does("throw")
        /\ lost' = lost \union {x}
        /\ UNCHANGED live

(* Pool::New, up to the first step of ConsumeDeallocRequests if the active *)
(* pool is full.                                                           *)
New(t) ==
  /\ MayCall(t)
  /\ state_[t] \in Makers
  /\ Cardinality(live) < client.live
  /\ ps[state_[t]].num_free_pools <= client.listed
  /\ LET s == state_[t]
         active == ps[s].next_pool IN
     IF HasFreeBlock(ps[s], active)
     THEN Construct(t, s, active, ps[s]) /\ UNCHANGED stack
     ELSE /\ Len(ps[s].pools) < client.pools \/ Does("nomem")
          /\ Push(t, Consume("new", active))
          /\ UNCHANGED <<ps, live, lost>>
  /\ UNCHANGED <<client, phase, state_, queue, free_pools, fault>>

(* ConsumeDeallocRequests, one element: the block goes back to its pool.   *)
ConsumeOne(t) ==
  /\ At(t, "consume")
  /\ LET s == state_[t] IN
     \E p \in Threads :
       /\ queue[s][p] # << >>
       /\ LET x == Head(queue[s][p])
              i == PoolOf(x)[2] IN
          ps' = [ps EXCEPT ![s] = FreeIn(SetNextFreePool(@, i), i, x[3])]
       /\ queue' = [queue EXCEPT ![s][p] = Tail(@)]
  /\ Replace(t, [Head(stack[t]) EXCEPT !.dry = FALSE])
  /\ UNCHANGED <<client, phase, state_, free_pools, live, lost, fault>>

(* A mistake: the loop does not look at the count.                         *)
FindNoRequestGoesOn(t) ==
  /\ At(t, "consume")
  /\ \A p \in Threads : queue[state_[t]][p] = << >>
  /\ UNCHANGED vars

(* try_dequeue_bulk returns 0 after it found each producer's queue empty.  *)
(* As nobody else dequeues, they then were all empty at once; requests that *)
(* come in behind the scan may still be taken, or not.                     *)
FindNoRequest(t) ==
  /\ At(t, "consume")
  /\ \A p \in Threads : queue[state_[t]][p] = << >>
  /\ Replace(t, [Head(stack[t]) EXCEPT !.dry = TRUE])
  /\ UNCHANGED <<client, phase, state_, ps, queue, free_pools, live, lost, fault>>

(* ConsumeDeallocRequests returns.                                         *)
Consumed(t, then) ==
  /\ At(t, "consume")
  /\ Head(stack[t]).then = then
  /\ Head(stack[t]).dry

(* The rest of New.  The pool GetActiveFixedPool arrives at is used        *)
(* without looking whether it is there and has a free block.               *)
FinishNewHere(t, s, active) ==
  /\ HasFreeBlock(ps[s], active)
  /\ Construct(t, s, active, ps[s])
  /\ UNCHANGED fault

FinishNewNext(t, s, active) ==
  LET st == DropFullPool(ps[s])
      i == NextOfList(st, active) IN
  /\ ~HasFreeBlock(ps[s], active)
  /\ st.num_free_pools > 0
  /\ IF i < Len(st.pools) /\ HasFreeBlock(st, i)
     THEN Construct(t, s, i, [st EXCEPT !.next_pool = i]) /\ UNCHANGED fault
     ELSE /\ fault' = IF i < Len(st.pools) THEN "full pool" ELSE "out of range"
          /\ UNCHANGED <<ps, live, lost>>

FinishNewAdd(t, s, active) ==
  LET st == AddNewPool(DropFullPool(ps[s])) IN
  /\ ~HasFreeBlock(ps[s], active)
  /\ DropFullPool(ps[s]).num_free_pools = 0
  /\ \/ st.next_pool < client.pools /\ Construct(t, s, st.next_pool, st)
     \/ /\ Does("nomem")
        /\ ps' = [ps EXCEPT ![s] = DropFullPool(@)]
        /\ UNCHANGED <<live, lost>>
  /\ UNCHANGED fault

FinishNew(t) ==
  /\ Consumed(t, "new")
  /\ LET s == state_[t]
         active == Head(stack[t]).active IN
     \/ FinishNewHere(t, s, active)
     \/ FinishNewNext(t, s, active)
     \/ FinishNewAdd(t, s, active)
  /\ Pop(t)
  /\ UNCHANGED <<client, phase, state_, queue, free_pools>>

-----------------------------------------------------------------------------
AsTheClientDoes(t, x) ==
  /\ Does("local") => state_[t] = x[1]
  /\ (Does("careful") /\ stack[t] = << >> /\ state_[t] = x[1]) =>
       \/ HasFreeBlock(ps[x[1]], x[2])
       \/ HasFreeBlock(ps[x[1]], ps[x[1]].next_pool)

(* A mistake: the block is freed before the destructor runs.               *)
DeleteFreesFirst(t, x) ==
  /\ MayCall(t)
  /\ state_[t] = x[1]
  /\ live' = live \ {x}
  /\ ps' = [ps EXCEPT ![x[1]] = FreeIn(SetNextFreePool(@, x[2]), x[2], x[3])]
  /\ Push(t, Dtor(x, "freed"))
  /\ UNCHANGED <<client, phase, state_, queue, free_pools, lost, fault>>

(* Pool::Delete of a live object no other thread is clearing, up to the    *)
(* destructor.                                                             *)
Delete(t, x) ==
  /\ MayCall(t)
  /\ \A u \in Threads \ {t} : ~(InClear(u) /\ state_[u] = x[1])
  /\ AsTheClientDoes(t, x)
  /\ live' = live \ {x}
  /\ LET s == PoolOf(x)[1]
         i == PoolOf(x)[2] IN
     \/ /\ state_[t] # s
        /\ Push(t, Dtor(x, "enqueue"))
        /\ UNCHANGED ps
     \/ /\ state_[t] = s
        /\ ps' = [ps EXCEPT ![s] = SetNextFreePool(@, i)]
        /\ Push(t, Dtor(x, "free"))
  /\ UNCHANGED <<client, phase, state_, queue, free_pools, lost, fault>>

(* Mistakes: no return after AddDeallocRequest; the request goes to the    *)
(* queue of the deleting thread's own state.                               *)
EndDtorNoReturn(t) ==
  /\ At(t, "dtor")
  /\ LET x == Head(stack[t]).x
         s == PoolOf(x)[1]
         i == PoolOf(x)[2] IN
     /\ ps' = [ps EXCEPT ![s] = FreeIn(@, i, x[3])]
     /\ queue' = IF Head(stack[t]).then = "enqueue"
                 THEN [queue EXCEPT ![s][t] = Append(@, x)] ELSE queue
  /\ Pop(t)
  /\ UNCHANGED <<client, phase, state_, free_pools, live, lost, fault>>

EndDtorOwnQueue(t) ==
  /\ At(t, "dtor")
  /\ queue' = [queue EXCEPT ![state_[t]][t] = Append(@, Head(stack[t]).x)]
  /\ Pop(t)
  /\ UNCHANGED <<client, phase, state_, ps, free_pools, live, lost, fault>>

(* ~T returns: the block is freed, or enqueued for the owner.              *)
EndDtor(t) ==
  /\ At(t, "dtor")
  /\ LET x == Head(stack[t]).x
         s == PoolOf(x)[1]
         i == PoolOf(x)[2] IN
     \/ /\ Head(stack[t]).then = "free"
        /\ ps' = [ps EXCEPT ![s] = FreeIn(@, i, x[3])]
        /\ UNCHANGED <<queue, lost>>
     \/ /\ Head(stack[t]).then = "enqueue"
        /\ queue' = [queue EXCEPT ![s][t] = Append(@, x)]
        /\ UNCHANGED <<ps, lost>>
     \/ /\ Head(stack[t]).then = "enqueue"
        /\ Does("nomem")
        /\ lost' = lost \union {x}
        /\ UNCHANGED <<ps, queue>>
  /\ Pop(t)
  /\ UNCHANGED <<client, phase, state_, free_pools, live, fault>>

-----------------------------------------------------------------------------
(* Pool::Clear, when no other thread is deleting an object of the state.   *)
Clear(t) ==
  /\ Does("clear")
  /\ fault = "none" /\ phase[t] = "running"
  /\ stack[t] = << >>
  /\ \A u \in Threads : \A k \in Frames(u, "dtor") : stack[u][k].x[1] # state_[t]
  /\ Push(t, Consume("clear", 0))
  /\ UNCHANGED <<client, phase, state_, ps, queue, free_pools, live, lost, fault>>

(* Clear resets the link of each pool before it empties it.                *)
Relink(s, i) ==
  ps' = IF phase[Main] = "exiting" THEN ps
        ELSE [ps EXCEPT ![s].pools[i + 1].next_id = i + 1]

StartSweep(t) ==
  /\ Consumed(t, "clear")
  /\ Replace(t, Sweep(state_[t], 0, 0, Len(ps[state_[t]].pools)))
  /\ Relink(state_[t], 0)
  /\ UNCHANGED <<client, phase, state_, queue, free_pools, live, lost, fault>>

(* DeleteObjectsFromPool: what is left of the loop over the blocks.        *)
UsedAhead(f) ==
  {b \in f.b .. NumBlocks - 1 : IsBlockUsed(Inner(ps[f.s], f.i).fp, b)}

SweepBlock(t) ==
  /\ At(t, "sweep")
  /\ LET f == Head(stack[t])
         x == <<f.s, f.i, CHOOSE b \in UsedAhead(f) : \A c \in UsedAhead(f) : b <= c>> IN
     /\ UsedAhead(f) # {}
     /\ stack' = [stack EXCEPT ![t] = <<Dtor(x, "free"), [f EXCEPT !.b = x[3] + 1]>> \o Tail(@)]
     /\ live' = live \ {x}
     /\ fault' = IF x \in live THEN fault ELSE "no object"
  /\ UNCHANGED <<client, phase, state_, ps, queue, free_pools, lost>>

SweepNextPool(t) ==
  /\ At(t, "sweep")
  /\ LET f == Head(stack[t]) IN
     /\ UsedAhead(f) = {}
     /\ f.i + 1 < f.n
     /\ Replace(t, [f EXCEPT !.i = @ + 1, !.b = 0])
     /\ Relink(f.s, f.i + 1)
  /\ UNCHANGED <<client, phase, state_, queue, free_pools, live, lost, fault>>

SweepIsDone(f) == UsedAhead(f) = {} /\ f.i + 1 = f.n

(* Clear returns; DeleteState deletes the state.                           *)
EndSweep(t) ==
  /\ At(t, "sweep")
  /\ SweepIsDone(Head(stack[t]))
  /\ ps' = IF phase[Main] = "exiting"
           THEN [ps EXCEPT ![Head(stack[t]).s] = Null] ELSE ps
  /\ Pop(t)
  /\ UNCHANGED <<client, phase, state_, queue, free_pools, live, lost, fault>>

-----------------------------------------------------------------------------
(* Pool::Destroy, on the thread's exit: consume, then give up the state.   *)
Exit(t) ==
  /\ fault = "none" /\ phase[t] = "running"
  /\ stack[t] = << >>
  /\ Push(t, Consume("destroy", 0))
  /\ UNCHANGED <<client, phase, state_, ps, queue, free_pools, live, lost, fault>>

(* A mistake: the state is not given up.                                   *)
AddFreePoolForgets(t) ==
  /\ Consumed(t, "destroy")
  /\ phase' = [phase EXCEPT ![t] = "exited"]
  /\ state_' = [state_ EXCEPT ![t] = Null]
  /\ Pop(t)
  /\ UNCHANGED <<client, ps, queue, free_pools, live, lost, fault>>

AddFreePool(t) ==
  /\ Consumed(t, "destroy")
  /\ \/ free_pools' = [free_pools EXCEPT ![t] = Append(@, state_[t])]
     \/ Does("nomem") /\ UNCHANGED free_pools
  /\ phase' = [phase EXCEPT ![t] = "exited"]
  /\ state_' = [state_ EXCEPT ![t] = Null]
  /\ Pop(t)
  /\ UNCHANGED <<client, ps, queue, live, lost, fault>>

(* ~PoolManager, once every thread that used the pool has exited.          *)
ExitProcess ==
  /\ fault = "none" /\ Does("exit")
  /\ \A t \in Threads : phase[t] \in {"unborn", "exited"}
  /\ phase' = [phase EXCEPT ![Main] = "exiting"]
  /\ UNCHANGED <<client, state_, ps, queue, free_pools, stack, live, lost, fault>>

DeleteState ==
  /\ fault = "none" /\ phase[Main] = "exiting"
  /\ stack[Main] = << >>
  /\ \E p \in Threads :
       /\ free_pools[p] # << >>
       /\ LET s == Head(free_pools[p]) IN
          Push(Main, Sweep(s, 0, 0, Len(ps[s].pools)))
       /\ free_pools' = [free_pools EXCEPT ![p] = Tail(@)]
  /\ UNCHANGED <<client, phase, state_, ps, queue, live, lost, fault>>

-----------------------------------------------------------------------------
(* What a thread does inside the pool, and what its client makes it do.    *)
Work(t) ==
  \/ TakeFreePool(t) \/ CreatePoolState(t) \/ InitFails(t) \/ FindNoFreePool(t)
  \/ ConsumeOne(t) \/ FindNoRequest(t) \/ FinishNew(t) \/ StartSweep(t) \/ AddFreePool(t)
  \/ EndDtor(t) \/ SweepBlock(t) \/ SweepNextPool(t) \/ EndSweep(t)

Call(t) ==
  \/ Start(t) \/ New(t) \/ Clear(t) \/ Exit(t)
  \/ \E x \in live : Delete(t, x)

Next ==
  \/ \E t \in Threads : Work(t) \/ Call(t)
  \/ ExitProcess
  \/ DeleteState

Spec == Init /\ [][Next]_vars

(* Threads are scheduled, destructors return, ~PoolManager runs to its end. *)
FairSpec ==
  Spec /\ WF_vars(DeleteState) /\ \A t \in Threads : WF_vars(Work(t))
=============================================================================
