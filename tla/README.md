# A TLA+ model of memory_pool

TLA+ modules that model `memory_pool` (an object pool for C++ with per-thread states,
fixed-size pools and lock-free queues between threads), TLC configurations that check
them on small instances, and TLAPS proofs, for any number of threads, pools and blocks, about the
fixed-size pools, the pool of threads, states and requests, and the queue: what one producer's queue promises,
the free list, the table of producers and the choice among producers.

## 1. The system

| Component | Code | State | Operations |
|---|---|---|---|
| `FixedPool` | `fixed_pool.h`, `fixed_pool.cpp` | a byte array of equal blocks, `num_free_blocks_`, `num_initialized_`, `next_`, a header in each block (link, then owner and used mark) | `Allocate`, `ForcedAllocate`, `DeAllocate`, `ForcedDeAllocate`, `ReclaimAll`, `IsBlockUsed` |
| `Pool<T>::PoolState` | `memory_pool.h` | `pools`, `next_pool`, `num_free_pools` (a list of "free" pools threaded through `next_id`), `dealloc_req_queue` | `SetNextFreePool`, `AddNewPool`, `AddDeallocRequest` |
| `Pool<T>` (thread_local) | `memory_pool.h` | `state_` | `New`, `Delete`, `Clear`, `Init`, `Destroy`, `ConsumeDeallocRequests`, `GetActiveFixedPool` |
| `PoolManager<T>` (static) | `memory_pool.h` | `free_pools_`, the queue of abandoned states | `GetFreePool`, `AddFreePool`, `~PoolManager` |
| `moodycamel::ConcurrentQueue`: one producer | `concurrentqueue.h`, `ImplicitProducer`, `Block`, `ProducerBase` | head and tail index, two optimistic counters, blocks, a circular block index | `enqueue`, `enqueue_bulk`, `dequeue`, `dequeue_bulk`, destructor |
| `ConcurrentQueue`: a producer token's queue | `concurrentqueue.h`, `ExplicitProducer` | the same, with a ring of blocks of its own | the same; the program makes no producer tokens |
| `ConcurrentQueue`: free blocks | `concurrentqueue.h`, `FreeList` | head, a next pointer and a reference count per node | `add`, `try_get` |
| `ConcurrentQueue`: producers | `concurrentqueue.h` | list of producers, a hash from thread to producer that grows, exit listeners | `get_or_add_implicit_producer`, `recycle_or_create_producer`, thread exit |
| `ConcurrentQueue`: choice of a producer | `concurrentqueue.h` | consumer tokens, `producerCount`, `globalExplicitConsumerOffset` | `try_dequeue`, `try_dequeue_non_interleaved`, `try_dequeue_bulk`, with and without a token, `update_current_producer_after_rotation` |
| Producer tokens, move and swap | `concurrentqueue.h` | | never used by the program |
| Benchmarks, tests | `benchmarks/`, `tests/` | none of their own | clients of the pool |

How they interact. A running thread has one `Pool`, which owns one `PoolState`; the state
owns `FixedPool`s. `New` takes a block of the state's *active* pool (`next_pool`). The header
of a block in use names its pool and through it its state, so `Delete` knows where an object
belongs: an object of the thread's own state is destroyed and its block freed at once; for
an object of another state the destructor runs on the deleting thread and the block goes into
that state's `dealloc_req_queue`. The owner takes requests from the queue when its active pool
is full, in `Clear`, and in `Destroy` when its thread exits. `Destroy` then puts the state
into `free_pools_`, from which the next thread that starts adopts it; what is there at the
end of the process `~PoolManager` deletes. Both queues are `ConcurrentQueue`s, that is one
lock-free FIFO queue per enqueueing thread. Destructors and constructors are the client's and
may call the pool again.

What is hard:

* memory: headers that are link, owner and used mark by turns; lazy initialization; the block
  that fills a pool, which takes a path of its own;
* the list of free pools, whose membership is inferred from free counts, while requests and
  destructors change it in the middle of a call (stale reads of the active pool);
* threads that delete one another's objects, exit, and adopt one another's states, in any
  order; a request that arrives after its owner has gone;
* constructors that throw and allocations that fail between two steps;
* hash tables that grow while others search them, thread ids that are used again, and threads that
  enqueue after their exit was announced;
* the lock-free queue: optimistic counters taken back, a block index replaced under readers'
  eyes, blocks and nodes reused while others still look at them (ABA), wrap-around; enqueues of
  several items that fail half way;
* dequeues that go round a list of producers which grows, and are emptied and filled behind them.

What makes each part correct:

* `FixedPool`: the free list has exactly the blocks not lent out; a header read as a link or an
  owner was written as one; "used" is never said of a free block.
* `PoolState`: the list of free pools has every pool with a free block once; `New` gets a
  free block, and adds a pool only when there is none.
* `Pool`: each block is free or accounted for once; requests reach the right state; loops end.
* `PoolManager`: each state has one holder; at the end all are deleted; no object is destroyed
  twice.
* The table of producers: each producer is one thread's or nobody's, and each thread finds the one
  it had; producers are used again rather than piled up.
* A producer's queue: FIFO, each item to one dequeue; blocks neither lost nor used twice.
* The choice of a producer: a dequeue that returns nothing has missed nothing; it ends; no
  producer is left waiting for ever.
* `FreeList`: nodes neither lost nor handed out twice; some call always returns.

## 2. The modules

    FixedPoolLayout     block layout, index <-> address
     FixedPoolOps       a FixedPool's operations on the value of its members
      FixedPool         several pools and a client         -> AbstractAllocator
       FixedPoolProofs  theorems   (FixedPoolLemmas: about the operations)
      PoolOps           a PoolState's operations on the value of its members
       MemoryPool       threads, queues, PoolManager, clients
        MemoryPoolProperties   what is expected of it      -> AbstractPool
         MemoryPoolProofs      theorems   (on FixedPoolLemmas)
         MCMemoryPool          the clients, and symmetry, for TLC
    ProducerBase               counters and blocks both kinds of producer share
     ImplicitProducer          the queue of a thread without a token
      ImplicitProducerProperties                           -> AbstractQueue
       ImplicitProducerProofs  theorems   (ImplicitProducerLemmas: counters, enqueue)
     ExplicitProducer          the queue of a producer token
      ExplicitProducerProperties                           -> AbstractQueue
     MCProducerBase            what the views of the two have in common
      MCImplicitProducer, MCExplicitProducer    symmetry and view for TLC
    ConsumerRotation           which producer a dequeue takes from
     ConsumerRotationProperties
      ConsumerRotationProofs   theorems
      MCConsumerRotation       who dequeues how, for TLC
    ProducerTable              which thread enqueues to which producer
     ProducerTableProofs       theorems
     MCProducerTable           hash values and symmetry for TLC
    FreeList                   the free list of blocks
     FreeListProperties
      FreeListProofs           theorems

`->` names the abstract specification the module is shown to implement (`Refines`).

### FixedPool

`FixedPoolOps` has a record for the members and one operator per function. The byte array is
`next_block_idx` and `pool_identifier`, the two things headers are read as; `Garbage` is what an
untouched byte pattern reads as. `next` is an index (or `Null`): `FixedPoolLayout` gives the
address arithmetic, and the lemmas show that going to an address and back is the identity for
every stride while the array fits into `Word` (`IndexFromAddr` truncates to 32 bits, which
nothing in the code checks; `LayoutAssumption` names it). `FixedPool` runs several pools with a client
that may also hand a block to the wrong pool, as the tests do.

### MemoryPool

A state is named by the thread that created it, a `FixedPool` by its number, an object by
`<<state, pool, block>>`. `stack[t]` holds the frames of the calls thread `t` is in. Members
only the owner touches change in the step that reads them; a step ends where shared queues or
the client's code come in. So:

| Code | Actions |
|---|---|
| `Pool()`, `Init`, `GetFreePool` | `Start`, then `FindNoFreePool` per producer, `TakeFreePool` or `CreatePoolState`, or `InitFails` |
| `New` | `New` (the active pool has a block, or is full and `ConsumeDeallocRequests` starts), `ConsumeOne`/`FindNoRequest`, `FinishNew` |
| `Delete` | `Delete` (up to the destructor, with `SetNextFreePool` for an own object), `EndDtor` |
| `Clear`, `DeleteObjectsFromPool` | `Clear`, `ConsumeOne`/`FindNoRequest`, `StartSweep`, `SweepBlock`, `EndDtor`, `SweepNextPool`, `EndSweep` |
| `~Pool`, `Destroy`, `AddFreePool` | `Exit`, `ConsumeOne`/`FindNoRequest`, `AddFreePool` |
| `~PoolManager`, `DeleteState` | `ExitProcess`, `DeleteState`, then the sweep actions |

Choices that need an argument:

* `ConsumeDeallocRequests` dequeues up to 16 requests and then frees them. Nobody else dequeues
  from that queue, and the frees touch only the owner's members, so one request at a time has
  the same effects in some order of the same steps. For the same reason a bulk dequeue that
  found each producer's queue empty in turn found a moment when none had an element
  that was there when it began (`NothingMissed` of `ConsumerRotation`, with one consumer, says so of
  the real loop); `FindNoRequest` is that moment, and requests enqueued after it
  may or may not still be taken (`ConsumeOne` stays enabled while `dry`).
* `free_pools_` has several dequeuers: `GetFreePool` looks at the producers one after the other
  (`seen`), so it may miss a state enqueued behind it, and it may fail spuriously while another thread has
  over-committed on that producer, which is what `AbstractQueue` allows and the run
  `one_producer` shows for the real queue.
* A constructor that calls the pool is, for the pool, the same as calls before and after:
  `New` touches no member after the constructor. So constructors do not nest, destructors do.
* After undefined behaviour (`fault`) nothing more happens; properties are about the
  states before it, and `NoFault`, `ActivePoolHasRoom` and `ActivePoolIsThere` are about itself.
* A `client` is chosen at the start, from `Clients`, and stays: it says what the program that uses the pool does
  (`uses`), and its bounds. It does what the interface allows: it deletes live objects, each once, from
  any thread that runs; calls `Clear` when no other thread is in a `Delete` of an object of that
  state (an object dies in one place). Threads leave the pool before they exit, and the process
  ends after its threads.

### ProducerBase, ImplicitProducer, ExplicitProducer

A step has one access to shared memory whose moment matters. Several are one step when only one is observed: the
two stores of `insert_block_index_entry`; moving items out of a block together with counting them (nobody
else touches those slots; the count is the moment); clearing a block's entry with the last
count (only the enqueueing thread looks at the entry, and it finds it in use until
then); storing items together with the `tailIndex` that shows them; an entry of an explicit index, not yet
shown, with the block it is for; the finding of `insert_block_index_entry` that the next entry is in use together with the
larger index that is then published (a dequeue may clear that entry in between, which is too late for the
enqueue to see). The models are sequentially consistent: the memory-order arguments of the
code are not examined.

| Code | Actions |
|---|---|
| `enqueue`, `enqueue_bulk` without a new block | `EnqueueHere` |
| with new blocks, `ImplicitProducer` | `BeginEnqueue`, for each block `InsertBlockIndexEntry` (after `NewBlockIndex`) and `TakeBlock`, `FinishEnqueue` |
| what it undoes when it fails | `NoEntry`, `NoBlock`, `UndoBlock`, `FinishUndo` |
| with new blocks, `ExplicitProducer` | `BeginEnqueue`, for each block `TakeNext`, or `InsertBlock` (after `NewBlockIndex`); `Publish`, `FinishEnqueue`; `GiveUp` |
| `dequeue`, `dequeue_bulk`: the claim | `ReadTail`, `ReadOvercommit`, `ReadCount`, `Claim`, `Recheck`, `TakeBack`, `AdvanceHead` (both kinds) |
| looking up the block | `ReadIndexTail`, `ReadTailKey`; `ReadIndexFront`, `ReadFrontBase` |
| the items of one block | `MoveOut`, `FreeBlock`; `MoveOut` |
| the destructors | `Destroy` |

An item is its position, so FIFO order is visible. `dequeue` is `dequeue_bulk` with `max` 1 and `enqueue` is
`enqueue_bulk` with count 1; the definitions both kinds share are mapped to the implicit one's lines. `Blocks`
stands for whatever memory `requisition_block` has: initial pool, free list, allocation; that
it may have none is `NoBlock` or `GiveUp`. In this program an element is a pointer, so the paths for
elements that throw do not exist. Both constructors may find no memory for a first index. In blocks of up to 32
items an explicit queue marks emptied slots by flags and not by a count; each slot is marked once, so
the number of them says the same.

`AbstractQueue` is what both implement (`Refines`): items come out in order, each once; all the items of an
enqueue are in at once; a dequeue comes back empty-handed only if the queue was empty, or another dequeue was in
progress, at some moment while it ran (`excused`).

### ConsumerRotation

Above the producers: each is a number of items, with `AbstractQueue`'s contract, and only the choice
among them is modelled. A producer is counted and then listed, and never leaves. `producerListTail` is `listed`, and
`next_prod` goes from producer p to p - 1.

| Code | Actions |
|---|---|
| `try_dequeue`, `try_dequeue_non_interleaved`, `try_dequeue_bulk` | `BeginPlain`, `Look` (a step per producer), `DequeueFromBest`, `ReadTailAgain`, `Pass` (a step per producer) |
| the two with a token | `BeginWithToken`, `DequeueFromCurrent`, `ReadTail`, `Scan` (a step per producer) |
| `update_current_producer_after_rotation` | `ReadProducerCount`, `Rotate` |
| `add_producer`, `enqueue` | `CountProducer`, `ListProducer`, `Enqueue` |

The token's members are its owner's, so a step of the round changes them together with its dequeue. The offset a
token gets when it is made (`nextExplicitConsumerId`) is any number. `itemsConsumedFromCurrent` stops at
one more than the quota: the code compares it with the quota by `==` or `>=`.
`full` is a history: the producers that had items when the call began and that nobody came to since.

### FreeList

A step is literally one access to shared memory. It takes nodes from the initial block pool (`fresh`); blocks
allocated later are deleted rather than put on the list (`RECYCLE_ALLOCATED_BLOCKS` is false).
The properties' `List` is the sequence of nodes that the links follow from the head to `Null`: there is one of
at most as many nodes as there are, and no second one, which the proofs use and a recursion along the
links would not give them. `FreeListAssumption` keeps the flag apart from the count: there are fewer than 2^31 - 1 threads.

### ProducerTable

One queue, and any number of threads that call `get_or_add_implicit_producer` and end. A thread is its
`thread_id()`, the address of a thread_local variable, so a thread that ended may be followed by
another one at the same address (`Restart`). A call stays possible after the
thread's notifier is gone: the pool's own thread_local destructor enqueues (`AddFreePool`), and
nothing orders it before the notifier's.

| Code | Actions |
|---|---|
| `get_or_add_implicit_producer`: the search | `Call`, `AddAgain` (found in an older table) |
| counting and growing | `CountEntry`, `TakeResizeFlag`, `Resize`, `ResizeFails`, `Room` |
| `recycle_or_create_producer`, `add_producer` | `Recycle` (a step per producer), `Create`, `CreateFails` |
| `ThreadExitNotifier::subscribe` | `Subscribe` |
| the new entry | `Insert`, `Uncount` |
| `~ThreadExitNotifier`, `implicit_producer_thread_exited` | `Exit`, `Remove` (a step per table), `Deactivate` |

`tables` has the hash tables, oldest first (a thread's `mainHash` is an index into it, `prev` one less), each with its
capacity and the slots ever used. The search for the own id in one table is one step: only
the thread itself enters or removes that id, and a slot never becomes empty again, so what
others do meanwhile cannot change where the search ends. A call that finds its id in the newest table
changes nothing and is no action. The release of a lock belongs to the step before. `producerCount`
(`ConsumerRotation` has it), `unsubscribe` (called by destructors of queues) and
the list of listeners of a notifier are left out: with one queue a thread subscribes once.

## 3. The runs

| Run | Configuration | Shows |
|---|---|---|
| `fixed_pool` | `MCFixedPool.cfg` | all orders of allocating, giving back (to either pool) and reclaiming in 2 pools of 3 blocks: exact free lists, sound used marks, written headers, refinement of `AbstractAllocator` |
| `pool_threads` | `MCPoolThreads.cfg` | 3 threads that start, exit, adopt states and delete one another's objects, with a client whose allocations never fail and one whose constructors throw and allocations fail anywhere: `BlockAccounting`, `RequestsAreRouted`, `StateOwnership`, refinement of `AbstractPool` |
| `pool_clients` | `MCPoolClients.cfg` | a client that calls `Clear` and whose destructors call `New` and `Delete`, with a second thread's requests: accounting, `NoDoubleDestroy`, `LoopsEnd`; and a careful one (`IsCareful`: it deletes only objects of the deleting thread's state, never from a full pool while the active pool is full, does not call `Clear`, nor the pool from a destructor), up to the end of the process: the list of free pools is exact, no fault, growth only when full, every state is deleted |
| `producer_table` | `MCProducerTable.cfg` | 3 threads with colliding ids that find or take a producer, end and come back, while tables grow and allocations fail: each producer has one thread or none, each thread one producer, producers are recycled |
| `one_producer` | `MCImplicitProducer.cfg` | an enqueueing thread and 2 dequeueing ones, several items at a time, with failures: every dequeue finds its block, counters agree, blocks are accounted for, also by the destructor, FIFO (`AbstractQueue`) |
| `explicit_producer` | `MCExplicitProducer.cfg` | the same of a token's queue: every dequeue finds its block, the ring and the free blocks have all the blocks, the destructor destroys what is left, FIFO, also when an `enqueue_bulk` fails after it has gone on into next blocks |
| `consumer_rotation` | `MCConsumerRotation.cfg` | dequeues with and without token, in bulk and not, over producers that are added and filled meanwhile: a call that returns nothing has looked everywhere (`NothingMissed`), calls end, nobody starves, `producerCount` covers the list |
| `free_list` | `MCFreeList.cfg` | 3 threads, 2 nodes: nodes accounted for, exact reference counts, safe pops, `LockFree` |
| `full_active_pool`, `stale_active_pool`, `clear_misses`, `exit_destroys_twice` | `FullActivePool.cfg`, ... | violations: section 5 |

Bounds, and why they are enough.

* `NumBlocks` is 3 for `FixedPool` alone (a first, a middle and a last block, links among
  them) and 2 in `MemoryPool`: the special case is the last free block of a pool, and both
  "has one left" and "was the last" happen. `fixed_pool` and the proofs cover the layer below for
  more.
* A client's `pools` 2 or 3: the active pool, one behind it in the list and one full; a list of three
  is needed for links to go wrong, and the careful client of `pool_clients` and `stale_active_pool` have it. The client
  of `pool_threads` that runs out of memory has one pool, which is where `AddNewPool` fails. No `New` starts that might
  need one more, unless memory may be out.
* `Makers` (threads in whose states objects are made), a client's `listed` (no `New` when
  `num_free_pools` is beyond it) and `live` (live objects) cut down repetitions. A state can be
  adopted by any thread, so one maker's state still sees every thread as owner and as
  deleter. `listed` exceeds the number of pools where the count can go wrong.
* A client's `nest` 1: a destructor within which the pool is called; deeper nesting repeats the same
  two frames.
* `SizeT` is 16 for the 2^64 of `size_t`: larger than any count reached, so that only wrapping
  below 0 is seen. `WidthAssumption` says so: it counts the pools with which a `New` may start (`listed`) and one push for each
  block of a state besides. `SizeOfData` 5, `HeaderBytes` and `MinAlignment` 4 and `Word` 64 give a padding that is
  not 0 and an array that fits.
* `one_producer`: 2 blocks of 2 items and an index of 2 entries that may grow once; the
  queue fills two blocks, asks for a third, grows the index, finds no block and rewinds. `MaxCount` 3 items in one enqueue
  need up to two blocks, of which the second may fail; `MaxBulk` 2 crosses a block boundary and is cut short.
  `MaxStall` 2: how many items are enqueued while one dequeue claims its own, from its first look at the
  tail to the second (`MayEnqueue`), and how many claims are taken back while it holds a count of those
  (`MayTakeBack`). The code relies on both being less than half the range of `index_t`; afterwards a dequeue may
  stall for ever. `MaxCapacity` 4: there is memory for an index of so many entries, and no larger one. `index_t` has 4 bits and wraps. The view in `MCImplicitProducer` identifies states that
  differ by a shift of all indices, of both counters, or by turning the circular index; `MCProducerBase`
  states why no step can tell. The last conjuncts of `QueueAssumption` say what the code takes for granted of the widths: the
  largest index has keys for at most half the range of `index_t`, and the items enqueued, and the claims of all
  dequeues together, stay within half the range of it.
* `explicit_producer`: the same with 3 blocks, so that the ring is gone over while a third block is inserted and the
  index grows from 2 entries to 4. `Undo` is FALSE: an enqueue that fails may have gone on into next blocks of the ring, so that the
  front of the index and the tail block are put back while dequeues go on, but it has not inserted a block, nor replaced the index
  in between. Its three properties hold on that condition only (section 5). `BlocksAccounted` says what the destructor
  destroys only if no entry in use was written over by such an enqueue (`NoneWrittenOver`); where none fails after it has gone on
  into a block, that is always so.
* `consumer_rotation`: five casts. An owner's token with three producers of one item and with two producers of two items, two consumers without
  tokens over three producers, a token used for one item at a time and in bulk, and a token beside a
  consumer without. Three producers are the least for which the direction of the round and the jump from the
  first to the last differ; `Quota` is 2 for 256, so that it is reached exactly and jumped over; `Sampled` is 2 for 3, so that
  `try_dequeue` stops looking before the end of the list. `OffsetT` 3 is no multiple of two producers, as 2^32 is
  none of three: the wrap of the offset shifts the rotation.
* `free_list`: an ABA needs one thread that holds an old head and one that pops and pushes it
  with another successor: two nodes; the third thread is the one that has to push a
  node for another.
* `producer_table`: three threads whose ids all hash to one slot, a first table of 4 (so the second
  entry makes it grow), and at most `MaxSearches` 4 calls that do not find their id, so that every
  thread takes a producer and one comes back, into a slot that was given back. No thread starts to
  end after the last of these calls has begun: nobody would be there to take what it gives back.
  No fairness, no liveness: the spinning at a full table is an action like any other. Three threads cannot fill a table of
  4 that grows at 2, so "at least one slot is free" (3408) is not put to the test. The
  threads are symmetric, and no property distinguishes them.

Deadlock is not checked where clients may stop: threads exit, memory ends, a fault ends
everything, `Destroy` ends the queue, producers are full and nobody dequeues. `fixed_pool` checks it.

Fairness. `WF(Work(t))`: a thread in a call of the pool or the list is scheduled again and destructors
return. Nothing is assumed about calls: no thread need ever start, delete or exit.
`WF(DeleteState)`: `~PoolManager`'s loop, which runs on the main thread without waiting
for anyone. `LoopsEnd` needs no more: `FindNoRequest` is continuously enabled or else requests are consumed, of
which there are finitely many as objects have to be made by the owner, who is in the
loop. `LockFree` says of the free list only that *some* call returns; a single call may starve, in the model as in the code. As every thread in a call is fair, it
says nothing of a thread that is stopped while others go on, as lock-freedom in the strict sense would.
`WF(Dequeue(c))` in `ConsumerRotation`: a consumer's loop over the list has no lock and waits for nobody, so a
consumer that is scheduled goes on; that it calls again and again is what `NoStarvation` presupposes, and
for an owner that calls no more nothing is promised. Producers are not fair.

Every property has, in `PROJECT.json`, a mutated definition (marked "A mistake" in the
modules) with which TLC finds the property violated.

## 4. The proofs

`FixedPoolProofs` proves for any number of pools and blocks, any sizes and any word that holds
the array (`LayoutAssumption`, `PoolsAssumption` and the assumptions on the values `Null`, `NoId`, `Garbage`
in `FixedPoolOps`; nothing else):

| Theorem | Statement |
|---|---|
| `TypeCorrect` | `Spec => []TypeOK` |
| `FreeListIsExact` | `Spec => []FreeListExact` |
| `HeadersAreWritten` | `Spec => []HeadersWritten` |
| `UsedMarkIsSound` | `Spec => []UsedIsSound` |
| `HeaderRoutes` | `Spec => []HeaderNamesPool` |
| `Refinement` | `Spec => Refines` |

The argument. `IndInv == TypeOK /\ FreeListExact /\ HeadersWritten` is inductive, and needs all
three: a pop is only safe when `next` is a free block (the list), the next link read from its header is
one only if the header was written (headers), and writing it needs `num_initialized` in
range (types). `UsedIsSound` and `HeaderNamesPool` follow from it. The list is not defined by
recursion along the links, about which these provers could show nothing, but by the existence of an
injective sequence of blocks that the links follow (`FreeListOK`), which a push extends and a
pop shortens; the block that is initialized next is carried along as the continuation of
the list. `FixedPoolLemmas` has one lemma per operation (`FreshPoolOK`, `ForcedAllocateOK`,
`ForcedDeAllocateOK`), stated for one pool's value, so that they can serve `MemoryPool`,
whose pools are the same records; `OnePoolStep` lifts them to one pool among several.

`ConsumerRotationProofs` proves for any number of consumers and producers, any quota and any width of the
offsets, without an assumption on the constants:

| Theorem | Statement |
|---|---|
| `CountIsCovering` | `Spec => []CountCoversList` |
| `SearchMissesNothing` | `Spec => NothingMissed` |

Its `IndInv` adds what `CountCoversList` rests on: `listed <= producerCount`, which holds because
`add_producer` counts a producer before it lists it, and that a call which has read the tail of the list has
a producer that is in the list, even when the list has grown since. Most steps move a call away from the list;
`GoesElsewhere` settles those at once.

`SearchInv` is the invariant for `NothingMissed`, an action property: a producer still in a call's `full` is *undisturbed*
(it is listed, it has items and nobody else is at it) and still *before* the call (`Before`). What that means depends on where the
call is: on the way by `next_prod`, perhaps round the end of the list, from where it is to the token's current producer; down the
list from where it is, the fullest left out; or, while it asks for sizes, further down or found already to have items. So a round with a
token may end only where it began, although the producer it ends at is the token's member that a dequeue on the way
changes, and although the list has grown since its tail was read; and a call that has got nothing where it is was excused there, so
what is before it is somewhere else (`NotHere`). That a rotation lands in the list it read (`AheadListed`, `StartingPointListed`) is
needed for the place, and `IndInv` for its division. `SearchStep` settles once what a step of one call does to the others.

`FreeListProofs` proves for any finite sets of threads and nodes (`FreeListAssumption`: the flag bit is larger
than the number of threads plus one):

| Theorem | Statement |
|---|---|
| `TypeCorrect` | `Spec => []TypeOK` |
| `NodesStayAccounted` | `Spec => []NodesAccounted` |
| `RefsStayExact` | `Spec => []RefsExact` |
| `PopStaysSafe` | `Spec => []PopIsSafe` |

`IndInv` gives every node exactly one place: fresh, in use, on the list, in the hands of a thread, or *referred*,
that is taken off the list or given back while others still count on it, and to be put on the list by the last
of them. The place fixes the word `freeListRefs` (`RefsAre`): the threads that refer to the node, one more
for the list or the thread that keeps it, and the flag exactly when it is referred or about to be pushed. Nothing
weaker is inductive: a `compare_exchange` on the word tells a thread what its place is only if
the word determines the place. With it goes that a node is in one thread's hands (`OneHolder`), that the links
end (`HasList`), and what makes the pop safe (`LocalsOK`): as long as a thread that read the link of the head
is counted, the node is not linked anew, so that a head which is again the same node still has that
link. References are counted by the cardinality of sets of threads; `CountStep` says what one
thread's step does to it.

`ProducerTableProofs` proves for any finite set of threads, any hash of their ids, any of the initial capacities and any
number of calls (`TableAssumption`: besides, the three marks are distinct, none of them is a thread, and `Null` is no
producer's number):

| Theorem | Statement |
|---|---|
| `TypeCorrect` | `Spec => []TypeOK` (`count` is never taken below 0) |
| `ProducersStayOwned` | `Spec => []OneOwner` |
| `ThreadsKeepTheirProducer` | `Spec => []OneProducer` |
| `ListStaysShort` | `Spec => []ProducersAreRecycled` |

`IndInv` has a part for each thing a thread relies on later:

* `SlotsOK`: an id is in a table at most once, and the search for it, from its hash on, ends there. A slot never becomes
  empty again, so entering and removing other ids cannot put an empty slot on the way, and a new entry is made where
  the thread found none before (`ProbeFits`);
* `StageFits`: where the id of a thread, its producer and its listener are, by what it is about to do; thus a search that
  finds nothing means that there is nothing;
* `CountOK`: the threads that are counted but not entered are no more than the count, so each that takes
  itself out of it finds it above 0;
* `OwnersOK`: the sharing itself, by quantifiers; `OneOwner` and `OneProducer` put it as cardinalities;
* `ScanFits`, for `ProducersAreRecycled`: producers are given back behind a thread that is on its way through the list, so
  that it may find none although some are inactive when it gets to the end. But there is an injection from the producers it
  has passed to the *other* threads (`Covers`): one in use is laid to its owner's account, an inactive one to a
  thread that has none and has not passed it. Who takes a producer over swaps its place with
  the one whose account it was on (`TakeStep`), who gives one back stays on its account (`GiveBackStep`). So a thread
  at the end of the list, who itself is on no account, finds fewer producers than threads (`CreateStep`).

Each action changes one thread's own variables and at most one entry, mark or table; `FitStep` and
its special cases (`QuietAction`, `CalmAction`, `SearchingStep`) settle once what this leaves to the
other threads. Growth uses that `NewCapacity` finds a doubling that is large enough
(`Doubles`). That a search always *ends* - a slot is free - is not proved: section 6.

`ImplicitProducerProofs` proves for any finite sets of dequeueing threads and blocks, any sizes of blocks and of the first index, any number
of items in a call and any width of `index_t` on `QueueAssumption` (section 3 says what it asks of the widths):

| Theorem | Statement |
|---|---|
| `TypeCorrect` | `Spec => []TypeOK` |
| `DequeuesFindTheirBlocks` | `Spec => []BlockFound` |
| `BlocksHaveOnePlace` | `Spec => []BlocksAccounted` |
| `CountersStayInAgreement` | `Spec => []CountersAgree` |
| `ImplementsAbstractQueue` | `Spec => Refines` (it implements `AbstractQueue`) |

Everything in the code is modulo `index_t`, and no invariant about wrapped numbers is inductive: that two positions are
different items can only be said of positions that have not wrapped. So `IndInv` says that there are
*unwrapped* counters and positions of which the variables are the remainders (`Inductive`: `Spec => []IndInv`). It has two parts,
`Fits(a, g) == CountersFit(a) /\ EnqFits(a) /\ IndexFits(a, g)`:

* `CountersFit` (about the counters alone, which both kinds of producer share) has an `a` with the true tail,
  head, optimistic count and overcommit (`CountersUnwrap`), and for each dequeue what the tail and the overcommit were when
  it read them (`SinceFits`, `OvercommitFits`): less than half the range behind, so that a comparison of wrapped
  numbers in `Claim` and `Recheck` comes out as that of the true ones. `TicketsApart` says that claims do not overlap,
  `Balanced` that those not yet settled add up to what the counters are apart, which is `CountersAgree`. Why no dequeue goes beyond
  the tail although each compares a count it got with a tail it reads later: those that still have to look again are in the order
  of their counts. Those that claimed before one which was granted something (`late`) fit before the tail together with what is granted
  (`GrantsFit`); of any other the count is beyond the grants and the claims before its own (`OthersFit`), so that what
  the tail then lets it keep fits too. A sum over threads is the
  number of elements of a set of pairs (`Total`) and needs no induction.
* `EnqFits` has the enqueueing thread's position, also half way through an enqueue or its undoing, in numbers of blocks: those below
  `BlocksTo(a.T)` are in the queue, those up to `Top(a)` have an entry.
* `IndexFits` has a `g` with the offset of each index (`off`), the lowest block number still in it (`low`) and the position
  of each dequeue (`idx`). In an index that has been replaced a block has the same entry as in the newest one, or none (`Nested`), for a
  dequeue may still search there (`SearchesFit`: the entry it starts from has a key, of a block not before the one it looks for, at a place
  from which the distance is right). A position that is *pending* - not claimed, or a dequeue's and not yet moved out - has its block in the index, and
  `done` counts the slots that are not (`BlocksFit`). `OwnFits` keeps what dequeues have claimed apart. `TakenFit` and
  `PlacesFit` say where blocks are.

For each action there is a lemma that it keeps `IndInv` (`ClaimItemsKeeps`, `MoveOutKeeps`, ...). An item moved out changes what is pending by
itself only; a block is emptied exactly when the last pending slot of it is, whoever's it is, and this alone lets its
entry be used again.

The refinement takes the queue as it is written without the index: `Mapped` says that what `Refines` reads through the entries is the run of numbers
`Queue` and `Held`, which is what `BlocksFit` is good for, and then each step is one of `AbstractQueue` about
runs (`RunParts` divides one where a dequeue takes its part). The items change hands at `AdvanceHead`, and moving them out does nothing more. That a dequeue which comes back empty-handed was
excused needs an invariant of its own, `ExcuseInv`: a dequeue that is *not* excused has been alone since it began (`AloneFits`), so the
counts it has read are what they would be without any claims, and headIndex is behind the tail that it read.

`MemoryPoolProofs` proves for any set of threads, any clients the interface allows, destructors nested to any depth and any numbers
of pools and blocks, on the assumptions of the fixed pools, `SizeTAssumption`, `ClientAssumption`, `NullAssumption`
(`Null` is neither a thread nor the value of a state) and, for the last five theorems, `WidthAssumption` (section 3):

| Theorem | Statement |
|---|---|
| `TypeCorrect` | `Spec => []TypeOK` |
| `StatesStayOwned` | `Spec => []StateOwnership` |
| `RequestsStayRouted` | `Spec => []RequestsAreRouted` |
| `BlocksStayAccounted` | `Spec => []BlockAccounting` |
| `HandsOutAddresses` | `Spec => Refines` (it implements `AbstractPool`) |
| `ObjectsDestroyedOnce` | `Spec => [](LeavesNothing => NoDoubleDestroy)` |
| `ListStaysInUse` | `Spec => [](~Does("nomem") => ListNeverEmpty)` |
| `ListStaysExact` | `Spec => []ChainExact`, which is about careful clients |
| `CarefulClientsAreSafe` | `Spec => []NoFault`, as well |
| `GrowsWhenFull` | `Spec => GrowsOnlyWhenFull`, as well |

The first five hold for all clients; the others for those named in the statement, for section 5
shows that they fail for others. `LeavesNothing` is a client whose constructors do not throw, whose allocations do not fail and
that, if the process ends, deletes only objects of the deleting thread's state; a careful one (`IsCareful`) may have constructors that throw.

The model stops at the first undefined behaviour (`fault`), and `BlockAccounting` is about the states before it; section 5
shows that it happens. Up to there, also a list of free pools that has gone wrong never leads to a block handed out
twice: the proofs of the first five do without `ChainExact`.

`IndInv` is the conjunction of

* `TypeOK` and `ThreadsOK`: which calls can be on top of which in a thread's stack (`Shape`), and that the states and pools
  a frame refers to are there (`FrameFits`) - a frame is written when a call starts and read when the
  destructors above it have returned, so nothing but the invariant says so;
* `OwnersOK`: no state has two holders; and has one, unless memory ran out in an `enqueue`;
* `ClaimsOK`: the four sets that may claim a block (live objects, lost blocks, running destructors, requests) are apart, and
  each claims it once;
* `Routed` and `ClaimsAreThere`: a request is in the queue of its block's state; the pool of a claimed block exists
  until the process ends;
* `StatesOK`: for each state and each of its pools, the free list is exact (`FreeListOK` of `FixedPoolLemmas`), and the blocks not on
  it are those claimed.

The first part of the module lifts the lemmas about `FixedPool`s to the operations of a state, so a state's members and the
claims on its blocks are compared in one place. Every step is one of six changes of the claims (`ClaimStep`: it keeps them,
takes a block, starts a destructor, starts one where there is no object, frees or hands over a block when a destructor
returns, takes a request): `ClaimsOK` is preserved, and the step of `AbstractPool` chosen, for these six and not for
each action. `StatesOK` needs `ClaimsOK` for a free (the block was in use), `ClaimsOK` needs `StatesOK` for an
allocation (the block was not claimed), and both need `ThreadsOK` for what a frame resumes with.

On `IndInv` rest three more invariants, each on those before it:

* `TidyInv`, for `NoDoubleDestroy`. A destructor's frame, written when it starts, says whether the block is freed or a request
  enqueued: freed exactly when the state is the thread's (`SendsOK`), so that a local client makes no requests (`LocalOK`). While a
  state is being cleared nobody else destroys an object of it (`AloneOK`), and so its queues, once found empty, stay empty
  (`EmptiedOK`). What a sweep finds marked is then neither in a destructor nor a request, and by `BlockAccounting` it is an
  object or lost; of a client that leaves nothing, none is lost (`TidyOK`).
* `RoomOK`, for `ListNeverEmpty`. `num_free_pools` is decremented once it was seen above 0, or a pool was added; it would reach 0
  otherwise only by wrapping above. Pools are pushed twice in clients that are not careful, so the number of
  pools bounds nothing. But each push is for a block that comes back to its state, an object of which there are
  no more than blocks (`Coming`), until a `New` that looked at the count: the count and what is coming stay
  within `WidthAssumption`.
* `CareOK`, for careful clients until the process ends: a thread is in one call at a time (`OneCallOK`); a `New` that waits in
  `ConsumeDeallocRequests` waits on the head of the list, which is full (`WaitsOK`: what `stale_active_pool` breaks); and each list is exact *and*
  has the pools of the objects whose destructor runs (`ListsOK`). `ChainExact` alone is not inductive:
  `SetNextFreePool` runs before the destructor and the block is freed after it: the pool that then has a free block must
  be in the list already. A list is the function from its
  places to pools that `ChainOK` has under the quantifier (`IsListOf`); a push puts one in front (`PushedList`), a
  drop takes the first off (`DroppedList`), a pool added is a list of one (`NewList`), an allocation from the head and a free in a listed
  pool keep it (`ListTaken`, `ListFreed`).

`NoFault` needs the first and the last: `New` follows the link of an exact list, the sweep at the end finds objects.
`GrowsOnlyWhenFull`: `FinishNew` adds a pool where the list had only its head, which is full, and the list has every
pool with a free block.

Lists and other recursive data are compared without induction, which these provers cannot instantiate: where one is
needed, the proofs take a least counterexample (`WFMin` and `NatLessThanWellFounded`).

Only model-checked:

* of the producer token's queue: `BlockFound`, `BlocksAccounted` and FIFO (`Refines`); `CountersFit` and its lemmas are about
  its counters as well, but its ring of blocks is another structure than the entries of the implicit queue;
* liveness (`LoopsEnd`, `ExitDeletesStates`, `LockFree`, `CallsEnd`, `NoStarvation`), which is beyond the prover and stays so.

## 5. Where the code does not do what it says

Four runs end in a violation:

* `full_active_pool`: `SetNextFreePool` takes "no free block" for "not in the list", but the
  active pool is in the list also when it is full. Deleting one of its objects counts it
  twice and links it to itself; when it is full again, `GetActiveFixedPool` "finds" the same
  full pool and `ForcedAllocate` follows a null `next_`. One thread, two blocks:
  fill the pool, delete, `New`, `New`.
* `stale_active_pool`: `GetActiveFixedPool` keeps the pool it read before
  `ConsumeDeallocRequests`, which may have pushed another one, and follows its link, which may
  lead past the end of `pools`.
* `clear_misses`: the block that filled a pool has no used mark once another block of the pool
  was freed; `Clear` does not destroy its object.
* `exit_destroys_twice`: `DeleteState` does not consume requests; an object deleted by another
  thread after its owner had exited is destroyed again.

Others appear when the configurations are varied:

* after `Clear` the pools other than `next_pool` are forgotten (`num_free_pools` and `next_pool` are not reset
  while `next_id` is): if `IsCareful` admitted clients that clear, `GrowsOnlyWhenFull` would fail for one thread and
  `Client({"local", "careful", "clear"}, 3, 4, 6, 0)`;
* `DeleteState` misses the unmarked block as `Clear` does (objects left at the end of the process);
* a constructor that throws leaves a block in use without an object, and `Clear` destroys one
  there: `NoDoubleDestroy` fails for `Client({"throw", "clear", "local"}, 2, 2, 4, 0)`;
* `Delete` within a destructor runs between `SetNextFreePool` and the free and pushes the same pool twice:
  if `IsCareful` admitted it, `ChainExact` would fail for `Client({"local", "careful"}, 2, 4, 4, 1)`;
* a `bad_alloc` in `AddNewPool` leaves `num_free_pools` at 0, and the next `New` wraps it:
  `ActivePoolIsThere` fails for `Client({"nomem"}, 2, 2, 4, 0)`;
* the objects of an exiting thread are not destroyed by its `Destroy`, as the comment at `memory_pool.h:14`
  says; the repository's `README.md:12` says they are;
* in `ProducerTable`, `count >= Cardinality(DOMAIN tables[Main].entries)` fails: `implicitProducerHashCount`, the
  "number of slots logically used" (`concurrentqueue.h:3664`), can fall below the number of slots used in the newest table.
  Two threads that still hold the table before the last reuse slots there that were given back, each takes
  one off the count, and when they are entered in the newest table they are not counted again. The comment at
  3419 infers from the count that there is room in the newest table;
* a thread that enqueues to a queue for the first time after its notifier was destroyed never
  gives that producer back, and its listener stays linked to an object that is gone (the latter is not in the
  model);
* an `enqueue_bulk` of a token's queue that fails after it has gone on into other blocks may leave the queue
  inconsistent. If it only went on into next blocks of the ring, dequeues still find their blocks, in order, but the entries it wrote stay
  behind the front, and when the index is as full as the ring they are written over the oldest in use: in
  `~ExplicitProducer` the search from 1799 on stops at the wrong block, the assertion at 1803 does not hold, or an item is
  destroyed a second time (`BlocksAccounted` fails without `NoneWrittenOver`). If it replaced the index after that, the new
  index has the entry of a block that was put back, which then gets a second one, and the positions counted through them are
  wrong. And blocks it inserted stay in the ring ("keep injected blocks", `concurrentqueue.h:2095`) but are no longer
  counted in `pr_blockIndexSlotsUsed`, so that the ring gets longer than the index takes it to be, and a later enqueue
  overwrites an entry still in use. `ExplicitProducer` shows these two with `Undo` TRUE, where `BlockFound`, `Refines` and
  `BlocksAccounted` fail. Enqueues of one item are not affected, and memory_pool has no producer tokens;
* when a token is used both in bulk and for one item at a time, the count of items consumed may go past the quota without
  being equal to it; `try_dequeue` compares by `==` (1200), and the token stays while its producer has items:
  `NoStarvation` fails for the cast `BothWays` if `Alone` admits it. Two tokens that rotate each other at the same pace may also
  leave a producer out, when each finds the offset moved by a multiple of the number of producers. A
  `PoolState` has one token and dequeues in bulk only.

## 6. What is not modelled

* Producer tokens as objects (`ProducerToken`), move and swap of queues, and elements that throw: the program has none.
  The queue of a token is modelled.
* `~ConcurrentQueue` (it deletes what is left when nobody uses the queue) and `unsubscribe`.
* A queue as one module composed of `ConsumerRotation`, `ProducerTable` and the producers. What each assumes of the others is a
  property of theirs: `ConsumerRotation` takes `AbstractQueue`'s contract for a producer (`Refines`) and that
  producers are counted before they are listed (its own `CountCoversList`); `ImplicitProducer` that one thread at a time enqueues
  (`OneOwner`), and that blocks come and go as from a free list (`NodesAccounted`); `MemoryPool` that a dequeue which
  returns nothing has looked everywhere (`NothingMissed`).
* Whether the loops of `ProducerTable` always find a free slot: it takes more threads than TLC can run (section 5 has
  what is known of the count they rely on).
* Weak memory orders. Alignment of `T` beyond `kMinAlignment`. Destruction order of
  unrelated thread_local and static objects. Benchmarks and tests.

## 7. Plan

Written so far: sections 2 to 5. In order:

1. Proofs: `BlockFound`, `BlocksAccounted` and FIFO of the explicit producer, from `CountersFit`.
2. Liveness of `ProducerTable` with two threads: a call ends unless the resizing thread is stopped.
3. A queue composed of `ConsumerRotation`, `ProducerTable` and `AbstractQueue`, and `MemoryPool`'s queues as its abstraction.
