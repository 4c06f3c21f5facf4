--------------------------- MODULE ProducerTable ---------------------------
(***************************************************************************)
(* How a thread that enqueues finds the ImplicitProducer that is its own:  *)
(* get_or_add_implicit_producer, the chain of lock-free hash tables it     *)
(* searches and grows, the list recycle_or_create_producer takes producers *)
(* from, and the ThreadExitNotifier that gives them back                   *)
(* (concurrentqueue.h).                                                    *)
(*                                                                         *)
(* A thread is its thread_id(), the address of a thread_local variable:    *)
(* when it has ended, another thread may start at the same address.        *)
(* memory_pool.h enqueues from the destructor of a thread_local object,    *)
(* which may run after that of the notifier: a Call stays possible then.   *)
(*                                                                         *)
(* One action is one access to what threads share, with two exceptions.    *)
(* The search for the own id in a table is one step: only the thread       *)
(* itself puts it there or takes it away, and no slot becomes Invalid      *)
(* again, so what others do meanwhile cannot change where it ends.  The    *)
(* release of a lock is part of the step before it.                        *)
(***************************************************************************)
EXTENDS Naturals, Sequences, FiniteSetsExt

CONSTANTS
  Threads,          (* the values of thread_id()                           *)
  HashedId,         (* hash_thread_id of each                              *)
  InitialCapacity,  (* INITIAL_IMPLICIT_PRODUCER_HASH_SIZE                 *)
  Null,
  Invalid,          (* details::invalid_thread_id: an empty slot           *)
  Invalid2,         (* details::invalid_thread_id2: a slot given back      *)
  AllocFails,       (* whether allocations may fail                        *)
  MaxSearches       (* bound: calls that do not find the thread's id       *)

ASSUME TableAssumption ==
  /\ IsFiniteSet(Threads)
  /\ HashedId \in [Threads -> Nat]
  /\ InitialCapacity \in {2, 4, 8, 16, 32}
  /\ {Null, Invalid, Invalid2} \intersect Threads = {}
  /\ Null \notin Nat
  /\ Cardinality({Null, Invalid, Invalid2}) = 3
  /\ AllocFails \in BOOLEAN
  /\ MaxSearches \in Nat

VARIABLES
  tables,         (* the hash tables, oldest first: the last one is        *)
                  (* implicitProducerHash, the one before it its prev      *)
  count,          (* implicitProducerHashCount                             *)
  resizing,       (* implicitProducerHashResizeInProgress                  *)
  inactive,       (* producer p's inactive, for each p on the list: the    *)
                  (* last one is producerListTail                          *)
  exitMutex,      (* who holds ThreadExitNotifier::mutex()                 *)
  notifier,       (* each thread's notifier: "none", "live", "destroyed"   *)
  listener,       (* the producer subscribed to it                         *)
  searches,       (* counted for the bound                                 *)
  pc,             (* what each thread is about to do                       *)
  local           (* the variables of the function it is in                *)

queue == <<tables, count, resizing, inactive>>
exits == <<exitMutex, notifier, listener>>
vars == <<queue, exits, searches, pc, local>>

(* A table is its capacity and the slots that were ever used.  A slot that *)
(* was given back has no value: nobody reads the one it has.               *)
EmptyTable(cap) == [capacity |-> cap, entries |-> [s \in {} |-> Null]]
Capacity(h) == tables[h].capacity
Key(h, s) ==
  IF s \in DOMAIN tables[h].entries THEN tables[h].entries[s].key ELSE Invalid
With(entries, s, entry) ==
  [i \in DOMAIN entries \union {s} |-> IF i = s THEN entry ELSE entries[i]]
Entered(h, s, entry) == [tables EXCEPT ![h].entries = With(@, s, entry)]
Half(h) == Capacity(h) \div 2
Main == Len(tables)

(* Slot number k, from 0, on the way of thread t through table h.          *)
Slot(t, h, k) == (HashedId[t] + k) % Capacity(h)

(* Whether the search for t's id in h ends at the id, or at an empty slot, *)
(* and the slot.                                                           *)
IsAt(t, h, k) ==
  /\ Key(h, Slot(t, h, k)) = t
  /\ \A i \in 0 .. k - 1 : Key(h, Slot(t, h, i)) # Invalid
IsIn(t, h) == \E k \in 0 .. Capacity(h) - 1 : IsAt(t, h, k)
Found(t, h) ==
  Slot(t, h, CHOOSE k \in 0 .. Capacity(h) - 1 : IsAt(t, h, k))

(* Locals: mainHash, newCount, producer, how far the thread has probed,    *)
(* ptr on the producer list, and the hash that an exit has come to.        *)
NoLocals == [mainHash |-> 0, newCount |-> 0, producer |-> Null,
             probe |-> 0, ptr |-> 0]

Go(t, label) == pc' = [pc EXCEPT ![t] = label]
Return(t) == Go(t, "idle") /\ local' = [local EXCEPT ![t] = NoLocals]

Init ==
  /\ tables = <<EmptyTable(InitialCapacity)>>
  /\ count = 0
  /\ resizing = FALSE
  /\ inactive = << >>
  /\ exitMutex = Null
  /\ notifier = [t \in Threads |-> "none"]
  /\ listener = [t \in Threads |-> Null]
  /\ searches = 0
  /\ pc = [t \in Threads |-> "idle"]
  /\ local = [t \in Threads |-> NoLocals]

-----------------------------------------------------------------------------
(* get_or_add_implicit_producer: look for the thread's id in every table,  *)
(* the current one first.  (A call that finds it there changes nothing.)   *)

(* A mistake: only the newest table is searched.                           *)
CallInNewest(t) ==
  /\ pc[t] = "idle"
  /\ ~ IsIn(t, Main)
  /\ searches < MaxSearches
  /\ searches' = searches + 1
  /\ Go(t, "count")
  /\ local' = [local EXCEPT ![t].mainHash = Main]
  /\ UNCHANGED <<queue, exits>>

Call(t) ==
  /\ pc[t] = "idle"
  /\ LET hashes == {h \in 1 .. Main : IsIn(t, h)}
         hash == Max(hashes)
     IN \/ /\ hashes = {}
           /\ searches < MaxSearches
           /\ searches' = searches + 1
           /\ Go(t, "count")
           /\ local' = [local EXCEPT ![t].mainHash = Main]
        \/ /\ hashes # {}
           /\ Main \notin hashes
           /\ Go(t, "add again")
           /\ local' = [local EXCEPT ![t].mainHash = Main,
                ![t].producer = tables[hash].entries[Found(t, hash)].value]
           /\ UNCHANGED searches
  /\ UNCHANGED <<queue, exits>>

(* The loop that enters id and producer into mainHash: into a slot that is *)
(* empty or was given back, or on to the next one.  An id found in an      *)
(* older table is entered here as well, and not counted again.             *)
ProbedSlot(t) == Slot(t, local[t].mainHash, local[t].probe)
ProbedKey(t) == Key(local[t].mainHash, ProbedSlot(t))

EnterId(t) ==
  /\ ProbedKey(t) \in {Invalid, Invalid2}
  /\ tables' = Entered(local[t].mainHash, ProbedSlot(t),
                       [key |-> t, value |-> local[t].producer])

NextSlot(t) ==
  /\ ProbedKey(t) \notin {Invalid, Invalid2}
  /\ local' = [local EXCEPT
       ![t].probe = (@ + 1) % Capacity(local[t].mainHash)]
  /\ UNCHANGED <<tables, pc>>

AddAgain(t) ==
  /\ pc[t] = "add again"
  /\ \/ EnterId(t) /\ Return(t)
     \/ NextSlot(t)
  /\ UNCHANGED <<count, resizing, inactive, exits>>

-----------------------------------------------------------------------------
(* Not found: count the entry, and grow the table when it is half full.    *)

Crowded(h, newCount) == newCount >= Half(h)

CountEntry(t) ==
  /\ pc[t] = "count"
  /\ count' = count + 1
  /\ local' = [local EXCEPT ![t].newCount = count']
  /\ Go(t, IF Crowded(local[t].mainHash, count') THEN "grow" ELSE "room?")
  /\ UNCHANGED <<tables, resizing, inactive, exits>>

TakeResizeFlag(t) ==
  /\ pc[t] = "grow"
  /\ resizing' = TRUE
  /\ Go(t, IF resizing THEN "room?" ELSE "resize")
  /\ UNCHANGED <<tables, count, inactive, exits, local>>

(* The holder of the flag looks at the newest table again, and adds one    *)
(* that is twice as large, or more, if the entries half fill it too.       *)
NewCapacity(n) ==
  LET doubled[k \in 0 .. n] ==
        2 * (IF k = 0 THEN Capacity(Main) ELSE doubled[k - 1])
  IN Min({cap \in {doubled[k] : k \in 0 .. n} : n < cap \div 2})

Resize(t) ==
  /\ pc[t] = "resize"
  /\ IF Crowded(Main, local[t].newCount)
       THEN tables' = Append(tables,
                             EmptyTable(NewCapacity(local[t].newCount)))
       ELSE UNCHANGED tables
  /\ local' = [local EXCEPT ![t].mainHash = Len(tables')]
  /\ resizing' = FALSE
  /\ Go(t, "room?")
  /\ UNCHANGED <<count, inactive, exits>>

ResizeFails(t) ==
  /\ AllocFails
  /\ pc[t] = "resize"
  /\ Crowded(Main, local[t].newCount)
  /\ count' = count - 1
  /\ resizing' = FALSE
  /\ Return(t)
  /\ UNCHANGED <<tables, inactive, exits>>

(* Room below three quarters: take a producer.  No room: wait for the      *)
(* thread that resizes.                                                    *)
Room(t) ==
  /\ pc[t] = "room?"
  /\ LET h == local[t].mainHash IN
     IF local[t].newCount < Half(h) + Capacity(h) \div 4
       THEN /\ Go(t, "recycle")
            /\ local' = [local EXCEPT ![t].ptr = Len(inactive),
                                      ![t].newCount = 0]
       ELSE /\ Go(t, IF Crowded(Main, local[t].newCount)
                       THEN "grow" ELSE "room?")
            /\ local' = [local EXCEPT ![t].mainHash = Main]
  /\ UNCHANGED <<queue, exits>>

-----------------------------------------------------------------------------
(* recycle_or_create_producer: the first inactive producer of the list, or *)
(* a new one at its end.  (add_producer counts the producer first, for the *)
(* consumers.)                                                             *)

(* A mistake: the search ends at the first producer in use.                *)
RecycleFirst(t) ==
  /\ pc[t] = "recycle"
  /\ local[t].ptr > 0
  /\ IF inactive[local[t].ptr]
       THEN /\ inactive' = [inactive EXCEPT ![local[t].ptr] = FALSE]
            /\ local' = [local EXCEPT ![t].producer = local[t].ptr]
            /\ Go(t, "subscribe")
       ELSE /\ local' = [local EXCEPT ![t].ptr = 0]
            /\ UNCHANGED <<inactive, pc>>
  /\ UNCHANGED <<tables, count, resizing, exits>>

Recycle(t) ==
  /\ pc[t] = "recycle"
  /\ local[t].ptr > 0
  /\ IF inactive[local[t].ptr]
       THEN /\ inactive' = [inactive EXCEPT ![local[t].ptr] = FALSE]
            /\ local' = [local EXCEPT ![t].producer = local[t].ptr]
            /\ Go(t, "subscribe")
       ELSE /\ local' = [local EXCEPT ![t].ptr = @ - 1]
            /\ UNCHANGED <<inactive, pc>>
  /\ UNCHANGED <<tables, count, resizing, exits>>

(* A mistake: the one returned is next to the new one.                     *)
CreateReturnsNext(t) ==
  /\ pc[t] = "recycle"
  /\ local[t].ptr = 0
  /\ inactive' = Append(inactive, FALSE)
  /\ local' = [local EXCEPT ![t].producer = Len(inactive)]
  /\ Go(t, "subscribe")
  /\ UNCHANGED <<tables, count, resizing, exits>>

Create(t) ==
  /\ pc[t] = "recycle"
  /\ local[t].ptr = 0
  /\ inactive' = Append(inactive, FALSE)
  /\ local' = [local EXCEPT ![t].producer = Len(inactive')]
  /\ Go(t, "subscribe")
  /\ UNCHANGED <<tables, count, resizing, exits>>

CreateFails(t) ==
  /\ AllocFails
  /\ pc[t] = "recycle"
  /\ local[t].ptr = 0
  /\ count' = count - 1
  /\ Return(t)
  /\ UNCHANGED <<tables, resizing, inactive, exits>>

(* ThreadExitNotifier::subscribe makes the thread's notifier on first use. *)
(* One that is destroyed already takes the listener and never calls it.    *)
Subscribe(t) ==
  /\ pc[t] = "subscribe"
  /\ exitMutex = Null
  /\ IF notifier[t] = "destroyed"
       THEN UNCHANGED <<notifier, listener>>
       ELSE /\ notifier' = [notifier EXCEPT ![t] = "live"]
            /\ listener' = [listener EXCEPT ![t] = local[t].producer]
  /\ local' = [local EXCEPT ![t].ptr = 0]
  /\ Go(t, "insert")
  /\ UNCHANGED <<queue, exitMutex>>

(* A slot that was given back has been counted already.                    *)
Insert(t) ==
  /\ pc[t] = "insert"
  /\ \/ /\ EnterId(t)
        /\ IF ProbedKey(t) = Invalid2
             THEN /\ Go(t, "uncount")
                  /\ local' = [local EXCEPT ![t].mainHash = 0,
                                            ![t].probe = 0]
             ELSE Return(t)
     \/ NextSlot(t)
  /\ UNCHANGED <<count, resizing, inactive, exits>>

Uncount(t) ==
  /\ pc[t] = "uncount"
  /\ count' = count - 1
  /\ Return(t)
  /\ UNCHANGED <<tables, resizing, inactive, exits>>

-----------------------------------------------------------------------------
(* A thread ends.  ~ThreadExitNotifier calls the listener, which takes the *)
(* thread's id out of every table and gives the producer back.  (A bound:  *)
(* no thread starts to end once the last search allowed has begun.)        *)

Exit(t) ==
  /\ pc[t] = "idle"
  /\ notifier[t] = "live"
  /\ searches < MaxSearches
  /\ exitMutex = Null
  /\ exitMutex' = t
  /\ Go(t, "remove")
  /\ local' = [local EXCEPT ![t].mainHash = Main]
  /\ UNCHANGED <<queue, notifier, listener>>

(* A mistake: only the newest table is gone through.                       *)
RemoveFromNewest(t) ==
  /\ pc[t] = "remove"
  /\ LET h == local[t].mainHash IN
     IF IsIn(t, h)
       THEN tables' = Entered(h, Found(t, h), [key |-> Invalid2,
                                               value |-> Null])
       ELSE UNCHANGED tables
  /\ local' = [local EXCEPT ![t].mainHash = 0]
  /\ Go(t, "deactivate")
  /\ UNCHANGED <<count, resizing, inactive, exits>>

Remove(t) ==
  /\ pc[t] = "remove"
  /\ LET h == local[t].mainHash IN
     /\ IF IsIn(t, h)
          THEN tables' = Entered(h, Found(t, h), [key |-> Invalid2,
                                                  value |-> Null])
          ELSE UNCHANGED tables
     /\ local' = [local EXCEPT ![t].mainHash = h - 1]
     /\ Go(t, IF h > 1 THEN "remove" ELSE "deactivate")
  /\ UNCHANGED <<count, resizing, inactive, exits>>

Deactivate(t) ==
  /\ pc[t] = "deactivate"
  /\ inactive' = [inactive EXCEPT ![listener[t]] = TRUE]
  /\ listener' = [listener EXCEPT ![t] = Null]
  /\ notifier' = [notifier EXCEPT ![t] = "destroyed"]
  /\ exitMutex' = Null
  /\ Return(t)
  /\ UNCHANGED <<tables, count, resizing>>

(* The thread is gone, and another one starts at its address.              *)
Restart(t) ==
  /\ pc[t] = "idle"
  /\ notifier[t] = "destroyed"
  /\ notifier' = [notifier EXCEPT ![t] = "none"]
  /\ UNCHANGED <<queue, exitMutex, listener, pc, local>>

-----------------------------------------------------------------------------
Step(t) ==
  \/ AddAgain(t) \/ CountEntry(t)
  \/ TakeResizeFlag(t) \/ Resize(t) \/ ResizeFails(t) \/ Room(t)
  \/ Recycle(t) \/ Create(t) \/ CreateFails(t)
  \/ Subscribe(t) \/ Insert(t) \/ Uncount(t)
  \/ Remove(t) \/ Deactivate(t)

Next ==
  \E t \in Threads :
    \/ Call(t)
    \/ UNCHANGED searches /\ (Step(t) \/ Exit(t) \/ Restart(t))

Spec == Init /\ [][Next]_vars

-----------------------------------------------------------------------------
(* Properties.                                                             *)

Labels == {"idle", "add again", "count", "grow", "resize", "room?", "recycle",
           "subscribe", "insert", "uncount", "remove", "deactivate"}

(* The producers there are.                                                *)
Producers == 1 .. Len(inactive)

Entry ==
  [key : Threads, value : Producers] \union [key : {Invalid2}, value : {Null}]

IsTable(T) ==
  /\ T = [capacity |-> T.capacity, entries |-> T.entries]
  /\ T.capacity \in Nat \ {0}
  /\ DOMAIN T.entries \subseteq 0 .. T.capacity - 1
  /\ T.entries \in [DOMAIN T.entries -> Entry]

Local ==
  [mainHash : 0 .. Main, newCount : Nat, producer : Producers \union {Null},
   probe : Nat, ptr : 0 .. Len(inactive)]

(* The type invariant.                                                     *)
TypeOK ==
  /\ tables \in Seq({tables[h] : h \in DOMAIN tables})
  /\ tables # << >>
  /\ \A h \in DOMAIN tables : IsTable(tables[h])
  /\ count \in Nat
  /\ resizing \in BOOLEAN
  /\ inactive \in Seq(BOOLEAN)
  /\ exitMutex \in Threads \union {Null}
  /\ notifier \in [Threads -> {"none", "live", "destroyed"}]
  /\ listener \in [Threads -> Producers \union {Null}]
  /\ searches \in Nat
  /\ pc \in [Threads -> Labels]
  /\ local \in [Threads -> Local]

(* Thread t has producer p in a table.                                     *)
Holds(t, p) ==
  \E h \in DOMAIN tables : \E s \in DOMAIN tables[h].entries :
    tables[h].entries[s] = [key |-> t, value |-> p]

(* Thread t is about to use producer p, or will find it when it looks, or  *)
(* has yet to give it back.                                                *)
Owns(t, p) == local[t].producer = p \/ listener[t] = p \/ Holds(t, p)

(* A producer that is not inactive is some one thread's, and an inactive   *)
(* one is nobody's, while threads exit, take producers over and move to    *)
(* larger tables: an ImplicitProducer relies on being enqueued to by one   *)
(* thread at a time, and one that nobody has would never be used again.    *)
OneOwner ==
  \A p \in Producers :
    Cardinality({t \in Threads : Owns(t, p)}) = IF inactive[p] THEN 0 ELSE 1

(* "If it's not found, it must not be in there yet, since this same thread *)
(* would have added it previously to one of the tables that we traversed": *)
(* a thread never misses its own entry and takes a second producer, which  *)
(* would put its items out of order.                                       *)
OneProducer ==
  \A t \in Threads : Cardinality({p \in Producers : Owns(t, p)}) <= 1

(* Producers are recycled: whoever finds none on its way through the list *)
(* really needs one more, although others give back and take while it      *)
(* looks, and threads come and go.  So the list, which never shrinks, is   *)
(* no longer than there are threads at a time.                             *)
ProducersAreRecycled == Len(inactive) <= Cardinality(Threads)
=============================================================================
