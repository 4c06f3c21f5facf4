---------------------------- MODULE MCMemoryPool ----------------------------
(* MemoryPool for TLC.                                                     *)
EXTENDS MemoryPoolProperties, TLC

(* Threads other than the one that runs the static destructors, and in     *)
(* whose state objects are created, are alike.                             *)
Deleters == Permutations(Threads \ ({Main} \union Makers))

(* The clients.  With two blocks to a pool, two live objects fill a pool,  *)
(* and six fill three.                                                     *)
Client(uses, pools, listed, live_, nest) ==
  [uses |-> uses, pools |-> pools, listed |-> listed, live |-> live_, nest |-> nest]

Plain       == Client({}, 2, 2, 2, 0)
OutOfMemory == Client({"throw", "nomem"}, 1, 1, 2, 0)
Remote      == {Plain, OutOfMemory}

Clearing    == Client({"clear"}, 2, 2, 2, 1)
Careful     == Client({"local", "careful", "exit"}, 3, 4, 6, 0)
Local       == {Clearing, Careful}

(* Those of the runs that find what the comments promise and is not kept.  *)
LocalOnly     == {Client({"local"}, 2, 4, 4, 0)}
RemoteOnly    == {Client({}, 3, 4, 4, 0)}
LocalClearing == {Client({"local", "clear"}, 2, 2, 4, 0)}
Exiting       == {Client({"exit"}, 2, 2, 4, 0)}
=============================================================================
