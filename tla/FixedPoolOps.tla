---------------------------- MODULE FixedPoolOps ----------------------------
(***************************************************************************)
(* The operations of FixedPool on the value of its members.  A pool is a   *)
(* record whose fields carry the names of the C++ members; next is the     *)
(* index of the block next_ points at, or Null for nullptr, and the two    *)
(* functions are the headers of the blocks.                                *)
(***************************************************************************)
EXTENDS FixedPoolLayout

CONSTANTS
  Null,      (* nullptr                                                    *)
  NoId,      (* the pool_identifier bytes memset leaves in a block         *)
  Garbage    (* the next_block_idx bytes memset leaves: 0x0f0f0f0f         *)

(* A wiped header must not read as "used"; one past the block count must   *)
(* be representable.                                                       *)
ASSUME FixedPoolAssumption ==
  /\ Null \notin Int
  /\ Garbage \in Nat
  /\ Garbage # NumBlocks + 1

(* A mistake: the mark ForcedDeAllocate gives the last free block.          *)
UsedMarkIsEndMark == NumBlocks

(* next_block_idx of a block that has been handed out.                     *)
UsedMark == NumBlocks + 1

(* A mistake: ReclaimAll that keeps num_initialized_.                      *)
FreshPoolInitialized ==
  [ num_free_blocks |-> NumBlocks,
    num_initialized |-> 1,
    next            |-> 0,
    next_block_idx  |-> [b \in Blocks |-> Garbage],
    pool_identifier |-> [b \in Blocks |-> NoId] ]

(* CreatePool and ReclaimAll: everything free, no header written yet.      *)
FreshPool ==
  [ num_free_blocks |-> NumBlocks,
    num_initialized |-> 0,
    next            |-> 0,
    next_block_idx  |-> [b \in Blocks |-> Garbage],
    pool_identifier |-> [b \in Blocks |-> NoId] ]

IsAnyBlockAvailable(fp) == fp.num_free_blocks > 0

(* The pool takes next_ == nullptr for "everything is in use"; otherwise   *)
(* the mark in the header decides.                                         *)
IsBlockUsed(fp, b) == fp.next = Null \/ fp.next_block_idx[b] = UsedMark

(* Mistakes: the guard off by one; the block linked to itself; an          *)
(* identifier left from before.                                            *)
InitOneBlockPastEnd(fp, id) ==
  IF fp.num_initialized <= NumBlocks
  THEN [fp EXCEPT !.num_initialized = @ + 1]
  ELSE fp

InitOneBlockSelfLink(fp, id) ==
  IF fp.num_initialized < NumBlocks
  THEN [fp EXCEPT !.next_block_idx[fp.num_initialized]  = fp.num_initialized,
                  !.pool_identifier[fp.num_initialized] = id,
                  !.num_initialized = @ + 1]
  ELSE fp

InitOneBlockNoId(fp, id) ==
  IF fp.num_initialized < NumBlocks
  THEN [fp EXCEPT !.next_block_idx[fp.num_initialized] = fp.num_initialized + 1,
                  !.num_initialized = @ + 1]
  ELSE fp

(* Each allocation writes the header of one more untouched block, linking  *)
(* it to the block behind it.                                              *)
InitOneBlock(fp, id) ==
  IF fp.num_initialized < NumBlocks
  THEN [fp EXCEPT !.next_block_idx[fp.num_initialized]  = fp.num_initialized + 1,
                  !.pool_identifier[fp.num_initialized] = id,
                  !.num_initialized = @ + 1]
  ELSE fp

(* A mistake: next_ stays where it is.                                     *)
PopNextStays(fp) ==
  [fp EXCEPT !.num_free_blocks = @ - 1, !.next_block_idx[fp.next] = UsedMark]

(* Pops next.  The block that empties the pool does not get the mark.      *)
(* Defined for a pool with a free block: without one, next_ is nullptr and *)
(* the code dereferences it.                                               *)
PopNext(fp) ==
  IF fp.num_free_blocks # 1
  THEN [fp EXCEPT !.num_free_blocks = @ - 1,
                  !.next = fp.next_block_idx[fp.next],
                  !.next_block_idx[fp.next] = UsedMark]
  ELSE [fp EXCEPT !.num_free_blocks = 0, !.next = Null]

ForcedAllocate(fp, id) == PopNext(InitOneBlock(fp, id))

(* A mistake: the block is counted twice.                                  *)
ForcedDeAllocateCountsTwice(fp, b) ==
  [fp EXCEPT !.next_block_idx[b] = IF fp.next = Null THEN NumBlocks ELSE fp.next,
             !.next = b,
             !.num_free_blocks = @ + 2]

(* Pushes block b.                                                         *)
ForcedDeAllocate(fp, b) ==
  [fp EXCEPT !.next_block_idx[b] = IF fp.next = Null
                                   THEN NumBlocks
                                   ELSE IndexFromAddr(AddrFromIndex(fp.next)),
             !.next = b,
             !.num_free_blocks = @ + 1]

-----------------------------------------------------------------------------
(* What is said about a pool whose blocks in `used` are handed out.        *)

FixedPoolRecord(Ids) ==
  [ num_free_blocks : 0 .. NumBlocks,
    num_initialized : 0 .. NumBlocks,
    next            : Blocks \union {Null},
    next_block_idx  : [Blocks -> Nat],
    pool_identifier : [Blocks -> Ids \union {NoId}] ]

(* The blocks whose header has been written, and how many are free.        *)
Initialized(fp)     == 0 .. fp.num_initialized - 1
FreeInitialized(fp) == fp.num_free_blocks - (NumBlocks - fp.num_initialized)

(* c lists the free initialized blocks in the order next_block_idx links   *)
(* them; the last one links to the first block not yet initialized, where  *)
(* the list goes on implicitly.                                            *)
ListsFreeBlocks(fp, used, c) ==
  LET n == FreeInitialized(fp) IN
  /\ \A i, j \in 0 .. n - 1 : c[i] = c[j] => i = j
  /\ \A b \in Initialized(fp) \ used : \E i \in 0 .. n - 1 : c[i] = b
  /\ \A i \in 0 .. n - 1 : c[i] \notin used
  /\ \A i \in 0 .. n - 2 : fp.next_block_idx[c[i]] = c[i + 1]
  /\ n > 0 => /\ fp.next = c[0]
              /\ fp.next_block_idx[c[n - 1]] = fp.num_initialized
  /\ n = 0 => fp.next = IF fp.num_initialized < NumBlocks
                        THEN fp.num_initialized ELSE Null

(* The blocks initialized so far carry the identifier of their pool; the   *)
(* others are as memset left them.                                         *)
HeadersOK(fp, id) ==
  \A b \in Blocks : IF b < fp.num_initialized
                    THEN fp.pool_identifier[b] = id
                    ELSE fp.next_block_idx[b] = Garbage

(* The free list: it holds every block that is not handed out, once, and   *)
(* no block that is.                                                       *)
FreeListOK(fp, used) ==
  /\ FreeInitialized(fp) \in Nat
  /\ used \subseteq Initialized(fp)
  /\ \E c \in [0 .. FreeInitialized(fp) - 1 -> Initialized(fp)] :
       ListsFreeBlocks(fp, used, c)
=============================================================================
