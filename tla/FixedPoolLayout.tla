-------------------------- MODULE FixedPoolLayout --------------------------
(***************************************************************************)
(* The memory layout of a FixedPool (fixed_pool.h, fixed_pool.cpp): one    *)
(* array of equal blocks, each [(padding)(header)(data)], addressed by     *)
(* index in one direction and by pointer in the other.  Addresses are byte *)
(* offsets from mem_start_.                                                *)
(***************************************************************************)
EXTENDS Integers

CONSTANTS
  NumBlocks,     (* num_of_blocks_                                         *)
  SizeOfData,    (* sizeof(T), the size asked of FixedPool::Create         *)
  HeaderBytes,   (* sizeof(Header)                                         *)
  MinAlignment,  (* kMinAlignment                                          *)
  Word           (* 2^32: IndexFromAddr computes in uint32_t               *)

Blocks == 0 .. NumBlocks - 1

(* Align: for a power of two, masking the low bits off rounds up to the    *)
(* next multiple.                                                          *)
Align(val, alignment) ==
  ((val + (alignment - 1)) \div alignment) * alignment

(* CreatePool: size_of_each_block_ and pad_before_header_.                 *)
Stride == Align(HeaderBytes + SizeOfData, MinAlignment)
Pad    == Stride - (HeaderBytes + SizeOfData)

(* The address of a block's header, behind the padding.                    *)
AddrFromIndex(i) == i * Stride + Pad

(* The index of the block whose header is at p, with both operands of the  *)
(* division truncated to 32 bits.                                          *)
IndexFromAddr(p) == ((p - Pad) % Word) \div (Stride % Word)

ToData(p)     == p + HeaderBytes
ReadHeader(d) == d - HeaderBytes

(* What the arithmetic needs of the parameters.  The last two conjuncts    *)
(* are not checked anywhere in the code: the byte array of one pool has to *)
(* stay within the 32 bits IndexFromAddr keeps of a distance.              *)
ASSUME LayoutAssumption ==
  /\ NumBlocks \in Nat \ {0}
  /\ SizeOfData \in Nat \ {0}
  /\ HeaderBytes \in Nat \ {0}
  /\ MinAlignment \in Nat \ {0}
  /\ Word \in Nat \ {0}
  /\ Stride < Word
  /\ (NumBlocks - 1) * Stride < Word
=============================================================================
