---------------------------- MODULE SimpleAlloc -----------------------------
(***************************************************************************)
(* The bump allocator that is the global allocator of the bare-metal       *)
(* example and of the guarded Wasm program: one buffer, handed out from    *)
(* its start to its end, nothing ever given back. Each method runs under   *)
(* the allocator's spin lock on a single core, so it is one step here.     *)
(*                                                                         *)
(* Addresses are usize and wrap at Word. A layout is what Layout admits: a *)
(* size that fits isize after rounding up to the alignment.                *)
(***************************************************************************)
EXTENDS Integers, Sequences

CONSTANTS
  Word,        (* addresses are modulo Word                                  *)
  BufAddr,     (* address of the buffer given to init                        *)
  BufLen,      (* its length                                                 *)
  Sizes,       (* sizes of the layouts asked for                             *)
  Aligns       (* their alignments, powers of two                            *)

(* The buffer lies in the lower half of the address space: the bare-metal  *)
(* example maps 4 GiB of 2^64 bytes, and the Wasm program's buffer is      *)
(* 16 MiB near the start of a 32-bit linear memory.                        *)
ASSUME AllocAssumption ==
  /\ Word \in Nat
  /\ BufAddr \in Nat
  /\ BufLen \in Nat
  /\ 0 < BufAddr /\ 2 * (BufAddr + BufLen) <= Word
  /\ \A size \in Sizes : size \in Nat /\ 0 < size /\ 2 * size < Word
  /\ \A align \in Aligns : align \in Nat /\ 0 < align /\ 2 * align <= Word

VARIABLES
  startAddr,   (* RawSimpleAlloc::start_addr                                 *)
  endAddr,     (* RawSimpleAlloc::end_addr                                   *)
  panicked,    (* out of memory                                              *)
  blocks       (* history: the blocks returned so far, none is ever freed    *)

vars == <<startAddr, endAddr, panicked, blocks>>

Block == [ptr : Nat, size : Sizes, align : Aligns]

(* const fn new: an allocator with an empty buffer at address 0. *)
Init ==
  /\ startAddr = 0
  /\ endAddr = 0
  /\ panicked = FALSE
  /\ blocks = <<>>

(* Mutant: the length is taken for the end. *)
InitBufLenOnly ==
  /\ ~panicked
  /\ endAddr = 0
  /\ startAddr' = BufAddr
  /\ endAddr' = BufLen
  /\ UNCHANGED <<panicked, blocks>>

(* init is called once: by main, and by the Wasm program's main, which     *)
(* remembers in ALLOC_INIT that it was.                                    *)
InitBuf ==
  /\ ~panicked
  /\ endAddr = 0
  /\ startAddr' = BufAddr
  /\ endAddr' = BufAddr + BufLen
  /\ UNCHANGED <<panicked, blocks>>

AlignOffset(addr, align) == (align - (addr % align)) % align

AlignedPtr(align) == (startAddr + AlignOffset(startAddr, align)) % Word

NextPtr(size, align) == (AlignedPtr(align) + size) % Word

(* Mutant: only the start of the block is compared with the end. *)
OutOfMemoryAtStart(size, align) == AlignedPtr(align) >= endAddr

(* A block that would end exactly at the end of the buffer is refused too. *)
OutOfMemory(size, align) ==
  AlignedPtr(align) >= endAddr \/ NextPtr(size, align) >= endAddr

Return(p, size, align) ==
  blocks' = Append(blocks, [ptr |-> p, size |-> size, align |-> align])

(* Mutant: the padding is not counted. *)
AllocUnpadded(size, align) ==
  /\ ~panicked
  /\ ~OutOfMemory(size, align)
  /\ startAddr' = (startAddr + size) % Word
  /\ Return(AlignedPtr(align), size, align)
  /\ UNCHANGED <<endAddr, panicked>>

Alloc(size, align) ==
  /\ ~panicked
  /\ ~OutOfMemory(size, align)
  /\ startAddr' = NextPtr(size, align)
  /\ Return(AlignedPtr(align), size, align)
  /\ UNCHANGED <<endAddr, panicked>>

(* The panic leaves the allocator locked; neither panic handler returns. *)
AllocPanic(size, align) ==
  /\ ~panicked
  /\ OutOfMemory(size, align)
  /\ panicked' = TRUE
  /\ UNCHANGED <<startAddr, endAddr, blocks>>

(* dealloc does nothing, and nothing runs on after a panic. *)
Dealloc == UNCHANGED vars

Next ==
  \/ InitBuf \/ Dealloc
  \/ \E size \in Sizes, align \in Aligns :
       Alloc(size, align) \/ AllocPanic(size, align)

Spec == Init /\ [][Next]_vars
-----------------------------------------------------------------------------
(* The types of the variables: the allocator is new or has its buffer, and *)
(* the next address is in it.                                              *)
TypeOK ==
  /\ endAddr \in {0, BufAddr + BufLen}
  /\ startAddr \in IF endAddr = 0 THEN {0} ELSE BufAddr .. endAddr
  /\ panicked \in BOOLEAN
  /\ blocks \in Seq(Block)

End(b) == b.ptr + b.size

(* Every block handed out, whatever was asked for before it and however    *)
(* full the buffer is, is aligned and lies in the buffer.                  *)
BlocksInBuffer ==
  \A i \in DOMAIN blocks :
    /\ blocks[i].ptr % blocks[i].align = 0
    /\ BufAddr <= blocks[i].ptr
    /\ End(blocks[i]) <= BufAddr + BufLen

(* No two blocks share a byte: each lies behind all that were handed out   *)
(* before it.                                                              *)
BlocksDisjoint ==
  \A i, j \in DOMAIN blocks : i < j => End(blocks[i]) <= blocks[j].ptr
=============================================================================
