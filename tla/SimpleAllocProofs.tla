------------------------- MODULE SimpleAllocProofs --------------------------
(***************************************************************************)
(* The blocks SimpleAlloc hands out are aligned, inside the buffer and     *)
(* disjoint, for every buffer in the lower half of the address space and   *)
(* every set of layouts. The invariant adds what start_addr means: all     *)
(* blocks end at or before it.                                             *)
(***************************************************************************)
EXTENDS SimpleAlloc, TLAPS

StartInBuffer ==
  /\ endAddr = 0 => startAddr = 0 /\ blocks = <<>>
  /\ endAddr # 0 => BufAddr <= startAddr /\ startAddr <= endAddr
  /\ \A i \in DOMAIN blocks : End(blocks[i]) <= startAddr

IInv == TypeOK /\ BlocksInBuffer /\ BlocksDisjoint /\ StartInBuffer

(* The offset to the next aligned address, from the code of align_offset   *)
(* for a power of two, does lead to an aligned one, less than align away.  *)
LEMMA AlignOffsetAligns ==
  ASSUME NEW addr \in Nat, NEW align \in Nat, 0 < align
  PROVE  /\ AlignOffset(addr, align) \in 0 .. align - 1
         /\ (addr + AlignOffset(addr, align)) % align = 0
<1> DEFINE r == addr % align
           q == addr \div align
<1>1. r \in 0 .. align - 1 /\ q \in Nat /\ addr = align * q + r
  OBVIOUS
<1>2. CASE r = 0
  <2>1. AlignOffset(addr, align) = 0
    BY <1>2 DEF AlignOffset
  <2> QED
    BY <1>2, <2>1
<1>3. CASE r # 0
  <2>1. AlignOffset(addr, align) = align - r
    <3>1. align - r \in 0 .. align - 1
      BY <1>1, <1>3
    <3>2. (align - r) % align = align - r
      BY <3>1
    <3> QED
      BY <3>2 DEF AlignOffset
  <2>2. addr + (align - r) = align * (q + 1)
    BY <1>1
  <2>3. (align * (q + 1)) % align = 0
    BY <1>1
  <2> QED
    BY <1>1, <1>3, <2>1, <2>2, <2>3
<1> QED
  BY <1>2, <1>3

(* Neither addition wraps when the request is granted. *)
LEMMA GrantedBlock ==
  ASSUME IInv, NEW size \in Sizes, NEW align \in Aligns,
         ~OutOfMemory(size, align)
  PROVE  /\ AlignedPtr(align) \in Nat
         /\ AlignedPtr(align) % align = 0
         /\ startAddr <= AlignedPtr(align)
         /\ NextPtr(size, align) = AlignedPtr(align) + size
         /\ NextPtr(size, align) < endAddr
         /\ endAddr = BufAddr + BufLen
<1> DEFINE off == AlignOffset(startAddr, align)
<1>1. /\ Word \in Nat /\ BufAddr \in Nat /\ BufLen \in Nat
      /\ 2 * (BufAddr + BufLen) <= Word /\ 0 < BufAddr
      /\ size \in Nat /\ 2 * size < Word
      /\ align \in Nat /\ 0 < align /\ 2 * align <= Word
      /\ startAddr \in Nat /\ endAddr \in {0, BufAddr + BufLen}
  BY AllocAssumption DEF IInv, TypeOK
<1>2. off \in 0 .. align - 1 /\ (startAddr + off) % align = 0
  BY <1>1, AlignOffsetAligns
<1>3. startAddr <= BufAddr + BufLen
  BY <1>1 DEF IInv, StartInBuffer
<1>4. startAddr + off \in Nat /\ startAddr + off < Word
  BY <1>1, <1>2, <1>3
<1>5. AlignedPtr(align) = startAddr + off
  BY <1>1, <1>4 DEF AlignedPtr
<1>6. AlignedPtr(align) < endAddr
  BY <1>1, <1>4, <1>5 DEF OutOfMemory
<1>7. AlignedPtr(align) + size < Word /\ AlignedPtr(align) + size \in Nat
  BY <1>1, <1>4, <1>5, <1>6
<1>8. NextPtr(size, align) = AlignedPtr(align) + size
  BY <1>1, <1>7 DEF NextPtr
<1>9. NextPtr(size, align) < endAddr
  BY <1>1, <1>7, <1>8 DEF OutOfMemory
<1>10. endAddr = BufAddr + BufLen
  BY <1>1, <1>4, <1>5, <1>6
<1>11. AlignedPtr(align) \in Nat /\ startAddr <= AlignedPtr(align)
  BY <1>1, <1>2, <1>4, <1>5
<1>12. AlignedPtr(align) % align = 0
  BY <1>2, <1>5
<1> QED
  BY <1>8, <1>9, <1>10, <1>11, <1>12

LEMMA InitIInv == Init => IInv
<1> SUFFICES ASSUME Init PROVE IInv
    OBVIOUS
<1>1. blocks = <<>> /\ DOMAIN blocks = {} /\ blocks \in Seq(Block)
  BY DEF Init
<1>2. BlocksInBuffer /\ BlocksDisjoint /\ StartInBuffer
  BY <1>1 DEF Init, BlocksInBuffer, BlocksDisjoint, StartInBuffer
<1>3. TypeOK
  BY <1>1 DEF Init, TypeOK
<1> QED
  BY <1>2, <1>3 DEF IInv

LEMMA StepKeepsIInv == IInv /\ [Next]_vars => IInv'
<1> SUFFICES ASSUME IInv, [Next]_vars PROVE IInv'
    OBVIOUS
<1>1. CASE InitBuf
  BY <1>1, AllocAssumption
     DEF InitBuf, IInv, TypeOK, BlocksInBuffer, BlocksDisjoint, StartInBuffer
<1>2. ASSUME NEW size \in Sizes, NEW align \in Aligns, Alloc(size, align)
      PROVE  IInv'
  <2> DEFINE b == [ptr |-> AlignedPtr(align), size |-> size, align |-> align]
             n == Len(blocks)
  <2>1. /\ blocks' = Append(blocks, b) /\ startAddr' = NextPtr(size, align)
        /\ endAddr' = endAddr /\ panicked' = panicked
        /\ ~OutOfMemory(size, align)
    BY <1>2 DEF Alloc, Return
  <2>2. /\ AlignedPtr(align) \in Nat /\ AlignedPtr(align) % align = 0
        /\ startAddr <= AlignedPtr(align)
        /\ startAddr' = AlignedPtr(align) + size /\ startAddr' < endAddr
        /\ endAddr = BufAddr + BufLen
    BY <2>1, GrantedBlock
  <2>3. /\ size \in Nat /\ 0 < size /\ BufAddr \in Nat /\ BufLen \in Nat
        /\ 0 < BufAddr /\ startAddr \in Nat /\ blocks \in Seq(Block)
    BY AllocAssumption DEF IInv, TypeOK
  <2>4. b \in Block
    BY <2>2 DEF Block
  <2>5. /\ n \in Nat /\ DOMAIN blocks = 1 .. n /\ DOMAIN blocks' = 1 .. n + 1
        /\ blocks'[n + 1] = b
        /\ \A i \in 1 .. n : blocks'[i] = blocks[i] /\ blocks[i] \in Block
    BY <2>1, <2>3, <2>4
  <2>6. \A i \in 1 .. n : End(blocks[i]) \in Nat /\ End(blocks[i]) <= startAddr
    <3>1. ASSUME NEW i \in 1 .. n
          PROVE  blocks[i].ptr \in Nat /\ blocks[i].size \in Nat
      BY <2>5, AllocAssumption DEF Block
    <3> QED
      BY <2>5, <3>1 DEF IInv, StartInBuffer, End
  <2>7. TypeOK'
    BY <2>1, <2>2, <2>3, <2>4 DEF IInv, TypeOK
  <2>8. BlocksInBuffer'
    <3>1. /\ b.ptr % b.align = 0 /\ BufAddr <= b.ptr
          /\ End(b) <= BufAddr + BufLen
      BY <2>2, <2>3 DEF IInv, StartInBuffer, End
    <3> QED
      BY <2>5, <3>1 DEF IInv, BlocksInBuffer, End
  <2>9. BlocksDisjoint'
    <3>1. \A i \in 1 .. n : End(blocks[i]) <= b.ptr
      BY <2>2, <2>3, <2>6
    <3>2. \A i, j \in 1 .. n + 1 : i < j => i \in 1 .. n /\ (j = n + 1 \/ j \in 1 .. n)
      BY <2>5
    <3> QED
      BY <2>5, <3>1, <3>2 DEF IInv, BlocksDisjoint, End
  <2>10. StartInBuffer'
    <3>1. End(b) = startAddr'
      BY <2>2 DEF End
    <3>2. \A i \in 1 .. n : End(blocks[i]) <= startAddr'
      BY <2>2, <2>3, <2>6
    <3>3. \A i \in 1 .. n + 1 : End(blocks'[i]) <= startAddr'
      BY <2>2, <2>3, <2>5, <3>1, <3>2 DEF End
    <3> QED
      BY <2>1, <2>2, <2>3, <2>5, <3>3 DEF IInv, StartInBuffer, End
  <2> QED
    BY <2>7, <2>8, <2>9, <2>10 DEF IInv
<1>3. ASSUME NEW size \in Sizes, NEW align \in Aligns, AllocPanic(size, align)
      PROVE  IInv'
  BY <1>3 DEF AllocPanic, IInv, TypeOK, BlocksInBuffer, BlocksDisjoint,
              StartInBuffer, End
<1>4. CASE Dealloc \/ UNCHANGED vars
  BY <1>4 DEF Dealloc, vars, IInv, TypeOK, BlocksInBuffer, BlocksDisjoint,
              StartInBuffer, End
<1> QED
  BY <1>1, <1>2, <1>3, <1>4 DEF Next

LEMMA IInvHolds == Spec => []IInv
BY InitIInv, StepKeepsIInv, PTL DEF Spec

(* The allocator is new or has its whole buffer, the next address is then  *)
(* in it, and blocks have the layouts that were asked for                  *)
(* (RawSimpleAlloc::init and alloc).                                       *)
THEOREM TypeCorrect == Spec => []TypeOK
<1>1. IInv => TypeOK
  BY DEF IInv
<1> QED
  BY IInvHolds, <1>1, PTL

(* Every block the allocator returns is aligned as asked and lies in the   *)
(* buffer (simple-alloc/src/lib.rs, alloc): no addition wraps unnoticed.   *)
THEOREM BlocksFit == Spec => []BlocksInBuffer
<1>1. IInv => BlocksInBuffer
  BY DEF IInv
<1> QED
  BY IInvHolds, <1>1, PTL

(* No two blocks overlap, however many there are and whatever alignments   *)
(* were asked for in between.                                              *)
THEOREM BlocksNeverOverlap == Spec => []BlocksDisjoint
<1>1. IInv => BlocksDisjoint
  BY DEF IInv
<1> QED
  BY IInvHolds, <1>1, PTL
-----------------------------------------------------------------------------
(* Wherever a block of the size would be aligned behind all others, it     *)
(* would reach the end of the buffer.                                      *)
FitsNowhere(size, align) ==
  \A p \in Nat : p % align = 0 /\ startAddr <= p => p + size >= endAddr

(* Between an address and the next aligned one there is no other.          *)
LEMMA NextAligned ==
  ASSUME NEW addr \in Nat, NEW align \in Nat, 0 < align,
         NEW p \in Nat, p % align = 0, addr <= p
  PROVE  addr + AlignOffset(addr, align) <= p
<1> DEFINE off == AlignOffset(addr, align)
           t == addr + off
           q == p \div align
           r == t \div align
<1>0. off \in 0 .. align - 1 /\ (addr + off) % align = 0
  BY AlignOffsetAligns
<1> HIDE DEF off
<1>1. t \in Nat /\ t % align = 0 /\ t < addr + align
  BY <1>0
<1> HIDE DEF t
<1>2. q \in Nat /\ p = align * q
  <2>1. p % align \in 0 .. align - 1 /\ q \in Nat /\ p = align * q + (p % align)
    OBVIOUS
  <2> QED
    BY <2>1
<1>3. r \in Nat /\ t = align * r
  <2>1. t % align \in 0 .. align - 1 /\ r \in Nat /\ t = align * r + (t % align)
    BY <1>1
  <2> QED
    BY <1>1, <2>1
<1> HIDE DEF q, r
<1>4. SUFFICES ASSUME q < r PROVE FALSE
  <2>1. CASE q >= r
    <3>1. align * r <= align * q
      BY <1>2, <1>3, <2>1
    <3> QED
      BY <1>2, <1>3, <3>1 DEF t, off
  <2> QED
    BY <1>2, <1>3, <2>1
<1>5. align * q + align <= align * r
  <2>1. q + 1 <= r
    BY <1>2, <1>3, <1>4
  <2>2. align * (q + 1) <= align * r
    BY <1>2, <1>3, <2>1
  <2> QED
    BY <1>2, <1>3, <2>2
<1> QED
  BY <1>1, <1>2, <1>3, <1>5

LEMMA RefusedBlock ==
  ASSUME IInv, NEW size \in Sizes, NEW align \in Aligns,
         OutOfMemory(size, align)
  PROVE  FitsNowhere(size, align)
<1> DEFINE off == AlignOffset(startAddr, align)
<1>1. /\ Word \in Nat /\ BufAddr \in Nat /\ BufLen \in Nat
      /\ 2 * (BufAddr + BufLen) <= Word
      /\ size \in Nat /\ 2 * size < Word
      /\ align \in Nat /\ 0 < align /\ 2 * align <= Word
      /\ startAddr \in Nat /\ endAddr \in {0, BufAddr + BufLen}
      /\ startAddr <= BufAddr + BufLen
  BY AllocAssumption DEF IInv, TypeOK, StartInBuffer
<1>2. off \in 0 .. align - 1
  BY <1>1, AlignOffsetAligns
<1>3. AlignedPtr(align) = startAddr + off
  BY <1>1, <1>2 DEF AlignedPtr
<1> HIDE DEF off
<1>4. startAddr + off + size >= endAddr
  <2>1. CASE startAddr + off >= endAddr
    BY <1>1, <1>2, <2>1
  <2>2. CASE startAddr + off < endAddr
    <3>1. NextPtr(size, align) = startAddr + off + size
      <4>1. startAddr + off + size \in 0 .. Word - 1
        BY <1>1, <1>2, <2>2
      <4>2. (startAddr + off + size) % Word = startAddr + off + size
        BY <1>1, <4>1
      <4> QED
        BY <1>3, <4>2 DEF NextPtr
    <3>2. ~(AlignedPtr(align) >= endAddr)
      BY <1>1, <1>2, <1>3, <2>2
    <3>3. NextPtr(size, align) >= endAddr
      BY <3>2 DEF OutOfMemory
    <3> QED
      BY <3>1, <3>3
  <2> QED
    BY <1>1, <1>2, <2>1, <2>2
<1>5. ASSUME NEW p \in Nat, p % align = 0, startAddr <= p
      PROVE  p + size >= endAddr
  <2>1. startAddr + off <= p
    BY <1>1, <1>5, NextAligned DEF off
  <2> QED
    BY <1>1, <1>2, <1>4, <2>1
<1> QED
  BY <1>5 DEF FitsNowhere

(* The allocator runs out of memory exactly when no aligned block of the   *)
(* size fits before the last byte of the buffer: neither a wrapping sum    *)
(* nor too much padding refuses one that would.                            *)
THEOREM RefusesOnlyWhatDoesNotFit ==
  Spec => [](\A size \in Sizes, align \in Aligns :
               OutOfMemory(size, align) <=> FitsNowhere(size, align))
<1>1. ASSUME IInv, NEW size \in Sizes, NEW align \in Aligns,
             ~OutOfMemory(size, align)
      PROVE  ~FitsNowhere(size, align)
  <2>1. /\ AlignedPtr(align) \in Nat /\ AlignedPtr(align) % align = 0
        /\ startAddr <= AlignedPtr(align)
        /\ AlignedPtr(align) + size < endAddr
    BY <1>1, GrantedBlock
  <2>2. size \in Nat /\ endAddr \in Nat
    BY <1>1, AllocAssumption DEF IInv, TypeOK
  <2> QED
    BY <2>1, <2>2 DEF FitsNowhere
<1>2. IInv => \A size \in Sizes, align \in Aligns :
                OutOfMemory(size, align) <=> FitsNowhere(size, align)
  BY <1>1, RefusedBlock
<1> QED
  BY IInvHolds, <1>2, PTL
=============================================================================
