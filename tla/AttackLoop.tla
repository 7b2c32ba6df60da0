----------------------------- MODULE AttackLoop -----------------------------
(***************************************************************************)
(* The loop in which an intruder core evicts cache lines: it walks through *)
(* a buffer of its own, as large as the cache, in a pseudo-random order    *)
(* that no prefetcher predicts, and stores to the addresses that it gets   *)
(* by clearing the bits of the set index that SET_MASK does not name.      *)
(*                                                                         *)
(* The buffers of the cores are adjacent and each is aligned to its size.  *)
(* The cores share nothing, so that the module is about one of them, cpu.  *)
(***************************************************************************)
EXTENDS Integers, Binary

CONSTANTS
  Cores,           (* values of cpu_idx                                      *)
  SizeBits, LineBits, WaysBits,  (* CACHE_SIZE_BITS, ...                     *)
  Step,            (* the factor 1000003                                     *)
  Base,            (* address of CACHE_BUF                                   *)
  SetMasks         (* values of SET_MASK, each as the set of its bits        *)

SetBits == SizeBits - (LineBits + WaysBits)
Size == pow2[SizeBits]
Line == pow2[LineBits]
Sets == pow2[SetBits]

ASSUME AttackAssumption ==
  /\ Cores \subseteq Nat \ {0}
  /\ LineBits \in Nat /\ WaysBits \in Nat
  /\ SizeBits \in Nat /\ SetBits \in Nat
  /\ Step \in Nat /\ Base \in Nat /\ Base % Size = 0
  /\ \A mask \in SetMasks : mask \subseteq 0 .. SetBits - 1

VARIABLES
  cpu,             (* info.cpu_idx                                           *)
  setMask,         (* SET_MASK                                               *)
  i,               (* the offset in the buffer                               *)
  written          (* the address of the last store, or -1                   *)

attackVars == <<cpu, setMask, i, written>>

AttackInit ==
  /\ cpu \in Cores
  /\ setMask \in SetMasks
  /\ i = 0
  /\ written = -1

BufAddr(core) == Base + (core - 1) * Size

(* Mutant: an offset is not reduced to the buffer. *)
NextOffsetOpen == (i + cpu) * Step

NextOffset == ((i + cpu) * Step) % Size

Tag(addr) == addr \div (Sets * Line)
SetOf(addr) == (addr \div Line) % Sets

(* What the mask keeps of a set index. *)
Kept(set) == AndBits(set, setMask, SetBits)

(* Mutant: the tag is masked as well. *)
MaskedSetOnly(addr) == Kept(SetOf(addr)) * Line

(* addr & (TAG_MASK | (SET_MASK << CACHE_LINE_BITS)) *)
Masked(addr) == (Tag(addr) * Sets + Kept(SetOf(addr))) * Line

(* A round of the loop. *)
Attack ==
  /\ setMask # {}
  /\ i' = NextOffset
  /\ written' = Masked(BufAddr(cpu) + NextOffset)
  /\ UNCHANGED <<cpu, setMask>>

(* With SET_MASK = 0 there is no store. *)
Spin ==
  /\ setMask = {}
  /\ UNCHANGED attackVars

AttackNext == Attack \/ Spin
=============================================================================
