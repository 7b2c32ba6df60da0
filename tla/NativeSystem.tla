---------------------------- MODULE NativeSystem ----------------------------
(***************************************************************************)
(* The example without a Wasm interpreter as a whole: core 0 measures the  *)
(* kernel (NativeLoop) while the intruders attack the cache (AttackLoop).  *)
(* An order to stop would stop them (IntruderGate).                        *)
(***************************************************************************)
EXTENDS NativeLoop, AttackLoop

systemVars == <<nativeVars, attackVars>>

SystemInit == NativeInit /\ AttackInit

Core0Step == NativeNext /\ UNCHANGED attackVars

(* A round of an intruder's loop, for which it must not be stopped. *)
IntruderStep == ~intruderBreak /\ AttackNext /\ UNCHANGED nativeVars

SystemNext == Core0Step \/ IntruderStep

(* A core that is not stopped goes on. *)
SystemSpec ==
  SystemInit /\ [][SystemNext]_systemVars /\ WF_systemVars(IntruderStep)
-----------------------------------------------------------------------------
(* The types of the variables. *)
SystemTypeOK ==
  /\ pc \in {"begin", "first", "second", "end", "deliver"}
  /\ {a, b, c, tmp} \subseteq Matrix
  /\ beta \in 0 .. Word - 1 /\ evens \in 0 .. Bits
  /\ cnt \in Nat /\ last \in 0 .. cnt /\ from \in 0 .. cnt
  /\ value \in [Counters -> 0 .. CntWord - 1]
  /\ over \in [Counters -> BOOLEAN]
  /\ caused \in [{Instr, L1D} -> Nat]
  /\ runIdx \in 0 .. MaxRuns
  /\ update.timestamp \in 0 .. cnt /\ update.dt \in 0 .. cnt
  /\ intruderBreak \in BOOLEAN
  /\ cpu \in Cores /\ setMask \in SetMasks
  /\ i \in 0 .. Size - 1
  /\ written \in Nat \cup {-1}

(* The counts in an update are those of its own run: a count is missing    *)
(* when, and only when, its counter cannot hold it, and the chained pair   *)
(* holds a square of what one counter does.                                *)
CountsExact ==
  pc = "deliver" =>
    /\ update.instr = IF caused[Instr] < CntWord * CntWord
                      THEN caused[Instr] ELSE None
    /\ update.l1d = IF caused[L1D] < CntWord THEN caused[L1D] ELSE None

(* Though a frequency need not be a multiple of a megahertz, a duration is *)
(* never reported a microsecond too short, so that a deadline that is met  *)
(* on paper is met. It is too long by a microsecond and the share of a     *)
(* megahertz in the frequency at most.                                     *)
DurationBracketed ==
  pc = "deliver" =>
    /\ (cnt - from) * Mega < (update.dt + 1) * Freq
    /\ (update.dt - 1) * (Freq - Mega) <= (cnt - from) * Mega

(* The kernel's result replaces a: with each even factor drawn, all        *)
(* elements of a, or of tmp on the way, gain a factor of 2, so that after  *)
(* as many as an element has bits the kernel multiplies zeros for ever.    *)
(* What was in the memory that tmp is made of costs none of these factors; *)
(* nothing else is said of its effect.                                     *)
KernelDecays ==
  LET result == IF pc = "second" THEN tmp ELSE a
  IN \A p \in Index \X Index : result[p] % pow2[evens] = 0

(* Whether SET_MASK selects the set. *)
Selected(set) == \A bit \in 0 .. SetBits - 1 :
                   BitSet(set, bit) => bit \in setMask

(* A store goes to the buffer of its core and to a set that is selected.   *)
AttackConfined ==
  written # -1 => /\ written \in BufAddr(cpu) .. BufAddr(cpu) + Size - 1
                  /\ Selected(SetOf(written))

(* The intruders never stop, and whatever part of the offsets their cpu    *)
(* lets the sequence reach, they write to each way of each selected set    *)
(* again and again.                                                        *)
AttackReachesEachLine ==
  \A line \in 0 .. Size \div Line - 1 :
    []<>(setMask # {} /\ Selected(line % Sets) =>
           written = BufAddr(cpu) + line * Line)
=============================================================================
