----------------------------- MODULE NativeLoop -----------------------------
(***************************************************************************)
(* The example without a Wasm interpreter: core 0 runs the 2MM kernel      *)
(* natively, over and over, and reports the duration of each run with the  *)
(* events that the performance counters saw. There is no fuel, so that     *)
(* mitigate returns early and the intruders are never stopped.             *)
(*                                                                         *)
(* An element is an i8 with wrapping arithmetic, here a number below Word. *)
(* tmp starts as uninitialised memory, that is, as any matrix. The system  *)
(* counter has 64 bits and does not wrap.                                  *)
(***************************************************************************)
EXTENDS Integers, Binary

CONSTANTS
  N,               (* rows and columns of a matrix                           *)
  Bits,            (* bits of an element                                     *)
  Filled, Garbage, (* matrices that fill_rand, and that memory may contain   *)
  Draws,           (* what rng.random may draw for alpha and beta            *)
  Freq,            (* ticks of the system counter in a second                *)
  Mega,            (* microseconds in a second                               *)
  CntWord,         (* a performance counter counts modulo CntWord            *)
  Loads,           (* what a loop of the kernel may take: records of ticks,  *)
                   (* instructions and accesses to the cache                 *)
  MaxRuns,         (* bound on the number of runs                            *)
  None

Word == pow2[Bits]
Index == 1 .. N
Matrix == [Index \X Index -> 0 .. Word - 1]

ASSUME NativeAssumption ==
  /\ N \in Nat \ {0} /\ Bits \in Nat \ {0} /\ MaxRuns \in Nat \ {0}
  /\ Filled \subseteq Matrix /\ Garbage \subseteq Matrix
  /\ Draws \subseteq 0 .. Word - 1
  /\ Mega \in Nat \ {0} /\ Freq \in Nat /\ Freq >= Mega
  /\ CntWord \in Nat \ {0}
  /\ Loads \subseteq [ticks : Nat, instr : Nat, l1d : Nat]
  /\ None \notin Nat

VARIABLES
  pc,              (* "begin", "first", "second", "end" or "deliver"         *)
  a, b, c, tmp,    (* the kernel's matrices                                  *)
  beta,            (* as drawn for the run                                   *)
  cnt,             (* CNTPCT_EL0                                             *)
  last,            (* the clock before the kernel ran                        *)
  value, over,     (* the counters of the PMU and their overflow flags       *)
  runIdx,
  update,          (* RefuelUpdate                                           *)
  intruderBreak,   (* INTRUDER_BREAK                                         *)
  from, caused,    (* the tick at which last was read, and the events since  *)
  evens            (* even factors drawn so far, at most Bits                *)

kernelVars == <<a, b, c, tmp, beta, evens>>
pmuVars == <<value, over, caused>>
clockVars == <<last, from>>
nativeVars == <<pc, kernelVars, cnt, clockVars, pmuVars, runIdx, update,
                intruderBreak>>

(* Events that PerfMon::setup selects. L1D_CACHE stands for the three      *)
(* other single counters as well.                                          *)
Instr == 0
Chain == 1
L1D == 2
Counters == {Instr, Chain, L1D}

(* Mutant: the ticks of a microsecond are rounded up. *)
GetTimeUsUp == cnt \div ((Freq + Mega - 1) \div Mega)

GetTimeUs == cnt \div (Freq \div Mega)

(* Kernel2MM::new and NativeRunner::new. *)
NativeInit ==
  /\ pc = "begin"
  /\ a \in Filled /\ b \in Filled /\ c \in Filled
  /\ tmp \in Garbage
  /\ beta = 0 /\ evens = 0
  /\ cnt = 0 /\ last = 0 /\ from = 0
  /\ value = [x \in Counters |-> 0] /\ over = [x \in Counters |-> FALSE]
  /\ caused = [x \in {Instr, L1D} |-> 0]
  /\ runIdx = 0
  /\ update = [timestamp |-> 0, fuel |-> None, accF |-> None, dt |-> 0,
               instr |-> None, l1d |-> None]
  /\ intruderBreak = FALSE
-----------------------------------------------------------------------------
(* NativeRunner::run resets and starts the counters and reads the clock.   *)
BeginRun ==
  /\ pc = "begin" /\ runIdx < MaxRuns
  /\ value' = [x \in Counters |-> 0]
  /\ over' = [x \in Counters |-> FALSE]
  /\ caused' = [x \in {Instr, L1D} |-> 0]
  /\ last' = GetTimeUs /\ from' = cnt
  /\ pc' = "first"
  /\ UNCHANGED <<kernelVars, cnt, runIdx, update, intruderBreak>>

(* While a loop of the kernel runs the clock ticks and the PMU counts      *)
(* instructions and accesses. Counter 1 counts the overflows of counter 0. *)
Elapse ==
  \E load \in Loads :
    LET by == [x \in Counters |->
                 CASE x = Instr -> load.instr
                   [] x = L1D   -> load.l1d
                   [] x = Chain -> (value[Instr] + load.instr) \div CntWord]
    IN /\ cnt' = cnt + load.ticks
       /\ value' = [x \in Counters |-> (value[x] + by[x]) % CntWord]
       /\ over' = [x \in Counters |-> over[x] \/ value[x] + by[x] >= CntWord]
       /\ caused' = [x \in {Instr, L1D} |-> caused[x] + by[x]]

(* The innermost loop: element p of the product of x and y, times s, is    *)
(* added by wrapping_add to what the element starts with.                  *)
InnerLoop(start, s, x, y, p) ==
  LET sum[k \in 0 .. N] ==
        IF k = 0 THEN start
        ELSE (sum[k - 1] + s * x[p[1], k] * y[k, p[2]]) % Word
  IN  sum[N]

Accumulate(acc, s, x, y) ==
  [p \in Index \X Index |-> InnerLoop(acc[p], s, x, y, p)]
Zero == [p \in Index \X Index |-> 0]

WithFactor(f) == IF f % 2 = 0 /\ evens < Bits THEN evens + 1 ELSE evens

(* Mutant: the innermost loop adds to what tmp holds. *)
FirstLoopAdding ==
  /\ pc = "first"
  /\ \E alpha \in Draws :
       /\ tmp' = Accumulate(tmp, alpha, a, b)
       /\ evens' = WithFactor(alpha)
  /\ beta' \in Draws
  /\ Elapse
  /\ pc' = "second"
  /\ UNCHANGED <<a, b, c, clockVars, runIdx, update, intruderBreak>>

(* Kernel2MM::run: the draws of alpha and beta, and tmp. *)
FirstLoop ==
  /\ pc = "first"
  /\ \E alpha \in Draws :
       /\ tmp' = Accumulate(Zero, alpha, a, b)
       /\ evens' = WithFactor(alpha)
  /\ beta' \in Draws
  /\ Elapse
  /\ pc' = "second"
  /\ UNCHANGED <<a, b, c, clockVars, runIdx, update, intruderBreak>>

(* The result replaces a, the input of the next run. *)
SecondLoop ==
  /\ pc = "second"
  /\ a' = Accumulate(Zero, beta, tmp, c)
  /\ evens' = WithFactor(beta)
  /\ Elapse
  /\ pc' = "end"
  /\ UNCHANGED <<b, c, tmp, beta, clockVars, runIdx, update, intruderBreak>>

(* CounterValueExt::ok. *)
Ok(x) == IF over[x] THEN None ELSE value[x]

(* Mutant: an overflow of the lower counter spoils the pair. *)
ChainOfIntact(lower, upper) ==
  IF over[upper] \/ over[lower] THEN None
  ELSE value[upper] * CntWord + value[lower]

(* CounterValueExt::chain, and ok of its result. *)
ChainOk(lower, upper) ==
  IF over[upper] THEN None ELSE value[upper] * CntWord + value[lower]

EndRun ==
  /\ pc = "end"
  /\ update' = [timestamp |-> GetTimeUs, fuel |-> None, accF |-> None,
                dt |-> GetTimeUs - last,
                instr |-> ChainOk(Instr, Chain), l1d |-> Ok(L1D)]
  /\ runIdx' = runIdx + 1
  /\ pc' = "deliver"
  /\ UNCHANGED <<kernelVars, cnt, clockVars, pmuVars, intruderBreak>>

(* Mutant: missing fuel is taken for none consumed. *)
MitigateAnyway == intruderBreak' = TRUE

(* Mitigator::mitigate returns early from an update without fuel. What it  *)
(* does with one is MitigationLoop.                                        *)
Mitigate ==
  intruderBreak' \in IF update.fuel = None \/ update.accF = None
                     THEN {intruderBreak} ELSE BOOLEAN

(* The rest of main's loop. *)
Deliver ==
  /\ pc = "deliver"
  /\ Mitigate
  /\ pc' = "begin"
  /\ UNCHANGED <<kernelVars, cnt, clockVars, pmuVars, runIdx, update>>

(* main's loop has no end: the model ends at its bound. *)
BoundReached ==
  /\ pc = "begin" /\ runIdx = MaxRuns
  /\ UNCHANGED nativeVars

NativeNext ==
  BeginRun \/ FirstLoop \/ SecondLoop \/ EndRun \/ Deliver \/ BoundReached
=============================================================================
