--------------------------- MODULE MitigationLoop ---------------------------
(***************************************************************************)
(* Core 0's loop on the bare-metal example: WasmRunner::run executes one   *)
(* quantum of the guarded program and accounts its time and fuel, then     *)
(* Mitigator::mitigate estimates when the run will end and stops or        *)
(* releases the intruders. Fuel is counted in the interpreter's units. The *)
(* program measures time in microseconds and averages in nanoseconds; a    *)
(* unit of fuel takes a fraction of a microsecond, so that the rates below *)
(* are in ticks, Grain of which make one microsecond.                      *)
(*                                                                         *)
(* The guarded program is the environment: how much fuel a run needs, how  *)
(* much of its fuel a quantum leaves unused, and how long it takes. Its    *)
(* rate is bounded by QuietTpf while the intruders are stopped and by      *)
(* BusyTpf otherwise. Intruders that are ordered to stop do so a little    *)
(* later, in the next quanta: until then they cost up to StopLoss in all,  *)
(* which BareMetal derives from the gate. To that each quantum adds the    *)
(* overhead of entering and leaving the interpreter and the clock's        *)
(* rounding. The first run needs more fuel than the others because it also *)
(* initialises the kernel (wasm-payload/src/main.rs).                      *)
(***************************************************************************)
EXTENDS Integers

CONSTANTS
  FuelAmount,      (* fuel given to each quantum: Some(10_000_000)           *)
  Residues,        (* fuel a quantum may leave when it cannot go on          *)
  TotalFuel,       (* Mitigator::total_fuel                                  *)
  Deadline,        (* Mitigator::deadline                                    *)
  Hyst,            (* Mitigator::hyst                                        *)
  FirstRunFuel,    (* what run 0 consumes                                    *)
  RunFuel,         (* what every other run consumes                          *)
  Grain,           (* ticks in a microsecond                                 *)
  QuietTpf,        (* most ticks a unit of fuel takes, intruders stopped     *)
  BusyTpf,         (* most ticks a unit of fuel takes, intruders running     *)
  StopLoss,        (* most ticks intruders cost from an order to their stop  *)
  Overhead,        (* most ticks a quantum takes besides its units           *)
  MaxRefuels,      (* bound: suspensions of one run                          *)
  NsPerUs,         (* the factor 1000 of Mitigator::mitigate                 *)
  Word             (* u64 arithmetic is modulo Word                          *)

ASSUME MitigationAssumption ==
  /\ FuelAmount \in Nat \ {0}
  /\ Residues \subseteq 0 .. FuelAmount
  /\ TotalFuel \in Nat \ {0}
  /\ FirstRunFuel \in Nat \ {0}
  /\ RunFuel \in Nat \ {0}
  /\ Hyst \in Nat
  /\ Deadline \in Nat
  /\ Hyst <= Deadline
  /\ Grain \in Nat \ {0}
  /\ QuietTpf \in Nat
  /\ BusyTpf \in Nat
  /\ StopLoss \in Nat
  /\ Overhead \in Nat
  /\ MaxRefuels \in Nat
  /\ QuietTpf <= BusyTpf
  /\ NsPerUs \in Nat \ {0}
  /\ Word \in Nat \ {0}

VARIABLES
  phase,           (* "run", "mitigate" or "panicked"                        *)
  runIdx,          (* run_idx, where 1 stands for every run after run 0      *)
  refuelIdx,       (* refuel_idx                                             *)
  accT,            (* acc_t                                                  *)
  accF,            (* acc_f                                                  *)
  resumeable,      (* whether a suspended run is stored                      *)
  left,            (* fuel the current run still needs                       *)
  update,          (* the RefuelUpdate last returned by run                  *)
  intruderBreak,   (* INTRUDER_BREAK                                         *)
  loss             (* what the intruders may still cost under a break        *)

runVars == <<runIdx, refuelIdx, accT, accF, resumeable, left, update>>
vars == <<phase, runVars, intruderBreak, loss>>

Needed(r) == IF r = 0 THEN FirstRunFuel ELSE RunFuel

Init ==
  /\ phase = "run"
  /\ runIdx = 0
  /\ refuelIdx = 0
  /\ accT = 0
  /\ accF = 0
  /\ resumeable = FALSE
  /\ left = Needed(0)
  /\ update = [run |-> 0, refuel |-> 0, accT |-> 0, accF |-> 0, last |-> FALSE]
  /\ intruderBreak = FALSE
  /\ loss = 0
-----------------------------------------------------------------------------
(***************************************************************************)
(* WasmRunner::run: invoke or resume for one quantum of time dt and fuel   *)
(* df, add both up, and hand out the record of it. The run's sums restart  *)
(* when it has finished.                                                   *)
(***************************************************************************)
(* What the overhead of a quantum and the two readings of the clock, each  *)
(* cut off to a microsecond, may add to its measured time, in ticks.       *)
Jitter == Overhead + Grain - 1

(* The times that may be measured for df units when x ticks are lost to    *)
(* intruders that were ordered to stop and have not done so yet.           *)
Time(df, x) ==
  LET ticks == IF intruderBreak THEN QuietTpf * df + x ELSE BusyTpf * df
  IN  0 .. (ticks + Jitter) \div Grain

Loss(df) == {x \in 0 .. loss : x <= (BusyTpf - QuietTpf) * df}

Record(dt, df, finished) ==
  update' = [run |-> runIdx, refuel |-> refuelIdx, accT |-> accT + dt,
             accF |-> accF + df, last |-> finished]

(* Mutant: the residue counts as consumed. *)
SuspendCountingResidue(dt, df) ==
  /\ accT' = accT + dt
  /\ accF' = accF + FuelAmount
  /\ left' = left - df
  /\ Record(dt, FuelAmount, FALSE)
  /\ resumeable' = TRUE
  /\ refuelIdx' = refuelIdx + 1
  /\ UNCHANGED runIdx

Suspend(dt, df) ==
  /\ accT' = accT + dt
  /\ accF' = accF + df
  /\ left' = left - df
  /\ Record(dt, df, FALSE)
  /\ resumeable' = TRUE
  /\ refuelIdx' = refuelIdx + 1
  /\ UNCHANGED runIdx

(* The interpreter stops before an instruction that costs more than the    *)
(* fuel that is left, be it the quantum's first. The residue is dropped:   *)
(* the next quantum starts with fuel_amount again.                         *)
OutOfFuel ==
  /\ phase = "run"
  /\ left > FuelAmount
  /\ refuelIdx < MaxRefuels
  /\ \E residue \in Residues :
       LET df == FuelAmount - residue IN
       \E x \in Loss(df) :
         /\ \E dt \in Time(df, x) : Suspend(dt, df)
         /\ loss' = loss - x
  /\ phase' = "mitigate"
  /\ UNCHANGED intruderBreak

(* Mutant: the sums go on into the next run. *)
CompleteKeepingSums(dt) ==
  /\ Record(dt, left, TRUE)
  /\ resumeable' = FALSE
  /\ accT' = accT + dt
  /\ accF' = accF + left
  /\ refuelIdx' = 0
  /\ runIdx' = 1
  /\ left' = Needed(1)

Complete(dt) ==
  /\ Record(dt, left, TRUE)
  /\ resumeable' = FALSE
  /\ accT' = 0
  /\ accF' = 0
  /\ refuelIdx' = 0
  /\ runIdx' = 1
  /\ left' = Needed(1)

Finished ==
  /\ phase = "run"
  /\ left <= FuelAmount
  /\ \E x \in Loss(left) :
       /\ \E dt \in Time(left, x) : Complete(dt)
       /\ loss' = loss - x
  /\ phase' = "mitigate"
  /\ UNCHANGED intruderBreak

(* invoke or resume_wasm fails, or the program calls host_panic. *)
WasmPanic ==
  /\ phase = "run"
  /\ phase' = "panicked"
  /\ UNCHANGED <<runVars, intruderBreak, loss>>
-----------------------------------------------------------------------------
(***************************************************************************)
(* Mitigator::mitigate.                                                    *)
(***************************************************************************)
AvgTpfNs(t, f) == ((t * NsPerUs) % Word) \div f

(* Mutant: the estimate leaves out the time already spent. *)
EstOfRest(t, f) ==
  ((AvgTpfNs(t, f) * ((TotalFuel - f) % Word)) % Word) \div NsPerUs

EstT(t, f) ==
  (t + ((AvgTpfNs(t, f) * ((TotalFuel - f) % Word)) % Word) \div NsPerUs) % Word

(* Mutants: a run that is just on time counts as late; no hysteresis. *)
LateOnTime(t, f) == EstT(t, f) >= Deadline - Hyst
LateByDeadline(t, f) == EstT(t, f) > Deadline

Late(t, f) == EstT(t, f) > Deadline - Hyst

(* Mutant: the intruders are not released. *)
DecideWithoutCont ==
  /\ phase = "mitigate"
  /\ update.accF # 0
  /\ intruderBreak' = (intruderBreak \/ Late(update.accT, update.accF))
  /\ UNCHANGED runVars

Decide ==
  /\ phase = "mitigate"
  /\ update.accF # 0
  /\ intruderBreak' = Late(update.accT, update.accF)
  /\ UNCHANGED runVars

(* Intruders must stop anew unless the order repeats a standing one. *)
Mitigate ==
  /\ Decide
  /\ phase' = "run"
  /\ loss' = IF ~intruderBreak' THEN 0
             ELSE IF intruderBreak THEN loss ELSE StopLoss

(* The division is by zero, or the subtraction leaves u64 in a build that  *)
(* checks for overflow; one that does not goes on with the wrapped value.  *)
MitigatePanic ==
  /\ phase = "mitigate"
  /\ update.accF = 0 \/ update.accF > TotalFuel
  /\ phase' = "panicked"
  /\ UNCHANGED <<runVars, intruderBreak, loss>>

(* The panic handler never returns. *)
PanicLoop ==
  /\ phase = "panicked"
  /\ UNCHANGED vars

Next ==
  \/ OutOfFuel \/ Finished \/ WasmPanic
  \/ Mitigate \/ MitigatePanic
  \/ PanicLoop

Spec == Init /\ [][Next]_vars

(* Core 0 does nothing else, so that its loop does not rest.               *)
FairSpec ==
  Spec /\ WF_vars(OutOfFuel \/ Finished \/ Mitigate \/ MitigatePanic)
-----------------------------------------------------------------------------
(* The types of the variables, and the ranges of the sums. *)
TypeOK ==
  /\ phase \in {"run", "mitigate", "panicked"}
  /\ runIdx \in {0, 1}
  /\ refuelIdx \in 0 .. MaxRefuels
  /\ accT \in Nat
  /\ accT * Grain <= BusyTpf * Needed(runIdx) + MaxRefuels * Jitter
  /\ accF \in 0 .. Needed(runIdx)
  /\ resumeable \in BOOLEAN
  /\ left \in 1 .. Needed(runIdx)
  /\ update \in [run : {0, 1}, refuel : 0 .. MaxRefuels, last : BOOLEAN,
                 accT : Nat, accF : Nat]
  /\ intruderBreak \in BOOLEAN
  /\ loss \in 0 .. StopLoss

(* No fuel is lost or counted twice across suspensions, and none of it     *)
(* passes from one run to the next: what a suspended run has consumed and  *)
(* what it needs make up the run, a run that is not suspended starts from  *)
(* zero, and the last record of a run accounts for all of it.              *)
FuelAccounted ==
  /\ accF + left = Needed(runIdx)
  /\ ~resumeable => accF = 0 /\ accT = 0 /\ refuelIdx = 0
  /\ update.last => update.accF = Needed(update.run)

(* The time by which the mitigator wants the run to end. *)
Target == Deadline - Hyst

(* A decision has been taken on a record the estimate was meant for. *)
Decided == phase = "run" /\ 0 < update.accF /\ update.accF <= TotalFuel

(* The intruders are stopped only when the run is behind the schedule that *)
(* reaches the target with all of its fuel: rounding never stops them.     *)
BreakOnlyWhenBehind ==
  Decided /\ intruderBreak => update.accT * TotalFuel > Target * update.accF

(* They run on only when the run is on that schedule, up to what the two   *)
(* integer divisions of mitigate cut off.                                  *)
ContOnlyWhenOnSchedule ==
  Decided /\ ~intruderBreak =>
    update.accT * TotalFuel * NsPerUs <
      update.accF * ((Target + 1) * NsPerUs + TotalFuel - update.accF)

(* The constants under which a run can be brought to its target at all.    *)
(* With the code's numbers, rates of some 90 nanoseconds meet it.          *)
Feasible ==
  /\ RunFuel = TotalFuel
  /\ QuietTpf * TotalFuel <= Grain * Target

(* A run that can meet the target without interference overshoots it by no *)
(* more than one quantum's interference, what the intruders cost until     *)
(* they have stopped, the rounding of the estimate, and what the overhead  *)
(* and the clock have added to its quanta: however often the intruders are *)
(* stopped and released in the course of the run.                          *)
OvershootBounded ==
  Feasible /\ update.run = 1 /\ update.last =>
    update.accT * Grain <=
      Grain * (Target + 1) + (Grain * TotalFuel) \div (4 * NsPerUs)
      + (BusyTpf - QuietTpf) * FuelAmount + StopLoss
      + (update.refuel + 1) * Jitter

(* Intruders are never stopped for good, although the flag outlives the    *)
(* run and a run that comes too late hands its break on to the next: that  *)
(* one is back on schedule after its first undisturbed quantum. It takes   *)
(* constants with some room for the overhead, and a program whose quanta   *)
(* make progress.                                                          *)
BreakEnds ==
  intruderBreak ~>
    ~intruderBreak \/ phase = "panicked" \/ refuelIdx = MaxRefuels

(* The fuel of a run never exceeds the mitigator's total, so that the      *)
(* unsigned subtraction of mitigate stays in range.                        *)
NoUnderflow == phase = "mitigate" => update.accF <= TotalFuel
=============================================================================
