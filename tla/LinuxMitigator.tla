--------------------------- MODULE LinuxMitigator ---------------------------
(***************************************************************************)
(* The wasm-runner process of the Linux example: it runs the guarded       *)
(* program Count times for each fuel amount and each time budget on its    *)
(* command line, one quantum of fuel after the other. It sends a record    *)
(* before the first quantum of a run and after each one. A record carries  *)
(* the decision to freeze or unfreeze the interfering group. The records   *)
(* go through the shared ring, and the controller carries out their        *)
(* decisions in this order at some later time, until it ends. What it does *)
(* is taken from OrderQueue, which LinuxRunner is shown to implement. A    *)
(* sender that finds the ring full waits, so that it is never further      *)
(* ahead than that, and for ever when the controller has ended.            *)
(*                                                                         *)
(* Every run instantiates the module anew, so that all of them need the    *)
(* same fuel. Time is in nanoseconds, a budget in picoseconds per unit.    *)
(***************************************************************************)
EXTENDS Integers, Sequences

CONSTANTS
  Fuels,           (* --fuel: sequence of amounts, <<None>> if there is none  *)
  Wctpfs,          (* --wctpf: sequence of budgets, <<None>> if there is none *)
  None,
  Count,           (* --count                                                *)
  RingCap,         (* records in the ring and in the forwarder's hands       *)
  RunFuel,         (* what a run consumes                                    *)
  Residues,        (* fuel a quantum may leave when it cannot go on          *)
  MinTpf, MaxTpf,  (* least and most time that a unit of fuel takes          *)
  MaxCycles,       (* bound: suspensions of one run                          *)
  PsPerNs,         (* the factor 1000 of Mitigator::mitigate                 *)
  FuelWord         (* u32 arithmetic on fuel is modulo FuelWord              *)

(* A run's time in picoseconds fits u64: it is shorter than half a year.   *)
ASSUME BudgetAssumption ==
  /\ None \notin Nat
  /\ Fuels \in Seq(Nat \cup {None}) /\ Fuels # <<>>
  /\ \A i \in DOMAIN Fuels :
       Fuels[i] # None => Fuels[i] # 0 /\ Residues \subseteq 0 .. Fuels[i]
  /\ Wctpfs \in Seq(Nat \cup {None}) /\ Wctpfs # <<>>
  /\ Count \in Nat \ {0} /\ RingCap \in Nat \ {0}
  /\ RunFuel \in Nat \ {0} /\ RunFuel < FuelWord /\ FuelWord \in Nat
  /\ MaxCycles \in Nat
  /\ PsPerNs \in Nat \ {0}
  /\ MinTpf \in Nat /\ MaxTpf \in Nat /\ MinTpf <= MaxTpf

VARIABLES
  phase,           (* "start", "resume", "done" or "failed"                  *)
  i, j, k,         (* the loops of main, counted from 1                      *)
  left,            (* fuel the run still needs                               *)
  rec,             (* the last record sent, with fuel_cycle, acc_t and acc_f *)
                   (* (counted on also where the code has None for acc_f)    *)
  pending,         (* decisions sent and not yet carried out                 *)
  frozen,          (* the group                                              *)
  ended            (* the controller or its forwarder has ended              *)

Queue == INSTANCE OrderQueue WITH Cap <- RingCap

loopVars == <<i, j, k>>
vars == <<phase, loopVars, left, rec, pending, frozen, ended>>

Irqs == {"freeze", "unfreeze", "none"}

Init ==
  /\ phase = "start"
  /\ i = 1 /\ j = 1 /\ k = 1
  /\ left = RunFuel
  /\ rec = [run |-> <<0, 0, 0>>, cycle |-> 0, accT |-> 0, accF |-> 0,
            irq |-> "none"]
  /\ pending = <<>>
  /\ frozen = FALSE /\ ended = FALSE

(* Mutant: send does not wait for a place in the ring. *)
LogAtOnce(cycle, accT, accF, irq) ==
  /\ rec' = [run |-> loopVars, cycle |-> cycle, accT |-> accT, accF |-> accF,
             irq |-> irq]
  /\ pending' = Append(pending, irq)
  /\ UNCHANGED <<frozen, ended>>

(* WasmRunLogger::log: send waits for a place in the ring. *)
Log(cycle, accT, accF, irq) ==
  /\ Len(pending) < RingCap
  /\ rec' = [run |-> loopVars, cycle |-> cycle, accT |-> accT, accF |-> accF,
             irq |-> irq]
  /\ pending' = Append(pending, irq)
  /\ UNCHANGED <<frozen, ended>>

(* The controller receives a record and carries out its decision. *)
Apply ==
  /\ Queue!CarryOut
  /\ UNCHANGED <<phase, loopVars, left, rec>>

(* It ends, and nobody receives any more. As it removes its cgroups it     *)
(* kills this process (RunFails), unless that fails.                       *)
ControllerEnds ==
  /\ Queue!End
  /\ UNCHANGED <<phase, loopVars, left, rec>>
-----------------------------------------------------------------------------
(* Mutant: a run without a budget leaves the group as it is. *)
FirstIrqOfBudget(w) ==
  IF w = None THEN "none" ELSE IF w = 0 THEN "freeze" ELSE "unfreeze"

FirstIrq(w) == IF w = 0 THEN "freeze" ELSE "unfreeze"

(* Mutants: the cycle, or the fuel, of the last run is kept. *)
StartRunKeepingCycle ==
  /\ phase = "start"
  /\ Log(rec.cycle, 0, 0, FirstIrq(Wctpfs[j]))
  /\ left' = RunFuel
  /\ phase' = "resume"
  /\ UNCHANGED loopVars

StartRunKeepingFuel ==
  /\ phase = "start"
  /\ Log(0, 0, rec.accF, FirstIrq(Wctpfs[j]))
  /\ left' = RunFuel
  /\ phase' = "resume"
  /\ UNCHANGED loopVars

(* run_wasm up to its first resume. *)
StartRun ==
  /\ phase = "start"
  /\ Log(0, 0, 0, FirstIrq(Wctpfs[j]))
  /\ left' = RunFuel
  /\ phase' = "resume"
  /\ UNCHANGED loopVars

AvgTpf(t, f) == (t * PsPerNs) \div f

(* Mutant: an average at the budget is too much. *)
DecideAtBudget(w, t, f) ==
  IF Fuels[i] = None \/ w = None THEN "none"
  ELSE IF AvgTpf(t, f) >= w THEN "freeze" ELSE "unfreeze"

(* Mitigator::mitigate. Below the budget less a tenth it unfreezes, from   *)
(* there to the budget it repeats last_irq, which nothing changes after    *)
(* new has set it to Unfreeze. Without a fuel amount acc_f is None.        *)
Decide(w, t, f) ==
  IF Fuels[i] = None \/ w = None THEN "none"
  ELSE IF AvgTpf(t, f) > w THEN "freeze" ELSE "unfreeze"

(* One quantum that consumes df, and its record. It takes up to a unit's   *)
(* time besides. If nothing is consumed yet, mitigate divides by zero and  *)
(* panics (RunFails).                                                      *)
Quantum(df) ==
  \E dt \in MinTpf * df .. MaxTpf * (df + 1) :
    LET t == rec.accT + dt
        f == (rec.accF + df) % FuelWord
    IN /\ Fuels[i] # None => f > 0
       /\ Log(rec.cycle + 1, t, f, Decide(Wctpfs[j], t, f))
       /\ left' = left - df

(* The quantum starts with all of the fuel amount again, and consumes none *)
(* if its first instruction costs more than that.                          *)
Resumable ==
  /\ phase = "resume"
  /\ rec.cycle < MaxCycles
  /\ Fuels[i] # None
  /\ left > Fuels[i]
  /\ \E residue \in Residues : Quantum(Fuels[i] - residue)
  /\ UNCHANGED <<phase, loopVars>>

(* The innermost loop of main that is not at its end goes on. *)
NextRun ==
  \/ /\ k < Count
     /\ k' = k + 1
     /\ UNCHANGED <<i, j>>
  \/ /\ k = Count /\ j < Len(Wctpfs)
     /\ k' = 1 /\ j' = j + 1
     /\ UNCHANGED i
  \/ /\ k = Count /\ j = Len(Wctpfs) /\ i < Len(Fuels)
     /\ k' = 1 /\ j' = 1 /\ i' = i + 1

LastRun == k = Count /\ j = Len(Wctpfs) /\ i = Len(Fuels)

Finished ==
  /\ phase = "resume"
  /\ Fuels[i] # None => left <= Fuels[i]
  /\ Quantum(left)
  /\ \/ NextRun /\ phase' = "start"
     \/ LastRun /\ phase' = "done" /\ UNCHANGED loopVars

(* The module, an instruction of it, or the ring fails, the program        *)
(* panics, or the controller kills it: that ends the process.              *)
RunFails ==
  /\ phase \in {"start", "resume"}
  /\ phase' = "failed"
  /\ UNCHANGED <<loopVars, left, rec, pending, frozen, ended>>

Exited ==
  /\ phase \in {"done", "failed"}
  /\ UNCHANGED vars

Next ==
  \/ StartRun \/ Resumable \/ Finished \/ RunFails \/ Exited
  \/ Apply \/ ControllerEnds

Spec == Init /\ [][Next]_vars
-----------------------------------------------------------------------------
(* The types of the variables. *)
TypeOK ==
  /\ phase \in {"start", "resume", "done", "failed"}
  /\ i \in DOMAIN Fuels /\ j \in DOMAIN Wctpfs /\ k \in 1 .. Count
  /\ left \in 0 .. RunFuel
  /\ rec \in [run : Nat \X Nat \X Nat, cycle : Nat, accT : Nat,
              accF : 0 .. RunFuel, irq : Irqs]
  /\ pending \in Seq(Irqs) /\ Len(pending) <= RingCap
  /\ frozen \in BOOLEAN /\ ended \in BOOLEAN

Started == rec.run # <<0, 0, 0>>
Budget == Wctpfs[rec.run[2]]

(* What the group will be when nothing is pending. *)
Ordered ==
  \/ frozen /\ \A x \in DOMAIN pending : pending[x] = "none"
  \/ \E x \in DOMAIN pending :
       /\ pending[x] = "freeze"
       /\ \A y \in x + 1 .. Len(pending) : pending[y] = "none"

(* The fuel in the records is that of their own run, residues and refills  *)
(* included: with what the run still needs it makes up the whole run.      *)
FuelAccounted == rec.accF + left = RunFuel

(* After a quantum with a budget the group is to be frozen exactly when    *)
(* the run's average is over the budget by a picosecond or more. In        *)
(* particular the group is released as soon as the average is back at the  *)
(* budget: wctpf_hyst has no effect. This and the next hold while there is *)
(* a controller to carry out decisions.                                    *)
FreezesOverBudgetOnly ==
  ~ended /\ Started /\ rec.cycle > 0
  /\ Fuels[rec.run[1]] # None /\ Budget # None =>
    (Ordered <=> rec.accT * PsPerNs >= (Budget + 1) * rec.accF)

(* What a run leaves behind, decisions still in the ring included, reaches *)
(* the next one for no more cycles than the ring has places: from then on  *)
(* a run without a budget has its interference, whatever ran before it,    *)
(* and one with a budget of 0 has none, provided time can be measured.     *)
ModesHold ==
  ~ended /\ Started /\ rec.cycle >= RingCap =>
    /\ Budget = None => ~frozen
    /\ Budget = 0 /\ MinTpf * PsPerNs > 0 => frozen

LexLess(r, s) ==
  \/ r[1] < s[1]
  \/ r[1] = s[1] /\ r[2] < s[2]
  \/ r[1] = s[1] /\ r[2] = s[2] /\ r[3] < s[3]

(* Records name their place in the experiment: each continues its run with *)
(* the next cycle and no less fuel, or starts a later run at cycle 0.      *)
RecordsInOrder ==
  [][ rec' # rec =>
        \/ rec'.run = rec.run /\ rec'.cycle = rec.cycle + 1
           /\ rec'.accF >= rec.accF
        \/ LexLess(rec.run, rec'.run) /\ rec'.cycle = 0 ]_vars
=============================================================================
