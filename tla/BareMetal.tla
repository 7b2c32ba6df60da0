----------------------------- MODULE BareMetal ------------------------------
(***************************************************************************)
(* The bare-metal example as a whole: core 0's loop, with its quanta       *)
(* executed unit by unit, together with the gate it operates. Where        *)
(* MitigationLoop takes the rate of a quantum from the flag alone, here a  *)
(* unit of fuel takes as long as the cores that run just then make it      *)
(* take, and the cores stop and resume on their own, as AbstractGate       *)
(* promises (IntruderGate shows that the gate keeps that promise).         *)
(*                                                                         *)
(* One assumption is about time: from a new order to the stop of the last  *)
(* core, core 0 executes no more units than StopLoss pays for. The cores   *)
(* then only have to take one interrupt, whatever core 0 does.             *)
(***************************************************************************)
EXTENDS MitigationLoop

CONSTANT Workers        (* the intruder cores *)

VARIABLES
  sending,              (* core 0 is between the store and the SGI of         *)
                        (* intruder_break                                     *)
  used,                 (* fuel consumed by the quantum so far                *)
  spent,                (* ticks its units have taken so far                  *)
  lost,                 (* part of it lost to cores that are about to stop    *)
  told, stopped         (* of the gate                                        *)

quantum == <<used, spent, lost>>
gate == <<told, stopped>>
sysVars == <<vars, sending, quantum, gate>>

Gate == INSTANCE AbstractGate WITH
  order <- IF ~intruderBreak THEN "none"
           ELSE IF sending THEN "given" ELSE "broadcast"

SysInit ==
  /\ Init
  /\ sending = FALSE
  /\ used = 0 /\ spent = 0 /\ lost = 0
  /\ Gate!Init
-----------------------------------------------------------------------------
(***************************************************************************)
(* Core 0 inside invoke or resume.                                         *)
(***************************************************************************)
UnitTime == IF stopped = Workers THEN QuietTpf ELSE BusyTpf

(* What a unit costs because a core has not yet obeyed a standing order.   *)
UnitLoss == IF intruderBreak /\ stopped # Workers THEN BusyTpf - QuietTpf ELSE 0

Running == phase = "run" /\ ~sending

Execute ==
  /\ Running
  /\ used < FuelAmount /\ used < left
  /\ lost + UnitLoss <= loss
  /\ \E dt \in 0 .. UnitTime : spent' = spent + dt
  /\ used' = used + 1
  /\ lost' = lost + UnitLoss
  /\ UNCHANGED <<vars, sending, gate>>

(* Mutant: the start of the measurement is not renewed. *)
EndQuantumKeepingTime ==
  /\ phase' = "mitigate"
  /\ loss' = loss - lost
  /\ used' = 0 /\ lost' = 0
  /\ UNCHANGED <<intruderBreak, sending, spent, gate>>

(* Mutant: the fuel is not renewed. *)
EndQuantumKeepingFuel ==
  /\ phase' = "mitigate"
  /\ loss' = loss - lost
  /\ spent' = 0 /\ lost' = 0
  /\ UNCHANGED <<intruderBreak, sending, used, gate>>

(* What the clock may show for a quantum whose units have taken spent: it  *)
(* reads whole microseconds when the quantum begins and ends, which takes  *)
(* some time as well.                                                      *)
Measured ==
  {(spent + overhead + offset) \div Grain :
     overhead \in 0 .. Overhead, offset \in 0 .. Grain - 1}

(* WasmRunner::run returns; the next call measures anew. *)
EndQuantum ==
  /\ phase' = "mitigate"
  /\ loss' = loss - lost
  /\ used' = 0 /\ spent' = 0 /\ lost' = 0
  /\ UNCHANGED <<intruderBreak, sending, gate>>

SuspendRun ==
  /\ Running
  /\ left > FuelAmount /\ FuelAmount - used \in Residues
  /\ refuelIdx < MaxRefuels
  /\ \E dt \in Measured : Suspend(dt, used)
  /\ EndQuantum

CompleteRun ==
  /\ Running
  /\ left <= FuelAmount /\ used = left
  /\ \E dt \in Measured : Complete(dt)
  /\ EndQuantum
-----------------------------------------------------------------------------
(***************************************************************************)
(* Core 0 in mitigate: the flag is stored, and a break then broadcast.     *)
(***************************************************************************)
SysMitigate ==
  /\ Mitigate
  /\ sending' = intruderBreak'
  /\ UNCHANGED <<quantum, gate>>

(* Mutant: the target list of the SGI misses a core. *)
SendShort ==
  /\ sending
  /\ sending' = FALSE
  /\ \E c \in Workers : told' = told \cup (Workers \ {c})
  /\ UNCHANGED <<vars, quantum, stopped>>

Send ==
  /\ sending
  /\ sending' = FALSE
  /\ UNCHANGED <<vars, quantum>>
  /\ Gate!Broadcast

SysPanic ==
  /\ (Running /\ WasmPanic) \/ MitigatePanic \/ PanicLoop
  /\ UNCHANGED <<sending, quantum, gate>>

(* The other cores, at any speed. *)
CoreStep(c) ==
  /\ UNCHANGED <<vars, sending, quantum>>
  /\ Gate!Stop(c) \/ Gate!Resume(c)

SysNext ==
  \/ Execute \/ SuspendRun \/ CompleteRun
  \/ SysMitigate \/ Send \/ SysPanic
  \/ \E c \in Workers : CoreStep(c)

SysSpec == SysInit /\ [][SysNext]_sysVars
-----------------------------------------------------------------------------
(* The types of what the composition adds, and the limits of a quantum. *)
SysTypeOK ==
  /\ sending \in BOOLEAN
  /\ sending => phase = "run" /\ intruderBreak
  /\ used \in 0 .. FuelAmount /\ used <= left
  /\ spent \in 0 .. BusyTpf * used
  /\ lost \in 0 .. loss
  /\ told \subseteq Workers /\ stopped \subseteq Workers

(* Whatever is going on in the cores when the guarded program is resumed   *)
(* after an order, those that stop and those that have just been released  *)
(* included: each of them is stopped or has yet to act on the broadcast.   *)
(* So none can make use of the time allowed for and then go on.            *)
OrderReachesAll ==
  intruderBreak /\ ~sending => told \cup stopped = Workers

(* Seen from outside, the loop goes by its flag: with quanta executed unit *)
(* by unit and the cores stopping and resuming in between, all quanta are  *)
(* still quanta of MitigationLoop, and all decisions its decisions. The    *)
(* bound on the overshoot therefore holds for the system.                  *)
ImplementsLoop == Spec
=============================================================================
