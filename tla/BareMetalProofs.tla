-------------------------- MODULE BareMetalProofs ---------------------------
(***************************************************************************)
(* Proofs about BareMetal for every number of cores and all constants of   *)
(* the loop: the system's quanta are quanta of MitigationLoop, and what is *)
(* proved of the loop is therefore true of the system.                     *)
(*                                                                         *)
(* The invariant adds to that of the loop what the quantum has cost so     *)
(* far: under a break all time beyond QuietTpf is booked as lost to cores  *)
(* that still run, and the loss allowed for bounds it.                     *)
(***************************************************************************)
EXTENDS BareMetal, MitigationLoopProofs

(* What a quantum that is under way has cost. *)
QuantumCost ==
  /\ phase = "mitigate" \/ sending => used = 0 /\ spent = 0 /\ lost = 0
  /\ lost <= (BusyTpf - QuietTpf) * used
  /\ intruderBreak => spent <= QuietTpf * used + lost

SysInv ==
  /\ IInv
  /\ SysTypeOK
  /\ OrderReachesAll
  /\ QuantumCost
-----------------------------------------------------------------------------
LEMMA SysInitInv == SysInit => Init /\ SysInv
<1> SUFFICES ASSUME SysInit PROVE Init /\ SysInv
  OBVIOUS
<1>1. Init /\ IInv
  BY InitIInv DEF SysInit
<1>2. /\ phase = "run" /\ intruderBreak = FALSE /\ sending = FALSE
      /\ used = 0 /\ spent = 0 /\ lost = 0 /\ told = {} /\ stopped = {}
  BY DEF SysInit, Init, Gate!Init
<1>3. /\ left \in Nat /\ loss \in Nat
      /\ FuelAmount \in Nat /\ BusyTpf \in Nat /\ QuietTpf \in Nat
  BY <1>1, Constants DEF IInv, TypeOK
<1>4. /\ BusyTpf * 0 = 0 /\ QuietTpf * 0 + 0 = 0
      /\ (BusyTpf - QuietTpf) * 0 = 0
  BY <1>3
<1>5. SysTypeOK
  <2>1. 0 \in 0 .. FuelAmount /\ 0 <= left /\ 0 \in 0 .. loss
    BY <1>3
  <2>2. 0 \in 0 .. BusyTpf * 0
    BY <1>4
  <2> QED
    BY <1>2, <2>1, <2>2, Zenon DEF SysTypeOK
<1>6. OrderReachesAll /\ QuantumCost
  BY <1>2, <1>4 DEF OrderReachesAll, QuantumCost
<1> QED
  BY <1>1, <1>5, <1>6 DEF SysInv

(* The variables of a quantum, as numbers. *)
LEMMA QuantumTypes ==
  ASSUME SysInv
  PROVE  /\ used \in Nat /\ spent \in Nat /\ lost \in Nat
         /\ left \in Nat /\ loss \in Nat
         /\ used <= FuelAmount /\ used <= left /\ lost <= loss
         /\ spent <= BusyTpf * used
<1>1. left \in Nat /\ loss \in Nat
  BY Constants DEF SysInv, IInv, TypeOK
<1>2. used \in Nat /\ used <= FuelAmount /\ used <= left
  BY <1>1, Constants DEF SysInv, SysTypeOK
<1>3. BusyTpf * used \in Nat
  BY <1>2, Constants
<1> QED
  BY <1>1, <1>2, <1>3 DEF SysInv, SysTypeOK

LEMMA CutMonotone ==
  ASSUME NEW m \in Nat, NEW n \in Nat, m <= n, NEW g \in Nat, 0 < g
  PROVE  m \div g \in 0 .. n \div g
<1> DEFINE p == m \div g
           q == n \div g
<1>1. p \in Nat /\ q \in Nat /\ g * p <= m /\ n < g * (q + 1)
  OBVIOUS
<1> HIDE DEF p, q
<1>2. g * p < g * (q + 1)
  BY <1>1
<1>3. p < q + 1
  BY <1>1, <1>2
<1> QED
  BY <1>1, <1>3 DEF p, q

(* A quantum is measured to have taken a time, and has lost a part of it,  *)
(* that the loop allows for the fuel it has consumed.                      *)
LEMMA QuantumAllowed ==
  ASSUME SysInv
  PROVE  lost \in Loss(used) /\ Measured \subseteq Time(used, lost)
<1>1. /\ used \in Nat /\ spent \in Nat /\ lost \in Nat /\ loss \in Nat
      /\ lost <= loss /\ spent <= BusyTpf * used
  BY QuantumTypes
<1>2. lost \in Loss(used)
  BY <1>1 DEF Loss, SysInv, QuantumCost
<1>3. BusyTpf * used \in Nat /\ QuietTpf * used + lost \in Nat
  BY <1>1, Constants
<1>4. ASSUME NEW overhead \in 0 .. Overhead, NEW offset \in 0 .. Grain - 1
      PROVE  (spent + overhead + offset) \div Grain \in Time(used, lost)
  <2> USE Constants
  <2>1. /\ overhead + offset \in Nat /\ overhead + offset <= Jitter
        /\ spent + overhead + offset \in Nat
    BY <1>1 DEF Jitter
  <2>2. CASE intruderBreak
    <3>1. spent + overhead + offset <= QuietTpf * used + lost + Jitter
      BY <1>1, <1>3, <2>1, <2>2 DEF SysInv, QuantumCost
    <3>2. QuietTpf * used + lost + Jitter \in Nat
      BY <1>3
    <3> QED
      BY <2>1, <2>2, <3>1, <3>2, CutMonotone DEF Time
  <2>3. CASE ~intruderBreak
    <3>1. spent + overhead + offset <= BusyTpf * used + Jitter
      BY <1>1, <1>3, <2>1
    <3>2. BusyTpf * used + Jitter \in Nat
      BY <1>3
    <3> QED
      BY <2>1, <2>3, <3>1, <3>2, CutMonotone DEF Time
  <2> QED
    BY <2>2, <2>3
<1> QED
  BY <1>2, <1>4 DEF Measured

(* Each step of the system is a step of the loop, or none. *)
LEMMA StepSimulates == ASSUME SysInv, [SysNext]_sysVars PROVE [Next]_vars
<1>1. CASE SuspendRun
  <2> DEFINE residue == FuelAmount - used
  <2>1. used = FuelAmount - residue
    BY QuantumTypes, Constants
  <2>2. /\ residue \in Residues /\ loss' = loss - lost
        /\ \E dt \in Measured : Suspend(dt, used)
        /\ phase = "run" /\ left > FuelAmount /\ phase' = "mitigate"
        /\ refuelIdx < MaxRefuels
        /\ UNCHANGED intruderBreak
    BY <1>1 DEF SuspendRun, EndQuantum, Running
  <2> HIDE DEF residue
  <2>3. LET df == FuelAmount - residue IN
        \E x \in Loss(df) :
          (\E dt \in Time(df, x) : Suspend(dt, df)) /\ loss' = loss - x
    BY <2>1, <2>2, QuantumAllowed
  <2> QED
    BY <2>2, <2>3 DEF OutOfFuel, Next
<1>2. CASE CompleteRun
  <2>1. /\ used = left /\ loss' = loss - lost
        /\ \E dt \in Measured : Complete(dt)
        /\ phase = "run" /\ left <= FuelAmount /\ phase' = "mitigate"
        /\ UNCHANGED intruderBreak
    BY <1>2 DEF CompleteRun, EndQuantum, Running
  <2>2. \E x \in Loss(left) :
          (\E dt \in Time(left, x) : Complete(dt)) /\ loss' = loss - x
    BY <2>1, QuantumAllowed
  <2> QED
    BY <2>1, <2>2 DEF Finished, Next
<1>3. CASE SysMitigate \/ SysPanic
  BY <1>3 DEF SysMitigate, SysPanic, Next
<1>4. CASE Execute \/ Send \/ \E c \in Workers : CoreStep(c)
  BY <1>4 DEF Execute, Send, CoreStep
<1>5. CASE UNCHANGED sysVars
  BY <1>5 DEF sysVars
<1> QED
  BY <1>1, <1>2, <1>3, <1>4, <1>5 DEF SysNext
-----------------------------------------------------------------------------
LEMMA ExecuteKeeps ==
  ASSUME SysInv, Execute
  PROVE  SysTypeOK' /\ QuantumCost'
<1> USE Constants
<1>1. /\ used \in Nat /\ spent \in Nat /\ lost \in Nat
      /\ left \in Nat /\ loss \in Nat /\ spent <= BusyTpf * used
  BY QuantumTypes
<1>2. /\ used' = used + 1 /\ used < FuelAmount /\ used < left
      /\ lost' = lost + UnitLoss /\ lost + UnitLoss <= loss
      /\ phase = "run" /\ ~sending
  BY DEF Execute, Running
<1>3. /\ UNCHANGED <<phase, left, loss, intruderBreak, sending, told, stopped>>
  BY DEF Execute, vars, runVars, gate
<1>4. PICK dt \in 0 .. UnitTime : spent' = spent + dt
  BY DEF Execute
<1>5. /\ UnitTime \in Nat /\ UnitTime <= BusyTpf
      /\ UnitLoss \in Nat /\ UnitLoss <= BusyTpf - QuietTpf
      /\ intruderBreak => UnitTime <= QuietTpf + UnitLoss
  BY DEF UnitTime, UnitLoss
<1>6. dt \in Nat /\ dt <= UnitTime
  BY <1>4, <1>5
<1>7. /\ BusyTpf * (used + 1) = BusyTpf * used + BusyTpf
      /\ QuietTpf * (used + 1) = QuietTpf * used + QuietTpf
      /\ (BusyTpf - QuietTpf) * (used + 1)
           = (BusyTpf - QuietTpf) * used + (BusyTpf - QuietTpf)
      /\ BusyTpf * used \in Nat /\ QuietTpf * used \in Nat
      /\ (BusyTpf - QuietTpf) * used \in Nat
  BY <1>1
<1>8. SysTypeOK'
  <2>1. used' \in 0 .. FuelAmount /\ used' <= left' /\ lost' \in 0 .. loss'
    BY <1>1, <1>2, <1>3, <1>5
  <2>2. spent' \in 0 .. BusyTpf * used'
    BY <1>1, <1>2, <1>4, <1>5, <1>6, <1>7
  <2> QED
    BY <1>3, <2>1, <2>2 DEF SysTypeOK, SysInv
<1>9. QuantumCost'
  <2>1. lost' <= (BusyTpf - QuietTpf) * used'
    BY <1>1, <1>2, <1>5, <1>7 DEF SysInv, QuantumCost
  <2>2. intruderBreak => spent' <= QuietTpf * used' + lost'
    BY <1>1, <1>2, <1>4, <1>5, <1>6, <1>7 DEF SysInv, QuantumCost
  <2> QED
    BY <1>2, <1>3, <2>1, <2>2 DEF QuantumCost
<1> QED
  BY <1>8, <1>9

LEMMA StepKeepsSysInv ==
  ASSUME SysInv, [SysNext]_sysVars PROVE SysInv'
<1> USE Constants
<1>0. IInv'
  BY StepSimulates, StepKeepsIInv DEF SysInv
<1>1. left' \in Nat /\ loss' \in Nat
  BY <1>0 DEF IInv, TypeOK
<1>2. CASE Execute
  <2>1. OrderReachesAll'
    BY <1>2 DEF Execute, vars, gate, OrderReachesAll, SysInv
  <2> QED
    BY <1>0, <1>2, <2>1, ExecuteKeeps DEF SysInv
<1>3. CASE SuspendRun \/ CompleteRun
  <2>1. /\ phase' = "mitigate" /\ ~sending /\ sending' = sending
        /\ used' = 0 /\ spent' = 0 /\ lost' = 0
        /\ UNCHANGED <<intruderBreak, told, stopped>>
    BY <1>3 DEF SuspendRun, CompleteRun, EndQuantum, Running, gate
  <2> QED
    BY <1>0, <1>1, <2>1 DEF SysInv, SysTypeOK, OrderReachesAll, QuantumCost
<1>4. CASE SysMitigate
  <2>1. /\ phase = "mitigate" /\ phase' = "run" /\ sending' = intruderBreak'
        /\ UNCHANGED <<used, spent, lost, told, stopped>>
    BY <1>4 DEF SysMitigate, Mitigate, Decide, quantum, gate
  <2>2. used = 0 /\ spent = 0 /\ lost = 0
    BY <2>1 DEF SysInv, QuantumCost
  <2>3. intruderBreak' \in BOOLEAN
    BY <1>0 DEF IInv, TypeOK
  <2> QED
    BY <1>0, <1>1, <2>1, <2>2, <2>3
    DEF SysInv, SysTypeOK, OrderReachesAll, QuantumCost
<1>5. CASE Send
  <2>1. /\ sending /\ sending' = FALSE /\ told' = Workers
        /\ UNCHANGED <<phase, left, loss, intruderBreak, used, spent, lost, stopped>>
    BY <1>5 DEF Send, Gate!Broadcast, vars, runVars, quantum
  <2> QED
    BY <1>0, <2>1 DEF SysInv, SysTypeOK, OrderReachesAll, QuantumCost
<1>6. CASE SysPanic
  <2>1. /\ phase' \in {phase, "panicked"} /\ (phase' # phase => ~sending)
        /\ UNCHANGED <<left, loss, intruderBreak, sending, used, spent, lost,
                       told, stopped>>
    BY <1>6 DEF SysPanic, Running, WasmPanic, MitigatePanic, PanicLoop, vars,
                runVars, quantum, gate, SysInv, SysTypeOK
  <2> QED
    BY <1>0, <2>1 DEF SysInv, SysTypeOK, OrderReachesAll, QuantumCost
<1>7. CASE \E c \in Workers : CoreStep(c)
  <2>1. PICK c \in Workers : CoreStep(c)
    BY <1>7
  <2>2. UNCHANGED <<phase, left, loss, intruderBreak, sending, used, spent, lost>>
    BY <2>1 DEF CoreStep, vars, runVars, quantum
  <2>3. /\ told' \subseteq Workers /\ stopped' \subseteq Workers
        /\ OrderReachesAll'
    BY <2>1, <2>2 DEF CoreStep, Gate!Stop, Gate!Resume, SysInv, SysTypeOK,
                      OrderReachesAll
  <2> QED
    BY <1>0, <2>2, <2>3 DEF SysInv, SysTypeOK, QuantumCost
<1>8. CASE UNCHANGED sysVars
  BY <1>0, <1>8 DEF sysVars, vars, runVars, quantum, gate, SysInv, SysTypeOK,
                    OrderReachesAll, QuantumCost
<1> QED
  BY <1>2, <1>3, <1>4, <1>5, <1>6, <1>7, <1>8 DEF SysNext

LEMMA SysInvHolds == SysSpec => []SysInv
BY SysInitInv, StepKeepsSysInv, PTL DEF SysSpec

(* What a quantum has consumed and cost keeps to its limits while cores    *)
(* stop and resume around it.                                              *)
THEOREM SysTypeCorrect == SysSpec => []SysTypeOK
<1>1. SysInv => SysTypeOK
  BY DEF SysInv
<1> QED
  BY SysInvHolds, <1>1, PTL

(* When the guarded program goes on after intruder_break has returned,     *)
(* every intruder core is in its handler's loop or has the SGI before it,  *)
(* however often it has been stopped and released before.                  *)
THEOREM OrdersReachAll == SysSpec => []OrderReachesAll
<1>1. SysInv => OrderReachesAll
  BY DEF SysInv
<1> QED
  BY SysInvHolds, <1>1, PTL

(* The loop with its quanta executed unit by unit among the cores          *)
(* implements the loop with quanta in one step.                            *)
THEOREM SysImplementsLoop == SysSpec => ImplementsLoop
<1>1. SysInv /\ [SysNext]_sysVars => [Next]_vars
  BY StepSimulates
<1> QED
  BY SysInvHolds, SysInitInv, <1>1, PTL DEF SysSpec, ImplementsLoop, Spec

(* The bound on the overshoot holds for the whole system: it does not      *)
(* matter which cores have stopped already when, if from an order to the   *)
(* last stop they cost no more than StopLoss.                              *)
THEOREM SysOvershootIsBounded ==
  ASSUME Wide PROVE SysSpec => []OvershootBounded
<1>1. Spec => []OvershootBounded
  BY Wide, OvershootIsBounded
<1> QED
  BY SysImplementsLoop, <1>1, PTL DEF ImplementsLoop
=============================================================================
