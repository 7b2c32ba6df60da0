------------------------- MODULE IntruderGateProofs -------------------------
(***************************************************************************)
(* Proofs about IntruderGate, for every number N of intruder cores: its    *)
(* three safety invariants and that it implements AbstractGate!SafeSpec.    *)
(*                                                                         *)
(* None of the invariants is inductive alone. What has to be added says    *)
(* where a core can be when it waits for the lock or can be interrupted,   *)
(* how far the start of the cores has come, and which steps of the handler *)
(* an acknowledged SGI spans.                                              *)
(***************************************************************************)
EXTENDS IntruderGate, TLAPS

(* The lock's owner is the core inside the closure.                        *)
LockConsistent ==
  \A c \in Cores : stage[c] = "held" <=> gicOwner = c

(* A core inside lock_irq is at one of its calls and will restore a masked *)
(* DAIF; outside its attack loop a core is masked.                         *)
LockPlaces ==
  \A c \in Cores : stage[c] # "out" => pc[c] \in LockSites /\ savedDaif[c]

MaskedOutsideLoop ==
  \A c \in Cores : ~irqMasked[c] => pc[c] = "attack"

(* While core 0 starts the others no break is ordered, and the cores it    *)
(* has not come to are off.                                                *)
StartingUp ==
  /\ pc[Main] \in {"setup", "start", "poll"} =>
       /\ ~intruderBreak
       /\ nextCore \in Intruders
  /\ \A c \in Intruders :
       \/ pc[Main] \in {"setup", "start"} /\ c >= nextCore
       \/ pc[Main] = "poll" /\ c > nextCore
       => pc[c] = "off"

(* Core 0 sends the SGI for a standing order only. *)
SendsForAnOrder == pc[Main] = "send" => intruderBreak

(* An SGI is active from its acknowledgement to its end. *)
ActiveUntilEnded == \A c \in Intruders : sgiActive[c] => pc[c] = "eoi"

IInv ==
  /\ TypeOK
  /\ LockConsistent
  /\ LockPlaces
  /\ MaskedOutsideLoop
  /\ StartingUp
  /\ SendsForAnOrder
  /\ ActiveUntilEnded
  /\ NoLostBreak
-----------------------------------------------------------------------------
LEMMA CoreFacts ==
  /\ Main \in Cores
  /\ Intruders \subseteq Cores
  /\ \A c \in Intruders : c # Main
  /\ NoCore \notin Cores
  /\ 1 \in Intruders
BY GateAssumption DEF Main, Intruders, Cores, NoCore

LEMMA InitIInv == Init => IInv
<1> SUFFICES ASSUME Init PROVE IInv
    OBVIOUS
<1>1. TypeOK
  <2>1. nextCore \in 1 .. N + 1 /\ gicOwner \in Cores \cup {NoCore}
    BY GateAssumption DEF Init
  <2>2. /\ pc \in [Cores -> MainPCs \cup IntruderPCs]
        /\ pc[Main] \in MainPCs
        /\ \A c \in Intruders : pc[c] \in IntruderPCs
    BY CoreFacts DEF Init, MainPCs, IntruderPCs
  <2> QED
    BY <2>1, <2>2 DEF Init, TypeOK
<1>2. LockConsistent /\ LockPlaces /\ MaskedOutsideLoop
  BY CoreFacts DEF Init, LockConsistent, LockPlaces, MaskedOutsideLoop
<1>3. StartingUp /\ SendsForAnOrder /\ ActiveUntilEnded /\ NoLostBreak
  BY CoreFacts
     DEF Init, StartingUp, SendsForAnOrder, ActiveUntilEnded, NoLostBreak
<1> QED
  BY <1>1, <1>2, <1>3 DEF IInv
LEMMA IInvStutter == ASSUME IInv, UNCHANGED vars PROVE IInv'
BY DEF IInv, vars, lockVars, gicVars, TypeOK, LockConsistent, LockPlaces,
       MaskedOutsideLoop, StartingUp, SendsForAnOrder, ActiveUntilEnded,
       NoLostBreak, Stopped
-----------------------------------------------------------------------------
(* lock_irq up to the closure: no program counter moves, nothing of the    *)
(* GIC changes.                                                            *)
LEMMA LockStepKeepsIInv ==
  ASSUME IInv, NEW c \in Cores, LockStep(c)
  PROVE  IInv'
<1> USE DEF IInv, lockVars, gicVars
<1>1. CASE LockEnter(c)
  <2>1. TypeOK'
    BY <1>1 DEF LockEnter, TypeOK
  <2>2. LockConsistent' /\ LockPlaces' /\ MaskedOutsideLoop'
    BY <1>1 DEF LockEnter, TypeOK, LockSites, LockConsistent, LockPlaces,
                MaskedOutsideLoop
  <2>3. StartingUp' /\ SendsForAnOrder' /\ ActiveUntilEnded' /\ NoLostBreak'
    BY <1>1 DEF LockEnter, StartingUp, SendsForAnOrder, ActiveUntilEnded,
                NoLostBreak, Stopped
  <2> QED
    BY <2>1, <2>2, <2>3
<1>2. CASE LockAcquire(c)
  <2>1. TypeOK'
    BY <1>2 DEF LockAcquire, TypeOK
  <2>2. LockConsistent' /\ LockPlaces' /\ MaskedOutsideLoop'
    BY <1>2, CoreFacts
       DEF LockAcquire, TypeOK, LockConsistent, LockPlaces, MaskedOutsideLoop
  <2>3. StartingUp' /\ SendsForAnOrder' /\ ActiveUntilEnded' /\ NoLostBreak'
    BY <1>2 DEF LockAcquire, StartingUp, SendsForAnOrder, ActiveUntilEnded,
                NoLostBreak, Stopped
  <2> QED
    BY <2>1, <2>2, <2>3
<1> QED
  BY <1>1, <1>2 DEF LockStep

(* The end of lock_irq, whatever the closure did to the rest: the lock is  *)
(* free again and the core as masked as it was.                            *)
LEMMA LockExitKeeps ==
  ASSUME IInv, NEW c \in Cores, LockExit(c),
         NEW p \in MainPCs \cup IntruderPCs, Goto(c, p)
  PROVE  /\ stage' \in [Cores -> {"out", "spin", "held"}]
         /\ irqMasked' \in [Cores -> BOOLEAN]
         /\ savedDaif' \in [Cores -> BOOLEAN]
         /\ gicOwner' \in Cores \cup {NoCore}
         /\ LockConsistent' /\ LockPlaces' /\ MaskedOutsideLoop'
<1> USE CoreFacts
        DEF IInv, TypeOK, LockExit, Goto
<1>1. savedDaif[c] /\ irqMasked'[c] /\ stage'[c] = "out"
  BY DEF LockPlaces
<1>2. /\ stage' \in [Cores -> {"out", "spin", "held"}]
      /\ irqMasked' \in [Cores -> BOOLEAN]
      /\ savedDaif' \in [Cores -> BOOLEAN]
      /\ gicOwner' \in Cores \cup {NoCore}
  OBVIOUS
<1>3. LockConsistent'
  BY DEF LockConsistent
<1>4. LockPlaces' /\ MaskedOutsideLoop'
  BY <1>1 DEF LockPlaces, MaskedOutsideLoop
<1> QED
  BY <1>2, <1>3, <1>4
-----------------------------------------------------------------------------
LEMMA MainStepKeepsIInv ==
  ASSUME IInv, MainStep
  PROVE  IInv'
<1> USE CoreFacts DEF IInv, lockVars, gicVars
<1>1. CASE MainSetup
  <2>1. "start" \in MainPCs \cup IntruderPCs
    BY DEF MainPCs
  <2>2. TypeOK' /\ LockConsistent' /\ LockPlaces' /\ MaskedOutsideLoop'
    BY <1>1, <2>1, LockExitKeeps DEF MainSetup, TypeOK, Goto, MainPCs
  <2>3. StartingUp' /\ SendsForAnOrder' /\ ActiveUntilEnded' /\ NoLostBreak'
    BY <1>1 DEF MainSetup, Goto, TypeOK, StartingUp, SendsForAnOrder,
                ActiveUntilEnded, NoLostBreak
  <2> QED
    BY <2>2, <2>3
<1>2. CASE StartCore
  <2>1. nextCore \in Intruders /\ pc[nextCore] = "off" /\ ~intruderBreak
    BY <1>2, GateAssumption DEF StartCore, StartingUp, Intruders
  <2>2. TypeOK'
    BY <1>2, <2>1 DEF StartCore, TypeOK, MainPCs, IntruderPCs
  <2>3. LockConsistent' /\ LockPlaces' /\ MaskedOutsideLoop'
    BY <1>2, <2>1 DEF StartCore, TypeOK, LockSites, LockConsistent,
                      LockPlaces, MaskedOutsideLoop
  <2>4. StartingUp'
    <3>1. ASSUME NEW c \in Intruders, c > nextCore
          PROVE  pc'[c] = "off"
      <4>1. c >= nextCore /\ c # nextCore /\ c # Main
        BY <2>1, <3>1 DEF Intruders, Main
      <4> QED
        BY <1>2, <4>1 DEF StartCore, TypeOK, StartingUp
    <3> QED
      BY <1>2, <2>1, <3>1 DEF StartCore, TypeOK, StartingUp
  <2>5. SendsForAnOrder' /\ ActiveUntilEnded' /\ NoLostBreak'
    BY <1>2, <2>1 DEF StartCore, TypeOK, SendsForAnOrder, ActiveUntilEnded,
                      NoLostBreak
  <2> QED
    BY <2>2, <2>3, <2>4, <2>5
<1>3. CASE StartCoreFails
  <2>1. TypeOK' /\ LockConsistent' /\ LockPlaces' /\ MaskedOutsideLoop'
    BY <1>3 DEF StartCoreFails, Goto, TypeOK, MainPCs, LockSites,
                LockConsistent, LockPlaces, MaskedOutsideLoop
  <2>2. StartingUp' /\ SendsForAnOrder' /\ ActiveUntilEnded' /\ NoLostBreak'
    BY <1>3 DEF StartCoreFails, Goto, TypeOK, StartingUp, SendsForAnOrder,
                ActiveUntilEnded, NoLostBreak
  <2> QED
    BY <2>1, <2>2
<1>4. CASE PollNodeState
  <2>1. nextCore \in Intruders /\ ~intruderBreak
    BY <1>4 DEF PollNodeState, StartingUp
  <2>2. nextCore' \in 1 .. N + 1 /\ (nextCore # N => nextCore' \in Intruders)
    BY <1>4, <2>1, GateAssumption DEF PollNodeState, Intruders
  <2>3. TypeOK'
    BY <1>4, <2>2 DEF PollNodeState, Goto, TypeOK, MainPCs
  <2>4. LockConsistent' /\ LockPlaces' /\ MaskedOutsideLoop'
    BY <1>4 DEF PollNodeState, Goto, TypeOK, LockSites, LockConsistent,
                LockPlaces, MaskedOutsideLoop
  <2>5. StartingUp'
    <3>1. ASSUME NEW c \in Intruders, c >= nextCore'
          PROVE  pc'[c] = "off"
      <4>1. c > nextCore
        BY <1>4, <2>1, <3>1 DEF PollNodeState, Intruders
      <4> QED
        BY <1>4, <4>1 DEF PollNodeState, Goto, TypeOK, StartingUp
    <3> QED
      BY <1>4, <2>1, <2>2, <3>1 DEF PollNodeState, Goto, TypeOK, StartingUp
  <2>6. SendsForAnOrder' /\ ActiveUntilEnded' /\ NoLostBreak'
    BY <1>4, <2>1 DEF PollNodeState, Goto, TypeOK, SendsForAnOrder,
                      ActiveUntilEnded, NoLostBreak
  <2> QED
    BY <2>3, <2>4, <2>5, <2>6
<1>5. CASE Break
  <2>1. TypeOK' /\ LockConsistent' /\ LockPlaces' /\ MaskedOutsideLoop'
    BY <1>5 DEF Break, Goto, TypeOK, MainPCs, LockSites, LockConsistent,
                LockPlaces, MaskedOutsideLoop
  <2>2. StartingUp' /\ SendsForAnOrder' /\ ActiveUntilEnded' /\ NoLostBreak'
    BY <1>5 DEF Break, Goto, TypeOK, StartingUp, SendsForAnOrder,
                ActiveUntilEnded, NoLostBreak
  <2> QED
    BY <2>1, <2>2
<1>6. CASE SendSgi
  <2>1. "run" \in MainPCs \cup IntruderPCs
    BY DEF MainPCs
  <2>2. TypeOK' /\ LockConsistent' /\ LockPlaces' /\ MaskedOutsideLoop'
    BY <1>6, <2>1, LockExitKeeps DEF SendSgi, TypeOK, Goto, MainPCs
  <2>3. StartingUp' /\ SendsForAnOrder' /\ ActiveUntilEnded'
    BY <1>6 DEF SendSgi, Goto, TypeOK, StartingUp, SendsForAnOrder,
                ActiveUntilEnded
  <2>4. NoLostBreak'
    BY <1>6 DEF SendSgi, Goto, TypeOK, ActiveUntilEnded, NoLostBreak, Stopped
  <2> QED
    BY <2>2, <2>3, <2>4
<1>7. CASE Cont
  <2>1. TypeOK' /\ LockConsistent' /\ LockPlaces' /\ MaskedOutsideLoop'
    BY <1>7 DEF Cont, TypeOK, LockConsistent, LockPlaces, MaskedOutsideLoop
  <2>2. StartingUp' /\ SendsForAnOrder' /\ ActiveUntilEnded' /\ NoLostBreak'
    BY <1>7 DEF Cont, TypeOK, StartingUp, SendsForAnOrder, ActiveUntilEnded,
                NoLostBreak
  <2> QED
    BY <2>1, <2>2
<1>8. CASE MainPanic
  <2>1. TypeOK' /\ LockConsistent' /\ LockPlaces' /\ MaskedOutsideLoop'
    BY <1>8 DEF MainPanic, Goto, TypeOK, MainPCs, LockSites, LockConsistent,
                LockPlaces, MaskedOutsideLoop
  <2>2. StartingUp' /\ SendsForAnOrder' /\ ActiveUntilEnded' /\ NoLostBreak'
    BY <1>8 DEF MainPanic, Goto, TypeOK, StartingUp, SendsForAnOrder,
                ActiveUntilEnded, NoLostBreak, Stopped
  <2> QED
    BY <2>1, <2>2
<1>9. CASE PanicLoop
  BY <1>9, IInvStutter DEF PanicLoop
<1> QED
  BY <1>1, <1>2, <1>3, <1>4, <1>5, <1>6, <1>7, <1>8, <1>9 DEF MainStep
-----------------------------------------------------------------------------
LEMMA IntruderStepKeepsIInv ==
  ASSUME IInv, NEW c \in Intruders, IntruderStep(c)
  PROVE  IInv'
<1> USE CoreFacts DEF IInv, lockVars, gicVars
<1>1. CASE PowerUp(c)
  <2>1. TypeOK' /\ LockConsistent' /\ LockPlaces' /\ MaskedOutsideLoop'
    BY <1>1 DEF PowerUp, Goto, TypeOK, IntruderPCs, LockSites,
                LockConsistent, LockPlaces, MaskedOutsideLoop
  <2>2. StartingUp' /\ SendsForAnOrder' /\ ActiveUntilEnded' /\ NoLostBreak'
    BY <1>1 DEF PowerUp, Goto, TypeOK, StartingUp, SendsForAnOrder,
                ActiveUntilEnded, NoLostBreak, Stopped
  <2> QED
    BY <2>1, <2>2
<1>2. CASE IntruderSetup(c)
  <2>1. "irqEnable" \in MainPCs \cup IntruderPCs
    BY DEF IntruderPCs
  <2>2. TypeOK' /\ LockConsistent' /\ LockPlaces' /\ MaskedOutsideLoop'
    BY <1>2, <2>1, LockExitKeeps DEF IntruderSetup, TypeOK, Goto, IntruderPCs
  <2>3. StartingUp' /\ SendsForAnOrder' /\ ActiveUntilEnded' /\ NoLostBreak'
    BY <1>2 DEF IntruderSetup, Goto, TypeOK, StartingUp, SendsForAnOrder,
                ActiveUntilEnded, NoLostBreak, Stopped
  <2> QED
    BY <2>2, <2>3
<1>3. CASE IrqEnable(c)
  <2>1. TypeOK' /\ LockConsistent' /\ LockPlaces' /\ MaskedOutsideLoop'
    BY <1>3 DEF IrqEnable, Goto, TypeOK, IntruderPCs, LockSites,
                LockConsistent, LockPlaces, MaskedOutsideLoop
  <2>2. StartingUp' /\ SendsForAnOrder' /\ ActiveUntilEnded' /\ NoLostBreak'
    BY <1>3 DEF IrqEnable, Goto, TypeOK, StartingUp, SendsForAnOrder,
                ActiveUntilEnded, NoLostBreak, Stopped
  <2> QED
    BY <2>1, <2>2
<1>4. CASE TakeIrq(c)
  <2>1. pc[c] = "attack" /\ stage[c] = "out"
    BY <1>4 DEF TakeIrq, MaskedOutsideLoop, LockPlaces, LockSites
  <2>2. TypeOK' /\ LockConsistent' /\ LockPlaces' /\ MaskedOutsideLoop'
    BY <1>4, <2>1 DEF TakeIrq, Goto, TypeOK, IntruderPCs, LockSites,
                      LockConsistent, LockPlaces, MaskedOutsideLoop
  <2>3. StartingUp' /\ SendsForAnOrder'
    BY <1>4, <2>1 DEF TakeIrq, Goto, TypeOK, StartingUp, SendsForAnOrder
  <2>4. ActiveUntilEnded' /\ NoLostBreak'
    BY <1>4, <2>1 DEF TakeIrq, Goto, TypeOK, ActiveUntilEnded, NoLostBreak,
                      Stopped
  <2> QED
    BY <2>2, <2>3, <2>4
<1>5. CASE Acknowledge(c)
  <2>1. "eoi" \in MainPCs \cup IntruderPCs
    BY DEF IntruderPCs
  <2>2. TypeOK' /\ LockConsistent' /\ LockPlaces' /\ MaskedOutsideLoop'
    BY <1>5, <2>1, LockExitKeeps DEF Acknowledge, TypeOK, Goto, IntruderPCs
  <2>3. StartingUp' /\ SendsForAnOrder'
    BY <1>5 DEF Acknowledge, Goto, TypeOK, StartingUp, SendsForAnOrder
  <2>4. ActiveUntilEnded' /\ NoLostBreak'
    BY <1>5 DEF Acknowledge, Goto, TypeOK, ActiveUntilEnded, NoLostBreak,
                Stopped
  <2> QED
    BY <2>2, <2>3, <2>4
<1>6. CASE AcknowledgeNone(c)
  <2>1. "ret" \in MainPCs \cup IntruderPCs
    BY DEF IntruderPCs
  <2>2. TypeOK' /\ LockConsistent' /\ LockPlaces' /\ MaskedOutsideLoop'
    BY <1>6, <2>1, LockExitKeeps DEF AcknowledgeNone, TypeOK, Goto, IntruderPCs
  <2>3. StartingUp' /\ SendsForAnOrder' /\ ActiveUntilEnded' /\ NoLostBreak'
    BY <1>6 DEF AcknowledgeNone, Goto, TypeOK, StartingUp, SendsForAnOrder,
                ActiveUntilEnded, NoLostBreak, Stopped
  <2> QED
    BY <2>2, <2>3
<1>7. CASE EndInterrupt(c)
  <2>1. "park" \in MainPCs \cup IntruderPCs
    BY DEF IntruderPCs
  <2>2. TypeOK' /\ LockConsistent' /\ LockPlaces' /\ MaskedOutsideLoop'
    BY <1>7, <2>1, LockExitKeeps DEF EndInterrupt, TypeOK, Goto, IntruderPCs
  <2>3. StartingUp' /\ SendsForAnOrder' /\ ActiveUntilEnded' /\ NoLostBreak'
    BY <1>7 DEF EndInterrupt, Goto, TypeOK, StartingUp, SendsForAnOrder,
                ActiveUntilEnded, NoLostBreak, Stopped
  <2> QED
    BY <2>2, <2>3
<1>8. CASE LeavePark(c)
  <2>1. TypeOK' /\ LockConsistent' /\ LockPlaces' /\ MaskedOutsideLoop'
    BY <1>8 DEF LeavePark, Goto, TypeOK, IntruderPCs, LockSites,
                LockConsistent, LockPlaces, MaskedOutsideLoop
  <2>2. StartingUp' /\ SendsForAnOrder' /\ ActiveUntilEnded' /\ NoLostBreak'
    BY <1>8 DEF LeavePark, Goto, TypeOK, StartingUp, SendsForAnOrder,
                ActiveUntilEnded, NoLostBreak, Stopped
  <2> QED
    BY <2>1, <2>2
<1>9. CASE ReturnFromIrq(c)
  <2>1. TypeOK' /\ LockConsistent' /\ LockPlaces' /\ MaskedOutsideLoop'
    BY <1>9 DEF ReturnFromIrq, Goto, TypeOK, IntruderPCs, LockSites,
                LockConsistent, LockPlaces, MaskedOutsideLoop
  <2>2. StartingUp' /\ SendsForAnOrder' /\ ActiveUntilEnded' /\ NoLostBreak'
    BY <1>9 DEF ReturnFromIrq, Goto, TypeOK, StartingUp, SendsForAnOrder,
                ActiveUntilEnded, NoLostBreak, Stopped
  <2> QED
    BY <2>1, <2>2
<1> QED
  BY <1>1, <1>2, <1>3, <1>4, <1>5, <1>6, <1>7, <1>8, <1>9 DEF IntruderStep
-----------------------------------------------------------------------------
THEOREM IInvHolds == SafeSpec => []IInv
<1>1. IInv /\ [Next]_vars => IInv'
  <2> SUFFICES ASSUME IInv, [Next]_vars PROVE IInv'
    OBVIOUS
  <2>1. CASE MainStep
    BY <2>1, MainStepKeepsIInv
  <2>2. CASE \E c \in Cores : LockStep(c)
    BY <2>2, LockStepKeepsIInv
  <2>3. CASE \E c \in Intruders : IntruderStep(c)
    BY <2>3, IntruderStepKeepsIInv
  <2>4. CASE UNCHANGED vars
    BY <2>4, IInvStutter
  <2> QED
    BY <2>1, <2>2, <2>3, <2>4 DEF Next
<1> QED
  BY InitIInv, <1>1, PTL DEF SafeSpec

(* For every number of cores the variables keep their types: in particular *)
(* main starts no core behind the last (main.rs, start_core).              *)
THEOREM TypeCorrect == SafeSpec => []TypeOK
<1>1. IInv => TypeOK
  BY DEF IInv
<1> QED
  BY IInvHolds, <1>1, PTL

(* No core can be interrupted while it waits for or holds GIC_DRIVER, nor  *)
(* anywhere in its handler: the handler never spins for a lock its own     *)
(* core holds.                                                             *)
THEOREM NoIrqUnderLock == SafeSpec => []InterruptibleOnlyInAttackLoop
<1>1. IInv => InterruptibleOnlyInAttackLoop
  <2> SUFFICES ASSUME IInv, NEW c \in Cores, ~irqMasked[c]
               PROVE  pc[c] = "attack" /\ stage[c] = "out"
    BY DEF InterruptibleOnlyInAttackLoop
  <2>1. pc[c] = "attack"
    BY DEF IInv, MaskedOutsideLoop
  <2>2. stage[c] = "out"
    BY <2>1 DEF IInv, LockPlaces, LockSites
  <2> QED
    BY <2>1, <2>2
<1> QED
  BY IInvHolds, <1>1, PTL

(* After intruder_break has returned, every intruder core is stopped or    *)
(* has the SGI pending, until the order is lifted.                         *)
THEOREM BreakNeverLost == SafeSpec => []NoLostBreak
<1>1. IInv => NoLostBreak
  BY DEF IInv
<1> QED
  BY IInvHolds, <1>1, PTL
-----------------------------------------------------------------------------
(* Each step of core 0 gives, broadcasts or lifts an order, or is none of  *)
(* the promise's business.                                                 *)
LEMMA MainStepRefines ==
  ASSUME IInv, MainStep
  PROVE  [Gate!Next]_Gate!vars
<1> USE CoreFacts DEF IInv, TypeOK, lockVars, gicVars, Gate!vars
<1>1. CASE MainSetup
  BY <1>1 DEF MainSetup, Goto, Stopped, StartingUp
<1>2. CASE StartCore
  <2>1. nextCore \in Intruders /\ pc[nextCore] = "off"
    BY <1>2, GateAssumption DEF StartCore, StartingUp, Intruders
  <2> QED
    BY <1>2, <2>1 DEF StartCore, Stopped, StartingUp
<1>3. CASE StartCoreFails
  BY <1>3 DEF StartCoreFails, Goto, Stopped, StartingUp
<1>4. CASE PollNodeState
  BY <1>4 DEF PollNodeState, Goto, Stopped, StartingUp
<1>5. CASE Break
  <2>1. Gate!Give
    BY <1>5 DEF Break, Goto, Stopped, Gate!Give
  <2> QED
    BY <2>1 DEF Gate!Next
<1>6. CASE SendSgi
  <2>1. Gate!Broadcast
    BY <1>6 DEF SendSgi, Goto, Stopped, SendsForAnOrder, Gate!Broadcast
  <2> QED
    BY <2>1 DEF Gate!Next
<1>7. CASE Cont
  <2>1. Gate!Lift
    BY <1>7 DEF Cont, Stopped, Gate!Lift
  <2> QED
    BY <2>1 DEF Gate!Next
<1>8. CASE MainPanic
  BY <1>8 DEF MainPanic, Goto, Stopped
<1>9. CASE PanicLoop
  BY <1>9 DEF PanicLoop, vars, Stopped
<1> QED
  BY <1>1, <1>2, <1>3, <1>4, <1>5, <1>6, <1>7, <1>8, <1>9 DEF MainStep

LEMMA LockStepRefines ==
  ASSUME IInv, NEW c \in Cores, LockStep(c)
  PROVE  UNCHANGED Gate!vars
BY DEF LockStep, LockEnter, LockAcquire, gicVars, Gate!vars, Stopped

(* An acknowledged SGI is the promised stop, a load that reads false the   *)
(* promised return; no other step of a core counts.                        *)
LEMMA IntruderStepRefines ==
  ASSUME IInv, NEW c \in Intruders, IntruderStep(c)
  PROVE  [Gate!Next]_Gate!vars
<1> USE CoreFacts DEF IInv, TypeOK, lockVars, gicVars, Gate!vars
<1>1. CASE Acknowledge(c)
  <2>1. Gate!Stop(c)
    BY <1>1 DEF Acknowledge, Signalled, Goto, Stopped, Gate!Stop
  <2> QED
    BY <2>1 DEF Gate!Next
<1>2. CASE LeavePark(c)
  <2>1. Gate!Resume(c)
    BY <1>2 DEF LeavePark, Goto, Stopped, Gate!Resume
  <2> QED
    BY <2>1 DEF Gate!Next
<1>3. CASE PowerUp(c)
  BY <1>3 DEF PowerUp, Goto, Stopped
<1>4. CASE IntruderSetup(c)
  BY <1>4 DEF IntruderSetup, Goto, Stopped
<1>5. CASE IrqEnable(c)
  BY <1>5 DEF IrqEnable, Goto, Stopped
<1>6. CASE TakeIrq(c)
  <2>1. pc[c] = "attack"
    BY <1>6 DEF TakeIrq, MaskedOutsideLoop
  <2> QED
    BY <1>6, <2>1 DEF TakeIrq, Goto, Stopped
<1>7. CASE AcknowledgeNone(c)
  BY <1>7 DEF AcknowledgeNone, Goto, Stopped
<1>8. CASE EndInterrupt(c)
  BY <1>8 DEF EndInterrupt, Goto, Stopped
<1>9. CASE ReturnFromIrq(c)
  BY <1>9 DEF ReturnFromIrq, Goto, Stopped
<1> QED
  BY <1>1, <1>2, <1>3, <1>4, <1>5, <1>6, <1>7, <1>8, <1>9 DEF IntruderStep

(* The lock, the interrupt controller and the handler together implement   *)
(* the promise the mitigation loop relies on: a core stops before it works *)
(* on after a broadcast order, and resumes only when none stands.          *)
THEOREM GateImplementsPromise == SafeSpec => KeepsPromiseSafely
<1>1. Init => Gate!Init
  BY CoreFacts DEF Init, Gate!Init, Stopped
<1>2. IInv /\ [Next]_vars => [Gate!Next]_Gate!vars
  <2> SUFFICES ASSUME IInv, [Next]_vars PROVE [Gate!Next]_Gate!vars
    OBVIOUS
  <2>1. CASE MainStep
    BY <2>1, MainStepRefines
  <2>2. CASE \E c \in Cores : LockStep(c)
    BY <2>2, LockStepRefines
  <2>3. CASE \E c \in Intruders : IntruderStep(c)
    BY <2>3, IntruderStepRefines
  <2>4. CASE UNCHANGED vars
    BY <2>4 DEF vars, lockVars, gicVars, Gate!vars, Stopped
  <2> QED
    BY <2>1, <2>2, <2>3, <2>4 DEF Next
<1> QED
  BY IInvHolds, <1>1, <1>2, PTL DEF SafeSpec, KeepsPromiseSafely, Gate!SafeSpec
=============================================================================
