---------------------------- MODULE IntruderGate ----------------------------
(***************************************************************************)
(* How the bare-metal example holds its interfering cores: core 0 starts   *)
(* the intruder cores, then sets or clears the flag INTRUDER_BREAK after   *)
(* every quantum of the guarded program, and sends a software generated    *)
(* interrupt (SGI 3) after setting it. An intruder core that takes the     *)
(* interrupt stays in its handler until it reads the flag as false.        *)
(*                                                                         *)
(* All GIC accesses go through GIC_DRIVER, a spin lock taken with          *)
(* interrupts masked (SpinMutexExt::lock_irq).                             *)
(*                                                                         *)
(* The interrupt controller (arm-gic) and PSCI are external: the model     *)
(* assumes of them what the code uses. A pending SGI survives until its    *)
(* own core acknowledges it, SGIs of one core merge while pending, an      *)
(* active one is not signalled again, and a core may take a spurious       *)
(* interrupt, for which the acknowledge returns nothing.                   *)
(***************************************************************************)
EXTENDS Integers, FiniteSets

CONSTANT N            (* number of intruder cores: main starts 1, 2 and 3 *)

Main == 0
Intruders == 1 .. N
Cores == 0 .. N
NoCore == N + 1       (* the lock's owner while it is free *)

ASSUME GateAssumption == N \in Nat \ {0}

VARIABLES
  pc,            (* where each core is in its program                        *)
  stage,         (* progress inside lock_irq: "out", "spin" or "held"        *)
  irqMasked,     (* DAIF.I of each core                                      *)
  savedDaif,     (* the local `daif` of lock_irq                             *)
  gicOwner,      (* the spin lock of GIC_DRIVER                              *)
  nextCore,      (* the core that core 0 starts next                         *)
  intruderBreak, (* INTRUDER_BREAK                                           *)
  sgiEnabled,    (* distributor: SGI 3 enabled at this core                  *)
  sgiPending,    (* distributor: SGI 3 pending at this core                  *)
  sgiActive      (* distributor: SGI 3 acknowledged and not ended            *)

lockVars == <<stage, irqMasked, savedDaif, gicOwner>>
gicVars == <<sgiEnabled, sgiPending, sgiActive>>
vars == <<pc, lockVars, nextCore, intruderBreak, gicVars>>

MainPCs == {"setup", "start", "poll", "run", "send", "panicked"}
IntruderPCs == {"off", "powering", "setup", "irqEnable", "attack",
                "ack", "eoi", "park", "ret"}

(* The calls of lock_irq on GIC_DRIVER. *)
LockSites == {"setup", "send", "ack", "eoi"}

Goto(c, p) == pc' = [pc EXCEPT ![c] = p]

(* DAIF is all ones when a core leaves reset or CPU_ON. *)
Init ==
  /\ pc = [c \in Cores |-> IF c = Main THEN "setup" ELSE "off"]
  /\ stage = [c \in Cores |-> "out"]
  /\ irqMasked = [c \in Cores |-> TRUE]
  /\ savedDaif = [c \in Cores |-> TRUE]
  /\ gicOwner = NoCore
  /\ nextCore = 1
  /\ intruderBreak = FALSE
  /\ sgiEnabled = [c \in Intruders |-> FALSE]
  /\ sgiPending = [c \in Intruders |-> FALSE]
  /\ sgiActive = [c \in Intruders |-> FALSE]
-----------------------------------------------------------------------------
(***************************************************************************)
(* lock_irq: save DAIF and mask, spin for the lock, run the closure and    *)
(* drop its guard, restore DAIF. The closures are the actions that use     *)
(* LockExit.                                                               *)
(***************************************************************************)
LockEnter(c) ==
  /\ pc[c] \in LockSites
  /\ stage[c] = "out"
  /\ stage' = [stage EXCEPT ![c] = "spin"]
  /\ savedDaif' = [savedDaif EXCEPT ![c] = irqMasked[c]]
  /\ irqMasked' = [irqMasked EXCEPT ![c] = TRUE]
  /\ UNCHANGED <<pc, gicOwner, nextCore, intruderBreak, gicVars>>

LockAcquire(c) ==
  /\ stage[c] = "spin"
  /\ gicOwner = NoCore
  /\ gicOwner' = c
  /\ stage' = [stage EXCEPT ![c] = "held"]
  /\ UNCHANGED <<pc, irqMasked, savedDaif, nextCore, intruderBreak, gicVars>>

(* Mutant: DAIF is unmasked on the way out instead of restored. *)
LockExitUnmasking(c) ==
  /\ stage[c] = "held"
  /\ stage' = [stage EXCEPT ![c] = "out"]
  /\ gicOwner' = NoCore
  /\ irqMasked' = [irqMasked EXCEPT ![c] = FALSE]
  /\ UNCHANGED savedDaif

LockExit(c) ==
  /\ stage[c] = "held"
  /\ stage' = [stage EXCEPT ![c] = "out"]
  /\ gicOwner' = NoCore
  /\ irqMasked' = [irqMasked EXCEPT ![c] = savedDaif[c]]
  /\ UNCHANGED savedDaif
-----------------------------------------------------------------------------
(***************************************************************************)
(* Core 0: set up the GIC, start the intruders one after the other, then   *)
(* run quantum after quantum and decide after each.                        *)
(***************************************************************************)
MainSetup ==
  /\ pc[Main] = "setup"
  /\ LockExit(Main)
  /\ Goto(Main, "start")
  /\ UNCHANGED <<nextCore, intruderBreak, gicVars>>

(* start_core: CPU_ON succeeds, or fails and the unwrap panics. *)
StartCore ==
  /\ pc[Main] = "start"
  /\ pc' = [pc EXCEPT ![Main] = "poll", ![nextCore] = "powering"]
  /\ UNCHANGED <<lockVars, nextCore, intruderBreak, gicVars>>

StartCoreFails ==
  /\ pc[Main] = "start"
  /\ Goto(Main, "panicked")
  /\ UNCHANGED <<lockVars, nextCore, intruderBreak, gicVars>>

(* Mutant: one core too many is started. *)
PollNodeStatePastLast ==
  /\ pc[Main] = "poll"
  /\ Goto(Main, IF nextCore = N + 1 THEN "run" ELSE "start")
  /\ nextCore' = nextCore + 1
  /\ UNCHANGED <<lockVars, intruderBreak, gicVars>>

(* start_core: the poll of NODE_HW_STATE ends when the core is on, or at   *)
(* an error, which may come while the core is still powering up. Behind    *)
(* the last core, wait_us and the set-up that is no GIC access. That wait  *)
(* is a time and waits for nobody.                                         *)
PollNodeState ==
  /\ pc[Main] = "poll"
  /\ Goto(Main, IF nextCore = N THEN "run" ELSE "start")
  /\ nextCore' = nextCore + 1
  /\ UNCHANGED <<lockVars, intruderBreak, gicVars>>

(* A quantum ends and mitigate calls intruder_break: the flag first, ...   *)
Break ==
  /\ pc[Main] = "run"
  /\ intruderBreak' = TRUE
  /\ Goto(Main, "send")
  /\ UNCHANGED <<lockVars, nextCore, gicVars>>

(* Mutant: the SGI is addressed to all targets but the last. *)
SendSgiShort ==
  /\ pc[Main] = "send"
  /\ LockExit(Main)
  /\ sgiPending' = [c \in Intruders |-> sgiPending[c] \/ c < N]
  /\ Goto(Main, "run")
  /\ UNCHANGED <<nextCore, intruderBreak, sgiEnabled, sgiActive>>

(* ... then, under the lock, SGI 3 to the target list 0b1110.              *)
SendSgi ==
  /\ pc[Main] = "send"
  /\ LockExit(Main)
  /\ sgiPending' = [c \in Intruders |-> TRUE]
  /\ Goto(Main, "run")
  /\ UNCHANGED <<nextCore, intruderBreak, sgiEnabled, sgiActive>>

(* A quantum ends and mitigate calls intruder_cont. *)
Cont ==
  /\ pc[Main] = "run"
  /\ intruderBreak' = FALSE
  /\ UNCHANGED <<pc, lockVars, nextCore, gicVars>>

(* The runner or the mitigator panics: the panic handler never returns. *)
MainPanic ==
  /\ pc[Main] = "run"
  /\ Goto(Main, "panicked")
  /\ UNCHANGED <<lockVars, nextCore, intruderBreak, gicVars>>

PanicLoop ==
  /\ pc[Main] = "panicked"
  /\ UNCHANGED vars
-----------------------------------------------------------------------------
(***************************************************************************)
(* An intruder core: intruder_main up to its attack loop.                  *)
(***************************************************************************)
PowerUp(c) ==
  /\ pc[c] = "powering"
  /\ Goto(c, "setup")
  /\ UNCHANGED <<lockVars, nextCore, intruderBreak, gicVars>>

IntruderSetup(c) ==
  /\ pc[c] = "setup"
  /\ LockExit(c)
  /\ sgiEnabled' = [sgiEnabled EXCEPT ![c] = TRUE]
  /\ Goto(c, "irqEnable")
  /\ UNCHANGED <<nextCore, intruderBreak, sgiPending, sgiActive>>

IrqEnable(c) ==
  /\ pc[c] = "irqEnable"
  /\ irqMasked' = [irqMasked EXCEPT ![c] = FALSE]
  /\ Goto(c, "attack")
  /\ UNCHANGED <<stage, savedDaif, gicOwner, nextCore, intruderBreak, gicVars>>
-----------------------------------------------------------------------------
(***************************************************************************)
(* The interrupt handler Excps::irq.                                       *)
(***************************************************************************)
(* The GIC signals SGI 3 to core c. *)
Signalled(c) == sgiEnabled[c] /\ sgiPending[c] /\ ~sgiActive[c]

(* The exception: hardware masks interrupts at entry. It may be spurious.  *)
TakeIrq(c) ==
  /\ ~irqMasked[c]
  /\ irqMasked' = [irqMasked EXCEPT ![c] = TRUE]
  /\ Goto(c, "ack")
  /\ UNCHANGED <<stage, savedDaif, gicOwner, nextCore, intruderBreak, gicVars>>

Acknowledge(c) ==
  /\ pc[c] = "ack"
  /\ Signalled(c)
  /\ LockExit(c)
  /\ sgiPending' = [sgiPending EXCEPT ![c] = FALSE]
  /\ sgiActive' = [sgiActive EXCEPT ![c] = TRUE]
  /\ Goto(c, "eoi")
  /\ UNCHANGED <<nextCore, intruderBreak, sgiEnabled>>

(* get_and_acknowledge_interrupt returned None: the handler returns. *)
AcknowledgeNone(c) ==
  /\ pc[c] = "ack"
  /\ ~Signalled(c)
  /\ LockExit(c)
  /\ Goto(c, "ret")
  /\ UNCHANGED <<nextCore, intruderBreak, gicVars>>

(* Mutant: the interrupt is never ended. *)
EndInterruptMissing(c) ==
  /\ pc[c] = "eoi"
  /\ LockExit(c)
  /\ Goto(c, "park")
  /\ UNCHANGED <<nextCore, intruderBreak, gicVars>>

EndInterrupt(c) ==
  /\ pc[c] = "eoi"
  /\ LockExit(c)
  /\ sgiActive' = [sgiActive EXCEPT ![c] = FALSE]
  /\ Goto(c, "park")
  /\ UNCHANGED <<nextCore, intruderBreak, sgiEnabled, sgiPending>>

(* Mutant: the handler does not look at the flag. *)
LeaveParkUnchecked(c) ==
  /\ pc[c] = "park"
  /\ Goto(c, "ret")
  /\ UNCHANGED <<lockVars, nextCore, intruderBreak, gicVars>>

(* Mutant: the handler's test of the flag is inverted. *)
LeaveParkInverted(c) ==
  /\ pc[c] = "park"
  /\ intruderBreak
  /\ Goto(c, "ret")
  /\ UNCHANGED <<lockVars, nextCore, intruderBreak, gicVars>>

(* The loop on INTRUDER_BREAK: one iteration that reads false. *)
LeavePark(c) ==
  /\ pc[c] = "park"
  /\ ~intruderBreak
  /\ Goto(c, "ret")
  /\ UNCHANGED <<lockVars, nextCore, intruderBreak, gicVars>>

(* Exception return: the attack loop goes on, unmasked as it was. *)
ReturnFromIrq(c) ==
  /\ pc[c] = "ret"
  /\ irqMasked' = [irqMasked EXCEPT ![c] = FALSE]
  /\ Goto(c, "attack")
  /\ UNCHANGED <<stage, savedDaif, gicOwner, nextCore, intruderBreak, gicVars>>
-----------------------------------------------------------------------------
LockStep(c) == LockEnter(c) \/ LockAcquire(c)

MainStep ==
  \/ MainSetup \/ StartCore \/ StartCoreFails \/ PollNodeState
  \/ Break \/ SendSgi \/ Cont \/ MainPanic \/ PanicLoop

IntruderStep(c) ==
  \/ PowerUp(c) \/ IntruderSetup(c) \/ IrqEnable(c)
  \/ TakeIrq(c) \/ Acknowledge(c) \/ AcknowledgeNone(c)
  \/ EndInterrupt(c) \/ LeavePark(c) \/ ReturnFromIrq(c)

Next ==
  \/ MainStep
  \/ \E c \in Cores : LockStep(c)
  \/ \E c \in Intruders : IntruderStep(c)

SafeSpec == Init /\ [][Next]_vars

(***************************************************************************)
(* Every core runs on, so each of its steps is weakly fair; what core 0    *)
(* decides after a quantum, and whether it panics, is not. The spin lock   *)
(* keeps no queue, so getting it takes strong fairness: it is held for a   *)
(* few register accesses, and core 0 asks for it at most once in a         *)
(* quantum. An interrupt the GIC signals to an unmasked core is taken.     *)
(***************************************************************************)
Fairness ==
  /\ \A c \in Cores : WF_vars(LockEnter(c)) /\ SF_vars(LockAcquire(c))
  /\ WF_vars(MainSetup \/ StartCore \/ StartCoreFails \/ PollNodeState)
  /\ WF_vars(SendSgi)
  /\ \A c \in Intruders :
       /\ WF_vars(PowerUp(c) \/ IntruderSetup(c) \/ IrqEnable(c))
       /\ WF_vars(Signalled(c) /\ TakeIrq(c))
       /\ WF_vars(Acknowledge(c) \/ AcknowledgeNone(c) \/ EndInterrupt(c))
       /\ WF_vars(LeavePark(c))
       /\ WF_vars(ReturnFromIrq(c))

Spec == SafeSpec /\ Fairness
-----------------------------------------------------------------------------
(* The types of the variables. *)
TypeOK ==
  /\ pc \in [Cores -> MainPCs \cup IntruderPCs]
  /\ pc[Main] \in MainPCs
  /\ \A c \in Intruders : pc[c] \in IntruderPCs
  /\ stage \in [Cores -> {"out", "spin", "held"}]
  /\ irqMasked \in [Cores -> BOOLEAN]
  /\ savedDaif \in [Cores -> BOOLEAN]
  /\ gicOwner \in Cores \cup {NoCore}
  /\ nextCore \in 1 .. N + 1
  /\ intruderBreak \in BOOLEAN
  /\ sgiEnabled \in [Intruders -> BOOLEAN]
  /\ sgiPending \in [Intruders -> BOOLEAN]
  /\ sgiActive \in [Intruders -> BOOLEAN]

(* Interrupts can reach a core only in its attack loop. In particular they *)
(* never reach a core that spins for or holds GIC_DRIVER, whose handler    *)
(* would then spin for the lock its own core holds, and the handler is     *)
(* never entered again while it runs (spin_utils.rs and excps.rs).         *)
InterruptibleOnlyInAttackLoop ==
  \A c \in Cores : ~irqMasked[c] => pc[c] = "attack" /\ stage[c] = "out"

(* A core that has taken the SGI and has not returned to its loop. *)
Stopped(c) == pc[c] \in {"eoi", "park"}

(* No break is lost: once intruder_break has returned, and as long as the  *)
(* flag it set stands, each intruder core has stopped or will be signalled *)
(* before it can be said to ignore the order; a core still being started   *)
(* finds the SGI pending. This is the order of the store and the SGI in    *)
(* intruder_break against the order of acknowledge, end of interrupt and   *)
(* the flag's load in the handler.                                         *)
NoLostBreak ==
  intruderBreak /\ pc[Main] # "send" =>
    \A c \in Intruders : Stopped(c) \/ (sgiPending[c] /\ ~sgiActive[c])

(* A standing break order ends with every intruder core waiting in the     *)
(* handler, unless the order is lifted first.                              *)
BreakTakesEffect ==
  \A c \in Intruders : intruderBreak ~> (pc[c] = "park" \/ ~intruderBreak)

(* Once the order is lifted for good, no core stays held: late SGIs and a  *)
(* release that was missed in between do not keep a core from its loop.    *)
ContTakesEffect ==
  \A c \in Intruders :
    <>[](~intruderBreak /\ pc[Main] = "run") => []<>(pc[c] = "attack")

(* The gate keeps the promise of AbstractGate. *)
Gate == INSTANCE AbstractGate WITH
  Workers <- Intruders,
  order <- IF ~intruderBreak THEN "none"
           ELSE IF pc[Main] = "send" THEN "given" ELSE "broadcast",
  told <- {c \in Intruders : sgiPending[c]},
  stopped <- {c \in Intruders : Stopped(c)}

(* Every step of the gate is a step of the promise or leaves it alone. *)
KeepsPromiseSafely == Gate!SafeSpec

(* Its fairness gives the fairness of the promise: an order given is       *)
(* broadcast, a core told to stop stops, and stopped cores resume.         *)
KeepsPromise == Gate!Spec
=============================================================================
