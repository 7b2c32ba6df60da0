---------------------------- MODULE AbstractGate ----------------------------
(***************************************************************************)
(* What the break/continue mechanism promises the mitigation loop, without *)
(* locks, interrupt controller or interrupt masks: an order to stop is     *)
(* given, broadcast and lifted; every core that was told to stop does so   *)
(* before it works on, and a stopped core resumes only while no order is   *)
(* standing.                                                               *)
(***************************************************************************)
CONSTANT Workers        (* the cores that can be ordered to stop *)

VARIABLES
  order,                (* "none", "given" (not yet broadcast) or "broadcast" *)
  told,                 (* cores with a broadcast they have not acted on      *)
  stopped               (* cores that are stopped                             *)

vars == <<order, told, stopped>>

Init ==
  /\ order = "none"
  /\ told = {}
  /\ stopped = {}

(* An order is given; a standing one may be given again. *)
Give ==
  /\ order' = "given"
  /\ UNCHANGED <<told, stopped>>

(* The given order reaches every core, those that are stopped included. *)
Broadcast ==
  /\ order = "given"
  /\ order' = "broadcast"
  /\ told' = Workers
  /\ UNCHANGED stopped

(* The order is lifted; a broadcast still under way is not taken back. *)
Lift ==
  /\ order' = "none"
  /\ UNCHANGED <<told, stopped>>

Stop(c) ==
  /\ c \in told
  /\ c \notin stopped
  /\ told' = told \ {c}
  /\ stopped' = stopped \cup {c}
  /\ UNCHANGED order

Resume(c) ==
  /\ c \in stopped
  /\ order = "none"
  /\ stopped' = stopped \ {c}
  /\ UNCHANGED <<order, told>>

Next ==
  \/ Give \/ Broadcast \/ Lift
  \/ \E c \in Workers : Stop(c) \/ Resume(c)

SafeSpec == Init /\ [][Next]_vars

(* A given order is broadcast, a told core stops, and a core that is       *)
(* stopped notices when no order stands any more.                          *)
Fairness ==
  /\ WF_vars(Broadcast)
  /\ \A c \in Workers : WF_vars(Stop(c)) /\ WF_vars(Resume(c))

Spec == SafeSpec /\ Fairness
=============================================================================
