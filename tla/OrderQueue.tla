----------------------------- MODULE OrderQueue -----------------------------
(***************************************************************************)
(* What the two processes of the Linux example expect of each other about  *)
(* the decisions in the records: they wait in a queue of limited length    *)
(* and are carried out on the group one by one, in order and each once, at *)
(* any later time. The controller may end; nothing is carried out then,    *)
(* and the group is released, unless it could not be killed in time.       *)
(***************************************************************************)
EXTENDS Naturals, Sequences

CONSTANT Cap            (* decisions that the queue holds *)

VARIABLES
  pending,              (* decisions sent and not yet carried out             *)
  frozen,               (* the group                                          *)
  ended                 (* the controller has ended or its forwarder has      *)

vars == <<pending, frozen, ended>>

Init == pending = <<>> /\ frozen = FALSE /\ ended = FALSE

(* A sender that finds the queue full waits. *)
Send ==
  /\ Len(pending) < Cap
  /\ \E irq \in {"freeze", "unfreeze", "none"} : pending' = Append(pending, irq)
  /\ UNCHANGED <<frozen, ended>>

CarryOut ==
  /\ ~ended
  /\ pending # <<>>
  /\ frozen' = (Head(pending) = "freeze" \/ (Head(pending) = "none" /\ frozen))
  /\ pending' = Tail(pending)
  /\ UNCHANGED ended

End ==
  /\ ~ended
  /\ ended' = TRUE
  /\ frozen' \in {FALSE, frozen}
  /\ UNCHANGED pending

Next == Send \/ CarryOut \/ End

SafeSpec == Init /\ [][Next]_vars
=============================================================================
