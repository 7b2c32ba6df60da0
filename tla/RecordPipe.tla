----------------------------- MODULE RecordPipe -----------------------------
(***************************************************************************)
(* What the way of the records from the Wasm process to the output file    *)
(* promises, without ring, channel and tasks: the file is at any time a    *)
(* prefix of the records sent, whatever breaks; an intact pipe delivers    *)
(* each record, and is closed only when it has delivered them all.         *)
(***************************************************************************)
EXTENDS Naturals, Sequences

VARIABLES
  sent,                 (* records sent, numbered from 1                      *)
  written,              (* numbers of the records in the file                 *)
  state                 (* "open", "broken" or "closed"                       *)

vars == <<sent, written, state>>

Init == sent = 0 /\ written = <<>> /\ state = "open"

Put ==
  /\ state # "closed"
  /\ sent' = sent + 1
  /\ UNCHANGED <<written, state>>

(* A broken pipe may still deliver what is in it. *)
Get ==
  /\ state # "closed"
  /\ Len(written) < sent
  /\ written' = Append(written, Len(written) + 1)
  /\ UNCHANGED <<sent, state>>

Break ==
  /\ state = "open"
  /\ state' = "broken"
  /\ UNCHANGED <<sent, written>>

Close ==
  /\ state = "open"
  /\ Len(written) = sent
  /\ state' = "closed"
  /\ UNCHANGED <<sent, written>>

Next == Put \/ Get \/ Break \/ Close

SafeSpec == Init /\ [][Next]_vars

(* While nothing breaks it, the pipe delivers. *)
Spec == SafeSpec /\ WF_vars(state = "open" /\ Get)
=============================================================================
