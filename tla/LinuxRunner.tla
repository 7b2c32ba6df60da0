---------------------------- MODULE LinuxRunner ----------------------------
(***************************************************************************)
(* The controller of the Linux example: it puts the configured processes   *)
(* into cgroups, spawns them, forwards the records that the Wasm process   *)
(* sends through a shared ring to a writer task, and freezes or unfreezes  *)
(* the interfering group as the records ask. It ends when its primary      *)
(* process does, or on ctrl-c.                                             *)
(*                                                                         *)
(* Three tasks share one thread of a tokio runtime: main with Runner::run, *)
(* the forwarder (foo in the code) and the writer (out). A task runs       *)
(* undisturbed by the others from one await to the next, which is one      *)
(* action here; the processes run at any time.                             *)
(*                                                                         *)
(* cgroups, processes, the ring (ipmpsc) and tokio are external: a frozen  *)
(* process takes no step but can be killed. A cgroup that is found empty   *)
(* after its kill is so; every kill may also fail, with or without having  *)
(* reached a process.                                                      *)
(***************************************************************************)
EXTENDS Integers, Sequences

CONSTANTS
  Procs,           (* ids of the configured processes                        *)
  Wasm,            (* the one that is given the ring                         *)
  Groups,          (* first halves of the ids: one cgroup each               *)
  GroupOf,         (* the cgroup of a process                                *)
  IrqGroup,        (* the group that wasm-runner freezes and unfreezes       *)
  CpuOf,           (* cpu_core of a process                                  *)
  Primaries,       (* the primary is any of these, configured or not         *)
  RingCap,         (* records that the shared ring holds                     *)
  ChanCap,         (* capacity of the channel to the writer                  *)
  MaxSent          (* bound: records that the Wasm process sends             *)

ASSUME RunnerAssumption ==
  /\ Wasm \in Procs
  /\ GroupOf \in [Procs -> Groups]
  /\ IrqGroup \in Groups
  /\ RingCap \in Nat \ {0} /\ ChanCap \in Nat \ {0} /\ MaxSent \in Nat

Unbound == "unbound"

VARIABLES
  primary,         (* Config::primary                                        *)
  stale,           (* cgroups that exist before: an earlier controller died  *)
  mainPc,          (* where main and Runner::run are                         *)
  result,          (* what Runner::run has returned                          *)
  cancelled,       (* cancel: ctrl-c was seen                                *)
  bar,             (* bar: the forwarder may end when the ring is empty      *)
  cmds,            (* Runner::cmds: the processes added so far               *)
  cgroups,         (* Runner::cgroups                                        *)
  leaked,          (* cgroups that drop has given up                         *)
  frozen,          (* cgroups that are frozen                                *)
  boundTo,         (* CPU the controller is bound to                         *)
  proc,            (* state of each process                                  *)
  cpu,             (* CPU each process is bound to                           *)
  forked,          (* processes whose own children are alive                 *)
  killed,          (* tasks whose kill has returned                          *)
  killFailed,      (* one of them with an error                              *)
  sent,            (* records sent so far, numbered from 1                   *)
  ring, foo, fooMsg, chan, out, written

confVars == <<primary, stale, cmds, boundTo, cpu>>
runVars == <<mainPc, result, cancelled, bar, killed, killFailed>>
groupVars == <<cgroups, leaked, frozen, proc, forked>>
pipeVars == <<sent, ring, foo, fooMsg, chan, out, written>>
vars == <<confVars, runVars, groupVars, pipeVars>>

Irqs == {"freeze", "unfreeze", "none"}
Record == [n : 1 .. MaxSent, irq : Irqs]

Init ==
  /\ primary \in Primaries
  /\ stale \in SUBSET Groups
  /\ mainPc = "add" /\ result = "none" /\ cancelled = FALSE /\ bar = FALSE
  /\ cmds = {} /\ cgroups = {} /\ leaked = {} /\ frozen = {}
  /\ boundTo = Unbound
  /\ proc = [p \in Procs |-> "unborn"]
  /\ cpu = [p \in Procs |-> Unbound]
  /\ forked = {} /\ killed = {} /\ killFailed = FALSE
  /\ sent = 0 /\ ring = <<>> /\ chan = <<>> /\ written = <<>>
  /\ foo = "none" /\ fooMsg = <<>> /\ out = "none"

Kill(ps) == [p \in Procs |-> IF p \in ps /\ proc[p] = "running"
                             THEN "dead" ELSE proc[p]]

Members(gs) == {p \in Procs : GroupOf[p] \in gs}

(* Mutant: only the processes that were spawned are killed. *)
DieSpawnedOnly(ps, parents) == proc' = Kill(ps) /\ UNCHANGED forked

(* The processes ps die, and the children of the parents. *)
Die(ps, parents) == proc' = Kill(ps) /\ forked' = forked \ parents

(* CGroup::drop on each of Runner::cgroups: kill all that is in it, wait   *)
(* until it is empty and remove it. The given children have been dropped   *)
(* before, which has killed them.                                          *)
DropCGroups(dropped) ==
  /\ Die(dropped \cup Members(cgroups), Members(cgroups))
  /\ cgroups' = {} /\ frozen' = frozen \ cgroups
  /\ UNCHANGED leaked

(* remove fails on one cgroup: it cannot be killed, something in it takes  *)
(* more than a second to die, or its directory stays. Any of what is in it *)
(* may survive. drop panics, and the cgroups behind this one in the map    *)
(* are never dropped: nobody kills what is in them, nor unfreezes them.    *)
DropFails(dropped) ==
  \E gone \in SUBSET cgroups : \E late \in cgroups \ gone :
    /\ \E ps, parents \in SUBSET Members({late}) :
         Die(dropped \cup Members(gone) \cup ps, Members(gone) \cup parents)
    /\ cgroups' = {} /\ leaked' = cgroups \ gone /\ frozen' = frozen \ gone
-----------------------------------------------------------------------------
(***************************************************************************)
(* main, and Runner::run up to its select.                                 *)
(***************************************************************************)
Add(p) ==
  /\ mainPc = "add"
  /\ p \notin cmds
  /\ cmds' = cmds \cup {p}
  /\ boundTo' = CpuOf[p]
  /\ UNCHANGED <<primary, stale, cpu, runVars, leaked, frozen, proc, forked,
                 pipeVars>>

(* Mutants: a cgroup that exists is taken over; a new one is not entered   *)
(* into Runner::cgroups.                                                   *)
AddProcessTakingOver(p) == Add(p) /\ cgroups' = cgroups \cup {GroupOf[p]}
AddProcessUnlisted(p) == Add(p) /\ GroupOf[p] \notin stale /\ UNCHANGED cgroups

(* add_process, over a HashMap and so in any order. create_child fails on  *)
(* a cgroup that exists. cpu_core binds the calling process, not p.        *)
AddProcess(p) ==
  /\ Add(p)
  /\ GroupOf[p] \notin stale
  /\ cgroups' = cgroups \cup {GroupOf[p]}

(* add_process fails, or the output file cannot be created: main ends and  *)
(* drops the runner, which may panic.                                      *)
SetupFails ==
  /\ mainPc = "add"
  /\ mainPc' = "exit"
  /\ \/ DropCGroups({}) /\ result' = "err"
     \/ DropFails({}) /\ result' = "panicked"
  /\ UNCHANGED <<confVars, cancelled, bar, killed, killFailed, pipeVars>>

(* All are added: main spawns the writer and polls Runner::run. *)
StartRun ==
  /\ mainPc = "add"
  /\ cmds = Procs
  /\ mainPc' = "spawn"
  /\ out' = "recv"
  /\ UNCHANGED <<confVars, result, cancelled, bar, killed, killFailed,
                 groupVars, sent, ring, foo, fooMsg, chan, written>>

(* A child inherits the controller's binding and moves itself into its     *)
(* cgroup before it executes the command.                                  *)
Spawn(p) ==
  /\ mainPc = "spawn"
  /\ proc[p] = "unborn"
  /\ proc' = [proc EXCEPT ![p] = "running"]
  /\ cpu' = [cpu EXCEPT ![p] = boundTo]
  /\ UNCHANGED <<primary, stale, cmds, boundTo, runVars, cgroups, leaked,
                 frozen, forked, pipeVars>>

(* run drops the children spawned so far, then the cgroups. kill_on_drop   *)
(* ignores an error, so that any of the children may survive their drop.   *)
(* If that of a cgroup panics main does, and the runtime drops the writer. *)
SpawnFails(p) ==
  /\ mainPc = "spawn"
  /\ proc[p] = "unborn"
  /\ \E dropped \in SUBSET Procs :
       \/ /\ DropCGroups(dropped)
          /\ mainPc' = "out" /\ result' = "err" /\ UNCHANGED out
       \/ /\ DropFails(dropped)
          /\ mainPc' = "exit" /\ result' = "panicked" /\ out' = "failed"
  /\ UNCHANGED <<confVars, cancelled, bar, killed, killFailed, sent, ring, foo,
                 fooMsg, chan, written>>

AllSpawned == mainPc = "spawn" /\ \A p \in Procs : proc[p] # "unborn"

(* The forwarder is spawned and takes the cgroups and the sender with it. *)
StartForwarder ==
  /\ foo' = "recv"
  /\ UNCHANGED <<confVars, cancelled, bar, killed, killFailed, cgroups, leaked,
                 frozen, forked, sent, ring, fooMsg, chan, out, written>>

Select ==
  /\ AllSpawned /\ primary \in Procs
  /\ StartForwarder
  /\ mainPc' = "select"
  /\ UNCHANGED <<result, proc>>

(* run returns an error and drops the children, of which some may survive. *)
(* The forwarder goes on.                                                  *)
ReturnError ==
  /\ mainPc' = "out" /\ result' = "err"
  /\ \E dropped \in SUBSET Procs : proc' = Kill(dropped)

(* The primary is not among the tasks. *)
SelectMissing ==
  /\ AllSpawned /\ primary \notin Procs
  /\ StartForwarder
  /\ ReturnError
-----------------------------------------------------------------------------
(***************************************************************************)
(* The end of Runner::run and of main.                                     *)
(***************************************************************************)
CtrlC ==
  /\ mainPc \in {"select", "kill", "drain"}
  /\ ~cancelled
  /\ cancelled' = TRUE
  /\ UNCHANGED <<confVars, mainPc, result, bar, killed, killFailed, groupVars,
                 pipeVars>>

EndSelect ==
  /\ mainPc = "select"
  /\ cancelled \/ proc[primary] = "dead"
  /\ mainPc' = "kill"
  /\ UNCHANGED <<confVars, result, cancelled, bar, killed, killFailed,
                 groupVars, pipeVars>>

(* task.kill: kill the child and wait for it, or fail. *)
KillTask(p) ==
  /\ mainPc = "kill"
  /\ p \notin killed
  /\ killed' = killed \cup {p}
  /\ \/ proc' = Kill({p}) /\ UNCHANGED killFailed
     \/ killFailed' = TRUE /\ UNCHANGED proc
  /\ UNCHANGED <<confVars, mainPc, result, cancelled, bar, cgroups, leaked,
                 frozen, forked, pipeVars>>

KillsEnd ==
  /\ mainPc = "kill"
  /\ killed = Procs
  /\ UNCHANGED <<confVars, cancelled, killed, killFailed, cgroups, leaked,
                 frozen, forked, pipeVars>>

(* Mutant: the forwarder is not told that it may end. *)
KillsDoneUncancelled ==
  /\ KillsEnd /\ ~killFailed
  /\ mainPc' = "drain"
  /\ UNCHANGED <<result, bar, proc>>

KillsDone ==
  /\ KillsEnd /\ ~killFailed
  /\ mainPc' = "drain" /\ bar' = TRUE
  /\ UNCHANGED <<result, proc>>

(* bar is not cancelled. *)
KillsFailed ==
  /\ KillsEnd /\ killFailed
  /\ ReturnError
  /\ UNCHANGED bar

(* foo.await; an error of the forwarder is ignored. *)
AwaitForwarder ==
  /\ mainPc = "drain"
  /\ foo \in {"done", "failed"}
  /\ mainPc' = "out" /\ result' = "ok"
  /\ UNCHANGED <<confVars, cancelled, bar, killed, killFailed, groupVars,
                 pipeVars>>

(* out.await; an error of the writer is ignored. As main returns, the      *)
(* runtime drops a forwarder that still runs, and swallows a panic in it.  *)
AwaitWriter ==
  /\ mainPc = "out"
  /\ out \in {"done", "failed"}
  /\ mainPc' = "exit"
  /\ foo' = IF foo \in {"recv", "send"} THEN "failed" ELSE foo
  /\ DropCGroups({}) \/ DropFails({})
  /\ UNCHANGED <<confVars, result, cancelled, bar, killed, killFailed, sent,
                 ring, fooMsg, chan, out, written>>

Exited ==
  /\ mainPc = "exit"
  /\ UNCHANGED vars
-----------------------------------------------------------------------------
(***************************************************************************)
(* The forwarder.                                                          *)
(***************************************************************************)
(* Mutant: the forwarder waits for a second record. *)
FooRecvBatch ==
  /\ foo = "recv"
  /\ Len(ring) > 1
  /\ fooMsg' = <<Head(ring)>>
  /\ ring' = Tail(ring)
  /\ foo' = "send"
  /\ UNCHANGED <<confVars, runVars, groupVars, sent, chan, out, written>>

(* Mutant: a record without a decision unfreezes, too. *)
FooRecvReleasing ==
  /\ foo = "recv"
  /\ ring # <<>>
  /\ LET x == Head(ring) IN
     /\ fooMsg' = <<x>>
     /\ frozen' = IF x.irq = "freeze" THEN frozen \cup ({IrqGroup} \cap cgroups)
                  ELSE frozen \ {IrqGroup}
  /\ ring' = Tail(ring)
  /\ foo' = "send"
  /\ UNCHANGED <<confVars, runVars, cgroups, leaked, proc, forked, sent, chan,
                 out, written>>

(* freeze or unfreeze, if the group has a cgroup. *)
FooRecv ==
  /\ foo = "recv"
  /\ ring # <<>>
  /\ LET x == Head(ring) IN
     /\ fooMsg' = <<x>>
     /\ frozen' = CASE x.irq = "freeze" -> frozen \cup ({IrqGroup} \cap cgroups)
                    [] x.irq = "unfreeze" -> frozen \ {IrqGroup}
                    [] OTHER -> frozen
  /\ ring' = Tail(ring)
  /\ foo' = "send"
  /\ UNCHANGED <<confVars, runVars, cgroups, leaked, proc, forked, sent, chan,
                 out, written>>

Forward ==
  /\ foo = "send"
  /\ out = "recv"
  /\ fooMsg' = <<>>
  /\ foo' = "recv"
  /\ UNCHANGED <<confVars, runVars, groupVars, sent, ring, out, written>>

(* Mutant: a record that finds the channel full is dropped. *)
FooSendTry ==
  /\ Forward
  /\ chan' = IF Len(chan) < ChanCap THEN Append(chan, fooMsg[1].n) ELSE chan

(* A full channel makes the forwarder wait. *)
FooSend ==
  /\ Forward
  /\ Len(chan) < ChanCap
  /\ chan' = Append(chan, fooMsg[1].n)

(* The end of the forwarder drops the cgroups and the sender. A panic in   *)
(* that ends the task only.                                                *)
FooEnd(how) ==
  /\ \/ foo' = how /\ DropCGroups({})
     \/ foo' = "failed" /\ DropFails({})
  /\ UNCHANGED <<confVars, runVars, sent, ring, fooMsg, chan, out, written>>

(* Mutant: the forwarder ends as soon as it is cancelled. *)
FooFinishAtOnce == foo = "recv" /\ bar /\ FooEnd("done")

(* Nothing to receive, and bar is cancelled: both are seen in one go. *)
FooFinish == foo = "recv" /\ ring = <<>> /\ bar /\ FooEnd("done")

(* The ring or a cgroup fails, or the writer has gone. *)
FooFails ==
  /\ foo = "recv" \/ (foo = "send" /\ out # "recv")
  /\ FooEnd("failed")
-----------------------------------------------------------------------------
(***************************************************************************)
(* The writer.                                                             *)
(***************************************************************************)
OutRecv ==
  /\ out = "recv"
  /\ chan # <<>>
  /\ written' = Append(written, Head(chan))
  /\ chan' = Tail(chan)
  /\ UNCHANGED <<confVars, runVars, groupVars, sent, ring, foo, fooMsg, out>>

OutWriteFails ==
  /\ out = "recv"
  /\ chan # <<>>
  /\ out' = "failed"
  /\ chan' = <<>>
  /\ UNCHANGED <<confVars, runVars, groupVars, sent, ring, foo, fooMsg,
                 written>>

(* The last sender is dropped with the forwarder, or with Runner::run when *)
(* that fails before it has spawned one.                                   *)
SenderDropped ==
  foo \in {"done", "failed"} \/ (foo = "none" /\ mainPc = "out")

OutEnd ==
  /\ out = "recv"
  /\ chan = <<>> /\ SenderDropped
  /\ out' = "done"
  /\ UNCHANGED <<confVars, runVars, groupVars, sent, ring, foo, fooMsg, chan,
                 written>>
-----------------------------------------------------------------------------
(***************************************************************************)
(* The processes.                                                          *)
(***************************************************************************)
Runs(p) == proc[p] = "running" /\ GroupOf[p] \notin frozen

(* WasmRunLogger::log; a full ring blocks the sender. *)
Send ==
  /\ Runs(Wasm)
  /\ sent < MaxSent /\ Len(ring) < RingCap
  /\ \E irq \in Irqs : ring' = Append(ring, [n |-> sent + 1, irq |-> irq])
  /\ sent' = sent + 1
  /\ UNCHANGED <<confVars, runVars, groupVars, foo, fooMsg, chan, out,
                 written>>

Exit(p) ==
  /\ Runs(p)
  /\ proc' = [proc EXCEPT ![p] = "dead"]
  /\ UNCHANGED <<confVars, runVars, cgroups, leaked, frozen, forked, pipeVars>>

(* stress-ng works in children of its own. They may outlive it, above all  *)
(* when it is killed.                                                      *)
Fork(p) ==
  /\ Runs(p) /\ p # Wasm
  /\ forked' = forked \cup {p}
  /\ UNCHANGED <<confVars, runVars, cgroups, leaked, frozen, proc, pipeVars>>

ForkedExit(p) ==
  /\ p \in forked /\ GroupOf[p] \notin frozen
  /\ forked' = forked \ {p}
  /\ UNCHANGED <<confVars, runVars, cgroups, leaked, frozen, proc, pipeVars>>
-----------------------------------------------------------------------------
RunStep ==
  \/ \E p \in Procs :
       \/ AddProcess(p) \/ Spawn(p) \/ SpawnFails(p) \/ KillTask(p)
  \/ SetupFails \/ StartRun \/ Select \/ SelectMissing
  \/ EndSelect \/ KillsDone \/ KillsFailed \/ AwaitForwarder \/ AwaitWriter

FooStep == FooRecv \/ FooSend \/ FooFinish \/ FooFails

OutStep == OutRecv \/ OutWriteFails \/ OutEnd

Environment ==
  \/ CtrlC \/ Send
  \/ \E p \in Procs : Exit(p) \/ Fork(p) \/ ForkedExit(p)

Next == RunStep \/ FooStep \/ OutStep \/ Environment \/ Exited

SafeSpec == Init /\ [][Next]_vars

(* Each task is scheduled again and again while it is ready: the forwarder *)
(* yields when the ring is empty. What the processes do, when the user     *)
(* ends the program and which call fails is left open.                     *)
Fairness ==
  /\ WF_vars(RunStep)
  /\ WF_vars(FooRecv \/ FooSend \/ FooFinish \/ (foo = "send" /\ FooFails))
  /\ WF_vars(OutRecv \/ OutEnd)

Spec == SafeSpec /\ Fairness
-----------------------------------------------------------------------------
(* The types of the variables; the pipe's two buffers keep their limits. *)
TypeOK ==
  /\ primary \in Primaries /\ stale \subseteq Groups
  /\ mainPc \in {"add", "spawn", "select", "kill", "drain", "out", "exit"}
  /\ result \in {"none", "ok", "err", "panicked"}
  /\ cancelled \in BOOLEAN /\ bar \in BOOLEAN /\ killFailed \in BOOLEAN
  /\ cmds \subseteq Procs /\ killed \subseteq Procs /\ forked \subseteq Procs
  /\ cgroups \subseteq Groups \ stale /\ leaked \subseteq Groups \ stale
  /\ frozen \subseteq cgroups \cup leaked
  /\ proc \in [Procs -> {"unborn", "running", "dead"}]
  /\ sent \in 0 .. MaxSent
  /\ ring \in Seq(Record) /\ Len(ring) <= RingCap
  /\ foo \in {"none", "recv", "send", "done", "failed"}
  /\ fooMsg \in Seq(Record)
  /\ out \in {"none", "recv", "done", "failed"}
  /\ chan \in Seq(1 .. MaxSent) /\ Len(chan) <= ChanCap
  /\ written \in Seq(1 .. MaxSent)
  /\ boundTo \in {Unbound} \cup {CpuOf[p] : p \in Procs}
  /\ cpu \in [Procs -> {Unbound} \cup {CpuOf[p] : p \in Procs}]

(* Every process that lives, and every child it has forked, is in a cgroup *)
(* that the controller still has to kill, or in one that it has leaked in  *)
(* a panic: no path out of Runner::run, failed ones included, lets go of a *)
(* cgroup before its processes.                                            *)
Contained ==
  \A p \in Procs :
    proc[p] = "running" \/ p \in forked => GroupOf[p] \in cgroups \cup leaked

(* When the controller has exited no process of the experiment, no child   *)
(* of one and no frozen cgroup is left, whatever failed on the way, unless *)
(* drop has given up a cgroup; and then the forwarder or main has          *)
(* panicked.                                                               *)
NothingLeftBehind ==
  mainPc = "exit" =>
    /\ cgroups = {}
    /\ leaked = {} =>
         /\ \A p \in Procs : proc[p] # "running"
         /\ forked = {} /\ frozen = {}
    /\ leaked # {} => foo = "failed" \/ result = "panicked"

Numbers(s) == [i \in DOMAIN s |-> s[i].n]

(* As long as neither task of the pipe has failed, each record sent is, in *)
(* order and once, written, in the channel, with the forwarder or in the   *)
(* ring.                                                                   *)
NothingLost ==
  foo # "failed" /\ out # "failed" =>
    written \o chan \o Numbers(fooMsg) \o Numbers(ring) = [i \in 1 .. sent |-> i]

(* A controller that ends without an error has written all records that    *)
(* were sent, also those sent before the Wasm process was killed.          *)
CompleteOnSuccess ==
  mainPc = "exit" /\ result = "ok" /\ foo = "done" /\ out = "done" =>
    Len(written) = sent

(* The pipe as the program sees it: broken when a task of it has failed or *)
(* none was started, closed when main has returned.                        *)
PipeState ==
  IF \/ foo = "failed" \/ out = "failed"
     \/ foo = "none" /\ mainPc \in {"out", "exit"}
  THEN "broken" ELSE IF mainPc = "exit" THEN "closed" ELSE "open"

Promise == INSTANCE RecordPipe WITH state <- PipeState

(* Ring, forwarder, channel and writer implement RecordPipe: whichever of  *)
(* them fails, and whenever, the file holds the first records sent.        *)
KeepsPipe == Promise!SafeSpec

(* As they are scheduled, they deliver every record unless one of them     *)
(* fails.                                                                  *)
KeepsPipeFairly == Promise!Spec

(* The decisions in the ring. *)
Decisions(s) == [x \in DOMAIN s |-> s[x].irq]

Queue == INSTANCE OrderQueue WITH
  Cap <- RingCap,
  pending <- Decisions(ring),
  frozen <- IrqGroup \in frozen,
  ended <- foo \in {"done", "failed"}

(* What LinuxMitigator relies on: until the forwarder ends, the decisions  *)
(* are carried out on the group one by one and in order, however slow the  *)
(* writer is, and nothing else freezes or releases the group.              *)
KeepsOrders == Queue!SafeSpec

(* The controller exits once its primary has ended or ctrl-c was pressed,  *)
(* whatever the processes do and even if a task of the pipe fails, unless  *)
(* a child cannot be killed.                                               *)
ShutsDown ==
  (mainPc = "select" /\ (cancelled \/ proc[primary] = "dead"))
    ~> (mainPc = "exit" \/ killFailed)

(* Each decision sent to a running forwarder is carried out: a slow writer *)
(* may delay a freeze, but nothing makes the forwarder drop one.           *)
DecisionsApplied ==
  \A n \in 1 .. MaxSent :
    sent >= n /\ foo # "none"
      ~> (sent - Len(ring) >= n \/ foo = "failed")

(* An error of Runner::run reaches the user as main's result. *)
ErrorReported == result = "err" ~> mainPc = "exit"

(* Each process runs on the CPU that the configuration gives it. *)
BoundAsConfigured ==
  \A p \in Procs : proc[p] = "running" => cpu[p] = CpuOf[p]
=============================================================================
