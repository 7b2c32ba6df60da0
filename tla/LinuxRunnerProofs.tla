------------------------- MODULE LinuxRunnerProofs -------------------------
(***************************************************************************)
(* Proofs about LinuxRunner for every set of processes and groups, every   *)
(* buffer size and any number of records: what lives is contained or in a  *)
(* cgroup that drop has leaked, nothing else is left behind, no record is  *)
(* lost, and the pipe implements RecordPipe; what the CPUs of the          *)
(* processes are, and that the forwarder implements OrderQueue.            *)
(*                                                                         *)
(* Control relates the controller's place to the cgroups it owns or has    *)
(* leaked, Contained the cgroups to the processes, Pipe says place by      *)
(* place which record is where, and Ending when the two tasks of the pipe  *)
(* may have ended.                                                         *)
(***************************************************************************)
EXTENDS LinuxRunner, SequenceTheorems, TLAPS

(* The cgroups are those of the processes added until they are spawned,    *)
(* belong to the forwarder from then on, and are gone at the end. They are *)
(* dropped together, and leaked in that only.                              *)
Control ==
  /\ mainPc \in {"add", "spawn"} =>
       /\ foo = "none" /\ leaked = {}
       /\ \A p \in cmds : GroupOf[p] \in cgroups
  /\ leaked # {} => cgroups = {}
  /\ foo \in {"done", "failed"} => cgroups = {}
  /\ foo = "none" /\ mainPc \notin {"add", "spawn"} => cgroups = {}
  /\ mainPc = "spawn" => cmds = Procs
  /\ mainPc = "add" => out = "none"
  /\ mainPc = "exit" => cgroups = {} /\ foo \notin {"recv", "send"}

(* The forwarder holds a record exactly while it waits to send it. *)
Holding ==
  /\ foo = "send" => Len(fooMsg) = 1
  /\ foo \in {"none", "recv", "done"} => fooMsg = <<>>

(* From the front of the pipe to its end, the records are numbered through. *)
From(a, s) == \A x \in 1 .. Len(s) : s[x] = a + x
NumberedFrom(a, s) == \A x \in 1 .. Len(s) : s[x].n = a + x

AtFoo == Len(written) + Len(chan)
AtRing == AtFoo + Len(fooMsg)

(* Behind the forwarder they are so even when the pipe has broken. *)
Behind == From(0, written) /\ From(Len(written), chan) /\ AtFoo <= sent

Ahead ==
  foo # "failed" /\ out # "failed" =>
    /\ NumberedFrom(AtFoo, fooMsg) /\ NumberedFrom(AtRing, ring)
    /\ sent = AtRing + Len(ring)

Pipe == Behind /\ Ahead

IInv == TypeOK /\ Contained /\ Control /\ Holding /\ Pipe
-----------------------------------------------------------------------------
LEMMA AppendFacts ==
  ASSUME NEW S, NEW s \in Seq(S), NEW e \in S
  PROVE  /\ Append(s, e) \in Seq(S)
         /\ Len(Append(s, e)) = Len(s) + 1
         /\ \A x \in 1 .. Len(s) : Append(s, e)[x] = s[x]
         /\ Append(s, e)[Len(s) + 1] = e
OBVIOUS

LEMMA TailFacts ==
  ASSUME NEW S, NEW s \in Seq(S), s # <<>>
  PROVE  /\ Tail(s) \in Seq(S)
         /\ Len(s) \in Nat \ {0} /\ Len(Tail(s)) = Len(s) - 1
         /\ Head(s) = s[1] /\ s[1] \in S
         /\ \A x \in 1 .. Len(s) - 1 : Tail(s)[x] = s[x + 1]
OBVIOUS

LEMMA OneFacts ==
  ASSUME NEW S, NEW e \in S
  PROVE  <<e>> \in Seq(S) /\ Len(<<e>>) = 1 /\ <<e>>[1] = e
OBVIOUS

(* What these do to a numbering. *)
LEMMA FromAppend ==
  ASSUME NEW a \in Int, NEW s \in Seq(Int), From(a, s)
  PROVE  From(a, Append(s, a + Len(s) + 1))
<1>1. Len(s) \in Nat /\ a + Len(s) + 1 \in Int
  OBVIOUS
<1> DEFINE t == Append(s, a + Len(s) + 1)
<1>2. /\ Len(t) = Len(s) + 1 /\ t[Len(s) + 1] = a + Len(s) + 1
      /\ \A x \in 1 .. Len(s) : t[x] = s[x]
  BY <1>1, AppendFacts
<1> SUFFICES ASSUME NEW x \in 1 .. Len(t) PROVE t[x] = a + x
  BY DEF From
<1> HIDE DEF t
<1>3. x \in 1 .. Len(s) \/ x = Len(s) + 1
  BY <1>1, <1>2
<1> QED
  BY <1>1, <1>2, <1>3 DEF From

LEMMA FromTail ==
  ASSUME NEW a \in Int, NEW s \in Seq(Int), s # <<>>, From(a, s)
  PROVE  s[1] = a + 1 /\ From(a + 1, Tail(s))
<1> DEFINE t == Tail(s)
<1>1. /\ Len(s) \in Nat \ {0} /\ Len(t) = Len(s) - 1
      /\ \A x \in 1 .. Len(s) - 1 : t[x] = s[x + 1]
  BY TailFacts
<1> HIDE DEF t
<1>2. ASSUME NEW x \in 1 .. Len(t) PROVE t[x] = a + 1 + x
  <2>1. x + 1 \in 1 .. Len(s) /\ t[x] = s[x + 1]
    BY <1>1
  <2>2. s[x + 1] = a + (x + 1)
    BY <2>1 DEF From
  <2> QED
    BY <2>1, <2>2, <1>1
<1>3. s[1] = a + 1
  BY <1>1 DEF From
<1> QED
  BY <1>2, <1>3 DEF From, t

LEMMA NumberedAppend ==
  ASSUME NEW a \in Int, NEW s \in Seq(Record), NumberedFrom(a, s),
         NEW r \in Record, r.n = a + Len(s) + 1
  PROVE  NumberedFrom(a, Append(s, r))
<1> DEFINE t == Append(s, r)
<1>1. Len(s) \in Nat
  OBVIOUS
<1>2. /\ Len(t) = Len(s) + 1 /\ t[Len(s) + 1] = r
      /\ \A x \in 1 .. Len(s) : t[x] = s[x]
  BY AppendFacts
<1> SUFFICES ASSUME NEW x \in 1 .. Len(t) PROVE t[x].n = a + x
  BY DEF NumberedFrom
<1> HIDE DEF t
<1>3. x \in 1 .. Len(s) \/ x = Len(s) + 1
  BY <1>1, <1>2
<1> QED
  BY <1>1, <1>2, <1>3 DEF NumberedFrom

LEMMA NumberedTail ==
  ASSUME NEW a \in Int, NEW s \in Seq(Record), s # <<>>, NumberedFrom(a, s)
  PROVE  s[1].n = a + 1 /\ NumberedFrom(a + 1, Tail(s))
<1> DEFINE t == Tail(s)
<1>1. /\ Len(s) \in Nat \ {0} /\ Len(t) = Len(s) - 1
      /\ \A x \in 1 .. Len(s) - 1 : t[x] = s[x + 1]
  BY TailFacts
<1> HIDE DEF t
<1>2. ASSUME NEW x \in 1 .. Len(t) PROVE t[x].n = a + 1 + x
  <2>1. x + 1 \in 1 .. Len(s) /\ t[x] = s[x + 1]
    BY <1>1
  <2>2. s[x + 1].n = a + (x + 1)
    BY <2>1 DEF NumberedFrom
  <2> QED
    BY <2>1, <2>2, <1>1
<1>3. s[1].n = a + 1
  BY <1>1 DEF NumberedFrom
<1> QED
  BY <1>2, <1>3 DEF NumberedFrom, t

-----------------------------------------------------------------------------
LEMMA HeldRecord ==
  ASSUME TypeOK, Holding, foo = "send"
  PROVE  Len(fooMsg) = 1 /\ fooMsg[1] \in Record /\ fooMsg[1].n \in 1 .. MaxSent
<1>1. fooMsg \in Seq(Record) /\ Len(fooMsg) = 1
  BY DEF TypeOK, Holding
<1>2. fooMsg[1] \in Record
  BY <1>1
<1> QED
  BY <1>1, <1>2 DEF Record

LEMMA Lengths ==
  TypeOK => /\ Len(written) \in Nat /\ Len(chan) \in Nat
            /\ Len(fooMsg) \in Nat /\ Len(ring) \in Nat
BY DEF TypeOK

(* A drop of the cgroups, whether it fails or not, lets go of none that    *)
(* something lives in, but for those it leaks.                             *)
LEMMA DropFacts ==
  ASSUME TypeOK, Contained, Control, NEW dropped,
         DropCGroups(dropped) \/ DropFails(dropped)
  PROVE  /\ cgroups' = {} /\ leaked' \subseteq Groups \ stale
         /\ frozen' \subseteq leaked' /\ forked' \subseteq Procs
         /\ proc' \in [Procs -> {"unborn", "running", "dead"}]
         /\ \A p \in Procs :
              /\ proc'[p] = "running" => proc[p] = "running"
              /\ proc'[p] = "running" \/ p \in forked' => GroupOf[p] \in leaked'
              /\ proc'[p] = "unborn" <=> proc[p] = "unborn"
              /\ proc[p] = "dead" => proc'[p] = "dead"
         /\ DropCGroups(dropped) => leaked' = leaked
         /\ DropFails(dropped) => cgroups # {}
<1> USE RunnerAssumption DEF TypeOK, Contained, Control
<1>1. CASE DropCGroups(dropped)
  <2>1. /\ proc' = Kill(dropped \cup {p \in Procs : GroupOf[p] \in cgroups})
        /\ forked' = forked \ {p \in Procs : GroupOf[p] \in cgroups}
        /\ cgroups' = {} /\ frozen' = frozen \ cgroups /\ leaked' = leaked
    BY <1>1 DEF DropCGroups, Die, Members
  <2> QED
    BY <1>1, <2>1 DEF Kill, DropFails
<1>2. CASE DropFails(dropped)
  <2>1. PICK gone \in SUBSET cgroups : \E late \in cgroups \ gone :
          /\ \E ps, parents \in SUBSET Members({late}) :
               Die(dropped \cup Members(gone) \cup ps,
                   Members(gone) \cup parents)
          /\ cgroups' = {} /\ leaked' = cgroups \ gone /\ frozen' = frozen \ gone
    BY <1>2 DEF DropFails
  <2>2. PICK late \in cgroups \ gone :
          \E ps, parents \in SUBSET Members({late}) :
            Die(dropped \cup Members(gone) \cup ps, Members(gone) \cup parents)
    BY <2>1
  <2>3. PICK ps \in SUBSET Members({late}), parents \in SUBSET Members({late}) :
          Die(dropped \cup Members(gone) \cup ps, Members(gone) \cup parents)
    BY <2>2
  <2>4. /\ proc' = Kill(dropped \cup {p \in Procs : GroupOf[p] \in gone}
                        \cup ps)
        /\ forked' = forked \ ({p \in Procs : GroupOf[p] \in gone}
                                \cup parents)
    BY <2>3 DEF Die, Members
  <2>5. leaked = {} /\ cgroups # {}
    BY <2>2
  <2>6. ~DropCGroups(dropped) \/ leaked' = leaked
    BY DEF DropCGroups
  <2>7. /\ proc' \in [Procs -> {"unborn", "running", "dead"}]
        /\ \A p \in Procs :
             /\ proc'[p] = "running" =>
                  proc[p] = "running" /\ GroupOf[p] \notin gone
             /\ proc'[p] = "unborn" <=> proc[p] = "unborn"
             /\ proc[p] = "dead" => proc'[p] = "dead"
    BY <2>4 DEF Kill
  <2> QED
    BY <2>1, <2>4, <2>5, <2>6, <2>7
<1> QED
  BY <1>1, <1>2

(* TypeOK is inductive once the forwarder's hold on its record is known. *)
LEMMA TypeStep == IInv /\ [Next]_vars => TypeOK'
<1> SUFFICES ASSUME TypeOK, Contained, Control, Holding, [Next]_vars
             PROVE  TypeOK'
  BY DEF IInv
<1> USE RunnerAssumption
    DEF confVars, runVars, groupVars, pipeVars, TypeOK
<1>1. ASSUME NEW p \in Procs, AddProcess(p) PROVE TypeOK'
  BY <1>1 DEF AddProcess, Add
<1>2. ASSUME NEW p \in Procs, Spawn(p) PROVE TypeOK'
  BY <1>2 DEF Spawn
<1>3. ASSUME NEW p \in Procs, SpawnFails(p) PROVE TypeOK'
  BY <1>3, DropFacts DEF SpawnFails
<1>4. ASSUME NEW p \in Procs, KillTask(p) PROVE TypeOK'
  <2>1. proc' \in [Procs -> {"unborn", "running", "dead"}]
    BY <1>4 DEF KillTask, Kill
  <2>2. killed' \subseteq Procs /\ killFailed' \in BOOLEAN
    BY <1>4 DEF KillTask
  <2>3. UNCHANGED <<primary, stale, cmds, boundTo, cpu, mainPc, result, cancelled,
                    bar, cgroups, leaked, frozen, forked, pipeVars>>
    BY <1>4 DEF KillTask
  <2> QED
    BY <2>1, <2>2, <2>3
<1>5. CASE SetupFails
  BY <1>5, DropFacts DEF SetupFails
<1>6. CASE StartRun
  BY <1>6 DEF StartRun
<1>7. CASE Select
  BY <1>7 DEF Select, StartForwarder, AllSpawned
<1>8. CASE SelectMissing
  BY <1>8 DEF SelectMissing, ReturnError, StartForwarder, AllSpawned, Kill
<1>9. CASE EndSelect
  BY <1>9 DEF EndSelect
<1>10. CASE KillsDone
  BY <1>10 DEF KillsDone, KillsEnd
<1>11. CASE KillsFailed
  BY <1>11 DEF KillsFailed, ReturnError, KillsEnd, Kill
<1>12. CASE AwaitForwarder
  BY <1>12 DEF AwaitForwarder
<1>13. CASE AwaitWriter
  BY <1>13, DropFacts DEF AwaitWriter
<1>14. CASE FooRecv
  <2>1. /\ Tail(ring) \in Seq(Record) /\ Len(Tail(ring)) <= RingCap
        /\ Head(ring) \in Record
    BY <1>14, TailFacts DEF FooRecv
  <2>2. fooMsg' \in Seq(Record)
    BY <1>14, <2>1, OneFacts DEF FooRecv
  <2>3. frozen' \subseteq cgroups' \cup leaked'
    BY <1>14 DEF FooRecv
  <2> QED
    BY <1>14, <2>1, <2>2, <2>3 DEF FooRecv
<1>15. CASE FooSend
  <2>1. fooMsg[1].n \in 1 .. MaxSent
    BY <1>15, HeldRecord DEF FooSend, Forward
  <2>2. chan' \in Seq(1 .. MaxSent) /\ Len(chan') <= ChanCap
    BY <1>15, <2>1, AppendFacts DEF FooSend
  <2> QED
    BY <1>15, <2>2 DEF FooSend, Forward
<1>16. CASE FooFinish
  BY <1>16, DropFacts DEF FooFinish, FooEnd
<1>17. CASE FooFails
  BY <1>17, DropFacts DEF FooFails, FooEnd
<1>18. CASE OutRecv
  BY <1>18 DEF OutRecv
<1>19. CASE OutWriteFails
  BY <1>19 DEF OutWriteFails
<1>20. CASE OutEnd
  BY <1>20 DEF OutEnd
<1>21. CASE CtrlC
  BY <1>21 DEF CtrlC
<1>22. CASE Send
  BY <1>22 DEF Send, Runs, Record
<1>23. ASSUME NEW p \in Procs, Exit(p) PROVE TypeOK'
  BY <1>23 DEF Exit, Runs
<1>24. ASSUME NEW p \in Procs, Fork(p) PROVE TypeOK'
  BY <1>24 DEF Fork, Runs
<1>25. ASSUME NEW p \in Procs, ForkedExit(p) PROVE TypeOK'
  BY <1>25 DEF ForkedExit
<1>26. CASE UNCHANGED vars
  BY <1>26 DEF vars
<1> QED
  BY <1>1, <1>2, <1>3, <1>4, <1>5, <1>6, <1>7, <1>8, <1>9, <1>10, <1>11,
     <1>12, <1>13, <1>14, <1>15, <1>16, <1>17, <1>18, <1>19, <1>20, <1>21,
     <1>22, <1>23, <1>24, <1>25, <1>26 DEF Next, RunStep, FooStep, OutStep,
     Environment, Exited

(* What lives is in a cgroup of the controller, wherever that is. *)
LEMMA GroupStep == IInv /\ [Next]_vars => (Contained /\ Control)'
<1> SUFFICES ASSUME IInv, [Next]_vars PROVE (Contained /\ Control)'
  OBVIOUS
<1> USE RunnerAssumption DEF IInv, confVars, runVars, groupVars, pipeVars,
   TypeOK, Contained, Control
<1>1. ASSUME NEW p \in Procs, AddProcess(p) PROVE (Contained /\ Control)'
  BY <1>1 DEF AddProcess, Add
<1>2. ASSUME NEW p \in Procs, Spawn(p) PROVE (Contained /\ Control)'
  BY <1>2 DEF Spawn
<1>3. ASSUME NEW p \in Procs, SpawnFails(p) PROVE (Contained /\ Control)'
  BY <1>3, DropFacts DEF SpawnFails
<1>4. ASSUME NEW p \in Procs, KillTask(p) PROVE (Contained /\ Control)'
  BY <1>4 DEF KillTask, Kill
<1>5. CASE SetupFails
  BY <1>5, DropFacts DEF SetupFails
<1>6. CASE StartRun
  BY <1>6 DEF StartRun
<1>7. CASE Select
  BY <1>7 DEF Select, StartForwarder, AllSpawned
<1>8. CASE SelectMissing
  BY <1>8 DEF SelectMissing, ReturnError, StartForwarder, AllSpawned, Kill
<1>9. CASE EndSelect
  BY <1>9 DEF EndSelect
<1>10. CASE KillsDone
  BY <1>10 DEF KillsDone, KillsEnd
<1>11. CASE KillsFailed
  BY <1>11 DEF KillsFailed, ReturnError, KillsEnd, Kill
<1>12. CASE AwaitForwarder
  BY <1>12 DEF AwaitForwarder
<1>13. CASE AwaitWriter
  BY <1>13, DropFacts DEF AwaitWriter
<1>14. CASE FooRecv
  BY <1>14 DEF FooRecv
<1>15. CASE FooSend
  BY <1>15 DEF FooSend, Forward
<1>16. CASE FooFinish
  BY <1>16, DropFacts DEF FooFinish, FooEnd
<1>17. CASE FooFails
  BY <1>17, DropFacts DEF FooFails, FooEnd
<1>18. CASE OutRecv
  BY <1>18 DEF OutRecv
<1>19. CASE OutWriteFails
  BY <1>19 DEF OutWriteFails
<1>20. CASE OutEnd
  BY <1>20 DEF OutEnd
<1>21. CASE CtrlC
  BY <1>21 DEF CtrlC
<1>22. CASE Send
  BY <1>22 DEF Send, Runs
<1>23. ASSUME NEW p \in Procs, Exit(p) PROVE (Contained /\ Control)'
  BY <1>23 DEF Exit, Runs
<1>24. ASSUME NEW p \in Procs, Fork(p) PROVE (Contained /\ Control)'
  BY <1>24 DEF Fork, Runs
<1>25. ASSUME NEW p \in Procs, ForkedExit(p) PROVE (Contained /\ Control)'
  BY <1>25 DEF ForkedExit
<1>26. CASE UNCHANGED vars
  BY <1>26 DEF vars
<1> QED
  BY <1>1, <1>2, <1>3, <1>4, <1>5, <1>6, <1>7, <1>8, <1>9, <1>10, <1>11,
     <1>12, <1>13, <1>14, <1>15, <1>16, <1>17, <1>18, <1>19, <1>20, <1>21,
     <1>22, <1>23, <1>24, <1>25, <1>26 DEF Next, RunStep, FooStep, OutStep,
     Environment, Exited

(* The forwarder's hold, and the records move on one place at a time. *)
LEMMA PipeStep == IInv /\ [Next]_vars => (Holding /\ Pipe)'
<1> SUFFICES ASSUME TypeOK, Control, Holding, Pipe, [Next]_vars
             PROVE  Holding' /\ Pipe'
  BY DEF IInv
<1> USE DEF confVars, runVars, groupVars, pipeVars
<1>0. /\ Len(written) \in Nat /\ Len(chan) \in Nat
      /\ Len(fooMsg) \in Nat /\ Len(ring) \in Nat
      /\ AtFoo \in Nat /\ AtRing \in Nat
      /\ written \in Seq(Int) /\ chan \in Seq(Int) /\ ring \in Seq(Record)
      /\ fooMsg \in Seq(Record) /\ sent \in Int
  BY RunnerAssumption, SeqMonotonic, Lengths DEF TypeOK, AtFoo, AtRing
(* Steps that leave the buffers alone. *)
<1>1. ASSUME UNCHANGED <<sent, ring, fooMsg, chan, written>>,
             foo' # "failed" => foo # "failed",
             out' # "failed" => out # "failed",
             foo' = "send" => foo = "send",
             foo' \in {"none", "recv", "done"} => foo \in {"none", "recv", "done"}
      PROVE  Holding' /\ Pipe'
  BY <1>1 DEF Holding, Pipe, Behind, Ahead, From, NumberedFrom, AtFoo, AtRing
<1>2. ASSUME NEW p \in Procs,
             \/ AddProcess(p) \/ Spawn(p) \/ SpawnFails(p) \/ KillTask(p)
             \/ Exit(p) \/ Fork(p) \/ ForkedExit(p)
      PROVE  Holding' /\ Pipe'
  BY <1>1, <1>2 DEF AddProcess, Add, Spawn, SpawnFails, KillTask, Exit, Fork,
     ForkedExit, Control
<1>3. CASE \/ SetupFails \/ StartRun \/ EndSelect \/ KillsDone \/ KillsFailed
           \/ AwaitForwarder \/ CtrlC \/ UNCHANGED vars
  BY <1>1, <1>3 DEF SetupFails, StartRun, EndSelect, KillsDone, KillsFailed, ReturnError,
     KillsEnd, AwaitForwarder, CtrlC, vars, Control
<1>4. CASE Select \/ SelectMissing
  BY <1>1, <1>4 DEF Select, SelectMissing, ReturnError, StartForwarder, AllSpawned, Control
<1>5. CASE AwaitWriter
  BY <1>1, <1>5 DEF AwaitWriter
<1>6. CASE FooFinish \/ FooFails
  BY <1>1, <1>6 DEF FooFinish, FooFails, FooEnd
<1>7. CASE OutEnd
  BY <1>1, <1>7 DEF OutEnd
<1>8. CASE OutWriteFails
  <2>1. /\ chan' = <<>> /\ Len(chan') = 0 /\ out' = "failed"
        /\ UNCHANGED <<sent, ring, foo, fooMsg, written>>
    BY <1>8 DEF OutWriteFails
  <2>2. Behind'
    BY <1>0, <2>1 DEF Pipe, Behind, From, AtFoo
  <2> QED
    BY <2>1, <2>2 DEF Holding, Pipe, Ahead
<1>9. CASE FooRecv
  <2>1. /\ foo = "recv" /\ fooMsg = <<>> /\ Len(fooMsg) = 0
        /\ ring # <<>> /\ ring' = Tail(ring)
        /\ fooMsg' = <<ring[1]>> /\ fooMsg'[1] = ring[1] /\ Len(fooMsg') = 1
        /\ foo' = "send"
        /\ UNCHANGED <<sent, chan, out, written>>
    BY <1>0, <1>9, TailFacts, OneFacts DEF FooRecv, Holding
  <2>2. Len(ring) \in Nat /\ Len(ring') = Len(ring) - 1
    BY <1>0, <2>1, TailFacts
  <2>3. Holding'
    BY <2>1 DEF Holding
  <2>4. AtFoo' = AtFoo /\ AtRing' = AtRing + 1 /\ AtRing = AtFoo
    BY <1>0, <2>1 DEF AtFoo, AtRing
  <2>5. Behind'
    BY <2>1, <2>4 DEF Pipe, Behind
  <2>6. ASSUME out # "failed" PROVE Ahead'
    <3>1. NumberedFrom(AtRing, ring) /\ sent = AtRing + Len(ring)
      BY <2>1, <2>6 DEF Pipe, Ahead
    <3>2. ring[1].n = AtRing + 1 /\ NumberedFrom(AtRing + 1, ring')
      BY <1>0, <2>1, <3>1, NumberedTail
    <3>3. NumberedFrom(AtFoo', fooMsg')
      BY <1>0, <2>1, <2>4, <3>2 DEF NumberedFrom
    <3>4. sent' = AtRing' + Len(ring')
      BY <1>0, <2>1, <2>2, <2>4, <3>1
    <3> QED
      BY <2>1, <2>4, <3>1, <3>2, <3>3, <3>4 DEF Ahead
  <2> QED
    BY <2>1, <2>3, <2>5, <2>6 DEF Pipe, Ahead
<1>10. CASE FooSend
  <2>1. /\ foo = "send" /\ out = "recv" /\ out' = out /\ foo' = "recv"
        /\ fooMsg' = <<>> /\ Len(fooMsg') = 0
        /\ chan' = Append(chan, fooMsg[1].n)
        /\ UNCHANGED <<sent, ring, written>>
    BY <1>10 DEF FooSend, Forward
  <2>2. Len(fooMsg) = 1 /\ fooMsg[1].n \in Int
    BY <2>1, HeldRecord, RunnerAssumption
  <2>3. Len(chan') = Len(chan) + 1
    BY <1>0, <2>1, <2>2, AppendFacts
  <2>4. /\ From(0, written) /\ From(Len(written), chan)
        /\ NumberedFrom(AtFoo, fooMsg) /\ NumberedFrom(AtRing, ring)
        /\ sent = AtRing + Len(ring)
    BY <2>1 DEF Pipe, Behind, Ahead
  <2>5. fooMsg[1].n = Len(written) + Len(chan) + 1
    BY <1>0, <2>2, <2>4 DEF NumberedFrom, AtFoo
  <2>6. From(Len(written), chan')
    BY <1>0, <2>1, <2>4, <2>5, FromAppend
  <2>7. AtRing' = AtRing /\ AtFoo' <= sent'
    BY <1>0, <2>1, <2>2, <2>3, <2>4 DEF AtFoo, AtRing
  <2>8. NumberedFrom(AtFoo', fooMsg')
    BY <2>1 DEF NumberedFrom
  <2> QED
    BY <2>1, <2>4, <2>6, <2>7, <2>8 DEF Pipe, Behind, Ahead, Holding
<1>11. CASE OutRecv
  <2>1. /\ chan # <<>> /\ chan' = Tail(chan)
        /\ written' = Append(written, chan[1]) /\ chan[1] \in Int
        /\ out = "recv" /\ UNCHANGED <<sent, ring, foo, fooMsg, out>>
    BY <1>0, <1>11, TailFacts DEF OutRecv
  <2>2. Len(chan') = Len(chan) - 1 /\ Len(written') = Len(written) + 1
    BY <1>0, <2>1, TailFacts, AppendFacts
  <2>3. Holding'
    BY <2>1 DEF Holding
  <2>4. AtFoo' = AtFoo /\ AtRing' = AtRing
    BY <1>0, <2>1, <2>2 DEF AtFoo, AtRing
  <2>5. Behind'
    <3>1. From(0, written) /\ From(Len(written), chan) /\ AtFoo <= sent
      BY DEF Pipe, Behind
    <3>2. chan[1] = Len(written) + 1 /\ From(Len(written'), chan')
      BY <1>0, <2>1, <2>2, <3>1, FromTail
    <3>3. From(0, written')
      <4>1. chan[1] = 0 + Len(written) + 1
        BY <1>0, <3>2
      <4> QED
        BY <1>0, <2>1, <3>1, <4>1, FromAppend
    <3> QED
      BY <2>1, <2>4, <3>1, <3>2, <3>3 DEF Behind
  <2>6. Ahead'
    BY <2>1, <2>4 DEF Pipe, Ahead
  <2> QED
    BY <2>3, <2>5, <2>6 DEF Pipe
<1>12. CASE Send
  <2>1. PICK irq \in Irqs : ring' = Append(ring, [n |-> sent + 1, irq |-> irq])
    BY <1>12 DEF Send
  <2> DEFINE r == [n |-> sent + 1, irq |-> irq]
  <2>2. r \in Record /\ r.n = sent + 1
    BY <1>12, RunnerAssumption DEF Send, Record, TypeOK
  <2> HIDE DEF r
  <2>3. ring' = Append(ring, r)
    BY <2>1 DEF r
  <2>4. Len(ring') = Len(ring) + 1
    BY <1>0, <2>2, <2>3, AppendFacts
  <2>5. sent' = sent + 1 /\ UNCHANGED <<foo, fooMsg, chan, out, written>>
    BY <1>12 DEF Send
  <2>6. Holding'
    BY <2>5 DEF Holding
  <2>7. AtFoo' = AtFoo /\ AtRing' = AtRing
    BY <2>5 DEF AtFoo, AtRing
  <2>8. Behind'
    BY <1>0, <2>5, <2>7 DEF Pipe, Behind
  <2>9. ASSUME foo # "failed", out # "failed" PROVE Ahead'
    <3>1. /\ NumberedFrom(AtFoo, fooMsg) /\ NumberedFrom(AtRing, ring)
          /\ sent = AtRing + Len(ring)
      BY <2>9 DEF Pipe, Ahead
    <3>2. NumberedFrom(AtRing, ring')
      BY <1>0, <2>2, <2>3, <3>1, NumberedAppend
    <3>3. sent' = AtRing' + Len(ring')
      BY <1>0, <2>4, <2>5, <2>7, <3>1
    <3> QED
      BY <2>5, <2>7, <3>1, <3>2, <3>3 DEF Ahead
  <2> QED
    BY <2>5, <2>6, <2>8, <2>9 DEF Pipe, Ahead
<1> QED
  BY <1>2, <1>3, <1>4, <1>5, <1>6, <1>7, <1>8, <1>9, <1>10, <1>11, <1>12
  DEF Next, RunStep, FooStep, OutStep, Environment, Exited
-----------------------------------------------------------------------------
(* What the end of the program rests on: the forwarder ends after all      *)
(* processes, when nobody can send any more.                               *)
Ending ==
  /\ mainPc \in {"select", "kill", "drain"} =>
       foo # "none" /\ \A p \in Procs : proc[p] # "unborn"
  /\ mainPc = "exit" => out # "recv"
  /\ ~killFailed => \A p \in killed : proc[p] = "dead"
  /\ bar => \A p \in Procs : proc[p] = "dead"
  /\ mainPc = "drain" => bar
  /\ mainPc = "add" => foo = "none" /\ \A p \in Procs : proc[p] = "unborn"
  /\ foo = "done" => bar /\ ring = <<>>
  /\ out = "done" => chan = <<>>

(* A leak goes with a panic, which ends the forwarder or main. *)
LeakPanics ==
  /\ leaked # {} => foo = "failed" \/ result = "panicked"
  /\ result = "panicked" => mainPc = "exit"

LEMMA DropKeepsDead ==
  ASSUME TypeOK, Contained, Control, DropCGroups({}) \/ DropFails({})
  PROVE  \A p \in Procs :
           /\ proc'[p] = "running" => proc[p] = "running"
           /\ proc'[p] = "unborn" => proc[p] = "unborn"
           /\ proc[p] = "dead" => proc'[p] = "dead"
BY DropFacts

LEMMA EndingStep ==
  IInv /\ Ending /\ LeakPanics /\ [Next]_vars => (Ending /\ LeakPanics)'
<1> SUFFICES ASSUME IInv, Ending, LeakPanics, [Next]_vars
             PROVE  (Ending /\ LeakPanics)'
  OBVIOUS
<1>0. /\ TypeOK /\ Control /\ Contained
      /\ killed \subseteq Procs /\ cmds \subseteq Procs
      /\ proc \in [Procs -> {"unborn", "running", "dead"}]
      /\ killFailed \in BOOLEAN /\ bar \in BOOLEAN
      /\ foo \in {"none", "recv", "send", "done", "failed"}
  BY DEF IInv, TypeOK
<1> USE RunnerAssumption
    DEF Ending, LeakPanics, confVars, runVars, groupVars, pipeVars
<1>1. ASSUME NEW p \in Procs, AddProcess(p) \/ Spawn(p) \/ Exit(p) \/ Fork(p)
      PROVE  (Ending /\ LeakPanics)'
  BY <1>0, <1>1 DEF AddProcess, Add, Spawn, Exit, Fork, Runs, Control
<1>2. ASSUME NEW p \in Procs, SpawnFails(p) PROVE (Ending /\ LeakPanics)'
  BY <1>0, <1>2, DropFacts DEF SpawnFails, Control
<1>3. ASSUME NEW p \in Procs, KillTask(p) \/ ForkedExit(p)
      PROVE  (Ending /\ LeakPanics)'
  BY <1>0, <1>3 DEF KillTask, ForkedExit, Kill
<1>4. CASE SetupFails
  BY <1>0, <1>4, DropFacts DEF SetupFails, Control
<1>5. CASE StartRun \/ EndSelect \/ CtrlC \/ UNCHANGED vars
  BY <1>0, <1>5 DEF StartRun, EndSelect, CtrlC, vars
<1>6. CASE Select \/ SelectMissing
  BY <1>0, <1>6 DEF Select, SelectMissing, ReturnError, StartForwarder, AllSpawned, Kill, Control
<1>7. CASE KillsDone \/ KillsFailed
  BY <1>0, <1>7 DEF KillsDone, KillsFailed, ReturnError, KillsEnd, Kill
<1>8. CASE AwaitForwarder
  BY <1>0, <1>8 DEF AwaitForwarder
<1>9. CASE AwaitWriter
  <2>1. /\ mainPc = "out" /\ mainPc' = "exit" /\ result' = result
        /\ out \in {"done", "failed"}
        /\ UNCHANGED <<killFailed, killed, bar, ring, chan, out>>
        /\ foo' = IF foo \in {"recv", "send"} THEN "failed" ELSE foo
        /\ DropCGroups({}) \/ DropFails({})
    BY <1>9 DEF AwaitWriter
  <2>2. leaked' # {} => foo' = "failed" \/ result' = "panicked"
    <3>1. DropFails({}) => foo' = "failed"
      BY <1>0, <2>1, DropFacts DEF Control
    <3>2. DropCGroups({}) => leaked' = leaked
      BY <1>0, DropFacts
    <3> QED
      BY <2>1, <3>1, <3>2
  <2>3. DropCGroups({}) \/ DropFails({})
    BY <2>1
  <2>5. ~killFailed' => \A p \in killed' : proc'[p] = "dead"
    BY <1>0, <2>1, <2>3, DropKeepsDead
  <2>6. bar' => \A p \in Procs : proc'[p] = "dead"
    BY <1>0, <2>1, <2>3, DropKeepsDead
  <2> QED
    BY <2>1, <2>2, <2>5, <2>6
<1>10. CASE FooRecv
  BY <1>0, <1>10 DEF FooRecv
<1>11. CASE FooSend
  BY <1>0, <1>11 DEF FooSend, Forward
<1>12. CASE FooFinish \/ FooFails
  <2>1. /\ foo \in {"recv", "send"} /\ foo' \in {"done", "failed"}
        /\ foo' = "done" => bar /\ ring = <<>>
        /\ \/ DropCGroups({})
           \/ foo' = "failed" /\ DropFails({})
        /\ UNCHANGED <<mainPc, result, killFailed, killed, bar, ring, chan, out>>
    BY <1>12 DEF FooFinish, FooFails, FooEnd
  <2>2. DropCGroups({}) \/ DropFails({})
    BY <2>1
  <2>3. leaked' # {} => foo' = "failed" \/ result' = "panicked"
    <3>1. DropCGroups({}) => leaked' = leaked
      BY <1>0, DropFacts
    <3> QED
      BY <2>1, <3>1
  <2>4. mainPc # "add"
    BY <1>0, <2>1
  <2>5. mainPc' \in {"select", "kill", "drain"}
          => foo' # "none" /\ \A p \in Procs : proc'[p] # "unborn"
    BY <1>0, <2>1, <2>2, DropKeepsDead
  <2>6. ~killFailed' => \A p \in killed' : proc'[p] = "dead"
    BY <1>0, <2>1, <2>2, DropKeepsDead
  <2>7. bar' => \A p \in Procs : proc'[p] = "dead"
    BY <1>0, <2>1, <2>2, DropKeepsDead
  <2> QED
    BY <2>1, <2>3, <2>4, <2>5, <2>6, <2>7
<1>13. CASE OutRecv \/ OutWriteFails \/ OutEnd
  BY <1>0, <1>13 DEF OutRecv, OutWriteFails, OutEnd
<1>14. CASE Send
  BY <1>0, <1>14 DEF Send, Runs
<1> QED
  BY <1>1, <1>2, <1>3, <1>4, <1>5, <1>6, <1>7, <1>8, <1>9, <1>10, <1>11,
     <1>12, <1>13, <1>14 DEF Next, RunStep, FooStep, OutStep, Environment, Exited

LEMMA Inductive == SafeSpec => [](IInv /\ Ending /\ LeakPanics)
<1>1. Init => IInv /\ Ending /\ LeakPanics
  <2> SUFFICES ASSUME Init PROVE IInv /\ Ending /\ LeakPanics
    OBVIOUS
  <2>1. TypeOK
    <3>1. /\ ring \in Seq(Record) /\ fooMsg \in Seq(Record)
          /\ chan \in Seq(1 .. MaxSent) /\ written \in Seq(1 .. MaxSent)
          /\ Len(ring) <= RingCap /\ Len(chan) <= ChanCap
      BY RunnerAssumption DEF Init
    <3>2. /\ proc \in [Procs -> {"unborn", "running", "dead"}]
          /\ cpu \in [Procs -> {Unbound} \cup {CpuOf[p] : p \in Procs}]
      BY DEF Init
    <3>3. /\ primary \in Primaries /\ stale \subseteq Groups
          /\ cmds \subseteq Procs /\ killed \subseteq Procs
          /\ forked \subseteq Procs
          /\ cgroups \subseteq Groups \ stale /\ leaked \subseteq Groups \ stale
          /\ frozen \subseteq cgroups \cup leaked
      BY DEF Init
    <3>4. sent \in 0 .. MaxSent
      BY RunnerAssumption DEF Init
    <3>5. cancelled \in BOOLEAN /\ bar \in BOOLEAN /\ killFailed \in BOOLEAN
      BY DEF Init
    <3>6. /\ mainPc \in {"add", "spawn", "select", "kill", "drain", "out", "exit"}
          /\ result \in {"none", "ok", "err", "panicked"}
          /\ foo \in {"none", "recv", "send", "done", "failed"}
          /\ out \in {"none", "recv", "done", "failed"}
      BY DEF Init
    <3>7. boundTo \in {Unbound} \cup {CpuOf[p] : p \in Procs}
      BY DEF Init
    <3> QED
      BY <3>1, <3>2, <3>3, <3>4, <3>5, <3>6, <3>7 DEF TypeOK
  <2>2. Contained /\ Control /\ Holding /\ Ending /\ LeakPanics
    BY DEF Init, Contained, Control, Holding, Ending, LeakPanics
  <2>3. Behind /\ Ahead
    <3>1. /\ Len(written) = 0 /\ Len(chan) = 0 /\ Len(fooMsg) = 0
          /\ Len(ring) = 0 /\ sent = 0
      BY DEF Init
    <3> QED
      BY <3>1 DEF Behind, Ahead, From, NumberedFrom, AtFoo, AtRing
  <2> QED
    BY <2>1, <2>2, <2>3 DEF IInv, Pipe
<1>2. (IInv /\ Ending /\ LeakPanics) /\ [Next]_vars
        => (IInv /\ Ending /\ LeakPanics)'
  BY TypeStep, GroupStep, PipeStep, EndingStep DEF IInv
<1> QED
  BY <1>1, <1>2, PTL DEF SafeSpec
-----------------------------------------------------------------------------
(* The types of Runner, main and the tasks, and the limits of the ring and *)
(* the channel.                                                            *)
THEOREM TypeCorrect == SafeSpec => []TypeOK
BY Inductive, PTL DEF IInv

(* Whatever the controller does and whichever of its calls fails, what     *)
(* lives is in a cgroup that CGroup::drop has still to kill or has failed  *)
(* to.                                                                     *)
THEOREM AlwaysContained == SafeSpec => []Contained
BY Inductive, PTL DEF IInv

(* On every path on which main returns, the processes, their children and  *)
(* the cgroups are gone, unless a drop of a cgroup has panicked: then what *)
(* survives is in a leaked cgroup, however many kills have failed.         *)
THEOREM LeavesNothing == SafeSpec => []NothingLeftBehind
<1>1. IInv /\ Ending /\ LeakPanics => NothingLeftBehind
  BY DEF IInv, TypeOK, Contained, Control, Ending, LeakPanics,
         NothingLeftBehind
<1> QED
  BY <1>1, Inductive, PTL

LEMMA FromConcat ==
  ASSUME NEW a \in Int, NEW s \in Seq(Int), NEW t \in Seq(Int),
         NEW b \in Int, b = a + Len(s), From(a, s), From(b, t)
  PROVE  /\ s \o t \in Seq(Int) /\ Len(s \o t) = Len(s) + Len(t)
         /\ From(a, s \o t)
<1> DEFINE u == s \o t
<1>1. /\ Len(s) \in Nat /\ Len(t) \in Nat
      /\ u \in Seq(Int) /\ Len(u) = Len(s) + Len(t)
  BY ConcatProperties
<1>2. \A x \in 1 .. Len(s) + Len(t) :
        u[x] = IF x <= Len(s) THEN s[x] ELSE t[x - Len(s)]
  BY ConcatProperties
<1> HIDE DEF u
<1>3. ASSUME NEW x \in 1 .. Len(u) PROVE u[x] = a + x
  <2>1. x \in Int /\ x \in 1 .. Len(s) + Len(t)
    BY <1>1
  <2>2. CASE x <= Len(s)
    <3>1. u[x] = s[x] /\ x \in 1 .. Len(s)
      BY <1>1, <1>2, <2>1, <2>2
    <3> QED
      BY <3>1 DEF From
  <2>3. CASE x > Len(s)
    <3>1. u[x] = t[x - Len(s)] /\ x - Len(s) \in 1 .. Len(t)
      BY <1>1, <1>2, <2>1, <2>3
    <3>2. t[x - Len(s)] = b + (x - Len(s))
      BY <3>1 DEF From
    <3> QED
      BY <1>1, <2>1, <3>1, <3>2
  <2> QED
    BY <1>1, <2>1, <2>2, <2>3
<1> QED
  BY <1>1, <1>3 DEF From, u

LEMMA NumbersFrom ==
  ASSUME NEW a \in Int, NEW s \in Seq(Record), NumberedFrom(a, s)
  PROVE  /\ Numbers(s) \in Seq(Int) /\ Len(Numbers(s)) = Len(s)
         /\ From(a, Numbers(s))
<1> DEFINE t == Numbers(s)
<1>1. Len(s) \in Nat /\ DOMAIN s = 1 .. Len(s)
  OBVIOUS
<1>2. t = [x \in 1 .. Len(s) |-> s[x].n]
  BY <1>1 DEF Numbers
<1>3. \A x \in 1 .. Len(s) : s[x].n = a + x
  BY DEF NumberedFrom
<1> HIDE DEF t
<1>4. t \in [1 .. Len(s) -> Int]
  BY <1>2, <1>3
<1>5. t \in Seq(Int) /\ Len(t) = Len(s)
  BY <1>1, <1>4
<1>6. From(a, t)
  BY <1>2, <1>3, <1>5 DEF From
<1> QED
  BY <1>5, <1>6 DEF t

(* The pipe from the Wasm process over the forwarder to the writer loses,  *)
(* repeats and reorders no record, at any size of its two buffers.         *)
THEOREM PipeIsLossless == SafeSpec => []NothingLost
<1>1. IInv => NothingLost
  <2> SUFFICES ASSUME TypeOK, Pipe, foo # "failed", out # "failed"
               PROVE  written \o chan \o Numbers(fooMsg) \o Numbers(ring)
                        = [i \in 1 .. sent |-> i]
    BY DEF IInv, NothingLost
  <2>1. /\ written \in Seq(Int) /\ chan \in Seq(Int)
        /\ fooMsg \in Seq(Record) /\ ring \in Seq(Record)
        /\ Len(written) \in Nat /\ Len(chan) \in Nat
        /\ Len(fooMsg) \in Nat /\ Len(ring) \in Nat /\ sent \in Nat
        /\ AtFoo \in Nat /\ AtRing \in Nat
    BY RunnerAssumption, SeqMonotonic, Lengths DEF TypeOK, AtFoo, AtRing
  <2>2. /\ From(0, written) /\ From(Len(written), chan)
        /\ NumberedFrom(AtFoo, fooMsg) /\ NumberedFrom(AtRing, ring)
        /\ sent = AtRing + Len(ring)
    BY <2>1 DEF Pipe, Behind, Ahead
  <2>3. /\ Numbers(fooMsg) \in Seq(Int) /\ Len(Numbers(fooMsg)) = Len(fooMsg)
        /\ From(AtFoo, Numbers(fooMsg))
        /\ Numbers(ring) \in Seq(Int) /\ Len(Numbers(ring)) = Len(ring)
        /\ From(AtRing, Numbers(ring))
    BY <2>1, <2>2, NumbersFrom
  <2> DEFINE c == written \o chan
             d == c \o Numbers(fooMsg)
             e == d \o Numbers(ring)
  <2>4. /\ c \in Seq(Int) /\ From(0, c)
        /\ Len(c) = Len(written) + Len(chan) /\ Len(c) = AtFoo
    BY <2>1, <2>2, FromConcat DEF AtFoo
  <2> HIDE DEF c
  <2>5. /\ d \in Seq(Int) /\ From(0, d)
        /\ Len(d) = Len(c) + Len(Numbers(fooMsg))
    <3>1. 0 \in Int /\ AtFoo \in Int /\ AtFoo = 0 + Len(c)
      BY <2>1, <2>4
    <3> QED
      BY <2>3, <2>4, <3>1, FromConcat, Zenon
  <2>6. Len(d) = AtRing
    BY <2>1, <2>3, <2>4, <2>5 DEF AtRing
  <2> HIDE DEF d
  <2>7. /\ e \in Seq(Int) /\ From(0, e)
        /\ Len(e) = Len(d) + Len(Numbers(ring))
    <3>1. 0 \in Int /\ AtRing \in Int /\ AtRing = 0 + Len(d)
      BY <2>1, <2>6
    <3> QED
      BY <2>3, <2>5, <3>1, FromConcat, Zenon
  <2>8. Len(e) = sent
    BY <2>1, <2>2, <2>3, <2>6, <2>7
  <2> HIDE DEF e
  <2>9. e = [i \in 1 .. sent |-> i]
    <3>1. \A i \in 1 .. sent : e[i] = i
      BY <2>7, <2>8 DEF From
    <3> QED
      BY <2>1, <2>7, <2>8, <3>1
  <2> QED
    BY <2>9 DEF c, d, e
<1> QED
  BY <1>1, Inductive, PTL

LEMMA Complete ==
  ASSUME IInv, Ending, foo = "done", out = "done" PROVE Len(written) = sent
<1>1. Len(chan) = 0 /\ Len(fooMsg) = 0 /\ Len(ring) = 0
  BY DEF IInv, Ending, Holding
<1>2. sent = AtRing + Len(ring) /\ Len(written) \in Nat
  BY Lengths DEF IInv, Pipe, Ahead
<1> QED
  BY <1>1, <1>2 DEF AtRing, AtFoo

(* A run of the program that ends well has written every record.           *)
THEOREM WritesAll == SafeSpec => []CompleteOnSuccess
<1>1. IInv /\ Ending => CompleteOnSuccess
  BY Complete DEF CompleteOnSuccess
<1> QED
  BY <1>1, Inductive, PTL
-----------------------------------------------------------------------------
(* A step of the tasks changes nothing in the abstract pipe, breaks it, or *)
(* is one of its steps.                                                    *)
LEMMA StepKeepsPipe ==
  ASSUME IInv, Ending, [Next]_vars
  PROVE  [Promise!Next]_Promise!vars
<1>0. /\ mainPc \in {"add", "spawn", "select", "kill", "drain", "out", "exit"}
      /\ foo \in {"none", "recv", "send", "done", "failed"}
      /\ out \in {"none", "recv", "done", "failed"}
      /\ mainPc \in {"add", "spawn"} => foo = "none"
      /\ mainPc = "exit" => foo \notin {"recv", "send"} /\ out # "recv"
      /\ mainPc \in {"select", "kill", "drain"} => foo # "none"
  BY DEF IInv, TypeOK, Control, Ending
<1>1. ASSUME UNCHANGED <<sent, written>>, PipeState' = PipeState
      PROVE  [Promise!Next]_Promise!vars
  BY <1>1 DEF Promise!vars
<1>2. ASSUME UNCHANGED <<sent, written>>, PipeState' = "broken", mainPc # "exit"
      PROVE  [Promise!Next]_Promise!vars
  BY <1>2 DEF PipeState, Promise!Next, Promise!Break, Promise!vars
<1> USE DEF confVars, runVars, groupVars, pipeVars
<1>3. ASSUME NEW p \in Procs,
             \/ AddProcess(p) \/ Spawn(p) \/ KillTask(p)
             \/ Exit(p) \/ Fork(p) \/ ForkedExit(p)
      PROVE  [Promise!Next]_Promise!vars
  BY <1>1, <1>3 DEF AddProcess, Add, Spawn, KillTask, Exit, Fork, ForkedExit,
     PipeState
<1>4. ASSUME NEW p \in Procs, SpawnFails(p)
      PROVE  [Promise!Next]_Promise!vars
  BY <1>0, <1>2, <1>4 DEF SpawnFails, PipeState
<1>5. CASE SetupFails
  BY <1>0, <1>2, <1>5 DEF SetupFails, PipeState
<1>6. CASE StartRun \/ EndSelect \/ CtrlC \/ UNCHANGED vars
  <2>1. /\ UNCHANGED <<sent, written, foo>>
        /\ out' = out \/ (out' = "recv" /\ mainPc = "add")
        /\ mainPc' = mainPc \/ (mainPc' \notin {"out", "exit"}
                               /\ mainPc \notin {"out", "exit"})
    BY <1>6 DEF StartRun, EndSelect, CtrlC, vars
  <2>2. mainPc = "add" => out = "none"
    BY DEF IInv, Control
  <2> QED
    BY <1>1, <2>1, <2>2 DEF PipeState
<1>7. CASE KillsDone \/ KillsFailed
  <2>1. /\ UNCHANGED <<sent, written, foo, out>>
        /\ mainPc = "kill" /\ mainPc' \in {"drain", "out"}
    BY <1>7 DEF KillsDone, KillsFailed, ReturnError, KillsEnd
  <2> QED
    BY <1>0, <1>1, <2>1 DEF PipeState
<1>8. CASE Select \/ SelectMissing
  BY <1>0, <1>1, <1>8 DEF Select, SelectMissing, ReturnError, StartForwarder, AllSpawned,
     PipeState
<1>9. CASE AwaitForwarder
  BY <1>1, <1>9 DEF AwaitForwarder, PipeState
<1>10. CASE AwaitWriter
  <2>1. /\ mainPc = "out" /\ mainPc' = "exit" /\ out \in {"done", "failed"}
        /\ foo' = IF foo \in {"recv", "send"} THEN "failed" ELSE foo
        /\ UNCHANGED <<sent, written, out>>
    BY <1>10 DEF AwaitWriter
  <2>2. CASE foo = "done" /\ out = "done"
    <3>1. Len(written) = sent
      BY <2>2, Complete
    <3>2. PipeState = "open" /\ PipeState' = "closed"
      BY <2>1, <2>2 DEF PipeState
    <3> QED
      BY <2>1, <3>1, <3>2 DEF Promise!Next, Promise!Close
  <2>3. CASE ~(foo = "done" /\ out = "done")
    <3>1. PipeState' = "broken"
      BY <1>0, <2>1, <2>3 DEF PipeState
    <3> QED
      BY <1>2, <2>1, <3>1
  <2> QED
    BY <2>2, <2>3
<1>11. CASE FooRecv
  BY <1>1, <1>11 DEF FooRecv, PipeState
<1>12. CASE FooSend
  BY <1>1, <1>12 DEF FooSend, Forward, PipeState
<1>13. CASE FooFinish \/ FooFails
  <2>1. /\ foo \in {"recv", "send"} /\ foo' \in {"done", "failed"}
        /\ UNCHANGED <<mainPc, sent, written, out>>
    BY <1>13 DEF FooFinish, FooFails, FooEnd
  <2>2. PipeState' \in {PipeState, "broken"} /\ mainPc # "exit"
    BY <1>0, <2>1 DEF PipeState
  <2> QED
    BY <1>1, <1>2, <2>1, <2>2
<1>14. CASE OutWriteFails
  BY <1>0, <1>2, <1>14 DEF OutWriteFails, PipeState
<1>15. CASE OutEnd
  BY <1>1, <1>15 DEF OutEnd, PipeState
<1>16. CASE OutRecv
  <2>1. /\ chan # <<>> /\ written' = Append(written, Head(chan))
        /\ out = "recv" /\ UNCHANGED <<sent, mainPc, foo, out>>
    BY <1>16 DEF OutRecv
  <2>2. /\ chan \in Seq(Int) /\ Len(written) \in Nat /\ Len(chan) \in Nat
        /\ sent \in Int
        /\ From(Len(written), chan) /\ AtFoo <= sent
    BY RunnerAssumption, SeqMonotonic, Lengths
    DEF IInv, TypeOK, Pipe, Behind
  <2>3. Head(chan) = Len(written) + 1 /\ Len(chan) > 0
    BY <2>1, <2>2, TailFacts, FromTail
  <2>4. Len(written) < sent
    BY <2>2, <2>3 DEF AtFoo
  <2>5. PipeState # "closed" /\ PipeState' = PipeState
    BY <1>0, <2>1 DEF PipeState
  <2> QED
    BY <2>1, <2>3, <2>4, <2>5 DEF Promise!Next, Promise!Get
<1>17. CASE Send
  <2>1. /\ sent' = sent + 1 /\ proc[Wasm] = "running"
        /\ UNCHANGED <<written, mainPc, foo, out>>
    BY <1>17 DEF Send, Runs
  <2>2. foo # "done"
    BY <2>1, RunnerAssumption DEF Ending
  <2>3. PipeState # "closed" /\ PipeState' = PipeState
    BY <1>0, <2>1, <2>2 DEF PipeState
  <2> QED
    BY <2>1, <2>3 DEF Promise!Next, Promise!Put
<1> QED
  BY <1>3, <1>4, <1>5, <1>6, <1>8, <1>9, <1>10, <1>11, <1>12, <1>13, <1>14,
     <1>15, <1>16, <1>17, <1>7 DEF Next, RunStep, FooStep, OutStep,
     Environment, Exited

(* Ring, forwarder, channel and writer implement RecordPipe for any number *)
(* of processes and records and any sizes: even when a task fails and the  *)
(* program goes on, the file is a prefix of what was sent, and without a   *)
(* failure it is all of it when main returns.                              *)
THEOREM PipeKeepsPromise == SafeSpec => KeepsPipe
<1>1. Init => Promise!Init
  BY DEF Init, Promise!Init, PipeState
<1>2. IInv /\ Ending /\ [Next]_vars => [Promise!Next]_Promise!vars
  BY StepKeepsPipe
<1> QED
  BY <1>1, <1>2, Inductive, PTL DEF SafeSpec, KeepsPipe, Promise!SafeSpec
-----------------------------------------------------------------------------
(* The binding is the controller's, of whichever process was added last,   *)
(* and every process that was spawned has inherited it.                    *)
Binding ==
  /\ cmds # {} => \E q \in cmds : boundTo = CpuOf[q]
  /\ \A p \in Procs :
       proc[p] # "unborn" =>
         cpu[p] = boundTo /\ cmds # {} /\ mainPc # "add"

(* A kill makes no process of one that was never spawned. *)
LEMMA KillSparesUnborn ==
  ASSUME NEW ps, NEW p \in Procs, Kill(ps)[p] # "unborn"
  PROVE  proc[p] # "unborn"
BY DEF Kill

LEMMA BindingStep == IInv /\ Binding /\ [Next]_vars => Binding'
<1> SUFFICES ASSUME IInv, Binding, [Next]_vars PROVE Binding'
  OBVIOUS
<1>1. ASSUME NEW p \in Procs, AddProcess(p) PROVE Binding'
  <2>1. /\ mainPc = "add" /\ cmds' = cmds \cup {p} /\ boundTo' = CpuOf[p]
        /\ mainPc' = mainPc /\ proc' = proc /\ cpu' = cpu
    BY <1>1 DEF AddProcess, Add, runVars
  <2> QED
    BY <2>1 DEF Binding
<1>2. ASSUME NEW p \in Procs, Spawn(p) PROVE Binding'
  <2>1. /\ mainPc = "spawn" /\ mainPc' = mainPc
        /\ cmds' = cmds /\ boundTo' = boundTo
        /\ proc' = [proc EXCEPT ![p] = "running"]
        /\ cpu' = [cpu EXCEPT ![p] = boundTo]
    BY <1>2 DEF Spawn, runVars
  <2>2. cmds # {} /\ DOMAIN proc = Procs /\ DOMAIN cpu = Procs
    BY <1>2, <2>1 DEF IInv, Control, TypeOK
  <2>3. ASSUME NEW q \in Procs, proc'[q] # "unborn" PROVE cpu'[q] = boundTo
    BY <2>1, <2>2, <2>3 DEF Binding
  <2> QED
    BY <2>1, <2>2, <2>3 DEF Binding
<1>3. ASSUME UNCHANGED confVars, mainPc' = mainPc \/ mainPc' # "add",
             \A p \in Procs : proc'[p] # "unborn" => proc[p] # "unborn"
      PROVE  Binding'
  BY <1>3 DEF Binding, confVars
<1>4. ASSUME NEW p \in Procs, SpawnFails(p) \/ KillTask(p) PROVE Binding'
  <2>1. mainPc' # "add" /\ UNCHANGED confVars
    BY <1>4 DEF SpawnFails, KillTask
  <2>2. proc' = proc \/ \E ps : proc' = Kill(ps)
    BY <1>4 DEF SpawnFails, KillTask, DropCGroups, DropFails, Die
  <2> QED
    BY <1>3, <2>1, <2>2, KillSparesUnborn
<1>5. CASE \/ SetupFails \/ StartRun \/ Select \/ SelectMissing \/ EndSelect
           \/ KillsDone \/ KillsFailed \/ AwaitForwarder \/ AwaitWriter
  <2>1. mainPc' # "add" /\ UNCHANGED confVars
    BY <1>5 DEF SetupFails, StartRun, Select, SelectMissing, ReturnError, StartForwarder,
                EndSelect, KillsDone, KillsFailed, KillsEnd, AwaitForwarder,
                AwaitWriter
  <2>2. proc' = proc \/ \E ps : proc' = Kill(ps)
    BY <1>5 DEF SetupFails, StartRun, Select, SelectMissing, ReturnError, StartForwarder,
                EndSelect, KillsDone, KillsFailed, KillsEnd, AwaitForwarder,
                AwaitWriter, DropCGroups, DropFails, Die, groupVars
  <2> QED
    BY <1>3, <2>1, <2>2, KillSparesUnborn
<1>6. CASE FooStep \/ OutStep
  <2>1. UNCHANGED <<confVars, mainPc>>
    BY <1>6 DEF FooStep, FooRecv, FooSend, Forward, FooFinish, FooFails,
                FooEnd, OutStep, OutRecv, OutWriteFails, OutEnd, runVars
  <2>2. proc' = proc \/ \E ps : proc' = Kill(ps)
    BY <1>6 DEF FooStep, FooRecv, FooSend, Forward, FooFinish, FooFails,
                FooEnd, OutStep, OutRecv, OutWriteFails, OutEnd, DropCGroups,
                DropFails, Die, groupVars
  <2> QED
    BY <1>3, <2>1, <2>2, KillSparesUnborn
<1>7. CASE CtrlC \/ Send \/ Exited \/ UNCHANGED vars
           \/ \E p \in Procs : Fork(p) \/ ForkedExit(p)
  <2>1. UNCHANGED <<confVars, mainPc, proc>>
    BY <1>7 DEF CtrlC, Send, Exited, Fork, ForkedExit, vars, runVars,
                groupVars
  <2> QED
    BY <1>3, <2>1
<1>8. ASSUME NEW p \in Procs, Exit(p) PROVE Binding'
  <2>1. UNCHANGED <<confVars, mainPc>> /\ proc[p] = "running"
        /\ proc' = [proc EXCEPT ![p] = "dead"] /\ DOMAIN proc = Procs
    BY <1>8 DEF Exit, Runs, runVars, IInv, TypeOK
  <2>2. ASSUME NEW q \in Procs, proc'[q] # "unborn" PROVE proc[q] # "unborn"
    BY <2>1, <2>2
  <2> QED
    BY <1>3, <2>1, <2>2
<1> QED
  BY <1>1, <1>2, <1>4, <1>5, <1>6, <1>7, <1>8 DEF Next, RunStep, Environment

LEMMA AlwaysBinding == SafeSpec => []Binding
<1>1. Init => Binding
  BY DEF Init, Binding
<1>2. SafeSpec => []IInv
  BY Inductive, PTL
<1> QED
  BY <1>1, <1>2, BindingStep, PTL DEF SafeSpec

(* The processes share one CPU. *)
OneCpu == \A p, q \in Procs :
            proc[p] = "running" /\ proc[q] = "running" => cpu[p] = cpu[q]

(* Whatever CPUs are configured, all processes run on the same one, as     *)
(* add_process binds the controller and not the process: no two of them    *)
(* ever run at the same time.                                              *)
THEOREM AllOnOneCpu == SafeSpec => []OneCpu
<1>1. Binding => OneCpu
  BY DEF Binding, OneCpu
<1> QED
  BY AlwaysBinding, <1>1, PTL

(* So the configured CPUs are kept to only where they are all the same.    *)
THEOREM BoundIfOneCpuConfigured ==
  ASSUME \A p, q \in Procs : CpuOf[p] = CpuOf[q]
  PROVE  SafeSpec => []BoundAsConfigured
<1>1. ASSUME IInv, Binding PROVE BoundAsConfigured
  <2>1. cmds \subseteq Procs
    BY <1>1 DEF IInv, TypeOK
  <2> QED
    BY <1>1, <2>1 DEF Binding, BoundAsConfigured
<1>2. SafeSpec => []IInv
  BY Inductive, PTL
<1>3. IInv /\ Binding => BoundAsConfigured
  BY <1>1
<1> QED
  BY AlwaysBinding, <1>2, <1>3, PTL
-----------------------------------------------------------------------------
LEMMA DecisionsType ==
  ASSUME NEW s \in Seq(Record)
  PROVE  /\ Decisions(s) \in Seq(Irqs)
         /\ Len(Decisions(s)) = Len(s)
<1>1. ASSUME NEW x \in 1 .. Len(s) PROVE s[x].irq \in Irqs
  <2>1. s[x] \in Record
    OBVIOUS
  <2> QED
    BY <2>1 DEF Record
<1>2. DOMAIN s = 1 .. Len(s) /\ Len(s) \in Nat
  OBVIOUS
<1> DEFINE d == Decisions(s)
<1>3. d \in [1 .. Len(s) -> Irqs]
  BY <1>1, <1>2 DEF Decisions
<1> HIDE DEF d
<1>4. d \in Seq(Irqs) /\ Len(d) = Len(s)
  BY <1>2, <1>3
<1> QED
  BY <1>4 DEF d

LEMMA DecisionsAppend ==
  ASSUME NEW s \in Seq(Record), NEW r \in Record
  PROVE  Decisions(Append(s, r)) = Append(Decisions(s), r.irq)
<1> DEFINE d == Decisions(s)
           t == Append(s, r)
<1>1. /\ t \in Seq(Record) /\ Len(s) \in Nat /\ Len(t) = Len(s) + 1
      /\ \A x \in 1 .. Len(s) : t[x] = s[x]
      /\ t[Len(s) + 1] = r
  BY AppendFacts
<1>2. d \in Seq(Irqs) /\ Len(d) = Len(s) /\ r.irq \in Irqs
  BY DecisionsType DEF Record
<1>3. Decisions(t) \in Seq(Irqs) /\ Len(Decisions(t)) = Len(s) + 1
  BY <1>1, DecisionsType
<1>4. /\ \A x \in 1 .. Len(s) : d[x] = s[x].irq
      /\ \A x \in 1 .. Len(t) : Decisions(t)[x] = t[x].irq
  BY <1>1 DEF Decisions
<1> HIDE DEF d, t
<1>5. /\ Append(d, r.irq) \in Seq(Irqs) /\ Len(Append(d, r.irq)) = Len(s) + 1
      /\ \A x \in 1 .. Len(s) : Append(d, r.irq)[x] = d[x]
      /\ Append(d, r.irq)[Len(s) + 1] = r.irq
  BY <1>2, AppendFacts
<1>6. ASSUME NEW x \in 1 .. Len(s) + 1
      PROVE  Decisions(t)[x] = Append(d, r.irq)[x]
  <2>1. x \in 1 .. Len(s) \/ x = Len(s) + 1
    BY <1>1
  <2> QED
    BY <1>1, <1>4, <1>5, <2>1
<1>7. Decisions(t) = Append(d, r.irq)
  BY <1>3, <1>5, <1>6, SeqEqual
<1> QED
  BY <1>7 DEF d, t

LEMMA DecisionsTail ==
  ASSUME NEW s \in Seq(Record), s # <<>>
  PROVE  /\ Decisions(s) # <<>>
         /\ Head(Decisions(s)) = Head(s).irq
         /\ Decisions(Tail(s)) = Tail(Decisions(s))
<1> DEFINE d == Decisions(s)
           t == Tail(s)
<1>1. /\ t \in Seq(Record) /\ Len(s) \in Nat \ {0} /\ Len(t) = Len(s) - 1
      /\ Head(s) = s[1] /\ \A x \in 1 .. Len(s) - 1 : t[x] = s[x + 1]
  BY TailFacts
<1>2. d \in Seq(Irqs) /\ Len(d) = Len(s)
  BY DecisionsType
<1>3. Decisions(t) \in Seq(Irqs) /\ Len(Decisions(t)) = Len(s) - 1
  BY <1>1, DecisionsType
<1>4. /\ \A x \in 1 .. Len(s) : d[x] = s[x].irq
      /\ \A x \in 1 .. Len(t) : Decisions(t)[x] = t[x].irq
  BY <1>1 DEF Decisions
<1> HIDE DEF d, t
<1>5. d # <<>>
  BY <1>1, <1>2
<1>6. /\ Tail(d) \in Seq(Irqs) /\ Len(Tail(d)) = Len(s) - 1
      /\ Head(d) = d[1] /\ \A x \in 1 .. Len(s) - 1 : Tail(d)[x] = d[x + 1]
  BY <1>2, <1>5, TailFacts
<1>7. ASSUME NEW x \in 1 .. Len(s) - 1 PROVE Decisions(t)[x] = Tail(d)[x]
  <2>1. x + 1 \in 1 .. Len(s) /\ x \in 1 .. Len(t)
    BY <1>1
  <2> QED
    BY <1>1, <1>4, <1>6, <2>1
<1>8. Decisions(t) = Tail(d)
  BY <1>3, <1>6, <1>7, SeqEqual
<1>9. Head(d) = Head(s).irq
  BY <1>1, <1>4, <1>6
<1> QED
  BY <1>5, <1>8, <1>9 DEF d, t

(* The forwarder owns a cgroup for each process, so that no decision finds *)
(* the group missing; before it is spawned nothing is frozen.              *)
Owning ==
  /\ mainPc = "spawn" \/ foo \in {"recv", "send"} =>
       \A p \in Procs : GroupOf[p] \in cgroups
  /\ foo = "none" => frozen = {}

LEMMA OwningStep == IInv /\ Owning /\ [Next]_vars => Owning'
<1> SUFFICES ASSUME IInv, Owning, [Next]_vars PROVE Owning'
  OBVIOUS
<1>1. ASSUME NEW p \in Procs, AddProcess(p) PROVE Owning'
  BY <1>1 DEF AddProcess, Add, runVars, pipeVars, Owning, IInv, Control
<1>2. CASE StartRun
  BY <1>2 DEF StartRun, groupVars, Owning, IInv, Control
<1>3. ASSUME UNCHANGED <<cgroups, frozen, foo>>,
             mainPc' = mainPc \/ mainPc' # "spawn"
      PROVE  Owning'
  BY <1>3 DEF Owning
<1>4. ASSUME NEW p \in Procs,
             Spawn(p) \/ KillTask(p) \/ Exit(p) \/ Fork(p) \/ ForkedExit(p)
      PROVE  Owning'
  BY <1>3, <1>4 DEF Spawn, KillTask, Exit, Fork, ForkedExit, confVars, runVars,
                    pipeVars
<1>5. CASE EndSelect \/ KillsDone \/ KillsFailed \/ AwaitForwarder \/ OutStep
           \/ CtrlC \/ Send \/ Exited \/ UNCHANGED vars
  BY <1>3, <1>5
     DEF EndSelect, KillsEnd, KillsDone, KillsFailed, ReturnError,
         AwaitForwarder, OutStep,
         OutRecv, OutWriteFails, OutEnd, CtrlC, Send, Exited, vars, runVars,
         groupVars, pipeVars
<1>6. CASE Select \/ SelectMissing
  <2>1. /\ mainPc = "spawn" /\ foo' = "recv" /\ cgroups' = cgroups
        /\ mainPc' # "spawn"
    BY <1>6 DEF Select, SelectMissing, ReturnError, AllSpawned, StartForwarder
  <2> QED
    BY <2>1 DEF Owning
<1>7. CASE FooRecv \/ FooSend
  <2>1. /\ foo \in {"recv", "send"} /\ foo' \in {"recv", "send"}
        /\ cgroups' = cgroups
    BY <1>7 DEF FooRecv, FooSend, Forward, groupVars
  <2> QED
    BY <2>1 DEF Owning
<1>8. ASSUME NEW p \in Procs, SetupFails \/ SpawnFails(p) \/ AwaitWriter
      PROVE  Owning'
  <2>1. /\ mainPc' # "spawn" /\ frozen' \subseteq frozen
        /\ foo' \notin {"recv", "send"} /\ (foo' = "none" => foo = "none")
    <3>1. CASE SetupFails \/ SpawnFails(p)
      <4>1. foo = "none"
        BY <3>1 DEF SetupFails, SpawnFails, IInv, Control
      <4> QED
        BY <3>1, <4>1 DEF SetupFails, SpawnFails, DropCGroups, DropFails,
                          pipeVars
    <3>2. CASE AwaitWriter
      BY <3>2 DEF AwaitWriter, DropCGroups, DropFails
    <3> QED
      BY <1>8, <3>1, <3>2
  <2> QED
    BY <2>1 DEF Owning
<1>9. CASE FooFinish \/ FooFails
  <2>1. /\ foo # "none" /\ foo' \in {"done", "failed"} /\ mainPc' = mainPc
    BY <1>9 DEF FooFinish, FooFails, FooEnd, runVars
  <2> QED
    BY <2>1 DEF Owning, IInv, Control
<1>10. Procs # {}
  BY RunnerAssumption
<1> QED
  BY <1>1, <1>2, <1>4, <1>5, <1>6, <1>7, <1>8, <1>9, <1>10
     DEF Next, RunStep, FooStep, Environment

LEMMA AlwaysOwning == SafeSpec => [](IInv /\ Owning)
<1>1. Init => Owning
  BY DEF Init, Owning
<1>2. SafeSpec => []IInv
  BY Inductive, PTL
<1> QED
  BY <1>1, <1>2, OwningStep, PTL DEF SafeSpec

LEMMA StepKeepsOrders ==
  ASSUME IInv, Owning, [Next]_vars, \E p \in Procs : GroupOf[p] = IrqGroup
  PROVE  [Queue!Next]_(Queue!vars)
<1>0. ring \in Seq(Record)
  BY DEF IInv, TypeOK
<1>1. ASSUME UNCHANGED <<ring, frozen, foo>>
      PROVE  [Queue!Next]_(Queue!vars)
  BY <1>1 DEF Queue!vars
<1>2. ASSUME NEW p \in Procs,
             \/ AddProcess(p) \/ Spawn(p) \/ KillTask(p)
             \/ Exit(p) \/ Fork(p) \/ ForkedExit(p)
      PROVE  [Queue!Next]_(Queue!vars)
  BY <1>1, <1>2 DEF AddProcess, Add, Spawn, KillTask, Exit, Fork, ForkedExit,
                    runVars, pipeVars
<1>3. CASE StartRun \/ EndSelect \/ KillsDone \/ KillsFailed \/ AwaitForwarder
           \/ OutStep \/ CtrlC \/ Exited \/ UNCHANGED vars
  BY <1>1, <1>3
     DEF StartRun, EndSelect, KillsEnd, KillsDone, KillsFailed, ReturnError,
         AwaitForwarder,
         OutStep, OutRecv, OutWriteFails, OutEnd, CtrlC, Exited, vars, runVars,
         groupVars, pipeVars
<1>4. CASE Select \/ SelectMissing
  <2>1. foo = "none" /\ foo' = "recv" /\ UNCHANGED <<ring, frozen>>
    BY <1>4 DEF Select, SelectMissing, ReturnError, AllSpawned, StartForwarder, IInv, Control
  <2> QED
    BY <2>1 DEF Queue!vars
<1>5. CASE FooSend
  <2>1. foo = "send" /\ foo' = "recv" /\ UNCHANGED <<ring, frozen>>
    BY <1>5 DEF FooSend, Forward, groupVars
  <2> QED
    BY <2>1 DEF Queue!vars
<1>6. CASE Send
  <2>1. PICK irq \in Irqs : ring' = Append(ring, [n |-> sent + 1, irq |-> irq])
    BY <1>6 DEF Send
  <2>2. /\ sent < MaxSent /\ Len(ring) < RingCap
        /\ UNCHANGED <<frozen, foo>>
    BY <1>6 DEF Send, groupVars
  <2>3. [n |-> sent + 1, irq |-> irq] \in Record
    BY <2>2, RunnerAssumption DEF IInv, TypeOK, Record
  <2>4. Decisions(ring') = Append(Decisions(ring), irq)
    BY <1>0, <2>1, <2>3, DecisionsAppend
  <2>5. Len(Decisions(ring)) < RingCap
    BY <1>0, <2>2, DecisionsType
  <2> QED
    BY <2>2, <2>4, <2>5 DEF Queue!Next, Queue!Send, Irqs
<1>7. CASE FooRecv
  <2> DEFINE x == Head(ring)
  <2>1. /\ foo = "recv" /\ ring # <<>> /\ foo' = "send" /\ ring' = Tail(ring)
        /\ frozen' = CASE x.irq = "freeze" ->
                            frozen \cup ({IrqGroup} \cap cgroups)
                       [] x.irq = "unfreeze" -> frozen \ {IrqGroup}
                       [] OTHER -> frozen
    BY <1>7 DEF FooRecv
  <2>2. /\ Decisions(ring) # <<>> /\ Head(Decisions(ring)) = x.irq
        /\ Decisions(ring') = Tail(Decisions(ring))
    BY <1>0, <2>1, DecisionsTail
  <2>3. x.irq \in Irqs
    <3>1. x \in Record
      BY <1>0, <2>1
    <3> QED
      BY <3>1 DEF Record
  <2>4. IrqGroup \in cgroups
    BY <2>1 DEF Owning
  <2>5. IrqGroup \in frozen' <=>
          x.irq = "freeze" \/ (x.irq = "none" /\ IrqGroup \in frozen)
    <3>1. CASE x.irq = "freeze"
      BY <2>1, <2>4, <3>1
    <3>2. CASE x.irq = "unfreeze"
      BY <2>1, <3>2
    <3>3. CASE x.irq = "none"
      BY <2>1, <3>3
    <3> QED
      BY <2>3, <3>1, <3>2, <3>3 DEF Irqs
  <2>6. (IrqGroup \in frozen') =
          (x.irq = "freeze" \/ (x.irq = "none" /\ IrqGroup \in frozen))
    BY <2>5
  <2> HIDE DEF x
  <2>7. Queue!CarryOut
    BY <2>1, <2>2, <2>6 DEF Queue!CarryOut
  <2> QED
    BY <2>7 DEF Queue!Next
<1>8. ASSUME foo \notin {"done", "failed"}, foo' \in {"done", "failed"},
             ring' = ring, frozen' \subseteq frozen
      PROVE  [Queue!Next]_(Queue!vars)
  <2>1. (IrqGroup \in frozen') \in {FALSE, (IrqGroup \in frozen)}
    <3>1. CASE IrqGroup \in frozen'
      <4>1. (IrqGroup \in frozen') = (IrqGroup \in frozen)
        BY <1>8, <3>1
      <4> QED
        BY <4>1
    <3>2. CASE IrqGroup \notin frozen'
      <4>1. (IrqGroup \in frozen') = FALSE
        BY <3>2
      <4> QED
        BY <4>1
    <3> QED
      BY <3>1, <3>2
  <2>2. Queue!End
    BY <1>8, <2>1 DEF Queue!End
  <2> QED
    BY <2>2 DEF Queue!Next
<1>9. CASE FooFinish \/ FooFails
  <2>1. /\ foo \in {"recv", "send"} /\ foo' \in {"done", "failed"}
        /\ ring' = ring /\ frozen' \subseteq frozen
    BY <1>9 DEF FooFinish, FooFails, FooEnd, DropCGroups, DropFails
  <2> QED
    BY <1>8, <2>1
<1>10. ASSUME NEW p \in Procs, SetupFails \/ SpawnFails(p)
       PROVE  [Queue!Next]_(Queue!vars)
  <2>1. foo = "none"
    BY <1>10 DEF SetupFails, SpawnFails, IInv, Control
  <2>2. frozen = {} /\ frozen' \subseteq frozen /\ UNCHANGED <<ring, foo>>
    BY <1>10, <2>1 DEF SetupFails, SpawnFails, DropCGroups, DropFails,
                       pipeVars, Owning
  <2> QED
    BY <1>1, <2>2
<1>11. CASE AwaitWriter
  <2>1. /\ ring' = ring /\ frozen' \subseteq frozen
        /\ foo' = IF foo \in {"recv", "send"} THEN "failed" ELSE foo
        /\ cgroups = {} => frozen' = frozen
    BY <1>11 DEF AwaitWriter, DropCGroups, DropFails
  <2>2. CASE foo \in {"recv", "send"}
    BY <1>8, <2>1, <2>2
  <2>3. CASE foo = "none"
    BY <1>1, <2>1, <2>3 DEF Owning
  <2>4. CASE foo \in {"done", "failed"}
    BY <1>1, <2>1, <2>4 DEF IInv, Control
  <2> QED
    BY <2>2, <2>3, <2>4 DEF IInv, TypeOK
<1>12. Procs # {}
  BY RunnerAssumption
<1> QED
  BY <1>2, <1>3, <1>4, <1>5, <1>6, <1>7, <1>9, <1>10, <1>11, <1>12
     DEF Next, RunStep, FooStep, Environment

(* If a process is configured in the group that the decisions are about,   *)
(* the controller carries them out one by one and in order, however slow   *)
(* its writer is, until it or its forwarder ends: what OrderQueue says and *)
(* LinuxMitigator relies on.                                               *)
THEOREM ControllerObeys ==
  ASSUME \E p \in Procs : GroupOf[p] = IrqGroup
  PROVE  SafeSpec => KeepsOrders
<1>1. Init => Queue!Init
  <2>1. Decisions(<<>>) = <<>>
    <3>1. <<>> \in Seq(Record) /\ Len(<<>>) = 0
      OBVIOUS
    <3>2. Decisions(<<>>) \in Seq(Irqs) /\ Len(Decisions(<<>>)) = 0
      BY <3>1, DecisionsType
    <3> QED
      BY <3>2
  <2> QED
    BY <2>1 DEF Init, Queue!Init
<1>2. IInv /\ Owning /\ [Next]_vars => [Queue!Next]_(Queue!vars)
  BY StepKeepsOrders
<1> QED
  BY AlwaysOwning, <1>1, <1>2, PTL DEF SafeSpec, KeepsOrders, Queue!SafeSpec
=============================================================================
