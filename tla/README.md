# Dynamic multicore interference mitigation in TLA+

The program runs a guarded workload (a matrix kernel compiled to Wasm) in
quanta of interpreter fuel next to deliberately interfering workloads, and
stops the interference whenever the workload falls behind. There are two
versions: a bare-metal one for four-core ARM boards (`example/`), where the
interference runs on the other cores and is stopped by a software generated
interrupt, and a Linux one (`example-linux/`), where it runs in a cgroup that
is frozen. A third way to use the bare-metal program, without the interpreter,
only measures what interference costs. This directory models all three,
model-checks small instances with TLC, and proves the safety properties with
TLAPS for all values of the constants.

## Inventory

| Component | Source | State it keeps | Operations | Interaction |
|---|---|---|---|---|
| Intruder gate | `example/src/{main,intruder,excps,spin_utils}.rs` | `INTRUDER_BREAK`, `GIC_DRIVER` and its spin lock, each core's DAIF, SGI 3 in the GIC | `start_core`, `lock_irq`, `intruder_break`, `intruder_cont`, `intruder_main`, `Excps::irq` | core 0 stores the flag and sends the SGI; handlers on cores 1-3 poll the flag |
| Mitigation loop | `example/src/{wasm_runner,mitigator,main}.rs` | sums `acc_t`, `acc_f`, the suspended run, `run_idx`, `refuel_idx` | `WasmRunner::run`, `Mitigator::mitigate` | calls the interpreter, then the gate; the record goes to the UART or STM |
| SimpleAlloc | `simple-alloc/src/lib.rs` | start and end of what is left of its buffer | `init`, `alloc`, `dealloc` | global allocator of the bare-metal program and, inside the guest, of the Wasm program |
| Attack loop | `example/src/intruder.rs:162-195` | position of its generator | one write per iteration | a step of an intruder core that is not stopped; `SET_MASK` selects the cache sets it writes to |
| Native runner | `example/src/native_runner.rs` | kernel, `run_idx` | `run` | measures only: without fuel `mitigate` returns at once |
| PerfMon, SysTick | `example/src/{perfmon,systick}.rs` | hardware counters | start, stop, read, wait | read by the runners |
| UART, STM, Logger, platforms | `example/src/{uart,stm,logger}.rs`, `plat/` | drivers behind locks | write, flush | output of core 0 |
| Linux controller | `example-linux/src/*.rs` | cgroups, child processes, shared ring, channel, two cancellation tokens | `add_process`, `run`, freeze, unfreeze, kill, remove | three tasks on one thread; children send records through the ring |
| Linux wasm-runner | `example-linux/wasm-runner/src/main.rs` | loop indices, sums of a run | `run_wasm`, `mitigate`, `log` | each record carries a decision for the controller |
| wasm-payload | `wasm-payload/src` | allocator, kernel (kept between runs of one instance) | `main`, `Kernel2MM::run` | guest of both runners |
| analyzer, analysis.py, notebooks, trace32, nix, build scripts | | | record types, plots, set-up | not part of the running system |

### What is hard in it

- **Interleavings on bare metal.** Store, SGI, acknowledge, end of interrupt
  and the load of the flag run on different cores, at any speed, from the
  first second on. SGIs merge while pending; the flag may be set and cleared
  many times while a core is in its handler; the handler takes the same lock
  as everybody else.
- **Numbers.** `mitigate` divides before it multiplies and subtracts unsigned
  values whose order the program does not guarantee; the allocator adds sizes
  to addresses.
- **What crosses a boundary.** Residual fuel at a refuel, sums at the end of
  a run, the flag (bare metal) or the frozen group (Linux) from one run to
  the next.
- **Measurement.** 32-bit counters overflow within a run, pairs are chained,
  the clock's frequency is truncated, and the kernel starts from memory that
  was never written and feeds its result back into its input.
- **Failures on Linux.** Every call in the controller may fail, and `?`, drop
  handlers and ignored join results decide what is left running. Children
  fork, exit, block on a full ring, are frozen and are killed at any moment. A
  kill may fail or take longer than the second it is given; what it was meant
  for may survive, and the panic that follows drops what is behind it without
  killing it.

The complete list, each at its line, is `hazards` in `PROJECT.json`.

### What makes each component correct

- Gate: a break that was ordered stops every intruder core, a core that is
  stopped goes on only when the order is lifted, no core can be interrupted
  under the lock that its handler takes.
- Mitigation loop: fuel is accounted exactly; a decision agrees with the
  schedule up to the rounding of the arithmetic; a run that is feasible
  without interference misses its target by a bounded time only; no break
  lasts for ever.
- Allocator: blocks are aligned, inside the buffer and disjoint.
- Linux controller: records arrive in order and complete, and their decisions
  are carried out; no process, child of a process or cgroup survives the
  controller, unless the drop of a cgroup panics; it ends when it should.
- Linux wasm-runner: fuel is accounted per run, decisions match the budget,
  and no run inherits the group's state from another, the delay of the ring
  apart.
- Native runner, counters, clock: what is reported is exact or missing, a
  duration is never too short, and memory that was never written costs the
  result none of the factors of two that it has to have.
- Attack loop: it writes to all ways of the selected sets, for ever, and
  nowhere else.

## Modules

| Module | Models |
|---|---|
| `AbstractGate` | the promise of the gate: an order is given, broadcast and lifted; told cores stop, stopped cores resume when nothing stands |
| `IntruderGate`, `IntruderGateProofs` | the gate in detail, for `N` intruder cores; implements `AbstractGate` |
| `MitigationLoop`, `MitigationLoopProofs` | core 0's loop: quanta, records, `mitigate`'s arithmetic |
| `BareMetal`, `BareMetalProofs` | the loop with quanta executed unit of fuel by unit of fuel, next to cores that stop and resume as `AbstractGate` allows; implements `MitigationLoop` |
| `SimpleAlloc`, `SimpleAllocProofs` | the bump allocator |
| `RecordPipe` | the promise of the record pipe: what comes out is a prefix of what went in, and all of it if nothing breaks |
| `LinuxRunner`, `LinuxRunnerProofs` | the controller's tasks, its children and cgroups, the record pipe in detail; implements `RecordPipe` and `OrderQueue` |
| `OrderQueue` | what the two Linux processes expect of each other: decisions wait in a queue of limited length and are carried out one by one |
| `LinuxMitigator`, `LinuxMitigatorProofs` | the wasm-runner process and the ring its decisions pass through |
| `Binary`, `BinaryTheorems` | powers of two and the conjunction with a mask, by recursion, and what they compute |
| `NativeLoop` | the native runner with counters, clock and the kernel's arithmetic |
| `AttackLoop` | an intruder's address sequence and mask |
| `NativeSystem`, `NativeProofs` | the two composed: the example without the interpreter |
| `MCLinuxRunner`, `MCLinuxMitigator`, `MCNativeSystem` | values of constants that a cfg cannot write |

How they fit together: `IntruderGate` implements `AbstractGate`, `BareMetal`
is `MitigationLoop` composed with `AbstractGate`, and implements
`MitigationLoop` again, so that the bound on the overshoot, proved of the loop,
is one on the system; its gate is `AbstractGate`'s own actions. On
Linux the interface of the two processes is the ring, and `OrderQueue` its
specification: `LinuxMitigator` takes the controller's steps from it
(`CarryOut`, `End`), and `LinuxRunner` implements it (`KeepsOrders`, proved as
`ControllerObeys`; that decisions are carried out at all is
`DecisionsApplied`). `NativeSystem` extends both of its parts, which extend
`Binary`.

The definitions whose comment begins with "Mutant" are plausible mistakes in
the code. No specification uses them; `PROJECT.json` says which definition
each replaces to show that a property can fail.

### IntruderGate

`pc[c]` is the place of core `c` in its program, `stage[c]` its progress in
`lock_irq` (before the lock, spinning, holding it). `lock_irq` is two actions
of its own, `LockEnter` (save DAIF, mask) and `LockAcquire`; the closure, the
drop of the guard and the restored DAIF are one step (`LockExit` inside the
action that does the closure's work), because everything in between happens
under the lock with interrupts masked, and no other core reads what the
closure writes without the lock. The exception is the GIC itself, which may
signal during the closure of `intruder_break`; the signal can be taken only
after `sgiPending` is set, which is that step. DAIF starts masked and core 0
never unmasks it.

`intruder_break` is two steps, `Break` (the store) and `SendSgi`, so that a
handler may read the flag between them. `Cont` is one. They are enabled
whenever core 0 is between two quanta; `MitigationLoop` decides which
happens. The GIC, PSCI and the exception entry are external: an SGI stays
pending until its core acknowledges it, merges with a pending one, is not
signalled while active, and a core may take a spurious interrupt. CPU_ON and
the state poll may fail at any call; the poll then counts the core as
started, as the code does.

Memory is sequentially consistent in the model. The flag is stored with
Release and loaded with Acquire in a loop; the store and the SGI write are
separated by the lock's acquire and by whatever barrier the GIC driver
issues. That a core which takes the SGI also sees the store is therefore an
assumption on the driver, not a result.

### MitigationLoop

One action is a quantum: `OutOfFuel` (the run is suspended, its unused fuel
dropped, the next quantum gets `fuel_amount` again) or `Finished` (the sums
and `refuel_idx` restart). The guest is the environment. A quantum may leave
any of `Residues` unused, all of `FuelAmount` included: the interpreter stops
before an instruction that costs more than is left, be it the quantum's first.
A unit of fuel takes up to `QuietTpf` ticks while the intruders are stopped and
`BusyTpf` otherwise, and `Grain` ticks make a microsecond, as the code measures
in microseconds what takes a fraction of one. To that each quantum adds the
`Overhead` of entering and leaving the interpreter, and the clock, which is
read twice, less than a microsecond of rounding (`Jitter`). Cores do not stop
the moment they are told: after a new order they may cost up to `StopLoss`
more, spread over the quanta that follow.

`Mitigate` has `mitigate`'s integer arithmetic with u64 as arithmetic modulo
`Word`. A division by zero, when a run has not consumed anything yet, panics in
every build. Where the unsigned subtraction leaves its range the outcome
depends on the build, so both are possible: a panic (`MitigatePanic`) or the
wrapped value.

Run 0 needs `FirstRunFuel`, because the guest's `main` initialises the kernel
once; every other run needs `RunFuel`. Time between quanta (the decision, the
UART) is not part of `acc_t` in the code and not part of the model. The
timestamp and the counters of `PerfMon` only label records and are left out.

### BareMetal

Here a quantum is executed unit of fuel by unit of fuel (`Execute`), and a
unit takes up to `QuietTpf` only while all cores are stopped. `told` and
`stopped` are those of `AbstractGate`; `sending` separates the store from the
SGI. `EndQuantum` is the return of `WasmRunner::run`, and `Measured` what the
clock may show for the quantum's ticks. The refinement mapping is
the identity on `MitigationLoop`'s variables, and `used`, `spent` and `lost`
are the part of its quantum that is done.

One assumption is about time and cannot come from the gate, whose steps have no
duration: from a new order to the stop of the last core, core 0 executes no
more units than `StopLoss` pays for (the guard `lost + UnitLoss <= loss` of
`Execute`). The cores have only to take one interrupt by then. That they take
it at all, and that none goes on before the order is lifted, is checked and
proved: `OrderReachesAll` says that when the guarded program is resumed every
core is stopped or has the broadcast before it, also one that was about to
resume from an earlier order.

### SimpleAlloc

`init`, `alloc` with `align_offset` and wrapping addresses, the panic when
full, `dealloc` that does nothing. `blocks` is a history variable: the blocks
handed out, in order.

### LinuxRunner

The runtime is single-threaded (`flavor = "current_thread"`), so a task is
undisturbed from one `await` to the next: that is one action here. `mainPc`
follows `main` and `Runner::run`, `foo` and `out` are the states of the two
spawned tasks. The three hand-over points of the pipe are `ring` (shared
memory), `fooMsg` (the forwarder, waiting in `tx.send`) and `chan`. Errors are
steps of their own: `SetupFails`, `SpawnFails`, `SelectMissing`,
`KillTask`'s second disjunct, `FooFails`, `OutWriteFails`. What is dropped on
each way out is in the action: the forwarder owns the cgroups once it is
spawned, tasks are killed on drop, a forwarder that still runs when `main`
returns is dropped with the runtime.

`stale` are cgroups that a controller left which died without running its
drop handlers: the restart after a crash. `forked` are processes that have
children of their own. `cpu` records the binding each process inherits.

`DropCGroups` is the case that each cgroup is killed, found empty within the
second that `CGroup::kill` waits, and removed. `DropFails` is the other one:
`remove` fails on one of the cgroups (its `cgroup.kill` is missing or cannot be
written, it is still populated after the second, or its directory stays) and
`drop` panics. Any of what is in that cgroup may survive, and the cgroups
behind it in the map are never dropped: what is in them is killed by nobody and
may stay frozen. All of these are `leaked`.

Where `run` returns early it drops the children, which kills them on drop
(`kill_on_drop`) and ignores an error: any subset of them may survive, the one
whose `kill` has just failed among them. They stay in their cgroups, which is
why the cgroups must be dropped after them: `ReturnError` leaves them with the
forwarder, `SpawnFails` drops them next.

Where the panic of `DropFails` goes depends on who drops: in `SetupFails` and
`SpawnFails` it ends `main`, in the forwarder (`FooEnd`) only that task, and as
`main` returns (`AwaitWriter`) the runtime swallows it. A panic of the forwarder
reaches nobody: `run` ignores it and `main` may return success. `Contained` and
`NothingLeftBehind` say what can be relied upon: whatever else fails, a
survivor is in a leaked cgroup, and there is none unless the drop of a cgroup
has panicked.

A record is sent atomically. `written` is what was handed to the `BufWriter`;
that its last flush may fail unnoticed is a hazard listed without a property.

`RecordPipe` is the abstract specification of the pipe. The refinement maps
`state` to `PipeState`: broken once a task of it has failed, closed when `main`
has returned. For `OrderQueue` the pending decisions are those in the ring
(`Decisions`), `frozen` is whether the group they name is, and the controller
has ended when its forwarder has. What the model does in one step, to receive a
record and to carry out its decision, the forwarder does without an `await` in
between but not at once: a record in its hands is one place more, which is why
`RingCap` of `LinuxMitigator` counts it.

### LinuxMitigator

The three nested loops of `main` (fuel, budget, repetition), the record of
cycle 0, and one action per quantum. `rec` holds the last record and so the
run's `fuel_cycle`, `acc_t` and `acc_f` (a u32, modulo `FuelWord`). `pending`
are the decisions sent and not yet carried out, at most `RingCap`, as a sender
waits for a place in the ring. What happens to them is `OrderQueue`'s:
`Apply` is the controller carrying out the oldest one, at any time, and
`ControllerEnds` its end or its forwarder's, after which the process soon waits
for ever, if it is not killed. `frozen` is the group's state, `Ordered` what it
will be when nothing is pending. As on bare metal a quantum may consume
nothing; if that is a run's first, `mitigate` divides by zero, and the process
ends (`RunFails`).

### NativeLoop, AttackLoop, NativeSystem

`NativeLoop` follows `NativeRunner::run` (`BeginRun`, the two loops of the
kernel, `EndRun`) and the rest of `main`'s loop (`Deliver`), where `mitigate`
returns early because there is no fuel. Elements are numbers below
`pow2[Bits]` with wrapping arithmetic, the innermost loop (`InnerLoop`) is a
recursive function of its counter, `tmp` starts as any matrix, and the clock and the
counters advance during each loop of the kernel by any of `Loads`. `PerfMon`'s
counter 1 counts the overflows of counter 0, and `ok` and `chain` decide which
counts are reported. `from`, `caused` and `evens` are history variables:
the tick at which the run began, the events since, and how many even factors
have been drawn.

`AttackLoop` is one core's generator with the mask as a set of bits
(`AndBits` of `Binary`). Cores share
nothing in it, so that one core with any index stands for all.
`NativeSystem` interleaves the two; an intruder takes a step only while
`intruderBreak` is false.

`KernelDecays` states a property of the workload that follows from the result
replacing `a`: every even factor drawn doubles all elements, so that after as
many as an element has bits (eight in the code, on average after eight runs)
the kernel multiplies zeros for ever. `tmp`'s uninitialised memory changes none
of this; that it does not reach the result in any other way is not stated. The
duration of the kernel does not depend on its data, so that this is no finding,
but the record of a long series is one of zeros.

## Runs

| Run | Instance | Shows |
|---|---|---|
| `gate_safety` | `N = 3`, no fairness | types; interrupts only in the attack loop; no break lost; every step is a step of `AbstractGate` |
| `gate_liveness` | `N = 2`, fair | breaks and releases take effect; the fair gate implements the fair promise |
| `mitigation` | 20 units in quanta of 4, target 17 us, two ticks to a microsecond, rates 1 and 4 ticks, loss 2, overhead 1, up to 8 suspensions, fair | accounting, soundness of both decisions, bounded overshoot, no break for ever |
| `bare_metal` | 2 cores, 5 units in quanta of 2, target 4 us, two ticks to a microsecond, rates 1 and 3 ticks, loss 2, overhead 1, up to 6 suspensions | orders reach all cores; every step is a step of `MitigationLoop` |
| `mitigation_underflow` | same | violation: the first run's fuel exceeds `total_fuel` |
| `simple_alloc` | buffer of 14 bytes at address 5 | blocks in the buffer, aligned, disjoint |
| `linux_runner` | 2 processes, 3 primaries, any stale cgroups, 3 records, buffers of 2 and 1 | containment, nothing left behind, nothing lost, completeness, the pipe's promise, decisions carried out in order; with kills and drops that fail |
| `linux_runner_liveness` | same, 2 records, buffers of 1, fair | the controller ends; decisions are carried out; an intact pipe delivers |
| `linux_missing_primary` | primary not configured, fair | violation: the error is never reported |
| `linux_affinity` | 2 processes, 2 CPUs | violation: both on one CPU |
| `linux_mitigator` | fuel 3 and none; budgets 4, 0 and none; 2 repetitions; a ring of 2; up to 4 suspensions; a controller that may end | accounting, freeze exactly over the budget, modes hold after the ring's delay, records in order |
| `native_system` | 2x2 matrices of 2-bit elements, 2-bit counters, 9 ticks to 4 microseconds, 2 runs; 3 cores, a cache of 4 sets and 4 ways, 3 masks, fair | counts and durations, the kernel's decay whatever was in memory, attacks confined and on every selected line for ever |

### Bounds, and why they are enough

- `gate_safety` has the three intruders of the code. `gate_liveness` has two:
  enough for contention between intruders and with core 0, and the theorems
  hold for all `N`. Nothing else in the gate is unbounded.
- `mitigation`: five or more quanta to a run allow every pattern of interfered
  and quiet quanta before, at and after the point where the target is missed;
  run 0 needs three more units than `TotalFuel`, so that the underflow can
  happen; residues exercise refuelling, and a quantum that consumes nothing.
  As such a quantum may come at any time, `MaxRefuels` bounds the suspensions
  of a run, with room for those of a run that makes progress and some that do
  not. `Grain = 2` and `NsPerUs = 2` make clock and both integer divisions
  round. `Word` is larger than any product of these constants, but
  not than a wrapped difference, so that wrapping is visible.
  `runIdx` counts no further than 1, as all runs after the first are alike.
  The instance meets `Feasible`, as the program can: with a target of
  106575211 us for 1179239671 units a quiet unit may take 90.376 ns. The quanta
  under a break take 89.9 to 90.4 ns in `mitigation-1022-10000000-2.txt`, which
  meets it; in `mitigation-1022-10000000-3.txt` most take 91.1 to 91.8 ns, and
  no mitigation could bring those runs to their target.
- `bare_metal`: two cores, so that one may be stopped while the other has only
  been told or just been released; three or more quanta to a run, so that an
  order's loss can be spread over two of them and an order follow a release.
- `simple_alloc`: a start that is not aligned, sizes 1 to 5 with alignments
  1, 2 and 8, and a size that can never fit; up to nine blocks fill the
  buffer, so that exact fit and padding past the end occur.
- `linux_runner`: three records are enough to have one in each of the ring,
  the forwarder and the channel at a time; `RingCap`, `ChanCap` and `MaxSent`
  are the bounds (4 KiB, 4096 and none in the code).
  Two groups suffice for a drop that kills one and leaks the other.
- `linux_mitigator`: a run of seven units at three per quantum takes three to
  five quanta, more than the ring's two places; `MaxCycles` leaves room for a
  quantum that consumes nothing. The budget lies inside the
  possible averages; `FuelWord` is the least that holds a run's fuel.
- `native_system`: the loads let a run overflow nothing, the lower counter, the
  single one, or the pair; five ticks are not a whole number of microseconds;
  four even factors fit two runs, twice as many as an element has bits. The
  generators of cores 1 to 3 have periods of 32, 16 and 32 of the 64 offsets
  (524288, 262144 and 524288 of 1048576 in the code), with the code's factor.
  The code's own cache is too large for TLC; that its sequences meet each of the
  16384 lines was computed outside TLA+.

### Fairness, and why the code justifies it

`IntruderGate`: all cores run, so each of their steps is weakly fair, and an
interrupt that the GIC signals to an unmasked core is taken. The spin lock has
no queue, hence strong fairness of `LockAcquire`: holders need it for a few
register accesses, and core 0 asks for it at most once per quantum. What core
0 decides, and when, is not assumed; `ContTakesEffect` is therefore about
orders that are lifted for good.

`MitigationLoop`: core 0 does nothing but its loop, so that one of its steps is
taken whenever there is one (`FairSpec`); which one, and that the program fails,
is left open. `BreakEnds` excepts a program that has reached the bound on its
suspensions, which stands for one that makes no progress, and a panic.

`LinuxRunner`: each of the three tasks is weakly fair, since the runtime polls
ready tasks in turn and the forwarder yields when the ring is empty. Processes,
ctrl-c and failures are under no fairness. The writer's fairness does not force
its failure, nor the forwarder's, unless the writer is already gone.

`NativeSystem`: `IntruderStep` is weakly fair, since a core that is not stopped
goes on. Core 0 is under no fairness: `AttackReachesEachLine` must hold also
when the kernel never returns.

`ShutsDown` excepts a child that cannot be killed (`killFailed`): the same
path through `?` as in `linux_missing_primary` then leaves `main` waiting.

## Findings

1. `mitigator.rs:26`: `total_fuel - acc_f` underflows in the first run, whose
   fuel (1182320419 in the recorded traces) exceeds the configured
   1179239671. Run `mitigation_underflow`.
2. `runner.rs:132`: with a primary that is not configured the error never
   reaches the user; the program hangs. Run `linux_missing_primary`.
3. `command_ext.rs:32`: `cpu_core` binds the controller, so that all children
   run on the CPU of the command added last. Run `linux_affinity`.

## Proofs

No theorem uses fairness, and all hold for every value of the constants that the
named assumptions admit; a few name a further condition.

**Gate** (`GateAssumption`: `N` is a positive natural number). The properties
are not inductive: that a break is not lost depends on the core's place in the
handler against the SGI's state, and that no interrupt arrives under the lock
depends on what `lock_irq` has saved. The invariant `IInv` adds, for each place
in the program, what DAIF and the saved DAIF are, where a lock site can be,
when the SGI is active, and which cores have not been started. `TypeCorrect`,
`NoIrqUnderLock` and `BreakNeverLost` follow from it. `GateImplementsPromise`
maps each action to an action of `AbstractGate` or a stutter: `Break` to
`Give`, `SendSgi` to `Broadcast`, `Cont` to `Lift`, `Acknowledge` to `Stop`,
`LeavePark` to `Resume`.

**Mitigation loop** (`MitigationAssumption`). `TypeCorrect` and `FuelCorrect`
need nothing more. The decisions are about the numbers of `mitigate` only if
no product leaves u64: `Wide` says how large `Word` must be for that, and
`BreakSound`, `ContSound`, `FirstQuantumLifts` and `OvershootIsBounded` assume
it. The overshoot is bounded because a run that is not ordered to break was on
schedule, up to rounding, after its last quantum: the rounding, a product of
the fuel done and the fuel left, is at most a quarter of `TotalFuel` over
`NsPerUs`. To it come the interference of one quantum and what the intruders
still cost after the order, `StopLoss`: a break that is lifted and given anew
within a run starts from a run that is on schedule again, so that the losses
of several orders do not add up. What does add up is `Jitter`, once per
quantum. The condition is `Feasible`, which the code's constants meet for quiet
rates up to 90.376 ns per unit, as ticks may be as fine as they need to be.
With the code's numbers the rounding is 0.29 s, more than `hyst`; the bound is
what the arithmetic guarantees, not what a typical trace shows.

`FirstQuantumLifts` is the safety half of `BreakEnds`. The flag outlives the
run: one that comes too late hands its break on to the next, whose first
decision lifts it, if the first quantum was undisturbed and the quiet rate
leaves room in the schedule for the quantum's `Jitter` (`Roomy`).

Run `mitigation_underflow` shows that `NoUnderflow` is not an invariant. What
is true of it is proved: `UnderflowInFirstRunOnly`, as a record never counts
more than its run needs, and `TotalCoversAllRuns`, the condition under which
the subtraction is safe, that `total_fuel` covers the first run as well.

**Bare metal** (the same assumption; any set of cores). `SysInv` adds to the
loop's invariant what the quantum under way has cost: under a break all its
time beyond `QuietTpf` per unit is booked as lost, within the loss allowed for.
`SysImplementsLoop` then shows each end of a quantum to be one of
`MitigationLoop`'s, and `SysOvershootIsBounded` carries the bound over.
`OrdersReachAll` is about core 0 and the gate: a core that is released late
is either stopped or has the next broadcast before it.

**Allocator** (`AllocAssumption`: the buffer lies in the lower half of the
address space and layouts are those of `Layout`). `TypeCorrect` says that the
next address stays between the buffer's start and its end, so that a padded
block cannot wrap past it; `BlocksFit` and `BlocksNeverOverlap` rest on it.
`RefusesOnlyWhatDoesNotFit` is the other direction, that a request is refused
for no other reason than a lack of room: the padding leads to the next aligned
address and not beyond it.

**Controller** (`RunnerAssumption`: the Wasm process is configured and the two
buffers hold at least one record; its group may be the one it freezes). The
inductive invariant has these parts beyond `TypeOK` and `Contained`. `Control`:
the cgroups of all added processes are there until the forwarder takes them
over, none is left at the exit, and they are leaked only when all of them are
dropped. With `Contained`, which holds across every failure, a survivor at the
exit can only be in a leaked cgroup. `Holding`: the forwarder holds one record
exactly while it waits to send it. `Pipe` says `NothingLost` place by place,
the form in which a step disturbs only the buffers it touches; its half behind
the forwarder (`Behind`) holds also when the pipe has broken, its other half
(`Ahead`) only before. `Ending`: the forwarder ends on its own only after every
kill has succeeded and on an empty ring, and the writer only on an empty
channel. `LeakPanics`: a leak goes with a panic of `main` or the forwarder.
`AlwaysContained`, `LeavesNothing`, `PipeIsLossless` and `WritesAll` follow,
and `PipeKeepsPromise` shows every step to be one of `RecordPipe` or a stutter:
`Send` is `Put`, `OutRecv` is `Get`, a task's failure is `Break` and the return
of `main` is `Close`.

`ControllerObeys` is the refinement of `OrderQueue` (`KeepsOrders`), on the
condition that a process is configured in the group that the decisions name. It
needs `Owning`: while the forwarder runs, no process is without its cgroup, so
that no decision finds the group missing, and nothing is frozen before it runs.

`Binding` relates the controller's CPU to its processes: it is that of the
process added last, and every process spawned has it. `AllOnOneCpu` is the
general form of what run `linux_affinity` shows on an example, and
`BoundIfOneCpuConfigured` the case in which the configuration is kept to.

**Wasm-runner** (`BudgetAssumption`: lists that are not empty, a run's fuel
that fits u32). `Runs`: the last record belongs to the run under way, or to an
earlier one while the next has not started. `Sums`: its sums and what the run
still needs make up the run, however many cycles it takes. `Decided`: its
decision is the one for its average. `Prevails`: the last decision sent is the
one that will hold, whatever is pending, as long as the controller has not
ended. `InRing`: the decisions pending from this run suit its budget, and the
group does once the run's first decision has left the ring. `FuelCorrect`,
`FreezesByAverage` and `ModesAreKept` follow, and `RecordsAreOrdered` from
`Runs` and `Sums` step by step. That the controller does what `Apply` and
`ControllerEnds` say is `ControllerObeys`.

**Example without the interpreter** (`NativeAssumption`, with a clock of a
megahertz or more, and `AttackAssumption`). There is an invariant for each part.

- Measurements: `Counted` relates the chained pair to the number of times the
  lower counter has overflowed, `Reported` the update to the counters, `Timed`
  the run's begin to the clock. `CountsAreExact` and `DurationsHold` follow by
  the uniqueness of quotient and remainder.
- Kernel: `KernelInv` is `KernelDecays` with the types of the matrices. A loop
  of the kernel sums products of which each has the factors of two of its input
  and of the factor drawn; the sum begins at zero, so that `tmp`'s old contents
  cost no factor; and the remainder that wrapping takes keeps them,
  as there are no more than an element has bits. `KernelAlwaysDecays` follows,
  and `KernelEndsInZeros`: once the last factor is drawn, zeros for ever.
- Attack: `AttackInv` says that the offset is in the buffer and the last store
  where `AttackConfined` says. The masked address has the tag of the address,
  which confines it to a buffer that is aligned to its size, and a set index
  that is the conjunction with the mask bit by bit. `AttackAlwaysConfined`.
- `ClockInv`: a time in microseconds that was read of the clock does not exceed
  its ticks, and a run that has begun is one of `MaxRuns`. With it
  `SystemTypeCorrect` follows from the other three.

**Induction.** What the inner loop and the conjunction compute for every number
of rows and bits takes induction, and an induction theorem about an arbitrary
predicate is out of the provers' reach. `BinaryTheorems` therefore proves
induction for sets of numbers from the well-foundedness of `<` (`Induction`),
and from that, for a function that is defined by recursion, that one
exists and satisfies its equation (`RecursionUpTo`, `RecursionNat`): a recursive
definition alone only chooses a function that does if there is one.
`Pow2Unfolds`, `AndBitsUnfolds` and, in `NativeProofs`, `AccumulateUnfolds` are
the instances, `Pow2Sum`, `AndBitsBits` and `AccumulateDivides` what follows by
induction from them.

Only model-checked are the properties that need fairness, which are out of the
provers' reach: `BreakTakesEffect`, `ContTakesEffect`, `KeepsPromise`,
`BreakEnds`, `ShutsDown`, `DecisionsApplied`, `KeepsPipeFairly` and
`AttackReachesEachLine`. Every invariant and every action property of a passing
run is proved. Of the refinements, the safety parts of `KeepsPromise` and
`KeepsPipeFairly` are proved (`KeepsPromiseSafely`, `KeepsPipe`).

## Not modelled, and why

- The Wasm interpreter, the GIC, PSCI, cgroups, tokio and ipmpsc are external
  and appear as what the code expects of them.
- Page tables, caches, UART, STM, the platforms' drivers: set-up and output
  without influence on a decision. What `uart.rs` loses when the transmitter
  is full is a hazard without a property.
- The cycle counter, which is a single counter of 64 bits, and `wait_us`, which
  only delays the first quantum.
- `CGroup::is_frozen` and `get_pids`, which the controller does not call.
- A wasm-runner without `--ipc`: it prints its records and decides nothing.
- The analysis scripts and the notebooks.

## Plan

Done, in this order: `AbstractGate` and `IntruderGate` with proofs, the
mitigation loop with proofs, the allocator with proofs, the Linux controller
with proofs, the Linux process; then `BareMetal` and the time cores need to
stop, kills that time out and leaks in the controller, `RecordPipe` and the
refinement, the ring's delay and the proofs of `LinuxMitigator`, and the
example without the interpreter with the proofs of its measurements.

Since then: the proofs of the kernel's decay and of the attack's confinement with
the induction they need, so that no invariant is left to the model checker
alone; the exact extent of two of the findings; `OrderQueue` between the two
Linux processes; survivors of failed kills; rates in fractions of a microsecond
and quanta that consume nothing; the end of a break across runs.

Next:

1. A bound on a run's average on Linux, from `OrderQueue` and the rates of a
   frozen and a running group, as `BareMetal` has one on the overshoot.
2. That the offsets an odd core index lets the generator reach include every
   line, for all powers of two: the safety half of `AttackReachesEachLine`.
3. A finer end of the output: the `BufWriter`'s flush as a step that may fail.
