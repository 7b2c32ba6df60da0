------------------------ MODULE LinuxMitigatorProofs ------------------------
(***************************************************************************)
(* Proofs about LinuxMitigator, for all lists of amounts and budgets, all  *)
(* numbers of repetitions and every size of the ring.                      *)
(*                                                                         *)
(* The inductive invariant says of the last record that it belongs to the  *)
(* run that is under way (Runs), that its sums add up (Sums) and that its  *)
(* decision is the one for its average (Decided); of the decisions that    *)
(* are pending that the last one will prevail (Prevails), and that those   *)
(* of the present run keep the group, once the run's first decision has    *)
(* been carried out, as its budget wants it (InRing). The last two hold    *)
(* until the controller ends.                                              *)
(***************************************************************************)
EXTENDS LinuxMitigator, TLAPS

Runs ==
  /\ rec.run # <<0, 0, 0>> =>
       rec.run \in (DOMAIN Fuels) \X (DOMAIN Wctpfs) \X (1 .. Count)
  /\ rec.run = <<0, 0, 0>> => pending = <<>>
  /\ phase = "start" => LexLess(rec.run, loopVars)
  /\ phase = "resume" => rec.run = loopVars /\ left > 0

Sums ==
  /\ rec.accF + left = RunFuel
  /\ MinTpf * rec.accF <= rec.accT

Decided ==
  Started /\ rec.cycle > 0 /\ Fuels[rec.run[1]] # None /\ Budget # None =>
    /\ rec.irq # "none"
    /\ rec.irq = "freeze" <=> rec.accT * PsPerNs >= (Budget + 1) * rec.accF

Prevails == ~ended /\ rec.irq # "none" => (Ordered <=> rec.irq = "freeze")

Measurable == MinTpf * PsPerNs > 0

(* What a record after the first of a run with budget w may decide, and    *)
(* the state f of the group that suits it.                                 *)
Suits(irq, w) ==
  /\ w = None => irq = "none"
  /\ w = 0 /\ Measurable => irq # "unfreeze"
Suited(f, w) ==
  /\ w = None => ~f
  /\ w = 0 /\ Measurable => f

(* The cycle of the record with the decision at x. *)
CycleAt(x) == rec.cycle - (Len(pending) - x)

InRing ==
  ~ended /\ Started =>
    /\ \A x \in DOMAIN pending :
         /\ CycleAt(x) = 0 => pending[x] = FirstIrq(Budget)
         /\ CycleAt(x) > 0 => Suits(pending[x], Budget)
    /\ Len(pending) <= rec.cycle => Suited(frozen, Budget)

IInv == TypeOK /\ Runs /\ Sums /\ Decided /\ Prevails /\ InRing
-----------------------------------------------------------------------------
LEMMA Facts ==
  /\ RunFuel \in Nat /\ RunFuel > 0 /\ FuelWord \in Nat /\ RunFuel < FuelWord
  /\ PsPerNs \in Nat /\ PsPerNs > 0 /\ MinTpf \in Nat /\ MaxTpf \in Nat
  /\ Count \in Nat /\ Count > 0 /\ RingCap \in Nat /\ RingCap > 0
  /\ None \notin Nat /\ None # 0
  /\ Fuels \in Seq(Nat \cup {None}) /\ Len(Fuels) \in Nat /\ Len(Fuels) > 0
  /\ DOMAIN Fuels = 1 .. Len(Fuels)
  /\ Wctpfs \in Seq(Nat \cup {None}) /\ Len(Wctpfs) \in Nat /\ Len(Wctpfs) > 0
  /\ DOMAIN Wctpfs = 1 .. Len(Wctpfs)
<1>1. Fuels \in Seq(Nat \cup {None}) /\ Fuels # <<>>
  BY BudgetAssumption
<1>2. Wctpfs \in Seq(Nat \cup {None}) /\ Wctpfs # <<>>
  BY BudgetAssumption
<1>3. /\ Len(Fuels) \in Nat /\ Len(Fuels) > 0 /\ DOMAIN Fuels = 1 .. Len(Fuels)
  BY <1>1
<1>4. /\ Len(Wctpfs) \in Nat /\ Len(Wctpfs) > 0
      /\ DOMAIN Wctpfs = 1 .. Len(Wctpfs)
  BY <1>2
<1>5. None # 0
  BY BudgetAssumption
<1>6. QED
  BY <1>1, <1>2, <1>3, <1>4, <1>5, BudgetAssumption

(* A quotient exceeds w when the dividend reaches the next multiple. *)
LEMMA DivOver ==
  ASSUME NEW x \in Nat, NEW f \in Nat \ {0}, NEW w \in Nat
  PROVE  x \div f > w <=> x >= (w + 1) * f
<1> DEFINE q == x \div f
<1>1. q \in Nat /\ f * q <= x /\ x < f * (q + 1)
  OBVIOUS
<1>2. CASE q > w
  <2>1. q >= w + 1
    BY <1>1, <1>2
  <2>2. f * q >= f * (w + 1)
    BY <1>1, <2>1
  <2>3. f * (w + 1) = (w + 1) * f
    OBVIOUS
  <2>4. x >= (w + 1) * f
    BY <1>1, <2>2, <2>3
  <2>5. QED
    BY <1>2, <2>4
<1>3. CASE q <= w
  <2>1. f * (q + 1) <= f * (w + 1)
    BY <1>1, <1>3
  <2>2. f * (w + 1) = (w + 1) * f
    OBVIOUS
  <2>3. x < (w + 1) * f
    BY <1>1, <2>1, <2>2
  <2>4. QED
    BY <1>1, <1>3, <2>3
<1>4. QED
  BY <1>1, <1>2, <1>3

(* A decision that is appended prevails. *)
LEMMA AppendOrdered ==
  ASSUME NEW irq \in Irqs, pending \in Seq(Irqs), irq # "none",
         pending' = Append(pending, irq), frozen' = frozen
  PROVE  Ordered' <=> irq = "freeze"
<1> DEFINE n == Len(pending) + 1
<1>1. /\ DOMAIN pending' = 1 .. n /\ Len(pending') = n /\ n \in 1 .. n
      /\ pending'[n] = irq
  OBVIOUS
<1>2. ASSUME irq = "freeze" PROVE Ordered'
  <2>1. n + 1 .. Len(pending') = {}
    BY <1>1
  <2>2. QED
    BY <1>1, <1>2, <2>1 DEF Ordered
<1>3. ASSUME irq = "unfreeze" PROVE ~Ordered'
  <2>1. pending'[n] # "none" /\ pending'[n] # "freeze"
    BY <1>1, <1>3
  <2>2. ASSUME NEW x \in 1 .. n, pending'[x] = "freeze"
        PROVE  n \in x + 1 .. Len(pending')
    BY <1>1, <2>1, <2>2
  <2>3. QED
    BY <1>1, <2>1, <2>2 DEF Ordered
<1>4. QED
  BY <1>2, <1>3 DEF Irqs

(* What a decision makes of the group. *)
Obey(irq, f) == irq = "freeze" \/ (irq = "none" /\ f)

(* Carrying out the next decision leaves the outcome as it is. *)
LEMMA ApplyOrdered ==
  ASSUME pending \in Seq(Irqs), pending # <<>>, frozen \in BOOLEAN,
         frozen' = Obey(Head(pending), frozen), pending' = Tail(pending)
  PROVE  Ordered' <=> Ordered
<1> DEFINE n == Len(pending)
<1>1. n \in Nat /\ n > 0 /\ DOMAIN pending = 1 .. n
  OBVIOUS
<1>2. /\ Len(pending') = n - 1 /\ DOMAIN pending' = 1 .. n - 1
      /\ \A x \in 1 .. n - 1 : pending'[x] = pending[x + 1]
  BY <1>1
<1>3. Head(pending) = pending[1] /\ pending[1] \in Irqs
  BY <1>1
<1>4. ASSUME Ordered PROVE Ordered'
  <2>1. CASE frozen /\ \A x \in 1 .. n : pending[x] = "none"
    <3>1. frozen'
      <4>1. Head(pending) = "none"
        BY <1>1, <1>3, <2>1
      <4>2. Obey(Head(pending), frozen)
        BY <2>1, <4>1 DEF Obey
      <4>3. QED
        BY <4>2, Zenon
    <3>2. \A x \in 1 .. n - 1 : pending'[x] = "none"
      BY <1>1, <1>2, <2>1
    <3>3. QED
      BY <1>2, <3>1, <3>2 DEF Ordered
  <2>2. ASSUME NEW x \in 1 .. n, pending[x] = "freeze",
               \A y \in x + 1 .. n : pending[y] = "none"
        PROVE  Ordered'
    <3>1. CASE x = 1
      <4>1. frozen'
        BY <1>3, <2>2, <3>1 DEF Obey
      <4>2. \A y \in 1 .. n - 1 : pending'[y] = "none"
        BY <1>1, <1>2, <2>2, <3>1
      <4>3. QED
        BY <1>2, <4>1, <4>2 DEF Ordered
    <3>2. CASE x > 1
      <4>1. x - 1 \in 1 .. n - 1 /\ pending'[x - 1] = pending[x]
        BY <1>1, <1>2, <3>2
      <4>2. ASSUME NEW y \in (x - 1) + 1 .. n - 1 PROVE pending'[y] = "none"
        <5>1. /\ y \in 1 .. n - 1 /\ y + 1 \in x + 1 .. n
              /\ pending'[y] = pending[y + 1]
          BY <1>1, <1>2, <3>2
        <5>2. QED
          BY <2>2, <5>1
      <4>3. QED
        BY <1>2, <2>2, <4>1, <4>2 DEF Ordered
    <3>3. QED
      BY <1>1, <3>1, <3>2
  <2>3. QED
    BY <1>1, <1>4, <2>1, <2>2 DEF Ordered
<1>5. ASSUME Ordered' PROVE Ordered
  <2>1. CASE frozen' /\ \A x \in 1 .. n - 1 : pending'[x] = "none"
    <3>1. \A y \in 2 .. n : pending[y] = "none"
      <4>1. ASSUME NEW y \in 2 .. n PROVE pending[y] = "none"
        <5>1. y - 1 \in 1 .. n - 1 /\ pending'[y - 1] = pending[y]
          BY <1>1, <1>2
        <5>2. QED
          BY <2>1, <5>1
      <4>2. QED
        BY <4>1
    <3>2. CASE pending[1] = "freeze"
      <4>1. 1 \in 1 .. n /\ 1 + 1 .. n = 2 .. n
        BY <1>1
      <4>2. QED
        BY <1>1, <3>1, <3>2, <4>1 DEF Ordered
    <3>3. CASE pending[1] = "none" /\ frozen
      <4>1. \A y \in 1 .. n : pending[y] = "none"
        BY <1>1, <3>1, <3>3
      <4>2. QED
        BY <1>1, <3>3, <4>1 DEF Ordered
    <3>4. QED
      BY <1>3, <2>1, <3>2, <3>3 DEF Obey
  <2>2. ASSUME NEW x \in 1 .. n - 1, pending'[x] = "freeze",
               \A y \in x + 1 .. n - 1 : pending'[y] = "none"
        PROVE  Ordered
    <3>1. x + 1 \in 1 .. n /\ pending[x + 1] = "freeze"
      BY <1>1, <1>2, <2>2
    <3>2. ASSUME NEW y \in (x + 1) + 1 .. n PROVE pending[y] = "none"
      <4>1. y - 1 \in x + 1 .. n - 1 /\ pending'[y - 1] = pending[y]
        BY <1>1, <1>2
      <4>2. QED
        BY <2>2, <4>1
    <3>3. QED
      BY <1>1, <3>1, <3>2 DEF Ordered
  <2>3. QED
    BY <1>2, <1>5, <2>1, <2>2 DEF Ordered
<1>6. QED
  BY <1>4, <1>5
-----------------------------------------------------------------------------
LEMMA InitInvariant == Init => IInv
<1> SUFFICES ASSUME Init PROVE IInv
  OBVIOUS
<1>1. TypeOK
  <2>1. /\ i \in DOMAIN Fuels /\ j \in DOMAIN Wctpfs /\ k \in 1 .. Count
        /\ left \in 0 .. RunFuel
    BY Facts DEF Init
  <2>2. rec \in [run : Nat \X Nat \X Nat, cycle : Nat, accT : Nat,
                 accF : 0 .. RunFuel, irq : Irqs]
    BY Facts DEF Init, Irqs
  <2>3. pending \in Seq(Irqs) /\ Len(pending) <= RingCap
    BY Facts DEF Init
  <2>4. QED
    BY <2>1, <2>2, <2>3 DEF Init, TypeOK
<1>2. Runs /\ Sums
  BY Facts DEF Init, Runs, Sums, LexLess, loopVars
<1>3. Decided /\ Prevails /\ InRing
  BY DEF Init, Decided, Prevails, InRing, Started
<1>4. QED
  BY <1>1, <1>2, <1>3 DEF IInv

(* What a record leaves to show about the invariant's last three parts. *)
LEMMA LogInvariant ==
  ASSUME IInv, NEW cycle \in Nat, NEW t \in Nat, NEW f \in 0 .. RunFuel,
         NEW irq \in Irqs, Log(cycle, t, f, irq)
  PROVE  /\ rec'.run = loopVars /\ rec'.cycle = cycle /\ rec'.accT = t
         /\ rec'.accF = f /\ rec'.irq = irq
         /\ Started' /\ Budget' = Wctpfs[j]
         /\ frozen' = frozen /\ frozen' \in BOOLEAN
         /\ ended' = ended /\ ended' \in BOOLEAN
         /\ pending' \in Seq(Irqs) /\ Len(pending') <= RingCap
         /\ pending' # <<>>
         /\ Prevails'
<1>1. /\ rec'.run = loopVars /\ rec'.cycle = cycle /\ rec'.accT = t
      /\ rec'.accF = f /\ rec'.irq = irq
  BY DEF Log
<1>2. i \in Nat \ {0}
  <2>1. i \in DOMAIN Fuels
    BY DEF IInv, TypeOK
  <2>2. DOMAIN Fuels = 1 .. Len(Fuels) /\ Len(Fuels) \in Nat
    BY Facts
  <2>3. QED
    BY <2>1, <2>2
<1>3. Started' /\ Budget' = Wctpfs[j]
  BY <1>1, <1>2 DEF Started, Budget, loopVars
<1>4. /\ frozen' = frozen /\ frozen' \in BOOLEAN
      /\ ended' = ended /\ ended' \in BOOLEAN
  BY DEF Log, IInv, TypeOK
<1>5. /\ pending' \in Seq(Irqs) /\ Len(pending') <= RingCap /\ pending' # <<>>
      /\ pending' = Append(pending, irq)
  <2>1. pending \in Seq(Irqs) /\ Len(pending) < RingCap
        /\ pending' = Append(pending, irq)
    BY DEF Log, IInv, TypeOK
  <2>2. Len(pending) \in Nat /\ Len(pending') = Len(pending) + 1
        /\ pending' \in Seq(Irqs) /\ pending' # <<>>
    BY <2>1
  <2>3. RingCap \in Nat
    BY Facts
  <2>4. QED
    BY <2>1, <2>2, <2>3
<1>6. Prevails'
  <2>1. pending \in Seq(Irqs)
    BY DEF IInv, TypeOK
  <2>2. irq # "none" => (Ordered' <=> irq = "freeze")
    BY <1>4, <1>5, <2>1, AppendOrdered
  <2>3. QED
    BY <1>1, <2>2 DEF Prevails
<1>7. QED
  BY <1>1, <1>3, <1>4, <1>5, <1>6

LEMMA StartRunInvariant == IInv /\ StartRun => IInv'
<1> SUFFICES ASSUME IInv, StartRun PROVE IInv'
  OBVIOUS
<1> DEFINE irq == FirstIrq(Wctpfs[j])
<1>1. irq \in Irqs
  BY DEF FirstIrq, Irqs
<1>2. Log(0, 0, 0, irq) /\ left' = RunFuel /\ phase' = "resume"
      /\ UNCHANGED loopVars
  BY DEF StartRun
<1> HIDE DEF irq
<1>3. /\ rec'.run = loopVars /\ rec'.cycle = 0 /\ rec'.accT = 0
      /\ rec'.accF = 0 /\ rec'.irq = irq
      /\ Started' /\ Budget' = Wctpfs[j]
      /\ frozen' = frozen /\ frozen' \in BOOLEAN
      /\ ended' = ended /\ ended' \in BOOLEAN
      /\ pending' \in Seq(Irqs) /\ Len(pending') <= RingCap /\ pending' # <<>>
      /\ Prevails'
  <2>1. 0 \in Nat /\ 0 \in 0 .. RunFuel
    BY Facts
  <2>2. QED
    BY <1>1, <1>2, <2>1, LogInvariant
<1>4. i' = i /\ j' = j /\ k' = k
  BY <1>2 DEF loopVars
<1>5. loopVars \in (DOMAIN Fuels) \X (DOMAIN Wctpfs) \X (1 .. Count)
  BY DEF loopVars, IInv, TypeOK
<1>6. TypeOK'
  <2>1. loopVars \in Nat \X Nat \X Nat
    BY <1>5, Facts
  <2>2. rec' = [run |-> loopVars, cycle |-> 0, accT |-> 0, accF |-> 0,
                irq |-> irq]
    BY <1>2 DEF Log
  <2>3. rec' \in [run : Nat \X Nat \X Nat, cycle : Nat, accT : Nat,
                  accF : 0 .. RunFuel, irq : Irqs]
    BY <1>1, <2>1, <2>2, Facts
  <2>4. QED
    BY <1>2, <1>3, <1>4, <2>3, Facts DEF TypeOK, IInv
<1>7. Runs'
  <2>1. loopVars' = loopVars
    BY <1>2
  <2>2. QED
    BY <1>2, <1>3, <1>5, <2>1, Facts DEF Runs, Started
<1>8. Sums' /\ Decided'
  BY <1>2, <1>3, Facts DEF Sums, Decided
<1>9. InRing'
  <2>1. Len(pending') = Len(pending) + 1 /\ Len(pending) \in Nat
        /\ DOMAIN pending' = 1 .. Len(pending) + 1
        /\ pending'[Len(pending) + 1] = irq
    BY <1>2, <1>1 DEF Log, IInv, TypeOK
  <2>2. ASSUME NEW x \in DOMAIN pending'
        PROVE  /\ CycleAt(x)' = 0 => pending'[x] = irq
               /\ ~ CycleAt(x)' > 0
    BY <1>3, <2>1 DEF CycleAt
  <2>3. ~ Len(pending') <= rec'.cycle
    BY <1>3, <2>1
  <2>4. QED
    BY <1>3, <2>2, <2>3 DEF InRing, irq
<1>10. QED
  BY <1>3, <1>6, <1>7, <1>8, <1>9 DEF IInv

(* What a record after a quantum leaves to show. *)
LEMMA QuantumInvariant ==
  ASSUME IInv, phase = "resume", NEW df \in 0 .. left, Quantum(df)
  PROVE  /\ left' = left - df /\ rec'.run = loopVars
         /\ rec'.cycle = rec.cycle + 1 /\ rec'.accF = rec.accF + df
         /\ Started' /\ Budget' = Wctpfs[j]
         /\ rec' \in [run : Nat \X Nat \X Nat, cycle : Nat, accT : Nat,
                      accF : 0 .. RunFuel, irq : Irqs]
         /\ left' \in 0 .. RunFuel
         /\ frozen' \in BOOLEAN /\ ended' \in BOOLEAN
         /\ pending' \in Seq(Irqs) /\ Len(pending') <= RingCap
         /\ pending' # <<>>
         /\ Sums'
         /\ Fuels[i] # None /\ Wctpfs[j] # None =>
              /\ rec'.irq # "none"
              /\ rec'.irq = "freeze"
                   <=> rec'.accT * PsPerNs >= (Wctpfs[j] + 1) * rec'.accF
         /\ Prevails' /\ InRing'
<1>1. /\ left \in 0 .. RunFuel /\ rec.cycle \in Nat /\ rec.accT \in Nat
      /\ rec.accF \in Nat /\ rec.run = loopVars
  BY DEF IInv, TypeOK, Runs
<1>2. /\ rec.accF + left = RunFuel
      /\ MinTpf * rec.accF <= rec.accT
  BY DEF IInv, Sums
<1>3. RunFuel \in Nat /\ FuelWord \in Nat /\ RunFuel < FuelWord
      /\ MinTpf \in Nat /\ MaxTpf \in Nat /\ PsPerNs \in Nat
  BY Facts
<1>4. df \in Nat /\ df <= left
  BY <1>1
<1> DEFINE f == rec.accF + df
<1>5. f \in 0 .. RunFuel /\ f % FuelWord = f
  <2>1. f \in 0 .. RunFuel
    BY <1>1, <1>2, <1>3, <1>4
  <2>2. ASSUME NEW x \in Nat, x < FuelWord PROVE x % FuelWord = x
    BY <1>3, <2>2
  <2> HIDE DEF f
  <2>3. f \in Nat /\ f < FuelWord
    BY <1>3, <2>1
  <2>4. QED
    BY <2>1, <2>2, <2>3
<1>6. PICK dt \in MinTpf * df .. MaxTpf * (df + 1) :
        /\ Fuels[i] # None => f > 0
        /\ Log(rec.cycle + 1, rec.accT + dt, f,
               Decide(Wctpfs[j], rec.accT + dt, f))
        /\ left' = left - df
  BY <1>5 DEF Quantum
<1> DEFINE t == rec.accT + dt
<1> DEFINE irq == Decide(Wctpfs[j], t, f)
<1>7. dt \in Nat /\ dt >= MinTpf * df
  <2>1. MinTpf * df \in Nat /\ MaxTpf * (df + 1) \in Nat
    BY <1>3, <1>4
  <2>2. QED
    BY <1>6, <2>1
<1>8. t \in Nat /\ MinTpf * f <= t
  <2>1. MinTpf * f = MinTpf * rec.accF + MinTpf * df
    BY <1>1, <1>3, <1>4
  <2>2. MinTpf * rec.accF \in Nat /\ MinTpf * df \in Nat
    BY <1>1, <1>3, <1>4
  <2>3. QED
    BY <1>1, <1>2, <1>7, <2>1, <2>2
<1>9. irq \in Irqs
  BY DEF Decide, Irqs
<1>10. ASSUME NEW w \in Nat, w = Wctpfs[j], Fuels[i] # None
       PROVE  /\ irq # "none"
              /\ irq = "freeze" <=> t * PsPerNs >= (w + 1) * f
  <2>1. w # None
    BY Facts
  <2>2. irq = IF (t * PsPerNs) \div f > w THEN "freeze" ELSE "unfreeze"
    BY <1>10, <2>1 DEF Decide, AvgTpf
  <2>3. t * PsPerNs \in Nat /\ f \in Nat \ {0}
    BY <1>3, <1>5, <1>6, <1>8, <1>10
  <2>4. (t * PsPerNs) \div f > w <=> t * PsPerNs >= (w + 1) * f
    BY <2>3, DivOver
  <2>5. QED
    BY <2>2, <2>4
<1> HIDE DEF irq, t, f
<1>11. /\ rec'.run = loopVars /\ rec'.cycle = rec.cycle + 1
       /\ rec'.accT = t /\ rec'.accF = f /\ rec'.irq = irq
       /\ Started' /\ Budget' = Wctpfs[j]
       /\ frozen' = frozen /\ frozen' \in BOOLEAN
       /\ ended' = ended /\ ended' \in BOOLEAN
       /\ pending' \in Seq(Irqs) /\ Len(pending') <= RingCap
       /\ pending' # <<>>
       /\ Prevails'
  <2>1. rec.cycle + 1 \in Nat
    BY <1>1
  <2>2. Log(rec.cycle + 1, t, f, irq)
    BY <1>6 DEF t, irq
  <2>3. QED
    BY <1>5, <1>8, <1>9, <2>1, <2>2, LogInvariant
<1>12. Wctpfs[j] = None \/ Wctpfs[j] \in Nat
  <2>1. j \in DOMAIN Wctpfs
    BY DEF IInv, TypeOK
  <2>2. Wctpfs \in Seq(Nat \cup {None})
    BY Facts
  <2>3. QED
    BY <2>1, <2>2
<1>13. Fuels[i] # None /\ Wctpfs[j] # None =>
         /\ rec'.irq # "none"
         /\ rec'.irq = "freeze"
              <=> rec'.accT * PsPerNs >= (Wctpfs[j] + 1) * rec'.accF
  BY <1>10, <1>11, <1>12
<1>14. Sums' /\ left' \in 0 .. RunFuel
  <2>1. left' = left - df
    BY <1>6
  <2>2. rec'.accF + left' = RunFuel
    BY <1>1, <1>2, <1>3, <1>4, <1>11, <2>1 DEF f
  <2>3. MinTpf * rec'.accF <= rec'.accT
    BY <1>8, <1>11
  <2>4. left' \in 0 .. RunFuel
    BY <1>1, <1>3, <1>4, <2>1
  <2>5. QED
    BY <2>2, <2>3, <2>4 DEF Sums
<1>15. rec' \in [run : Nat \X Nat \X Nat, cycle : Nat, accT : Nat,
                 accF : 0 .. RunFuel, irq : Irqs]
  <2>1. rec' = [run |-> loopVars, cycle |-> rec.cycle + 1, accT |-> t,
                accF |-> f, irq |-> irq]
    BY <1>6 DEF Log, t, irq
  <2>2. loopVars \in Nat \X Nat \X Nat
    BY <1>1 DEF IInv, TypeOK
  <2>3. rec.cycle + 1 \in Nat
    BY <1>1
  <2>4. QED
    BY <1>5, <1>8, <1>9, <2>1, <2>2, <2>3
<1>16. Suits(irq, Wctpfs[j])
  <2>1. CASE Wctpfs[j] = None
    <3>1. irq = "none" /\ None # 0
      BY <2>1, Facts DEF irq, Decide
    <3>2. QED
      BY <2>1, <3>1 DEF Suits
  <2>2. CASE Wctpfs[j] = 0 /\ Measurable
    <3>1. Wctpfs[j] # None
      BY <2>2, Facts
    <3>2. CASE Fuels[i] = None
      <4>1. irq = "none"
        BY <3>2 DEF irq, Decide
      <4>2. QED
        BY <3>1, <4>1 DEF Suits
    <3>3. CASE Fuels[i] # None
      <4>1. irq = "freeze" <=> t * PsPerNs >= (0 + 1) * f
        BY <1>10, <2>2, <3>3
      <4>2. MinTpf > 0 /\ PsPerNs > 0
        BY <1>3, <2>2 DEF Measurable
      <4>3. MinTpf * f >= f
        BY <1>3, <1>5, <4>2
      <4>4. t * PsPerNs >= t
        BY <1>3, <1>8, <4>2
      <4>5. MinTpf * f \in Nat /\ t * PsPerNs \in Nat /\ f \in Nat
        BY <1>3, <1>5, <1>8
      <4>6. t * PsPerNs >= (0 + 1) * f
        BY <1>8, <4>3, <4>4, <4>5
      <4>7. QED
        BY <3>1, <4>1, <4>6 DEF Suits
    <3>4. QED
      BY <3>2, <3>3
  <2>3. QED
    BY <2>1, <2>2 DEF Suits
<1>17. InRing'
  <2> SUFFICES ASSUME ~ended PROVE InRing'
    BY <1>11 DEF InRing
  <2> DEFINE n == Len(pending)
  <2>1. /\ n \in Nat /\ Len(pending') = n + 1 /\ DOMAIN pending = 1 .. n
        /\ DOMAIN pending' = 1 .. n + 1 /\ pending'[n + 1] = irq
        /\ \A x \in 1 .. n : pending'[x] = pending[x]
    <3>1. pending \in Seq(Irqs) /\ pending' = Append(pending, irq)
      BY <1>6 DEF Log, IInv, TypeOK, t, irq
    <3>2. QED
      BY <3>1, <1>9
  <2>2. Started /\ Budget = Wctpfs[j]
    <3>1. i \in Nat \ {0}
      <4>1. i \in DOMAIN Fuels
        BY DEF IInv, TypeOK
      <4>2. QED
        BY <4>1, Facts
    <3>2. QED
      BY <1>1, <3>1 DEF Started, Budget, loopVars
  <2>3. /\ \A x \in 1 .. n :
             /\ CycleAt(x) = 0 => pending[x] = FirstIrq(Wctpfs[j])
             /\ CycleAt(x) > 0 => Suits(pending[x], Wctpfs[j])
        /\ n <= rec.cycle => Suited(frozen, Wctpfs[j])
    BY <2>1, <2>2 DEF IInv, InRing
  <2>4. ASSUME NEW x \in 1 .. n + 1
        PROVE  /\ CycleAt(x)' = 0 => pending'[x] = FirstIrq(Wctpfs[j])
               /\ CycleAt(x)' > 0 => Suits(pending'[x], Wctpfs[j])
    <3>1. CASE x = n + 1
      <4>1. CycleAt(x)' = rec.cycle + 1
        BY <1>1, <1>11, <2>1, <3>1 DEF CycleAt
      <4>2. QED
        BY <1>1, <1>16, <2>1, <3>1, <4>1
    <3>2. CASE x \in 1 .. n
      <4>1. CycleAt(x)' = CycleAt(x) /\ pending'[x] = pending[x]
        BY <1>1, <1>11, <2>1, <3>2 DEF CycleAt
      <4>2. QED
        BY <2>3, <3>2, <4>1
    <3>3. QED
      BY <2>1, <3>1, <3>2
  <2>5. Len(pending') <= rec'.cycle => Suited(frozen', Wctpfs[j])
    BY <1>1, <1>11, <2>1, <2>3
  <2>6. QED
    BY <1>11, <2>1, <2>4, <2>5 DEF InRing
<1>18. rec'.accF = rec.accF + df
  BY <1>11 DEF f
<1>19. left' = left - df
  BY <1>6
<1>20. QED
  BY <1>11, <1>13, <1>14, <1>15, <1>17, <1>18, <1>19

LEMMA ResumableQuantum ==
  ASSUME IInv, Resumable
  PROVE  \E df \in 0 .. left : df < left /\ Quantum(df)
<1>1. /\ i \in DOMAIN Fuels /\ left \in 0 .. RunFuel
      /\ left > Fuels[i] /\ Fuels[i] # None
  BY DEF IInv, TypeOK, Resumable
<1>2. Fuels[i] \in Nat /\ Fuels[i] # 0 /\ Residues \subseteq 0 .. Fuels[i]
  <2>1. Fuels \in Seq(Nat \cup {None})
    BY Facts
  <2>2. QED
    BY <1>1, <2>1, BudgetAssumption
<1>3. PICK residue \in Residues : Quantum(Fuels[i] - residue)
  BY DEF Resumable
<1>4. residue \in 0 .. Fuels[i] /\ left \in Nat
  BY <1>1, <1>2, <1>3, Facts
<1>5. Fuels[i] - residue \in 0 .. left /\ Fuels[i] - residue < left
  BY <1>1, <1>2, <1>4
<1>6. QED
  BY <1>3, <1>5

LEMMA ResumableInvariant == IInv /\ Resumable => IInv'
<1> SUFFICES ASSUME IInv, Resumable PROVE IInv'
  OBVIOUS
<1>1. phase = "resume" /\ phase' = phase /\ i' = i /\ j' = j /\ k' = k
  BY DEF Resumable, loopVars
<1>2. PICK df \in 0 .. left : df < left /\ Quantum(df)
  BY ResumableQuantum
<1>3. /\ left' = left - df /\ rec'.run = loopVars
      /\ Started' /\ Budget' = Wctpfs[j]
      /\ rec' \in [run : Nat \X Nat \X Nat, cycle : Nat, accT : Nat,
                   accF : 0 .. RunFuel, irq : Irqs]
      /\ left' \in 0 .. RunFuel
      /\ frozen' \in BOOLEAN /\ ended' \in BOOLEAN
      /\ pending' \in Seq(Irqs) /\ Len(pending') <= RingCap
      /\ pending' # <<>>
      /\ Sums'
      /\ Fuels[i] # None /\ Wctpfs[j] # None =>
           /\ rec'.irq # "none"
           /\ rec'.irq = "freeze"
                <=> rec'.accT * PsPerNs >= (Wctpfs[j] + 1) * rec'.accF
      /\ Prevails' /\ InRing'
  BY <1>1, <1>2, QuantumInvariant
<1>4. rec'.run[1] = i
  BY <1>3 DEF loopVars
<1>5. TypeOK'
  BY <1>1, <1>3 DEF TypeOK, IInv
<1>6. Runs'
  <2>1. loopVars \in (DOMAIN Fuels) \X (DOMAIN Wctpfs) \X (1 .. Count)
    BY DEF loopVars, IInv, TypeOK
  <2>2. left \in Nat /\ left' > 0
    BY <1>2, <1>3, Facts DEF IInv, TypeOK
  <2>3. loopVars' = loopVars
    BY <1>1 DEF loopVars
  <2>4. QED
    BY <1>1, <1>3, <2>1, <2>2, <2>3 DEF Runs, Started
<1>7. Decided'
  BY <1>3, <1>4 DEF Decided
<1>8. QED
  BY <1>3, <1>5, <1>6, <1>7 DEF IInv

(* The loops of main leave their places in order. *)
LEMMA NextRunLater ==
  ASSUME IInv, NextRun
  PROVE  /\ i' \in DOMAIN Fuels /\ j' \in DOMAIN Wctpfs /\ k' \in 1 .. Count
         /\ LexLess(loopVars, loopVars')
<1>1. /\ i \in 1 .. Len(Fuels) /\ j \in 1 .. Len(Wctpfs) /\ k \in 1 .. Count
      /\ Len(Fuels) \in Nat /\ Len(Wctpfs) \in Nat /\ Count \in Nat
      /\ Len(Wctpfs) > 0 /\ Count > 0
      /\ DOMAIN Fuels = 1 .. Len(Fuels) /\ DOMAIN Wctpfs = 1 .. Len(Wctpfs)
  BY Facts DEF IInv, TypeOK
<1>2. CASE k < Count /\ k' = k + 1 /\ UNCHANGED <<i, j>>
  BY <1>1, <1>2 DEF LexLess, loopVars
<1>3. CASE k = Count /\ j < Len(Wctpfs) /\ k' = 1 /\ j' = j + 1 /\ UNCHANGED i
  BY <1>1, <1>3 DEF LexLess, loopVars
<1>4. CASE /\ k = Count /\ j = Len(Wctpfs) /\ i < Len(Fuels)
           /\ k' = 1 /\ j' = 1 /\ i' = i + 1
  BY <1>1, <1>4 DEF LexLess, loopVars
<1>5. QED
  BY <1>2, <1>3, <1>4 DEF NextRun

LEMMA FinishedInvariant == IInv /\ Finished => IInv'
<1> SUFFICES ASSUME IInv, Finished PROVE IInv'
  OBVIOUS
<1>1. phase = "resume" /\ left > 0 /\ left \in Nat
  BY Facts DEF IInv, TypeOK, Runs, Finished
<1>2. left \in 0 .. left /\ Quantum(left)
  BY <1>1 DEF Finished
<1>3. /\ left' = left - left /\ rec'.run = loopVars
      /\ Started' /\ Budget' = Wctpfs[j]
      /\ rec' \in [run : Nat \X Nat \X Nat, cycle : Nat, accT : Nat,
                   accF : 0 .. RunFuel, irq : Irqs]
      /\ left' \in 0 .. RunFuel
      /\ frozen' \in BOOLEAN /\ ended' \in BOOLEAN
      /\ pending' \in Seq(Irqs) /\ Len(pending') <= RingCap
      /\ pending' # <<>>
      /\ Sums'
      /\ Fuels[i] # None /\ Wctpfs[j] # None =>
           /\ rec'.irq # "none"
           /\ rec'.irq = "freeze"
                <=> rec'.accT * PsPerNs >= (Wctpfs[j] + 1) * rec'.accF
      /\ Prevails' /\ InRing'
  BY <1>1, <1>2, QuantumInvariant
<1>4. rec'.run[1] = i
  BY <1>3 DEF loopVars
<1>5. loopVars \in (DOMAIN Fuels) \X (DOMAIN Wctpfs) \X (1 .. Count)
  BY DEF loopVars, IInv, TypeOK
<1>6. Decided'
  BY <1>3, <1>4 DEF Decided
<1>7. CASE NextRun /\ phase' = "start"
  <2>1. /\ i' \in DOMAIN Fuels /\ j' \in DOMAIN Wctpfs /\ k' \in 1 .. Count
        /\ LexLess(loopVars, loopVars')
    BY <1>7, NextRunLater
  <2>2. LexLess(rec.run, loopVars)' <=> LexLess(rec'.run, loopVars')
    BY DEF LexLess
  <2>3. Runs'
    BY <1>3, <1>5, <1>7, <2>1, <2>2 DEF Runs, Started
  <2>4. TypeOK'
    BY <1>3, <1>7, <2>1 DEF TypeOK
  <2>5. QED
    BY <1>3, <1>6, <2>3, <2>4 DEF IInv
<1>8. CASE LastRun /\ phase' = "done" /\ UNCHANGED loopVars
  <2>1. i' = i /\ j' = j /\ k' = k
    BY <1>8 DEF loopVars
  <2>2. Runs'
    BY <1>3, <1>5, <1>8 DEF Runs, Started
  <2>3. TypeOK'
    BY <1>3, <1>8, <2>1 DEF TypeOK, IInv
  <2>4. QED
    BY <1>3, <1>6, <2>2, <2>3 DEF IInv
<1>9. QED
  BY <1>7, <1>8 DEF Finished

LEMMA ApplyInvariant == IInv /\ Apply => IInv'
<1> SUFFICES ASSUME IInv, Apply PROVE IInv'
  OBVIOUS
<1> DEFINE n == Len(pending)
<1>1. /\ pending \in Seq(Irqs) /\ pending # <<>> /\ pending' = Tail(pending)
      /\ n <= RingCap /\ frozen \in BOOLEAN
      /\ frozen' = Obey(Head(pending), frozen)
      /\ ~ended /\ ended' = ended
      /\ rec' = rec /\ rec.cycle \in Nat /\ RingCap \in Nat
      /\ phase' = phase /\ i' = i /\ j' = j /\ k' = k /\ left' = left
  BY Facts DEF IInv, TypeOK, Apply, Queue!CarryOut, Obey, loopVars
<1>2. /\ n \in Nat /\ n > 0 /\ DOMAIN pending = 1 .. n
      /\ pending' \in Seq(Irqs) /\ Len(pending') = n - 1
      /\ DOMAIN pending' = 1 .. n - 1
      /\ \A x \in 1 .. n - 1 : pending'[x] = pending[x + 1]
      /\ Head(pending) = pending[1] /\ pending[1] \in Irqs
  BY <1>1
<1>3. frozen' \in BOOLEAN
  BY <1>1 DEF Obey
<1>4. TypeOK'
  BY <1>1, <1>2, <1>3 DEF TypeOK, IInv
<1>5. Runs'
  <2>1. rec.run # <<0, 0, 0>>
    BY <1>1 DEF IInv, Runs
  <2>2. loopVars' = loopVars
    BY <1>1 DEF loopVars
  <2>3. QED
    BY <1>1, <2>1, <2>2 DEF IInv, Runs, LexLess
<1>6. Sums' /\ Decided'
  BY <1>1 DEF IInv, Sums, Decided, Started, Budget
<1>7. Prevails'
  <2>1. Ordered' <=> Ordered
    BY <1>1, ApplyOrdered
  <2>2. QED
    BY <1>1, <2>1 DEF IInv, Prevails
<1>8. InRing'
  <2> SUFFICES ASSUME Started' PROVE InRing'
    BY DEF InRing
  <2>1. ~ended /\ ~ended' /\ Started /\ Budget' = Budget
    BY <1>1 DEF Started, Budget
  <2>2. /\ \A x \in 1 .. n :
             /\ CycleAt(x) = 0 => pending[x] = FirstIrq(Budget)
             /\ CycleAt(x) > 0 => Suits(pending[x], Budget)
        /\ n <= rec.cycle => Suited(frozen, Budget)
    BY <1>2, <2>1 DEF IInv, InRing
  <2>3. ASSUME NEW x \in 1 .. n - 1
        PROVE  /\ CycleAt(x)' = 0 => pending'[x] = FirstIrq(Budget')
               /\ CycleAt(x)' > 0 => Suits(pending'[x], Budget')
    <3>1. CycleAt(x)' = CycleAt(x + 1) /\ x + 1 \in 1 .. n
      BY <1>1, <1>2 DEF CycleAt
    <3>2. QED
      BY <1>2, <2>1, <2>2, <3>1
  <2>4. ASSUME n - 1 <= rec.cycle PROVE Suited(frozen', Budget)
    <3>1. CycleAt(1) = rec.cycle - (n - 1) /\ 1 \in 1 .. n
      BY <1>1, <1>2 DEF CycleAt
    <3>2. CASE n - 1 = rec.cycle
      <4>1. pending[1] = FirstIrq(Budget)
        BY <1>1, <1>2, <2>2, <3>1, <3>2
      <4>2. CASE Budget = 0
        <5>1. Head(pending) = "freeze"
          BY <1>2, <4>1, <4>2 DEF FirstIrq
        <5>2. Obey(Head(pending), frozen)
          BY <5>1 DEF Obey
        <5>3. frozen'
          BY <1>1, <5>2, Zenon
        <5>4. Budget # None
          BY <4>2, Facts
        <5>5. QED
          BY <5>3, <5>4 DEF Suited
      <4>3. CASE Budget # 0
        <5>1. Head(pending) = "unfreeze"
          BY <1>2, <4>1, <4>3 DEF FirstIrq
        <5>2. ~ Obey(Head(pending), frozen)
          BY <5>1 DEF Obey
        <5>3. ~ frozen'
          BY <1>1, <5>2, Zenon
        <5>4. QED
          BY <4>3, <5>3 DEF Suited
      <4>4. QED
        BY <4>2, <4>3
    <3>3. CASE n <= rec.cycle
      <4>1. Suits(pending[1], Budget) /\ Suited(frozen, Budget)
        BY <1>1, <1>2, <2>2, <3>1, <3>3
      <4>2. CASE Budget = None
        <5>1. Head(pending) = "none" /\ ~ frozen
          BY <1>2, <4>1, <4>2 DEF Suits, Suited
        <5>2. ~ Obey(Head(pending), frozen)
          BY <5>1 DEF Obey
        <5>3. ~ frozen' /\ Budget # 0
          BY <1>1, <4>2, <5>2, Facts, Zenon
        <5>4. QED
          BY <5>3 DEF Suited
      <4>3. CASE Budget = 0 /\ Measurable
        <5>1. Head(pending) \in {"freeze", "none"} /\ frozen
          BY <1>2, <4>1, <4>3 DEF Suits, Suited, Irqs
        <5>2. Obey(Head(pending), frozen)
          BY <5>1 DEF Obey
        <5>3. frozen'
          BY <1>1, <5>2, Zenon
        <5>4. Budget # None
          BY <4>3, Facts
        <5>5. QED
          BY <5>3, <5>4 DEF Suited
      <4>4. QED
        BY <4>2, <4>3 DEF Suited
    <3>4. QED
      BY <1>1, <1>2, <2>4, <3>2, <3>3
  <2>5. QED
    BY <1>1, <1>2, <2>1, <2>3, <2>4 DEF InRing
<1>9. QED
  BY <1>4, <1>5, <1>6, <1>7, <1>8 DEF IInv

LEMMA EndInvariant == IInv /\ ControllerEnds => IInv'
<1> SUFFICES ASSUME IInv, ControllerEnds PROVE IInv'
  OBVIOUS
<1>1. /\ UNCHANGED <<phase, i, j, k, left, rec, pending>>
      /\ ended' = TRUE /\ frozen' \in {FALSE, frozen}
  BY DEF ControllerEnds, Queue!End, loopVars
<1>2. TypeOK'
  BY <1>1 DEF IInv, TypeOK
<1>3. Runs' /\ Sums' /\ Decided'
  BY <1>1 DEF IInv, Runs, Sums, Decided, Started, Budget, LexLess, loopVars
<1>4. Prevails' /\ InRing'
  BY <1>1 DEF Prevails, InRing
<1> QED
  BY <1>2, <1>3, <1>4 DEF IInv

LEMMA StepInvariant == IInv /\ [Next]_vars => IInv'
<1> SUFFICES ASSUME IInv, [Next]_vars PROVE IInv'
  OBVIOUS
<1>1. CASE StartRun
  BY <1>1, StartRunInvariant
<1>2. CASE Resumable
  BY <1>2, ResumableInvariant
<1>3. CASE Finished
  BY <1>3, FinishedInvariant
<1>4. CASE Apply
  BY <1>4, ApplyInvariant
<1>5. CASE \/ RunFails
           \/ UNCHANGED vars
  <2>1. /\ UNCHANGED <<i, j, k, left, rec, pending, frozen, ended>>
        /\ phase' \in {phase, "failed"}
    BY <1>5 DEF RunFails, vars, loopVars
  <2>2. TypeOK' /\ Runs' /\ Sums'
    BY <2>1 DEF IInv, TypeOK, Runs, Sums, LexLess, loopVars
  <2>3. Decided' /\ Prevails' /\ InRing'
    BY <2>1 DEF IInv, Decided, Prevails, InRing, Started, Budget, Ordered,
                CycleAt
  <2>4. QED
    BY <2>2, <2>3 DEF IInv
<1>6. CASE Exited
  BY <1>5, <1>6 DEF Exited
<1>7. CASE ControllerEnds
  BY <1>7, EndInvariant
<1>8. QED
  BY <1>1, <1>2, <1>3, <1>4, <1>5, <1>6, <1>7 DEF Next

(* What every reachable state satisfies. *)
THEOREM Invariance == Spec => []IInv
<1>1. QED
  BY InitInvariant, StepInvariant, PTL DEF Spec

(* The variables keep their types: what is pending fits the ring, and no   *)
(* record counts more fuel than a run has.                                 *)
THEOREM TypeCorrect == Spec => []TypeOK
<1>1. IInv => TypeOK
  BY DEF IInv
<1>2. QED
  BY <1>1, Invariance, PTL

(* Each record accounts for all fuel of its run. *)
THEOREM FuelCorrect == Spec => []FuelAccounted
<1>1. IInv => FuelAccounted
  BY DEF IInv, Sums, FuelAccounted
<1>2. QED
  BY <1>1, Invariance, PTL

(* The last decision sent freezes the group exactly if the run's average   *)
(* is over the budget, and it prevails while there is a controller.        *)
THEOREM FreezesByAverage == Spec => []FreezesOverBudgetOnly
<1>1. IInv => FreezesOverBudgetOnly
  BY DEF IInv, Decided, Prevails, FreezesOverBudgetOnly
<1>2. QED
  BY <1>1, Invariance, PTL

(* A run has its own mode after as many cycles as the ring has places. *)
THEOREM ModesAreKept == Spec => []ModesHold
<1>1. ASSUME IInv PROVE ModesHold
  <2> SUFFICES ASSUME ~ended, Started, rec.cycle >= RingCap
               PROVE  /\ Budget = None => ~frozen
                      /\ Budget = 0 /\ MinTpf * PsPerNs > 0 => frozen
    BY DEF ModesHold
  <2>1. /\ Len(pending) \in Nat /\ rec.cycle \in Nat /\ RingCap \in Nat
        /\ Len(pending) <= RingCap
    BY <1>1, Facts DEF IInv, TypeOK
  <2>2. Suited(frozen, Budget)
    BY <1>1, <2>1 DEF IInv, InRing
  <2>3. QED
    BY <2>2 DEF Suited, Measurable
<1>2. QED
  BY <1>1, Invariance, PTL

(* Records are sent in the order of the experiment, and fuel never falls   *)
(* within a run.                                                           *)
THEOREM RecordsAreOrdered == Spec => RecordsInOrder
<1> DEFINE Ordering ==
      rec' # rec =>
        \/ rec'.run = rec.run /\ rec'.cycle = rec.cycle + 1
           /\ rec'.accF >= rec.accF
        \/ LexLess(rec.run, rec'.run) /\ rec'.cycle = 0
<1>1. ASSUME IInv, [Next]_vars PROVE [Ordering]_vars
  <2>1. CASE StartRun
    <3>1. LexLess(rec.run, loopVars) /\ rec'.run = loopVars /\ rec'.cycle = 0
      BY <1>1, <2>1 DEF IInv, Runs, StartRun, Log
    <3>2. QED
      BY <3>1
  <2>2. ASSUME NEW df \in 0 .. left, phase = "resume", Quantum(df)
        PROVE  Ordering
    <3>1. rec'.run = loopVars /\ rec'.cycle = rec.cycle + 1
          /\ rec'.accF = rec.accF + df
      BY <1>1, <2>2, QuantumInvariant
    <3>2. rec.run = loopVars /\ rec.accF \in Nat /\ df \in Nat
      BY <1>1, <2>2, Facts DEF IInv, Runs, TypeOK
    <3>3. QED
      BY <3>1, <3>2
  <2>3. CASE Resumable
    BY <1>1, <2>2, <2>3, ResumableQuantum DEF Resumable
  <2>4. CASE Finished
    <3>1. phase = "resume" /\ left > 0 /\ left \in Nat /\ Quantum(left)
      BY <1>1, <2>4, Facts DEF IInv, TypeOK, Runs, Finished
    <3>2. QED
      BY <2>2, <3>1
  <2>5. CASE RunFails \/ Apply \/ ControllerEnds \/ Exited \/ UNCHANGED vars
    BY <2>5 DEF RunFails, Apply, ControllerEnds, Exited, vars
  <2>6. QED
    BY <1>1, <2>1, <2>3, <2>4, <2>5 DEF Next
<1>2. QED
  BY <1>1, Invariance, PTL DEF Spec, RecordsInOrder
=============================================================================
