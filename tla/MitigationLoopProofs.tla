------------------------ MODULE MitigationLoopProofs ------------------------
(***************************************************************************)
(* Proofs about MitigationLoop for every run length, quantum, deadline,    *)
(* hysteresis and rate: fuel accounting, what a decision says of the run's *)
(* schedule, and the bound on the overshoot of the target.                 *)
(*                                                                         *)
(* The arithmetic is done in three lemmas about natural numbers. The       *)
(* invariant adds that the flag is the decision on the last record, and    *)
(* for every moment of a run the time it still has.                        *)
(***************************************************************************)
EXTENDS MitigationLoop, TLAPS

(* More microseconds than any record counts for each unit of its fuel. *)
MaxTpf == BusyTpf + (MaxRefuels + 1) * (Overhead + 1)

(* The words are wide enough for any estimate made with f <= TotalFuel. *)
Wide == MaxTpf * NsPerUs * TotalFuel < Word /\ TotalFuel < Word

(* Time is bounded by the fuel it was spent on and the quanta it took. *)
RateBounded ==
  /\ accT * Grain <= BusyTpf * accF + refuelIdx * Jitter
  /\ update.accT * Grain <=
       BusyTpf * update.accF + (update.refuel + 1) * Jitter

(* A suspended run is the one the last record is about; after that record  *)
(* the mitigator has been called.                                          *)
RecordCurrent ==
  /\ resumeable =>
       /\ update.run = runIdx /\ ~update.last
       /\ update.accT = accT /\ update.accF = accF
       /\ update.refuel + 1 = refuelIdx
  /\ ~resumeable /\ 0 < update.accF => update.last /\ runIdx = 1
  /\ ~resumeable /\ update.accF = 0 => runIdx = 0
  /\ update.last => ~resumeable

(* The flag is the last decision, and intruders that run on stop nowhere. *)
FlagIsDecision ==
  /\ phase = "run" /\ update.accF # 0 =>
       (intruderBreak <=> Late(update.accT, update.accF))
  /\ ~intruderBreak => loss = 0

IInv ==
  /\ TypeOK
  /\ FuelAccounted
  /\ RateBounded
  /\ RecordCurrent
  /\ FlagIsDecision
-----------------------------------------------------------------------------
LEMMA Constants ==
  /\ FuelAmount \in Nat /\ 0 < FuelAmount
  /\ TotalFuel \in Nat /\ 0 < TotalFuel
  /\ RunFuel \in Nat /\ 0 < RunFuel
  /\ FirstRunFuel \in Nat /\ 0 < FirstRunFuel
  /\ Deadline \in Nat /\ Hyst \in Nat /\ Target \in Nat
  /\ QuietTpf \in Nat /\ BusyTpf \in Nat /\ QuietTpf <= BusyTpf
  /\ StopLoss \in Nat /\ Overhead \in Nat /\ MaxRefuels \in Nat
  /\ Grain \in Nat /\ 0 < Grain /\ Jitter \in Nat
  /\ NsPerUs \in Nat /\ 0 < NsPerUs
  /\ Word \in Nat /\ 0 < Word
  /\ \A r \in {0, 1} : Needed(r) \in Nat /\ 0 < Needed(r)
BY MitigationAssumption DEF Target, Needed, Jitter

(* No quantum consumes more fuel than it was given. *)
LEMMA QuantumFuel ==
  ASSUME NEW residue \in Residues
  PROVE  FuelAmount - residue \in 0 .. FuelAmount
BY MitigationAssumption

(* A division cuts off. *)
LEMMA Cut ==
  ASSUME NEW n \in Nat, NEW g \in Nat, 0 < g
  PROVE  n \div g \in Nat /\ (n \div g) * g <= n
OBVIOUS

(* No quantum takes longer than it does among running intruders. *)
LEMMA QuantumTime ==
  ASSUME NEW df \in Nat, NEW x \in Loss(df), NEW dt \in Time(df, x),
         loss \in Nat
  PROVE  /\ dt \in Nat /\ x \in 0 .. loss
         /\ dt * Grain <= BusyTpf * df + Jitter
         /\ intruderBreak => dt * Grain <= QuietTpf * df + x + Jitter
<1> USE Constants
<1>1. (BusyTpf - QuietTpf) * df = BusyTpf * df - QuietTpf * df
  OBVIOUS
<1>2. BusyTpf * df \in Nat /\ QuietTpf * df \in Nat
  OBVIOUS
<1>3. x \in 0 .. loss /\ x <= (BusyTpf - QuietTpf) * df
  BY DEF Loss
<1>4. ASSUME NEW n \in Nat, dt \in 0 .. n \div Grain
      PROVE  dt \in Nat /\ dt * Grain <= n
  <2>1. n \div Grain \in Nat /\ (n \div Grain) * Grain <= n
    BY Cut
  <2>2. dt \in Nat /\ dt <= n \div Grain
    BY <1>4, <2>1
  <2>3. dt * Grain <= (n \div Grain) * Grain
    BY <2>1, <2>2
  <2> QED
    BY <2>1, <2>2, <2>3
<1>5. CASE intruderBreak
  <2>1. QuietTpf * df + x + Jitter \in Nat
    BY <1>2, <1>3
  <2>2. dt \in 0 .. (QuietTpf * df + x + Jitter) \div Grain
    BY <1>5 DEF Time
  <2>3. dt \in Nat /\ dt * Grain <= QuietTpf * df + x + Jitter
    BY <1>4, <2>1, <2>2
  <2> QED
    BY <1>1, <1>2, <1>3, <2>3
<1>6. CASE ~intruderBreak
  <2>1. BusyTpf * df + Jitter \in Nat
    BY <1>2
  <2>2. dt \in 0 .. (BusyTpf * df + Jitter) \div Grain
    BY <1>6 DEF Time
  <2>3. dt \in Nat /\ dt * Grain <= BusyTpf * df + Jitter
    BY <1>4, <2>1, <2>2
  <2> QED
    BY <1>3, <1>6, <2>3
<1> QED
  BY <1>5, <1>6

(* A decision not to break, T microseconds and F of N units into a run:    *)
(* the rest of the run at Q of G ticks a unit ends at most the rounding    *)
(* error behind the target B.                                              *)
LEMMA OnSchedule ==
  ASSUME NEW T \in Nat, NEW F \in Nat, NEW N \in Nat, NEW M \in Nat,
         NEW B \in Nat, NEW Q \in Nat, NEW G \in Nat,
         0 < F, F <= N, 0 < M, Q * N <= G * B,
         T * N * M < F * ((B + 1) * M + N - F)
  PROVE  G * T + Q * (N - F) <= G * (B + 1) + (G * N) \div (4 * M)
<1> DEFINE X == G * T + Q * (N - F)
           C == G * (B + 1)
<1>0. N - F \in Nat /\ X \in Nat /\ C \in Nat /\ G * N \in Nat
  OBVIOUS
<1>1. X * N * M = G * (T * N * M) + (Q * N) * ((N - F) * M)
  OBVIOUS
<1>2. (Q * N) * ((N - F) * M) <= (G * B) * ((N - F) * M)
  <2>1. (N - F) * M \in Nat /\ Q * N \in Nat /\ G * B \in Nat
    BY <1>0
  <2> QED
    BY <2>1
<1>3. G * (T * N * M) <= G * (F * ((B + 1) * M + N - F))
  <2>1. T * N * M \in Nat /\ F * ((B + 1) * M + N - F) \in Nat
    BY <1>0
  <2> QED
    BY <2>1
<1>4. G * (F * ((B + 1) * M + N - F)) + (G * B) * ((N - F) * M)
        <= C * N * M + G * (F * (N - F))
  <2>1. G * (F * ((B + 1) * M + N - F)) + (G * B) * ((N - F) * M)
          = C * N * M + G * (F * (N - F)) - G * ((N - F) * M)
    OBVIOUS
  <2>2. G * ((N - F) * M) \in Nat /\ C * N * M \in Nat
        /\ G * (F * (N - F)) \in Nat
    BY <1>0
  <2> QED
    BY <2>1, <2>2
<1>5. 4 * (F * (N - F)) <= N * N
  OBVIOUS
<1>6. 4 * (G * (F * (N - F))) <= (G * N) * N
  <2>1. G * (4 * (F * (N - F))) <= G * (N * N)
    BY <1>0, <1>5
  <2> QED
    BY <1>0, <2>1
<1>7. X * N * M <= C * N * M + G * (F * (N - F))
  <2>1. X * N * M \in Nat /\ C * N * M \in Nat /\ G * (F * (N - F)) \in Nat
        /\ G * (T * N * M) \in Nat /\ (Q * N) * ((N - F) * M) \in Nat
        /\ G * (F * ((B + 1) * M + N - F)) \in Nat
        /\ (G * B) * ((N - F) * M) \in Nat
    BY <1>0
  <2> QED
    BY <1>1, <1>2, <1>3, <1>4, <2>1
<1>8. N * (4 * M * X) <= N * (4 * M * C + G * N)
  <2>1. /\ N * (4 * M * X) = 4 * (X * N * M)
        /\ N * (4 * M * C + G * N) = 4 * (C * N * M) + (G * N) * N
    BY <1>0
  <2> QED
    BY <1>0, <1>6, <1>7, <2>1
<1>9. 4 * M * X <= 4 * M * C + G * N
  <2>1. 4 * M * X \in Nat /\ 4 * M * C + G * N \in Nat /\ N > 0
    BY <1>0
  <2> QED
    BY <1>8, <2>1
<1>10. X - C <= (G * N) \div (4 * M)
  <2> DEFINE D == 4 * M
             q == (G * N) \div D
  <2>1. D \in Nat /\ D > 0
    OBVIOUS
  <2>2. q \in Nat /\ G * N < (q + 1) * D
    BY <1>0, <2>1
  <2>3. D * X <= D * C + G * N
    BY <1>9
  <2> HIDE DEF D, q, X, C
  <2>4. D * X < D * (C + q + 1)
    BY <1>0, <2>1, <2>2, <2>3
  <2>5. X < C + q + 1
    BY <1>0, <2>1, <2>2, <2>4
  <2> QED
    BY <1>0, <2>2, <2>5 DEF q, D
<1> QED
  BY <1>0, <1>10

(* The two divisions of mitigate, against the exact average T / F. *)
LEMMA Rounding ==
  ASSUME NEW T \in Nat, NEW F \in Nat, NEW N \in Nat, NEW M \in Nat,
         NEW B \in Nat, 0 < F, F <= N, 0 < M
  PROVE  LET a == (T * M) \div F
             e == T + (a * (N - F)) \div M
         IN  /\ e > B => T * N > B * F
             /\ e <= B => T * N * M < F * ((B + 1) * M + N - F)
<1> DEFINE a == (T * M) \div F
           b == (a * (N - F)) \div M
<1>0. N - F \in Nat /\ a \in Nat /\ b \in Nat
  OBVIOUS
<1>1. a * F <= T * M /\ T * M < (a + 1) * F
  OBVIOUS
<1>2. b * M <= a * (N - F) /\ a * (N - F) < (b + 1) * M
  BY <1>0
<1>3. ASSUME T + b > B PROVE T * N > B * F
  <2>1. b * M * F <= a * F * (N - F)
    BY <1>0, <1>2
  <2>2. a * F * (N - F) <= T * M * (N - F)
    BY <1>0, <1>1
  <2>3. M * (b * F) <= M * (T * (N - F))
    BY <1>0, <2>1, <2>2
  <2>4. b * F <= T * (N - F)
    BY <1>0, <2>3
  <2>5. (T + b) * F <= T * N
    BY <1>0, <2>4
  <2> QED
    BY <1>0, <1>3, <2>5
<1>4. ASSUME T + b <= B PROVE T * N * M < F * ((B + 1) * M + N - F)
  <2>1. T * M * (N - F) <= (a + 1) * F * (N - F)
    BY <1>0, <1>1
  <2>2. a * (N - F) * F < (b + 1) * M * F
    BY <1>0, <1>2
  <2>3. T * M * (N - F) < (b + 1) * M * F + F * (N - F)
    BY <1>0, <2>1, <2>2
  <2>4. T * N * M < (T + b + 1) * M * F + F * (N - F)
    BY <1>0, <2>3
  <2>5. (T + b + 1) * M * F <= (B + 1) * M * F
    BY <1>0, <1>4
  <2> QED
    BY <1>0, <2>4, <2>5
<1> QED
  BY <1>3, <1>4
-----------------------------------------------------------------------------
LEMMA InitIInv == Init => IInv
<1> SUFFICES ASSUME Init PROVE IInv
    OBVIOUS
<1>1. TypeOK
  <2>1. 0 * Grain <= BusyTpf * Needed(0) + MaxRefuels * Jitter
        /\ 0 \in 0 .. Needed(0) /\ 0 \in 0 .. MaxRefuels
        /\ Needed(0) \in 1 .. Needed(0) /\ 0 \in 0 .. StopLoss
    BY Constants
  <2> QED
    BY <2>1 DEF Init, TypeOK
<1> QED
  BY <1>1, Constants DEF Init, IInv, FuelAccounted, RateBounded,
                         RecordCurrent, FlagIsDecision

(* One more quantum keeps to the rate. *)
LEMMA RateAdds ==
  ASSUME NEW t \in Nat, NEW f \in Nat, NEW k \in Nat,
         NEW dt \in Nat, NEW df \in Nat,
         t * Grain <= BusyTpf * f + k * Jitter,
         dt * Grain <= BusyTpf * df + Jitter
  PROVE  (t + dt) * Grain <= BusyTpf * (f + df) + (k + 1) * Jitter
<1> USE Constants
<1>1. /\ (t + dt) * Grain = t * Grain + dt * Grain
      /\ BusyTpf * (f + df) = BusyTpf * f + BusyTpf * df
      /\ (k + 1) * Jitter = k * Jitter + Jitter
  OBVIOUS
<1>2. /\ t * Grain \in Nat /\ dt * Grain \in Nat
      /\ BusyTpf * f \in Nat /\ BusyTpf * df \in Nat /\ k * Jitter \in Nat
  OBVIOUS
<1> QED
  BY <1>1, <1>2

(* The rate of a part is within that of the whole. *)
LEMMA RateWithin ==
  ASSUME NEW t \in Nat, NEW f \in Nat, NEW k \in Nat,
         NEW ff \in Nat, NEW kk \in Nat, f <= ff, k <= kk,
         t * Grain <= BusyTpf * f + k * Jitter
  PROVE  t * Grain <= BusyTpf * ff + kk * Jitter
<1> USE Constants
<1>1. BusyTpf * f <= BusyTpf * ff /\ k * Jitter <= kk * Jitter
  OBVIOUS
<1>2. /\ t * Grain \in Nat /\ BusyTpf * f \in Nat /\ k * Jitter \in Nat
      /\ BusyTpf * ff \in Nat /\ kk * Jitter \in Nat
  OBVIOUS
<1> QED
  BY <1>1, <1>2

LEMMA StepKeepsIInv == IInv /\ [Next]_vars => IInv'
<1> SUFFICES ASSUME IInv, [Next]_vars PROVE IInv'
    OBVIOUS
<1> USE Constants DEF IInv
<1>1. CASE OutOfFuel
  <2>1. PICK residue \in Residues :
          LET df == FuelAmount - residue IN
          \E x \in Loss(df) :
            /\ \E dt \in Time(df, x) : Suspend(dt, df)
            /\ loss' = loss - x
    BY <1>1 DEF OutOfFuel
  <2> DEFINE df == FuelAmount - residue
  <2>2. df \in 0 .. FuelAmount
    BY QuantumFuel
  <2> HIDE DEF df
  <2>3. PICK x \in Loss(df) :
          (\E dt \in Time(df, x) : Suspend(dt, df)) /\ loss' = loss - x
    BY <2>1 DEF df
  <2>4. PICK dt \in Time(df, x) : Suspend(dt, df)
    BY <2>3
  <2>5. /\ accT' = accT + dt /\ accF' = accF + df /\ left' = left - df
        /\ update' = [run |-> runIdx, refuel |-> refuelIdx,
                      accT |-> accT + dt, accF |-> accF + df, last |-> FALSE]
        /\ resumeable' = TRUE /\ refuelIdx' = refuelIdx + 1
        /\ runIdx' = runIdx
    BY <2>4 DEF Suspend, Record
  <2>6. /\ dt \in Nat /\ dt * Grain <= BusyTpf * df + Jitter
        /\ x \in 0 .. loss /\ loss \in 0 .. StopLoss
    <3>1. loss \in 0 .. StopLoss /\ loss \in Nat /\ df \in Nat
      BY <2>2 DEF TypeOK
    <3> QED
      BY <3>1, QuantumTime
  <2>7. /\ left > FuelAmount /\ phase' = "mitigate"
        /\ intruderBreak' = intruderBreak /\ refuelIdx < MaxRefuels
    BY <1>1 DEF OutOfFuel
  <2>8. RateBounded'
    <3>1. /\ accT \in Nat /\ accF \in Nat /\ refuelIdx \in Nat /\ df \in Nat
          /\ accT * Grain <= BusyTpf * accF + refuelIdx * Jitter
      BY <2>2 DEF RateBounded, TypeOK
    <3>2. (accT + dt) * Grain <=
            BusyTpf * (accF + df) + (refuelIdx + 1) * Jitter
      BY <2>6, <3>1, RateAdds
    <3> QED
      BY <2>5, <3>2 DEF RateBounded
  <2>9. FuelAccounted'
    BY <2>2, <2>5, <2>7 DEF FuelAccounted, TypeOK
  <2>10. /\ accF' \in 0 .. Needed(runIdx) /\ left' \in 1 .. Needed(runIdx)
         /\ refuelIdx' \in 0 .. MaxRefuels
    BY <2>2, <2>5, <2>7 DEF FuelAccounted, TypeOK
  <2>11. /\ accT' \in Nat
         /\ accT' * Grain <= BusyTpf * Needed(runIdx) + MaxRefuels * Jitter
    <3>1. accT' \in Nat
      BY <2>5, <2>6 DEF TypeOK
    <3>2. accT' * Grain <= BusyTpf * accF' + refuelIdx' * Jitter
      BY <2>8 DEF RateBounded
    <3>3. /\ accF' \in Nat /\ refuelIdx' \in Nat
          /\ Needed(runIdx) \in Nat
          /\ accF' <= Needed(runIdx) /\ refuelIdx' <= MaxRefuels
      <4>1. runIdx \in {0, 1}
        BY DEF TypeOK
      <4> QED
        BY <2>10, <4>1
    <3> HIDE DEF IInv
    <3> QED
      BY <3>1, <3>2, <3>3, RateWithin
  <2>12. TypeOK'
    <3>1. loss' \in 0 .. StopLoss
      BY <2>3, <2>6
    <3>2. /\ update'.accT \in Nat /\ update'.accF \in Nat
          /\ refuelIdx \in 0 .. MaxRefuels
      BY <2>2, <2>5, <2>6 DEF TypeOK
    <3> QED
      BY <2>5, <2>7, <2>10, <2>11, <3>1, <3>2 DEF TypeOK, Needed
  <2>13. RecordCurrent' /\ FlagIsDecision'
    BY <2>2, <2>3, <2>5, <2>6, <2>7 DEF RecordCurrent, FlagIsDecision
  <2> QED
    BY <2>8, <2>9, <2>12, <2>13
<1>2. CASE Finished
  <2>1. PICK x \in Loss(left) :
          (\E dt \in Time(left, x) : Complete(dt)) /\ loss' = loss - x
    BY <1>2 DEF Finished
  <2>2. PICK dt \in Time(left, x) : Complete(dt)
    BY <2>1
  <2>3. /\ update' = [run |-> runIdx, refuel |-> refuelIdx,
                      accT |-> accT + dt, accF |-> accF + left, last |-> TRUE]
        /\ phase' = "mitigate" /\ resumeable' = FALSE /\ runIdx' = 1
        /\ accT' = 0 /\ accF' = 0 /\ left' = Needed(1) /\ refuelIdx' = 0
        /\ intruderBreak' = intruderBreak
    BY <1>2, <2>2 DEF Finished, Complete, Record
  <2>4. /\ dt \in Nat /\ dt * Grain <= BusyTpf * left + Jitter
        /\ x \in 0 .. loss /\ loss \in 0 .. StopLoss
    <3>1. loss \in 0 .. StopLoss /\ loss \in Nat /\ left \in Nat
      BY DEF TypeOK
    <3> QED
      BY <3>1, QuantumTime
  <2>5. TypeOK'
    <3>1. 0 * Grain <= BusyTpf * Needed(1) + MaxRefuels * Jitter
          /\ 0 \in 0 .. Needed(1) /\ 0 \in 0 .. MaxRefuels
          /\ Needed(1) \in 1 .. Needed(1)
      OBVIOUS
    <3>2. accT + dt \in Nat /\ accF + left \in Nat
      BY <2>4 DEF TypeOK
    <3>3. loss' \in 0 .. StopLoss
      BY <2>1, <2>4
    <3> QED
      BY <2>3, <3>1, <3>2, <3>3 DEF TypeOK
  <2>6. FuelAccounted'
    BY <2>3 DEF FuelAccounted, Needed
  <2>7. RateBounded'
    <3>1. /\ accT \in Nat /\ accF \in Nat /\ refuelIdx \in Nat /\ left \in Nat
          /\ accT * Grain <= BusyTpf * accF + refuelIdx * Jitter
      BY DEF RateBounded, TypeOK
    <3>2. (accT + dt) * Grain <=
            BusyTpf * (accF + left) + (refuelIdx + 1) * Jitter
      BY <2>4, <3>1, RateAdds
    <3>3. 0 * Grain <= BusyTpf * 0 + 0 * Jitter
      OBVIOUS
    <3> QED
      BY <2>3, <3>2, <3>3 DEF RateBounded
  <2>8. RecordCurrent'
    <3>1. accF \in Nat /\ left \in Nat /\ left > 0 /\ runIdx \in {0, 1}
      BY DEF TypeOK
    <3>2. accF + left # 0
      BY <3>1
    <3> QED
      BY <2>3, <3>2 DEF RecordCurrent
  <2>9. FlagIsDecision'
    BY <2>1, <2>3, <2>4 DEF FlagIsDecision, TypeOK
  <2> QED
    BY <2>5, <2>6, <2>7, <2>8, <2>9
<1>3. CASE Mitigate
  <2> USE DEF Mitigate, Decide, runVars
  <2>1. FlagIsDecision'
    BY <1>3 DEF FlagIsDecision
  <2>2. intruderBreak' \in BOOLEAN
    BY <1>3 DEF Late
  <2>3. TypeOK'
    BY <1>3, <2>2 DEF TypeOK
  <2>4. FuelAccounted' /\ RateBounded' /\ RecordCurrent'
    BY <1>3 DEF FuelAccounted, RateBounded, RecordCurrent
  <2> QED
    BY <2>1, <2>3, <2>4
<1>4. CASE \/ WasmPanic \/ MitigatePanic \/ PanicLoop \/ UNCHANGED vars
  <2>1. /\ UNCHANGED <<runVars, intruderBreak, loss>>
        /\ phase' \in {phase, "panicked"}
    BY <1>4 DEF WasmPanic, MitigatePanic, PanicLoop, vars
  <2>2. UNCHANGED <<runIdx, refuelIdx, accT, accF, resumeable, left, update>>
    BY <2>1 DEF runVars
  <2> HIDE DEF IInv
  <2>3. TypeOK'
    BY <2>1, <2>2 DEF IInv, TypeOK
  <2>4. FuelAccounted' /\ RateBounded' /\ RecordCurrent'
    BY <2>2 DEF IInv, FuelAccounted, RateBounded, RecordCurrent
  <2>5. FlagIsDecision'
    BY <2>1, <2>2 DEF IInv, FlagIsDecision
  <2> QED
    BY <2>3, <2>4, <2>5 DEF IInv
<1> QED
  BY <1>1, <1>2, <1>3, <1>4 DEF Next

LEMMA IInvHolds == Spec => []IInv
BY InitIInv, StepKeepsIInv, PTL DEF Spec

(* The sums of a run stay within its fuel and the time that fuel can take. *)
THEOREM TypeCorrect == Spec => []TypeOK
<1>1. IInv => TypeOK
  BY DEF IInv
<1> QED
  BY IInvHolds, <1>1, PTL

(* Fuel is neither lost nor counted twice by suspending a run, nor carried *)
(* into the next (wasm_runner.rs, run), whatever residue a quantum leaves. *)
THEOREM FuelCorrect == Spec => []FuelAccounted
<1>1. IInv => FuelAccounted
  BY DEF IInv
<1> QED
  BY IInvHolds, <1>1, PTL
-----------------------------------------------------------------------------
LEMMA MaxTpfNat == MaxTpf \in Nat
<1>1. (MaxRefuels + 1) * (Overhead + 1) \in Nat
  BY Constants
<1> QED
  BY <1>1, Constants DEF MaxTpf

(* Every record keeps to that rate. *)
LEMMA MaxTpfBounds ==
  ASSUME NEW t \in Nat, NEW f \in Nat, 0 < f, NEW k \in 0 .. MaxRefuels,
         t * Grain <= BusyTpf * f + (k + 1) * Jitter
  PROVE  t <= MaxTpf * f
<1> USE Constants
<1> DEFINE q == MaxRefuels + 1
           j == Overhead + 1
<1>1. q \in Nat /\ j \in Nat /\ k + 1 \in Nat /\ k + 1 <= q
      /\ q * j \in Nat
  OBVIOUS
<1>2. Jitter <= Grain * j
  BY DEF Jitter
<1>3. (k + 1) * Jitter <= q * (Grain * j)
  <2>1. (k + 1) * Jitter <= q * Jitter
    BY <1>1
  <2>2. q * Jitter <= q * (Grain * j)
    BY <1>1, <1>2
  <2> QED
    BY <1>1, <2>1, <2>2
<1>4. q * (Grain * j) <= Grain * ((q * j) * f)
  <2>1. q * (Grain * j) = Grain * (q * j)
    BY <1>1
  <2>2. q * j <= (q * j) * f
    BY <1>1
  <2>3. (q * j) * f \in Nat
    BY <1>1
  <2> HIDE DEF q, j
  <2> QED
    BY <1>1, <2>1, <2>2, <2>3
<1>5. BusyTpf * f <= Grain * (BusyTpf * f)
  <2>1. BusyTpf * f \in Nat
    OBVIOUS
  <2> QED
    BY <2>1
<1>6. Grain * (MaxTpf * f) = Grain * (BusyTpf * f) + Grain * ((q * j) * f)
  BY <1>1 DEF MaxTpf
<1>7. Grain * t <= Grain * (MaxTpf * f)
  <2>1. /\ BusyTpf * f \in Nat /\ Grain * (BusyTpf * f) \in Nat
        /\ (k + 1) * Jitter \in Nat /\ q * (Grain * j) \in Nat
        /\ Grain * ((q * j) * f) \in Nat /\ t * Grain = Grain * t
    BY <1>1
  <2> HIDE DEF q, j
  <2> QED
    BY <1>3, <1>4, <1>5, <1>6, <2>1
<1>8. MaxTpf * f \in Nat
  BY MaxTpfNat
<1> QED
  BY <1>7, <1>8

(* In wide words mitigate computes what its formula says. *)
LEMMA EstExact ==
  ASSUME Wide, NEW t \in Nat, NEW f \in Nat, 0 < f, f <= TotalFuel,
         t <= MaxTpf * f
  PROVE  EstT(t, f) =
           t + (((t * NsPerUs) \div f) * (TotalFuel - f)) \div NsPerUs
<1> USE Constants, MaxTpfNat
<1> DEFINE rest == TotalFuel - f
           a == (t * NsPerUs) \div f
           b == (a * rest) \div NsPerUs
<1>1. rest \in Nat /\ a \in Nat /\ b \in Nat
  OBVIOUS
<1>2. t * NsPerUs <= MaxTpf * NsPerUs * f
  OBVIOUS
<1>3. MaxTpf * NsPerUs * f <= MaxTpf * NsPerUs * TotalFuel
  OBVIOUS
<1>4. a <= MaxTpf * NsPerUs
  <2>1. a * f <= t * NsPerUs
    OBVIOUS
  <2>2. a * f <= (MaxTpf * NsPerUs) * f
    BY <1>1, <1>2, <2>1
  <2> QED
    BY <1>1, <2>2
<1>5. a * rest <= MaxTpf * NsPerUs * rest
  BY <1>1, <1>4
<1>6. b <= MaxTpf * rest
  <2>1. b * NsPerUs <= a * rest
    BY <1>1
  <2>2. NsPerUs * b <= NsPerUs * (MaxTpf * rest)
    BY <1>1, <1>5, <2>1
  <2> QED
    BY <1>1, <2>2
<1>7. (t * NsPerUs) % Word = t * NsPerUs
  <2>1. t * NsPerUs < Word
    BY <1>2, <1>3 DEF Wide
  <2> QED
    BY <2>1
<1>8. rest % Word = rest
  BY <1>1 DEF Wide
<1>9. (a * rest) % Word = a * rest
  <2>1. MaxTpf * NsPerUs * rest <= MaxTpf * NsPerUs * TotalFuel
    BY <1>1
  <2>2. a * rest < Word /\ a * rest \in Nat
    BY <1>1, <1>5, <2>1 DEF Wide
  <2> QED
    BY <2>2
<1>10. (t + b) % Word = t + b
  <2>1. t + b <= MaxTpf * TotalFuel
    BY <1>1, <1>6
  <2>2. MaxTpf * TotalFuel <= MaxTpf * NsPerUs * TotalFuel
    OBVIOUS
  <2>3. t + b < Word /\ t + b \in Nat
    BY <1>1, <2>1, <2>2 DEF Wide
  <2> QED
    BY <2>3
<1> QED
  BY <1>7, <1>8, <1>9, <1>10 DEF EstT, AvgTpfNs

LEMMA DecisionMeans ==
  ASSUME Wide, NEW t \in Nat, NEW f \in Nat, 0 < f, f <= TotalFuel,
         t <= MaxTpf * f
  PROVE  /\ Late(t, f) => t * TotalFuel > Target * f
         /\ ~Late(t, f) => t * TotalFuel * NsPerUs <
                             f * ((Target + 1) * NsPerUs + TotalFuel - f)
<1> DEFINE e == t + (((t * NsPerUs) \div f) * (TotalFuel - f)) \div NsPerUs
<1>1. Late(t, f) <=> e > Target
  BY EstExact DEF Late, Target
<1>2. e \in Int
  BY Constants
<1>3. /\ e > Target => t * TotalFuel > Target * f
      /\ e <= Target => t * TotalFuel * NsPerUs <
                          f * ((Target + 1) * NsPerUs + TotalFuel - f)
  BY Constants, Rounding
<1> QED
  BY <1>1, <1>2, <1>3, Constants

(* What the state says of a decision that has been taken. *)
LEMMA DecidedFacts ==
  ASSUME IInv, Decided
  PROVE  /\ update.accT \in Nat /\ update.accF \in Nat
         /\ 0 < update.accF /\ update.accF <= TotalFuel
         /\ update.accT <= MaxTpf * update.accF
         /\ intruderBreak <=> Late(update.accT, update.accF)
<1>1. /\ update.accT \in Nat /\ update.accF \in Nat
      /\ update.refuel \in 0 .. MaxRefuels
  BY DEF IInv, TypeOK
<1>2. 0 < update.accF /\ update.accF <= TotalFuel /\ phase = "run"
  BY DEF Decided
<1>3. update.accT <= MaxTpf * update.accF
  BY <1>1, <1>2, MaxTpfBounds DEF IInv, RateBounded
<1> QED
  BY <1>1, <1>2, <1>3 DEF IInv, FlagIsDecision

(* The intruders are stopped only if the run is behind the schedule to its *)
(* target (mitigator.rs, mitigate): in wide words no rounding and no       *)
(* wrap-around stops them.                                                 *)
THEOREM BreakSound == ASSUME Wide PROVE Spec => []BreakOnlyWhenBehind
<1>1. IInv => BreakOnlyWhenBehind
  BY Wide, DecidedFacts, DecisionMeans DEF BreakOnlyWhenBehind
<1> QED
  BY IInvHolds, <1>1, PTL

(* They are left running only if the run is on that schedule, up to the    *)
(* rounding of the two divisions in mitigate.                              *)
THEOREM ContSound == ASSUME Wide PROVE Spec => []ContOnlyWhenOnSchedule
<1>1. IInv => ContOnlyWhenOnSchedule
  BY Wide, DecidedFacts, DecisionMeans DEF ContOnlyWhenOnSchedule
<1> QED
  BY IInvHolds, <1>1, PTL

(* A quantum of f units that meets the schedule even with its overhead.    *)
Roomy(f) == (QuietTpf * f + Jitter) * TotalFuel <= Grain * Target * f

(* The first quantum of a run under a break handed on to it, of which      *)
(* intruders about to stop cost nothing.                                   *)
UndisturbedFirstQuantum ==
  /\ phase = "run" /\ phase' = "mitigate" /\ ~resumeable
  /\ intruderBreak /\ loss' = loss
  /\ update'.accF \in 1 .. TotalFuel /\ Roomy(update'.accF)

(* The record of such a quantum is one on which mitigate lifts the break.  *)
InheritedBreakEnds ==
  [][UndisturbedFirstQuantum => ~Late(update'.accT, update'.accF)]_vars

LEMMA RoomyQuantum ==
  ASSUME Wide, NEW f \in 1 .. TotalFuel, Roomy(f), NEW dt \in Nat,
         dt * Grain <= QuietTpf * f + Jitter
  PROVE  ~Late(dt, f)
<1> USE Constants
<1>1. QuietTpf * f <= BusyTpf * f /\ QuietTpf * f \in Nat
      /\ BusyTpf * f \in Nat
  OBVIOUS
<1>2. dt <= MaxTpf * f
  <2>1. (0 + 1) * Jitter = Jitter /\ 0 \in 0 .. MaxRefuels
    OBVIOUS
  <2>2. dt * Grain <= BusyTpf * f + (0 + 1) * Jitter
    BY <1>1, <2>1
  <2> QED
    BY <2>1, <2>2, MaxTpfBounds
<1>3. dt * TotalFuel <= Target * f
  <2>1. (dt * Grain) * TotalFuel <= (QuietTpf * f + Jitter) * TotalFuel
    <3>1. dt * Grain \in Nat /\ QuietTpf * f + Jitter \in Nat
      BY <1>1
    <3> QED
      BY <3>1
  <2>2. /\ (dt * Grain) * TotalFuel = Grain * (dt * TotalFuel)
        /\ Grain * Target * f = Grain * (Target * f)
        /\ dt * TotalFuel \in Nat /\ Target * f \in Nat
        /\ (QuietTpf * f + Jitter) * TotalFuel \in Nat
    BY <1>1
  <2>3. Grain * (dt * TotalFuel) <= Grain * (Target * f)
    BY <2>1, <2>2 DEF Roomy
  <2> QED
    BY <2>2, <2>3
<1>4. Late(dt, f) => dt * TotalFuel > Target * f
  BY <1>2, DecisionMeans
<1> QED
  BY <1>3, <1>4

(* A break handed on by a run that came too late (mitigator.rs stores the  *)
(* flag, and nothing resets it between runs) is lifted by the first        *)
(* decision of the next run, unless intruders still cost that run time.    *)
THEOREM FirstQuantumLifts == ASSUME Wide PROVE Spec => InheritedBreakEnds
<1>1. ASSUME IInv, [Next]_vars, UndisturbedFirstQuantum
      PROVE  ~Late(update'.accT, update'.accF)
  <2> USE DEF UndisturbedFirstQuantum
  <2>1. accT = 0 /\ accF = 0 /\ loss \in Nat /\ left \in Nat
    BY <1>1, Constants DEF IInv, TypeOK, FuelAccounted
  <2>2. ASSUME NEW df \in Nat, NEW x \in Loss(df), NEW dt \in Time(df, x),
               loss' = loss - x, update'.accF = accF + df,
               update'.accT = accT + dt
        PROVE  ~Late(update'.accT, update'.accF)
    <3>1. /\ dt \in Nat /\ x \in 0 .. loss
          /\ dt * Grain <= QuietTpf * df + x + Jitter
      BY <1>1, <2>1, QuantumTime
    <3>2. x = 0
      BY <1>1, <2>1, <2>2, <3>1
    <3>3. update'.accF = df /\ update'.accT = dt
      BY <2>1, <2>2, <3>1
    <3>4. dt * Grain <= QuietTpf * df + Jitter
      BY <3>1, <3>2, Constants
    <3> QED
      BY <1>1, <3>1, <3>3, <3>4, Wide, RoomyQuantum
  <2>3. CASE OutOfFuel
    <3>1. PICK residue \in Residues :
            LET df == FuelAmount - residue IN
            \E x \in Loss(df) :
              /\ \E dt \in Time(df, x) : Suspend(dt, df)
              /\ loss' = loss - x
      BY <2>3 DEF OutOfFuel
    <3> DEFINE df == FuelAmount - residue
    <3>2. df \in Nat
      BY QuantumFuel
    <3> HIDE DEF df
    <3>3. PICK x \in Loss(df) :
            (\E dt \in Time(df, x) : Suspend(dt, df)) /\ loss' = loss - x
      BY <3>1 DEF df
    <3>4. PICK dt \in Time(df, x) : Suspend(dt, df)
      BY <3>3
    <3>5. update'.accF = accF + df /\ update'.accT = accT + dt
      BY <3>4 DEF Suspend, Record
    <3> QED
      BY <2>2, <3>2, <3>3, <3>5
  <2>4. CASE Finished
    <3>1. PICK x \in Loss(left) :
            (\E dt \in Time(left, x) : Complete(dt)) /\ loss' = loss - x
      BY <2>4 DEF Finished
    <3>2. PICK dt \in Time(left, x) : Complete(dt)
      BY <3>1
    <3>3. update'.accF = accF + left /\ update'.accT = accT + dt
      BY <3>2 DEF Complete, Record
    <3> QED
      BY <2>1, <2>2, <3>1, <3>3
  <2>5. CASE WasmPanic \/ Mitigate \/ MitigatePanic \/ PanicLoop
             \/ UNCHANGED vars
    BY <1>1, <2>5 DEF WasmPanic, Mitigate, MitigatePanic, PanicLoop, vars
  <2> QED
    BY <1>1, <2>3, <2>4, <2>5 DEF Next
<1>2. IInv /\ [Next]_vars =>
        [UndisturbedFirstQuantum => ~Late(update'.accT, update'.accF)]_vars
  BY <1>1
<1> QED
  BY IInvHolds, <1>2, PTL DEF Spec, InheritedBreakEnds
-----------------------------------------------------------------------------
(* How far the rounding of the estimate can let a run slip, how far one    *)
(* quantum among running intruders, and how far its quanta's overhead, in  *)
(* ticks.                                                                  *)
Slack == Grain * (Target + 1) + (Grain * TotalFuel) \div (4 * NsPerUs)
QuantumLoss == (BusyTpf - QuietTpf) * FuelAmount
Drift(k) == k * Jitter

(* At every moment the run, if it is no longer disturbed but by intruders  *)
(* about to stop, still ends within the bound; a quantum's interference    *)
(* earlier if they run, and within the slack when they have been let run.  *)
TimeLeft ==
  runIdx = 1 =>
    LET end == accT * Grain + QuietTpf * left
    IN  /\ end + loss <= Slack + QuantumLoss + StopLoss + Drift(refuelIdx)
        /\ ~intruderBreak => end <= Slack + QuantumLoss + Drift(refuelIdx)
        /\ phase = "run" /\ ~intruderBreak => end <= Slack + Drift(refuelIdx)

LEMMA SlackFacts ==
  /\ Slack \in Nat /\ QuantumLoss \in Nat
  /\ Grain * Target <= Slack
  /\ \A k \in Nat : Drift(k) \in Nat /\ Drift(k + 1) = Drift(k) + Jitter
<1> USE Constants
<1>1. (Grain * TotalFuel) \div (4 * NsPerUs) \in Nat
  <2>1. Grain * TotalFuel \in Nat /\ 4 * NsPerUs \in Nat /\ 4 * NsPerUs > 0
    OBVIOUS
  <2> QED
    BY <2>1, Cut
<1>2. QuantumLoss \in Nat
  <2>1. BusyTpf - QuietTpf \in Nat
    OBVIOUS
  <2> QED
    BY <2>1 DEF QuantumLoss
<1>3. Grain * (Target + 1) = Grain * Target + Grain /\ Grain * Target \in Nat
  OBVIOUS
<1>4. \A k \in Nat : Drift(k) \in Nat /\ Drift(k + 1) = Drift(k) + Jitter
  BY DEF Drift
<1> QED
  BY <1>1, <1>2, <1>3, <1>4 DEF Slack

LEMMA BusyQuantum ==
  ASSUME NEW df \in Nat, df <= FuelAmount
  PROVE  BusyTpf * df <= QuietTpf * df + QuantumLoss
<1> USE Constants
<1>1. (BusyTpf - QuietTpf) * df <= (BusyTpf - QuietTpf) * FuelAmount
  OBVIOUS
<1> QED
  BY <1>1 DEF QuantumLoss

(* A quantum of df units moves the end of the run by its interference, its *)
(* overhead and the clock's rounding, and what the intruders have cost     *)
(* then they cannot cost any more.                                         *)
LEMMA QuantumMoves ==
  ASSUME IInv, TimeLeft, phase = "run", runIdx = 1,
         NEW df \in Nat, df <= left, df <= FuelAmount,
         NEW x \in Loss(df), NEW dt \in Time(df, x)
  PROVE  LET end == (accT + dt) * Grain + QuietTpf * (left - df)
             drift == Drift(refuelIdx + 1) IN
         /\ end + (loss - x) <= Slack + QuantumLoss + StopLoss + drift
         /\ ~intruderBreak => end <= Slack + QuantumLoss + drift
<1> USE Constants, SlackFacts
<1>1. /\ accT \in Nat /\ left \in Nat /\ loss \in Nat /\ dt \in Nat
      /\ x \in 0 .. loss /\ refuelIdx \in Nat
  <2>1. accT \in Nat /\ left \in Nat /\ loss \in Nat /\ refuelIdx \in Nat
    BY DEF IInv, TypeOK
  <2> QED
    BY <2>1, QuantumTime
<1>2. /\ QuietTpf * (left - df) = QuietTpf * left - QuietTpf * df
      /\ (accT + dt) * Grain = accT * Grain + dt * Grain
      /\ QuietTpf * left \in Nat /\ QuietTpf * df \in Nat
      /\ accT * Grain \in Nat /\ dt * Grain \in Nat
  BY <1>1
<1>3. Drift(refuelIdx + 1) = Drift(refuelIdx) + Jitter
      /\ Drift(refuelIdx) \in Nat
  BY <1>1
<1>4. CASE intruderBreak
  <2>1. dt * Grain <= QuietTpf * df + x + Jitter
    BY <1>1, <1>4, QuantumTime
  <2>2. accT * Grain + QuietTpf * left + loss
          <= Slack + QuantumLoss + StopLoss + Drift(refuelIdx)
    BY DEF TimeLeft
  <2> QED
    BY <1>1, <1>2, <1>3, <1>4, <2>1, <2>2
<1>5. CASE ~intruderBreak
  <2>1. dt * Grain <= BusyTpf * df + Jitter /\ BusyTpf * df \in Nat
    BY <1>1, QuantumTime
  <2>2. BusyTpf * df <= QuietTpf * df + QuantumLoss
    BY BusyQuantum
  <2>3. accT * Grain + QuietTpf * left <= Slack + Drift(refuelIdx)
    BY <1>5 DEF TimeLeft
  <2>4. loss = 0
    BY <1>5 DEF IInv, FlagIsDecision
  <2> QED
    BY <1>1, <1>2, <1>3, <2>1, <2>2, <2>3, <2>4
<1> QED
  BY <1>4, <1>5

LEMMA StepKeepsTimeLeft ==
  ASSUME Wide, Feasible, IInv, TimeLeft, OvershootBounded, [Next]_vars
  PROVE  TimeLeft' /\ OvershootBounded'
<1> USE Constants, SlackFacts DEF IInv
<1>0. /\ Needed(1) = TotalFuel /\ QuietTpf * TotalFuel <= Slack
      /\ QuietTpf * TotalFuel \in Nat
  <2>1. Grain * Target \in Nat
    OBVIOUS
  <2> QED
    BY <2>1 DEF Feasible, Needed
<1>1. CASE OutOfFuel
  <2>1. PICK residue \in Residues :
          LET df == FuelAmount - residue IN
          \E x \in Loss(df) :
            /\ \E dt \in Time(df, x) : Suspend(dt, df)
            /\ loss' = loss - x
    BY <1>1 DEF OutOfFuel
  <2> DEFINE df == FuelAmount - residue
  <2>2. df \in 0 .. FuelAmount
    BY QuantumFuel
  <2> HIDE DEF df
  <2>3. PICK x \in Loss(df) :
          (\E dt \in Time(df, x) : Suspend(dt, df)) /\ loss' = loss - x
    BY <2>1 DEF df
  <2>4. PICK dt \in Time(df, x) : Suspend(dt, df)
    BY <2>3
  <2>5. /\ accT' = accT + dt /\ left' = left - df /\ ~update'.last
        /\ runIdx' = runIdx /\ intruderBreak' = intruderBreak
        /\ refuelIdx' = refuelIdx + 1
        /\ phase = "run" /\ phase' = "mitigate"
    BY <1>1, <2>4 DEF OutOfFuel, Suspend, Record
  <2>6. df \in Nat /\ df <= left /\ df <= FuelAmount
    BY <1>1, <2>2 DEF OutOfFuel, TypeOK
  <2>7. ASSUME runIdx = 1
        PROVE  /\ accT' * Grain + QuietTpf * left' + loss'
                    <= Slack + QuantumLoss + StopLoss + Drift(refuelIdx')
               /\ ~intruderBreak =>
                    accT' * Grain + QuietTpf * left'
                      <= Slack + QuantumLoss + Drift(refuelIdx')
    BY <2>3, <2>5, <2>6, <2>7, QuantumMoves
  <2> QED
    BY <2>5, <2>7 DEF TimeLeft, OvershootBounded
<1>2. CASE Finished
  <2>1. PICK x \in Loss(left) :
          (\E dt \in Time(left, x) : Complete(dt)) /\ loss' = loss - x
    BY <1>2 DEF Finished
  <2>2. PICK dt \in Time(left, x) : Complete(dt)
    BY <2>1
  <2>3. /\ update' = [run |-> runIdx, refuel |-> refuelIdx,
                      accT |-> accT + dt, accF |-> accF + left, last |-> TRUE]
        /\ phase = "run" /\ phase' = "mitigate"
        /\ accT' = 0 /\ left' = TotalFuel /\ refuelIdx' = 0
    BY <1>0, <1>2, <2>2 DEF Finished, Complete, Record
  <2>4. /\ left \in Nat /\ left <= FuelAmount /\ accT \in Nat
        /\ refuelIdx \in Nat
        /\ loss \in 0 .. StopLoss /\ loss \in Nat
    BY <1>2 DEF Finished, TypeOK
  <2>5. dt \in Nat /\ x \in 0 .. loss
    BY <2>4, QuantumTime
  <2>6. TimeLeft'
    <3>1. Drift(0) = 0 /\ 0 * Grain = 0
      BY DEF Drift
    <3> QED
      BY <1>0, <2>1, <2>3, <2>4, <2>5, <3>1 DEF TimeLeft
  <2>7. ASSUME runIdx = 1
        PROVE  (accT + dt) * Grain <=
                 Slack + QuantumLoss + StopLoss + Drift(refuelIdx + 1)
    <3>1. left - left = 0 /\ QuietTpf * 0 = 0 /\ left <= left
      BY <2>4
    <3>2. (accT + dt) * Grain + QuietTpf * (left - left) + (loss - x)
            <= Slack + QuantumLoss + StopLoss + Drift(refuelIdx + 1)
      BY <2>3, <2>4, <2>7, <3>1, QuantumMoves
    <3>3. (accT + dt) * Grain \in Nat /\ Drift(refuelIdx + 1) \in Nat
      BY <2>4, <2>5
    <3> QED
      BY <2>4, <2>5, <3>1, <3>2, <3>3
  <2>8. OvershootBounded'
    <3>1. SUFFICES ASSUME runIdx = 1
                   PROVE  (accT + dt) * Grain <=
                            Grain * (Target + 1)
                            + (Grain * TotalFuel) \div (4 * NsPerUs)
                            + (BusyTpf - QuietTpf) * FuelAmount + StopLoss
                            + (refuelIdx + 1) * Jitter
      BY <2>3 DEF OvershootBounded
    <3> QED
      BY <2>7, <3>1 DEF Slack, QuantumLoss, Drift
  <2> QED
    BY <2>6, <2>8
<1>3. CASE Mitigate
  <2>1. /\ phase' = "run" /\ accT' = accT /\ left' = left
        /\ runIdx' = runIdx /\ update' = update /\ refuelIdx' = refuelIdx
        /\ intruderBreak' = Late(update.accT, update.accF)
        /\ update.accF # 0 /\ phase = "mitigate"
        /\ loss' = IF ~intruderBreak' THEN 0
                   ELSE IF intruderBreak THEN loss ELSE StopLoss
    BY <1>3 DEF Mitigate, Decide, runVars
  <2>2. /\ accT \in Nat /\ left \in Nat /\ loss \in Nat
        /\ refuelIdx \in Nat /\ accT * Grain \in Nat
        /\ QuietTpf * left \in Nat /\ Drift(refuelIdx) \in Nat
    <3>1. accT \in Nat /\ left \in Nat /\ loss \in Nat /\ refuelIdx \in Nat
      BY DEF TypeOK
    <3> QED
      BY <3>1
  <2>3. ASSUME runIdx = 1, ~Late(update.accT, update.accF)
        PROVE  accT * Grain + QuietTpf * left <= Slack + Drift(refuelIdx)
    <3>1. CASE ~resumeable
      <4>1. accT = 0 /\ left = TotalFuel
        BY <1>0, <2>3, <3>1 DEF FuelAccounted, TypeOK
      <4>2. 0 * Grain = 0
        OBVIOUS
      <4> QED
        BY <1>0, <2>2, <4>1, <4>2
    <3>2. CASE resumeable
      <4>1. /\ accT = update.accT /\ accF = update.accF
            /\ accF \in Nat /\ left = TotalFuel - accF
            /\ update.refuel \in 0 .. MaxRefuels
            /\ accT * Grain <= BusyTpf * accF + (update.refuel + 1) * Jitter
        BY <1>0, <2>3, <3>2 DEF RecordCurrent, FuelAccounted, RateBounded,
                                TypeOK
      <4>2. 0 < accF /\ accF <= TotalFuel
        BY <2>1, <2>2, <4>1
      <4>3. accT <= MaxTpf * accF
        BY <2>2, <4>1, <4>2, MaxTpfBounds
      <4>4. accT * TotalFuel * NsPerUs <
              accF * ((Target + 1) * NsPerUs + TotalFuel - accF)
        BY <2>2, <2>3, <4>1, <4>2, <4>3, DecisionMeans
      <4>5. Grain * accT + QuietTpf * (TotalFuel - accF) <=
              Grain * (Target + 1) + (Grain * TotalFuel) \div (4 * NsPerUs)
        BY <2>2, <4>1, <4>2, <4>4, OnSchedule DEF Feasible
      <4>6. Grain * accT = accT * Grain
        BY <2>2
      <4> QED
        BY <2>2, <4>1, <4>5, <4>6 DEF Slack
    <3> QED
      BY <3>1, <3>2 DEF TypeOK
  <2>4. ASSUME runIdx = 1
        PROVE  accT * Grain + QuietTpf * left + loss'
                 <= Slack + QuantumLoss + StopLoss + Drift(refuelIdx)
    <3>1. CASE ~intruderBreak'
      BY <2>1, <2>2, <2>3, <2>4, <3>1
    <3>2. CASE intruderBreak' /\ intruderBreak
      BY <2>1, <2>4, <3>2 DEF TimeLeft
    <3>3. CASE intruderBreak' /\ ~intruderBreak
      <4>1. accT * Grain + QuietTpf * left
              <= Slack + QuantumLoss + Drift(refuelIdx)
        BY <2>4, <3>3 DEF TimeLeft
      <4> QED
        BY <2>1, <2>2, <3>3, <4>1
    <3> QED
      BY <3>1, <3>2, <3>3
  <2>5. TimeLeft'
    <3>1. ~intruderBreak' => ~Late(update.accT, update.accF)
      BY <2>1
    <3>2. ASSUME runIdx = 1, ~intruderBreak'
          PROVE  accT * Grain + QuietTpf * left <= Slack + Drift(refuelIdx)
      BY <2>3, <3>1, <3>2
    <3> QED
      BY <2>1, <2>2, <2>4, <3>2 DEF TimeLeft
  <2> QED
    BY <2>1, <2>5 DEF OvershootBounded
<1>4. CASE WasmPanic \/ MitigatePanic
  BY <1>4 DEF WasmPanic, MitigatePanic, runVars, TimeLeft, OvershootBounded
<1>5. CASE PanicLoop \/ UNCHANGED vars
  BY <1>5 DEF PanicLoop, vars, runVars, TimeLeft, OvershootBounded
<1> QED
  BY <1>1, <1>2, <1>3, <1>4, <1>5 DEF Next

(* A run that meets the target without interference overshoots it by at    *)
(* most the interference of one quantum, what intruders cost between one   *)
(* order and their stop, the rounding of the estimate, and what overhead   *)
(* and clock have added to its quanta. Rates being in fractions of a       *)
(* microsecond, the code's own constants can meet the premise.             *)
THEOREM OvershootIsBounded ==
  ASSUME Wide PROVE Spec => []OvershootBounded
<1>1. CASE Feasible
  <2>1. Init => TimeLeft /\ OvershootBounded
    BY DEF Init, TimeLeft, OvershootBounded
  <2>2. IInv /\ TimeLeft /\ OvershootBounded /\ [Next]_vars
          => TimeLeft' /\ OvershootBounded'
    BY Wide, <1>1, StepKeepsTimeLeft
  <2> QED
    BY IInvHolds, <2>1, <2>2, PTL DEF Spec
<1>2. CASE ~Feasible
  <2>1. OvershootBounded
    BY <1>2 DEF OvershootBounded
  <2>2. IInv => OvershootBounded
    BY <2>1
  <2> QED
    BY IInvHolds, <2>2, PTL
<1> QED
  BY <1>1, <1>2
-----------------------------------------------------------------------------
(* A record counts no more fuel than its run needs.                        *)
LEMMA RecordedFuel ==
  ASSUME IInv
  PROVE  /\ update.accF \in Nat /\ update.run \in {0, 1}
         /\ update.accF <= Needed(update.run)
<1>1. /\ update.accF \in Nat /\ update.run \in {0, 1} /\ runIdx \in {0, 1}
      /\ accF \in 0 .. Needed(runIdx)
  BY DEF IInv, TypeOK
<1>2. Needed(update.run) \in Nat /\ Needed(runIdx) \in Nat
  BY <1>1, Constants
<1>3. CASE resumeable
  BY <1>1, <1>2, <1>3 DEF IInv, RecordCurrent
<1>4. CASE ~resumeable
  BY <1>1, <1>2, <1>4 DEF IInv, RecordCurrent, FuelAccounted
<1> QED
  BY <1>1, <1>3, <1>4

(* The unsigned subtraction of mitigate leaves its range in no run whose   *)
(* fuel is within the total: if all runs but the first need at most that,  *)
(* only the first can be at fault, which initialises the kernel as well.   *)
THEOREM UnderflowInFirstRunOnly ==
  ASSUME RunFuel <= TotalFuel
  PROVE  Spec => [](update.run = 1 => NoUnderflow)
<1>1. ASSUME IInv, update.run = 1 PROVE NoUnderflow
  <2>1. update.accF \in Nat /\ update.accF <= RunFuel
    BY <1>1, RecordedFuel DEF Needed
  <2> QED
    BY <2>1, Constants DEF NoUnderflow
<1>2. IInv => (update.run = 1 => NoUnderflow)
  BY <1>1
<1> QED
  BY IInvHolds, <1>2, PTL

(* With a total that also covers the first run it stays in range for good, *)
(* which is the condition on the configuration that the code leaves open.  *)
THEOREM TotalCoversAllRuns ==
  ASSUME RunFuel <= TotalFuel, FirstRunFuel <= TotalFuel
  PROVE  Spec => []NoUnderflow
<1>1. ASSUME IInv PROVE NoUnderflow
  <2>1. update.accF \in Nat /\ Needed(update.run) <= TotalFuel
        /\ update.accF <= Needed(update.run) /\ Needed(update.run) \in Nat
    BY <1>1, RecordedFuel, Constants DEF Needed
  <2> QED
    BY <2>1, Constants DEF NoUnderflow
<1> QED
  BY IInvHolds, <1>1, PTL
=============================================================================
