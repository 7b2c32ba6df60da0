---------------------------- MODULE NativeProofs ----------------------------
(***************************************************************************)
(* Proofs about NativeSystem, for every width of the counters and of an    *)
(* element, every frequency, all loads, all matrices and all set masks.    *)
(*                                                                         *)
(* The invariant has a part for each component. Measurements: the counters *)
(* are related to the events that they have seen (Counted), the last       *)
(* update to both (Reported), and the clock to the time at which the run   *)
(* began (Timed). Kernel: the factors of two that the result has gained    *)
(* (KernelInv). Attack: where the last store went (AttackInv). What the    *)
(* inner loop of the kernel and the mask compute is defined by recursion,  *)
(* which BinaryTheorems unfolds.                                           *)
(***************************************************************************)
EXTENDS NativeSystem, BinaryTheorems

Running == pc \in {"first", "second", "end", "deliver"}

Counted ==
  /\ value \in [Counters -> 0 .. CntWord - 1]
  /\ over \in [Counters -> BOOLEAN]
  /\ caused \in [{Instr, L1D} -> Nat]
  /\ Running =>
       /\ \E q \in Nat : /\ caused[Instr] = q * CntWord + value[Instr]
                         /\ value[Chain] = q % CntWord
                         /\ over[Chain] <=> q >= CntWord
       /\ over[L1D] <=> caused[L1D] >= CntWord
       /\ ~over[L1D] => value[L1D] = caused[L1D]

Reported ==
  pc = "deliver" =>
    /\ update.instr = ChainOk(Instr, Chain)
    /\ update.l1d = Ok(L1D)
    /\ update.dt = GetTimeUs - last

Timed ==
  /\ cnt \in Nat /\ from \in Nat
  /\ Running => from <= cnt /\ last = from \div (Freq \div Mega)

MInv == Counted /\ Reported /\ Timed
-----------------------------------------------------------------------------
LEMMA Facts ==
  /\ CntWord \in Nat /\ CntWord > 0 /\ Mega \in Nat /\ Mega > 0
  /\ Freq \in Nat /\ Freq >= Mega
  /\ \A load \in Loads : load.ticks \in Nat /\ load.instr \in Nat
                         /\ load.l1d \in Nat
  /\ None \notin Nat
BY NativeAssumption

(* Of the numbers q * w + v and n, the upper part of the sum. *)
Carried(w, q, v, n, carry) ==
  /\ q * w + v + n = (q + carry) * w + ((v + n) % w)
  /\ ((q % w) + carry) % w = (q + carry) % w
  /\ q + carry >= w <=> q >= w \/ (q % w) + carry >= w

(* What is carried into the upper counter is what it is behind. *)
LEMMA CarryCounts ==
  ASSUME NEW w \in Nat, w > 0, NEW q \in Nat, NEW v \in 0 .. w - 1,
         NEW n \in Nat, NEW carry, carry = (v + n) \div w
  PROVE  Carried(w, q, v, n, carry)
<1> DEFINE r == (v + n) % w
           d == q \div w
           m == q % w
<1>1. carry \in Nat /\ r \in 0 .. w - 1 /\ v + n = w * carry + r
  OBVIOUS
<1>2. d \in Nat /\ m \in 0 .. w - 1 /\ q = w * d + m
  OBVIOUS
<1>3. (q + carry) * w = q * w + w * carry
  BY <1>1
<1>4. q * w + v + n = (q + carry) * w + r
  <2>1. q * w \in Nat /\ w * carry \in Nat /\ (q + carry) * w \in Nat
    BY <1>1
  <2>2. QED
    BY <1>1, <1>3, <2>1
<1> HIDE DEF d, m, r
<1>5. (m + carry) % w = (q + carry) % w
  <2> DEFINE e == (m + carry) \div w
             s == (m + carry) % w
  <2>1. e \in Nat /\ s \in 0 .. w - 1 /\ m + carry = w * e + s
    BY <1>1, <1>2
  <2> HIDE DEF e, s
  <2>2. q + carry = w * (d + e) + s
    <3>1. w * (d + e) = w * d + w * e
      BY <1>2, <2>1
    <3>2. w * d \in Nat /\ w * e \in Nat
      BY <1>2, <2>1
    <3>3. QED
      BY <1>1, <1>2, <2>1, <3>1, <3>2
  <2>3. (w * (d + e) + s) % w = s
    <3>1. d + e \in Nat
      BY <1>2, <2>1
    <3>2. QED
      BY <2>1, <3>1, OneRemainder
  <2>4. QED
    BY <2>2, <2>3 DEF s
<1>6. q < w => m = q
  BY DEF m
<1>7. q + carry >= w <=> q >= w \/ m + carry >= w
  BY <1>1, <1>2, <1>6
<1>8. QED
  BY <1>4, <1>5, <1>7 DEF r, m, Carried

LEMMA ElapseCounted ==
  ASSUME MInv, Elapse, Running
  PROVE  /\ Counted'
         /\ cnt' \in Nat /\ cnt' >= cnt
<1> DEFINE W == CntWord
<1>1. W \in Nat /\ W > 0
  BY Facts
<1>2. PICK load \in Loads :
        /\ cnt' = cnt + load.ticks
        /\ LET by == [x \in Counters |->
                 CASE x = Instr -> load.instr
                   [] x = L1D   -> load.l1d
                   [] x = Chain -> (value[Instr] + load.instr) \div CntWord]
           IN /\ value' = [x \in Counters |-> (value[x] + by[x]) % CntWord]
              /\ over' = [x \in Counters |->
                            over[x] \/ value[x] + by[x] >= CntWord]
              /\ caused' = [x \in {Instr, L1D} |-> caused[x] + by[x]]
  BY DEF Elapse
<1> DEFINE n == load.instr
           m == load.l1d
           carry == (value[Instr] + n) \div W
           by == [x \in Counters |->
                    CASE x = Instr -> n [] x = L1D -> m [] x = Chain -> carry]
<1>a. by[Instr] = n /\ by[L1D] = m /\ by[Chain] = carry
  BY DEF Counters, Instr, Chain, L1D
<1>b. /\ value' = [x \in Counters |-> (value[x] + by[x]) % W]
      /\ over' = [x \in Counters |-> over[x] \/ value[x] + by[x] >= W]
      /\ caused' = [x \in {Instr, L1D} |-> caused[x] + by[x]]
  BY <1>2
<1>c. Instr \in Counters /\ L1D \in Counters /\ Chain \in Counters
  BY DEF Counters
<1>3. n \in Nat /\ m \in Nat /\ load.ticks \in Nat
  BY Facts
<1>4. cnt \in Nat /\ cnt' \in Nat /\ cnt' >= cnt
  BY <1>2, <1>3 DEF MInv, Timed
<1> HIDE DEF by
<1>5. /\ value[Instr] \in 0 .. W - 1 /\ value[Chain] \in 0 .. W - 1
      /\ value[L1D] \in 0 .. W - 1
      /\ over \in [Counters -> BOOLEAN]
      /\ caused[Instr] \in Nat /\ caused[L1D] \in Nat
  BY DEF MInv, Counted, Counters, Instr, Chain, L1D
<1>6. carry \in Nat
  BY <1>1, <1>3, <1>5
<1>7. /\ value'[Instr] = (value[Instr] + n) % W
      /\ value'[Chain] = (value[Chain] + carry) % W
      /\ value'[L1D] = (value[L1D] + m) % W
      /\ caused'[Instr] = caused[Instr] + n
      /\ caused'[L1D] = caused[L1D] + m
  <2>1. /\ value'[Instr] = (value[Instr] + by[Instr]) % W
        /\ value'[Chain] = (value[Chain] + by[Chain]) % W
        /\ value'[L1D] = (value[L1D] + by[L1D]) % W
        /\ caused'[Instr] = caused[Instr] + by[Instr]
        /\ caused'[L1D] = caused[L1D] + by[L1D]
    BY <1>b, <1>c, Zenon
  <2>2. QED
    BY <1>a, <2>1, Zenon
<1>8. /\ over'[Chain] <=> over[Chain] \/ value[Chain] + carry >= W
      /\ over'[L1D] <=> over[L1D] \/ value[L1D] + m >= W
  <2>1. /\ over'[Chain] = (over[Chain] \/ value[Chain] + by[Chain] >= W)
        /\ over'[L1D] = (over[L1D] \/ value[L1D] + by[L1D] >= W)
    BY <1>b, <1>c, Zenon
  <2>2. QED
    BY <1>a, <2>1, Zenon
<1>10. value' \in [Counters -> 0 .. W - 1]
  <2>1. /\ (value[Instr] + n) % W \in 0 .. W - 1
        /\ (value[Chain] + carry) % W \in 0 .. W - 1
        /\ (value[L1D] + m) % W \in 0 .. W - 1
    BY <1>1, <1>3, <1>5, <1>6
  <2>2. \A x \in Counters : (value[x] + by[x]) % W \in 0 .. W - 1
    BY <1>a, <2>1, Zenon DEF Counters
  <2>3. QED
    BY <1>b, <2>2, Zenon
<1>11. over' \in [Counters -> BOOLEAN]
  BY <1>b, Zenon
<1>12. caused' \in [{Instr, L1D} -> Nat]
  <2>1. caused[Instr] + n \in Nat /\ caused[L1D] + m \in Nat
    BY <1>3, <1>5
  <2>2. \A x \in {Instr, L1D} : caused[x] + by[x] \in Nat
    BY <1>a, <2>1, Zenon
  <2>3. QED
    BY <1>b, <2>2, Zenon
<1> HIDE DEF carry, n, m
<1>13. \E q \in Nat : /\ caused'[Instr] = q * W + value'[Instr]
                      /\ value'[Chain] = q % W
                      /\ over'[Chain] <=> q >= W
  <2>1. PICK q \in Nat : /\ caused[Instr] = q * W + value[Instr]
                         /\ value[Chain] = q % W
                         /\ over[Chain] <=> q >= W
    BY DEF MInv, Counted
  <2>2. /\ q * W + value[Instr] + n
             = (q + carry) * W + ((value[Instr] + n) % W)
        /\ ((q % W) + carry) % W = (q + carry) % W
        /\ q + carry >= W <=> q >= W \/ (q % W) + carry >= W
    <3>1. n \in Nat /\ value[Instr] \in 0 .. W - 1 /\ W \in Nat /\ W > 0
          /\ carry = (value[Instr] + n) \div W
      BY <1>1, <1>3, <1>5 DEF carry
    <3> HIDE DEF W
    <3>2. Carried(W, q, value[Instr], n, carry)
      BY <3>1, CarryCounts
    <3>3. QED
      BY <3>2 DEF Carried
  <2>3. q + carry \in Nat
    BY <1>6
  <2>4. caused'[Instr] = (q + carry) * W + value'[Instr]
    <3>1. q * W \in Nat /\ (q + carry) * W \in Nat
      BY <1>1, <1>6
    <3>2. (value[Instr] + n) % W \in Nat
      BY <1>1, <1>3, <1>5
    <3>3. QED
      BY <1>3, <1>5, <1>7, <2>1, <2>2, <3>1, <3>2
  <2>5. value'[Chain] = (q + carry) % W
    BY <1>7, <2>1, <2>2
  <2>6. over'[Chain] <=> q + carry >= W
    BY <1>8, <2>1, <2>2
  <2>7. QED
    BY <2>3, <2>4, <2>5, <2>6
<1>14. /\ over'[L1D] <=> caused'[L1D] >= W
       /\ ~over'[L1D] => value'[L1D] = caused'[L1D]
  <2>1. /\ over[L1D] <=> caused[L1D] >= W
        /\ ~over[L1D] => value[L1D] = caused[L1D]
    BY DEF MInv, Counted
  <2>2. CASE over[L1D]
    BY <1>1, <1>3, <1>5, <1>7, <1>8, <2>1, <2>2
  <2>3. CASE ~over[L1D]
    <3>1. over'[L1D] <=> caused'[L1D] >= W
      BY <1>7, <1>8, <2>1, <2>3
    <3>2. value[L1D] + m < W => (value[L1D] + m) % W = value[L1D] + m
      BY <1>1, <1>3, <1>5
    <3>3. ~over'[L1D] => value[L1D] + m < W
      BY <1>1, <1>3, <1>5, <1>8
    <3>4. QED
      BY <1>7, <2>1, <2>3, <3>1, <3>2, <3>3
  <2>4. QED
    BY <2>2, <2>3
<1>15. QED
  BY <1>4, <1>10, <1>11, <1>12, <1>13, <1>14 DEF Counted

LEMMA InitMeasured == SystemInit => MInv
<1> SUFFICES ASSUME SystemInit PROVE MInv
  OBVIOUS
<1>1. Counted
  BY Facts DEF SystemInit, NativeInit, Counted, Running
<1>2. Reported /\ Timed
  BY DEF SystemInit, NativeInit, Reported, Timed, Running
<1>3. QED
  BY <1>1, <1>2 DEF MInv

LEMMA BeginRunMeasured == MInv /\ BeginRun => MInv'
<1> SUFFICES ASSUME MInv, BeginRun PROVE MInv'
  OBVIOUS
<1>1. CntWord \in Nat /\ CntWord > 0
  BY Facts
<1>2. /\ value' = [x \in Counters |-> 0]
      /\ over' = [x \in Counters |-> FALSE]
      /\ caused' = [x \in {Instr, L1D} |-> 0]
      /\ pc' = "first" /\ last' = GetTimeUs /\ from' = cnt /\ cnt' = cnt
  BY DEF BeginRun
<1>3. /\ value' \in [Counters -> 0 .. CntWord - 1]
      /\ over' \in [Counters -> BOOLEAN]
      /\ caused' \in [{Instr, L1D} -> Nat]
  BY <1>1, <1>2
<1>4. /\ value'[Instr] = 0 /\ value'[Chain] = 0 /\ value'[L1D] = 0
      /\ caused'[Instr] = 0 /\ caused'[L1D] = 0
  BY <1>2 DEF Counters
<1>5. ~over'[Chain] /\ ~over'[L1D]
  BY <1>2 DEF Counters
<1>6. /\ caused'[Instr] = 0 * CntWord + value'[Instr]
      /\ value'[Chain] = 0 % CntWord
      /\ ~ 0 >= CntWord
      /\ ~ caused'[L1D] >= CntWord
  BY <1>1, <1>4
<1>7. Counted'
  <2>1. \E q \in Nat : /\ caused'[Instr] = q * CntWord + value'[Instr]
                       /\ value'[Chain] = q % CntWord
                       /\ over'[Chain] <=> q >= CntWord
    BY <1>5, <1>6
  <2>2. QED
    BY <1>3, <1>4, <1>5, <1>6, <2>1 DEF Counted
<1>8. Reported' /\ Timed'
  BY <1>2 DEF MInv, Timed, Reported, GetTimeUs
<1>9. QED
  BY <1>7, <1>8 DEF MInv

LEMMA LoopMeasured ==
  ASSUME MInv, pc \in {"first", "second"}, pc' \in {"second", "end"},
         Elapse, UNCHANGED clockVars
  PROVE  MInv'
<1>1. Counted' /\ cnt' \in Nat /\ cnt' >= cnt
  BY ElapseCounted DEF Running
<1>2. Timed'
  BY <1>1 DEF MInv, Timed, Running, clockVars
<1>3. QED
  BY <1>1, <1>2 DEF MInv, Reported

LEMMA StepMeasured == MInv /\ [SystemNext]_systemVars => MInv'
<1> SUFFICES ASSUME MInv, [SystemNext]_systemVars PROVE MInv'
  OBVIOUS
<1>1. CASE BeginRun
  BY <1>1, BeginRunMeasured
<1>2. CASE FirstLoop
  BY <1>2, LoopMeasured DEF FirstLoop
<1>3. CASE SecondLoop
  BY <1>3, LoopMeasured DEF SecondLoop
<1>4. CASE EndRun
  <2>1. /\ UNCHANGED <<value, over, caused, cnt, last, from>>
        /\ pc = "end" /\ pc' = "deliver"
        /\ update'.instr = ChainOk(Instr, Chain) /\ update'.l1d = Ok(L1D)
        /\ update'.dt = GetTimeUs - last
    BY <1>4 DEF EndRun, pmuVars, clockVars
  <2>2. Counted'
    BY <2>1 DEF MInv, Counted, Running
  <2>3. Timed'
    BY <2>1 DEF MInv, Timed, Running
  <2>4. Reported'
    BY <2>1 DEF Reported, ChainOk, Ok, GetTimeUs
  <2>5. QED
    BY <2>2, <2>3, <2>4 DEF MInv
<1>5. CASE Deliver
  <2>1. /\ UNCHANGED <<value, over, caused, cnt, last, from>>
        /\ pc' = "begin"
    BY <1>5 DEF Deliver, pmuVars, clockVars
  <2>2. QED
    BY <2>1 DEF MInv, Counted, Timed, Reported, Running
<1>6. CASE UNCHANGED nativeVars
  <2>1. UNCHANGED <<pc, value, over, caused, cnt, last, from, update>>
    BY <1>6 DEF nativeVars, pmuVars, clockVars
  <2>2. Counted'
    BY <2>1 DEF MInv, Counted, Running
  <2>3. Timed' /\ Reported'
    BY <2>1 DEF MInv, Timed, Reported, Running, ChainOk, Ok, GetTimeUs
  <2>4. QED
    BY <2>2, <2>3 DEF MInv
<1>7. QED
  BY <1>1, <1>2, <1>3, <1>4, <1>5, <1>6
     DEF SystemNext, Core0Step, NativeNext, BoundReached, IntruderStep,
         systemVars

LEMMA AlwaysMeasured == SystemSpec => []MInv
<1>1. QED
  BY InitMeasured, StepMeasured, PTL DEF SystemSpec

(* Whatever the loads, an update's counts are those of its run, and one is *)
(* missing exactly if it does not fit (PerfMon::stop, chain and ok).       *)
THEOREM CountsAreExact == SystemSpec => []CountsExact
<1>1. ASSUME MInv PROVE CountsExact
  <2> SUFFICES ASSUME pc = "deliver"
               PROVE  /\ update.instr = IF caused[Instr] < CntWord * CntWord
                                        THEN caused[Instr] ELSE None
                      /\ update.l1d = IF caused[L1D] < CntWord
                                      THEN caused[L1D] ELSE None
    BY DEF CountsExact
  <2>1. /\ CntWord \in Nat /\ CntWord > 0
        /\ value[Instr] \in 0 .. CntWord - 1
        /\ caused[Instr] \in Nat /\ caused[L1D] \in Nat
    BY <1>1, Facts DEF MInv, Counted, Counters
  <2>2. PICK q \in Nat : /\ caused[Instr] = q * CntWord + value[Instr]
                         /\ value[Chain] = q % CntWord
                         /\ over[Chain] <=> q >= CntWord
    BY <1>1 DEF MInv, Counted, Running
  <2>3. CASE q < CntWord
    <3>1. update.instr = caused[Instr]
      <4>1. q % CntWord = q
        BY <2>1, <2>3
      <4>2. ~over[Chain]
        BY <2>1, <2>2, <2>3
      <4>3. QED
        BY <1>1, <2>2, <4>1, <4>2 DEF MInv, Reported, ChainOk
    <3>2. q * CntWord + CntWord <= CntWord * CntWord
      <4>1. (q + 1) * CntWord <= CntWord * CntWord
        BY <2>1, <2>3
      <4>2. (q + 1) * CntWord = q * CntWord + CntWord
        BY <2>1
      <4>3. QED
        BY <4>1, <4>2
    <3>3. caused[Instr] < CntWord * CntWord
      <4>1. q * CntWord \in Nat /\ CntWord * CntWord \in Nat
        BY <2>1
      <4>2. QED
        BY <2>1, <2>2, <3>2, <4>1
    <3>4. QED
      BY <1>1, <2>1, <3>1, <3>3 DEF MInv, Counted, Reported, Running, Ok
  <2>4. CASE q >= CntWord
    <3>1. over[Chain]
      BY <2>1, <2>2, <2>4
    <3>2. update.instr = None
      BY <1>1, <3>1 DEF MInv, Reported, ChainOk
    <3>3. q * CntWord >= CntWord * CntWord
      BY <2>1, <2>4
    <3>4. ~ caused[Instr] < CntWord * CntWord
      <4>1. q * CntWord \in Nat /\ CntWord * CntWord \in Nat
        BY <2>1
      <4>2. QED
        BY <2>1, <2>2, <3>3, <4>1
    <3>5. QED
      BY <1>1, <2>1, <3>2, <3>4 DEF MInv, Counted, Reported, Running, Ok
  <2>5. QED
    BY <2>1, <2>3, <2>4
<1>2. QED
  BY <1>1, AlwaysMeasured, PTL

(* For every frequency, a duration is the difference of two roundings by   *)
(* a microsecond's ticks, which are themselves rounded (SysTick).          *)
THEOREM DurationsHold == SystemSpec => []DurationBracketed
<1>1. ASSUME MInv PROVE DurationBracketed
  <2> DEFINE T == Freq \div Mega
             x == cnt \div T
             y == from \div T
  <2> SUFFICES ASSUME pc = "deliver"
               PROVE  /\ (cnt - from) * Mega < (update.dt + 1) * Freq
                      /\ (update.dt - 1) * (Freq - Mega) <= (cnt - from) * Mega
    BY DEF DurationBracketed
  <2>1. /\ cnt \in Nat /\ from \in Nat /\ from <= cnt /\ last = y
        /\ update.dt = x - y
    BY <1>1 DEF MInv, Timed, Reported, Running, GetTimeUs
  <2>2. Freq \in Nat /\ Mega \in Nat /\ Mega > 0 /\ Freq >= Mega
    BY Facts
  <2>3. T \in Nat /\ T > 0 /\ Mega * T <= Freq /\ Freq < Mega * (T + 1)
    BY <2>2
  <2> HIDE DEF T
  <2>4. x \in Nat /\ T * x <= cnt /\ cnt < T * (x + 1)
    BY <2>1, <2>3
  <2>5. y \in Nat /\ T * y <= from /\ from < T * (y + 1)
    BY <2>1, <2>3
  <2> HIDE DEF x, y
  <2> DEFINE d == update.dt
             e == cnt - from
  <2>6. d \in Int /\ d = x - y /\ e \in Nat
    BY <2>1, <2>4, <2>5
  <2>7. /\ T * (x + 1) = T * x + T /\ T * (y + 1) = T * y + T
        /\ T * (d + 1) = T * x - T * y + T /\ T * (d - 1) = T * x - T * y - T
    BY <2>3, <2>4, <2>5, <2>6
  <2>8. /\ T * x \in Nat /\ T * y \in Nat
        /\ T * (d + 1) \in Int /\ T * (d - 1) \in Int
    BY <2>3, <2>4, <2>5, <2>6
  <2>9. e < T * (d + 1) /\ T * (d - 1) < e
    BY <2>1, <2>3, <2>4, <2>5, <2>6, <2>7, <2>8
  <2> HIDE DEF d, e
  <2>10. d + 1 >= 1
    <3>1. CASE d + 1 <= 0
      <4>1. T * (d + 1) <= 0
        BY <2>3, <2>6, <3>1
      <4>2. QED
        BY <2>6, <2>8, <2>9, <4>1
    <3>2. QED
      BY <2>6, <3>1
  <2>11. e * Mega < (d + 1) * Freq
    <3>1. e * Mega < (T * (d + 1)) * Mega
      BY <2>2, <2>6, <2>8, <2>9
    <3>2. (T * (d + 1)) * Mega = (d + 1) * (Mega * T)
      BY <2>2, <2>3, <2>6
    <3>3. (d + 1) * (Mega * T) <= (d + 1) * Freq
      BY <2>2, <2>3, <2>6, <2>10
    <3>4. /\ e * Mega \in Int /\ (d + 1) * (Mega * T) \in Int
          /\ (d + 1) * Freq \in Int
      BY <2>2, <2>3, <2>6
    <3>5. QED
      BY <3>1, <3>2, <3>3, <3>4
  <2>12. (d - 1) * (Freq - Mega) <= e * Mega
    <3>1. CASE d >= 1
      <4>1. Freq - Mega <= Mega * T /\ Freq - Mega \in Nat /\ Mega * T \in Nat
        <5>1. Mega * (T + 1) = Mega * T + Mega /\ Mega * T \in Nat
          BY <2>2, <2>3
        <5>2. QED
          BY <2>2, <2>3, <5>1
      <4>2. (d - 1) * (Freq - Mega) <= (d - 1) * (Mega * T)
        BY <2>6, <3>1, <4>1
      <4>3. (d - 1) * (Mega * T) = (T * (d - 1)) * Mega
        BY <2>2, <2>3, <2>6
      <4>4. (T * (d - 1)) * Mega < e * Mega
        BY <2>2, <2>6, <2>8, <2>9
      <4>5. /\ (d - 1) * (Freq - Mega) \in Int /\ e * Mega \in Int
            /\ (d - 1) * (Mega * T) \in Int
        BY <2>2, <2>3, <2>6
      <4>6. QED
        BY <4>2, <4>3, <4>4, <4>5
    <3>2. CASE d = 0
      <4>1. (d - 1) * (Freq - Mega) = Mega - Freq
        BY <2>2, <3>2
      <4>2. e * Mega \in Nat
        BY <2>2, <2>6
      <4>3. QED
        BY <2>2, <4>1, <4>2
    <3>3. QED
      BY <2>6, <2>10, <3>1, <3>2
  <2>13. QED
    BY <2>11, <2>12 DEF d, e
<1>2. QED
  BY <1>1, AlwaysMeasured, PTL
-----------------------------------------------------------------------------
(* A step of the innermost loop.                                           *)
Term(s, x, y, p, k) == s * x[p[1], k] * y[k, p[2]]

LEMMA WordFacts ==
  /\ N \in Nat /\ N > 0 /\ Bits \in Nat
  /\ Word \in Nat /\ Word > 0
BY NativeAssumption, Pow2Type DEF Word

LEMMA TermType ==
  ASSUME NEW s \in Nat, NEW x \in Matrix, NEW y \in Matrix,
         NEW p \in Index \X Index, NEW k \in Index
  PROVE  /\ x[p[1], k] \in Nat /\ y[k, p[2]] \in Nat
         /\ Term(s, x, y, p, k) \in Nat
<1> DEFINE u == x[p[1], k]
           v == y[k, p[2]]
<1>1. <<p[1], k>> \in Index \X Index /\ <<k, p[2]>> \in Index \X Index
  OBVIOUS
<1>2. u \in 0 .. Word - 1 /\ v \in 0 .. Word - 1
  BY <1>1, Zenon DEF Matrix
<1>3. Term(s, x, y, p, k) = s * u * v
  BY DEF Term
<1> HIDE DEF u, v
<1>4. u \in Nat /\ v \in Nat
  BY <1>2, WordFacts
<1>5. s * u * v \in Nat
  BY <1>4
<1>6. QED
  BY <1>3, <1>4, <1>5 DEF u, v

(* What the partial sums of the innermost loop satisfy.                    *)
Sums(sum, acc, s, x, y, p) ==
  /\ sum \in [0 .. N -> 0 .. Word - 1]
  /\ sum[0] = acc[p]
  /\ \A k \in Index : sum[k] = (sum[k - 1] + Term(s, x, y, p, k)) % Word
  /\ InnerLoop(acc[p], s, x, y, p) = sum[N]

(* The innermost loop, unfolded: a sum that is wrapped at every step.      *)
LEMMA AccumulateUnfolds ==
  ASSUME NEW acc \in Matrix, NEW s \in Nat, NEW x \in Matrix, NEW y \in Matrix,
         NEW p \in Index \X Index
  PROVE  \E sum : Sums(sum, acc, s, x, y, p)
<1> DEFINE Elem == 0 .. Word - 1
<1>1. PICK step : step = [t \in Elem \X (1 .. N) |->
                            (t[1] + Term(s, x, y, p, t[2])) % Word]
  OBVIOUS
<1>2. step \in [Elem \X (1 .. N) -> Elem]
  <2>1. ASSUME NEW t \in Elem \X (1 .. N)
        PROVE  (t[1] + Term(s, x, y, p, t[2])) % Word \in Elem
    <3>1. t[1] \in Nat /\ t[2] \in Index
      BY WordFacts DEF Index
    <3>2. Term(s, x, y, p, t[2]) \in Nat
      BY <3>1, TermType
    <3>3. QED
      BY <3>1, <3>2, WordFacts
  <2>2. QED
    BY <1>1, <2>1
<1>3. acc[p] \in Elem /\ N \in 0 .. N
  BY WordFacts DEF Matrix
<1>4. PICK g : Unfolds(g, Elem, acc[p], step, N)
  <2>1. N \in Nat
    BY WordFacts
  <2> HIDE DEF Elem
  <2>2. QED
    BY <1>2, <1>3, <2>1, RecursionUpTo, Zenon
<1>5. g \in [0 .. N -> Elem] /\ g[0] = acc[p]
  BY <1>4 DEF Unfolds
<1>6. ASSUME NEW k \in 1 .. N
      PROVE  g[k] = (g[k - 1] + Term(s, x, y, p, k)) % Word
  <2>1. g[k] = step[<<g[k - 1], k>>] /\ g[k - 1] \in Elem
    BY <1>4, WordFacts DEF Unfolds
  <2>2. QED
    BY <1>1, <2>1
<1> DEFINE Eq(h) ==
             h = [k \in 0 .. N |->
                    IF k = 0 THEN acc[p]
                    ELSE (h[k - 1] + s * x[p[1], k] * y[k, p[2]]) % Word]
           sum == CHOOSE h : Eq(h)
<1>7. Eq(g)
  <2>1. \A k \in 0 .. N : k # 0 => k \in 1 .. N
    BY WordFacts
  <2>2. \A k \in 1 .. N :
          g[k] = (g[k - 1] + s * x[p[1], k] * y[k, p[2]]) % Word
    BY <1>6 DEF Term
  <2>3. QED
    BY <1>5, <2>1, <2>2
<1>8. Eq(sum)
  <2> HIDE DEF Eq
  <2>1. QED
    BY <1>7, Zenon
<1>9. InnerLoop(acc[p], s, x, y, p) = sum[N]
  BY Zenon DEF InnerLoop
<1> HIDE DEF sum
<1>10. /\ sum[0] = acc[p]
       /\ \A k \in 1 .. N : sum[k] = (sum[k - 1] + Term(s, x, y, p, k)) % Word
  <2>1. \A k \in 1 .. N : k \in 0 .. N /\ k # 0
    OBVIOUS
  <2>2. 0 \in 0 .. N
    BY WordFacts
  <2>3. QED
    BY <1>8, <2>1, <2>2 DEF Term
<1>11. sum \in [0 .. N -> Elem]
  <2>1. sum = [k \in 0 .. N |-> sum[k]]
    <3>1. sum = [k \in 0 .. N |->
                   IF k = 0 THEN acc[p]
                   ELSE (sum[k - 1] + s * x[p[1], k] * y[k, p[2]]) % Word]
      BY <1>8, Zenon
    <3>2. QED
      BY <3>1, Zenon
  <2> DEFINE T == {k \in Nat : k <= N => sum[k] \in Elem}
  <2>2. 0 \in T
    BY <1>3, <1>10
  <2>3. ASSUME NEW k \in Nat, k \in T PROVE k + 1 \in T
    <3> SUFFICES ASSUME k + 1 <= N PROVE sum[k + 1] \in Elem
      OBVIOUS
    <3>1. k + 1 \in 1 .. N /\ (k + 1) - 1 = k /\ sum[k] \in Elem
      BY <2>3, WordFacts
    <3>2. sum[k + 1] = (sum[k] + Term(s, x, y, p, k + 1)) % Word
      BY <1>10, <3>1
    <3>3. Term(s, x, y, p, k + 1) \in Nat
      BY <3>1, TermType DEF Index
    <3>4. QED
      BY <3>1, <3>2, <3>3, WordFacts
  <2>4. Nat \subseteq T
    <3> HIDE DEF T
    <3>1. QED
      BY <2>2, <2>3, Induction
  <2>5. \A k \in 0 .. N : sum[k] \in Elem
    BY <2>4, WordFacts
  <2>6. QED
    BY <2>1, <2>5, Zenon
<1>12. QED
  BY <1>9, <1>10, <1>11 DEF Index, Sums

LEMMA AccumulateType ==
  ASSUME NEW acc \in Matrix, NEW s \in Nat, NEW x \in Matrix, NEW y \in Matrix
  PROVE  Accumulate(acc, s, x, y) \in Matrix
<1>1. \A p \in Index \X Index : InnerLoop(acc[p], s, x, y, p) \in 0 .. Word - 1
  <2>1. TAKE p \in Index \X Index
  <2>2. PICK sum : Sums(sum, acc, s, x, y, p)
    BY AccumulateUnfolds, Zenon
  <2>3. N \in 0 .. N
    BY WordFacts
  <2>4. QED
    BY <2>2, <2>3 DEF Sums
<1>2. QED
  BY <1>1, Zenon DEF Accumulate, Matrix

(* A factor that an element of acc, all terms and the word have in common  *)
(* is one of the element of the sum.                                       *)
LEMMA AccumulateDivides ==
  ASSUME NEW acc \in Matrix, NEW s \in Nat, NEW x \in Matrix, NEW y \in Matrix,
         NEW p \in Index \X Index, NEW d \in Nat, d > 0,
         Divides(d, Word), Divides(d, acc[p]),
         \A k \in Index : Divides(d, Term(s, x, y, p, k))
  PROVE  Divides(d, Accumulate(acc, s, x, y)[p])
<1>0. PICK sum : Sums(sum, acc, s, x, y, p)
  BY AccumulateUnfolds, Zenon
<1>1. /\ sum \in [0 .. N -> 0 .. Word - 1]
      /\ sum[0] = acc[p]
      /\ \A k \in Index : sum[k] = (sum[k - 1] + Term(s, x, y, p, k)) % Word
      /\ Accumulate(acc, s, x, y)[p] = sum[N]
  BY <1>0, Zenon DEF Sums, Accumulate
<1> DEFINE T == {k \in Nat : k <= N => Divides(d, sum[k])}
<1>2. 0 \in T
  BY <1>1
<1>3. ASSUME NEW k \in Nat, k \in T PROVE k + 1 \in T
  <2> SUFFICES ASSUME k + 1 <= N PROVE Divides(d, sum[k + 1])
    OBVIOUS
  <2>1. k + 1 \in Index /\ (k + 1) - 1 = k /\ sum[k] \in Nat
    <3>1. k \in 0 .. N /\ k + 1 \in Index /\ (k + 1) - 1 = k
      BY WordFacts DEF Index
    <3>2. sum[k] \in 0 .. Word - 1
      BY <1>1, <3>1, Zenon
    <3>3. QED
      BY <3>1, <3>2, WordFacts
  <2>2. Divides(d, sum[k])
    BY <1>3, WordFacts
  <2>3. Term(s, x, y, p, k + 1) \in Nat /\ Divides(d, Term(s, x, y, p, k + 1))
    BY <2>1, TermType
  <2>4. Divides(d, sum[k] + Term(s, x, y, p, k + 1))
    BY <2>1, <2>2, <2>3, DividesSum
  <2>5. sum[k + 1] = (sum[k] + Term(s, x, y, p, k + 1)) % Word
    BY <1>1, <2>1
  <2>6. sum[k] + Term(s, x, y, p, k + 1) \in Nat
    BY <2>1, <2>3
  <2>7. QED
    BY <2>4, <2>5, <2>6, DividesWrapped, WordFacts
<1>4. Nat \subseteq T
  <2> HIDE DEF T
  <2>1. QED
    BY <1>2, <1>3, Induction
<1>5. QED
  BY <1>1, <1>4, WordFacts

(* The factors of two that a product with x or with y gains.               *)
LEMMA LoopGains ==
  ASSUME NEW s \in Nat, NEW x \in Matrix, NEW y \in Matrix,
         evens \in 0 .. Bits,
         \/ \A p \in Index \X Index : x[p] % pow2[evens] = 0
         \/ \A p \in Index \X Index : y[p] % pow2[evens] = 0
  PROVE  /\ WithFactor(s) \in 0 .. Bits
         /\ \A p \in Index \X Index :
              Accumulate(Zero, s, x, y)[p] % pow2[WithFactor(s)] = 0
<1> DEFINE e == WithFactor(s)
           d == pow2[evens]
           f == IF s % 2 = 0 /\ evens < Bits THEN 2 ELSE 1
<1>1. e \in 0 .. Bits /\ e \in Nat /\ d \in Nat /\ d > 0
      /\ pow2[e] \in Nat /\ pow2[e] > 0
  BY WordFacts, Pow2Type DEF WithFactor
<1>2. pow2[e] = f * d /\ f \in {1, 2} /\ Divides(f, s)
  <2>1. CASE s % 2 = 0 /\ evens < Bits
    <3>1. e = evens + 1 /\ f = 2 /\ evens \in Nat
      BY <2>1 DEF WithFactor
    <3>2. Divides(2, s)
      BY <2>1, DividesRemainder
    <3>3. QED
      BY <3>1, <3>2, Pow2Next
  <2>2. CASE ~ (s % 2 = 0 /\ evens < Bits)
    <3>1. e = evens /\ f = 1 /\ s = 1 * s
      BY <2>2 DEF WithFactor
    <3>2. QED
      BY <1>1, <3>1 DEF Divides
  <2>3. QED
    BY <2>1, <2>2
<1>3. Divides(pow2[e], Word)
  <2>1. Bits - e \in Nat /\ Bits = e + (Bits - e)
    BY <1>1, WordFacts
  <2>2. Word = pow2[e] * pow2[Bits - e]
    BY <1>1, <2>1, Pow2Sum DEF Word
  <2>3. QED
    BY <2>1, <2>2, Pow2Type DEF Divides
<1>4. Zero \in Matrix /\ \A p \in Index \X Index : Zero[p] = 0
  BY WordFacts DEF Zero, Matrix
<1> HIDE DEF e, d, f
<1>5. ASSUME NEW p \in Index \X Index
      PROVE  Accumulate(Zero, s, x, y)[p] % pow2[e] = 0
  <2>1. ASSUME NEW k \in Index PROVE Divides(pow2[e], Term(s, x, y, p, k))
    <3> DEFINE u == x[p[1], k]
               v == y[k, p[2]]
    <3>1. u \in Nat /\ v \in Nat
      BY TermType
    <3>2. <<p[1], k>> \in Index \X Index /\ <<k, p[2]>> \in Index \X Index
      OBVIOUS
    <3>3. u % d = 0 \/ v % d = 0
      BY <3>2 DEF d
    <3> HIDE DEF u, v
    <3>4. Divides(d, u * v)
      <4>1. u = 1 * u /\ v = 1 * v /\ u * v = v * u /\ d * 1 = d
        BY <1>1, <3>1
      <4>2. Divides(1, u) /\ Divides(1, v)
        BY <3>1, <4>1 DEF Divides
      <4>3. CASE u % d = 0
        <5>1. Divides(d, u)
          BY <1>1, <3>1, <4>3, DividesRemainder
        <5>2. Divides(d * 1, u * v)
          BY <1>1, <3>1, <4>2, <5>1, DividesProduct
        <5>3. QED
          BY <4>1, <5>2
      <4>4. CASE v % d = 0
        <5>1. Divides(d, v)
          BY <1>1, <3>1, <4>4, DividesRemainder
        <5>2. Divides(d * 1, v * u)
          BY <1>1, <3>1, <4>2, <5>1, DividesProduct
        <5>3. QED
          BY <4>1, <5>2
      <4>5. QED
        BY <3>3, <4>3, <4>4
    <3>5. Divides(f * d, s * (u * v))
      <4>1. f \in Nat /\ u * v \in Nat
        BY <1>2, <3>1
      <4>2. QED
        BY <1>1, <1>2, <3>4, <4>1, DividesProduct
    <3>6. Term(s, x, y, p, k) = s * (u * v)
      <4>1. Term(s, x, y, p, k) = s * u * v
        BY DEF Term, u, v
      <4>2. s * u * v = s * (u * v)
        BY <3>1
      <4>3. QED
        BY <4>1, <4>2
    <3>7. QED
      BY <1>2, <3>5, <3>6
  <2>2. Divides(pow2[e], Zero[p])
    <3>1. 0 = pow2[e] * 0
      BY <1>1
    <3>2. QED
      BY <1>4, <3>1 DEF Divides
  <2>3. Divides(pow2[e], Accumulate(Zero, s, x, y)[p])
    BY <1>1, <1>3, <1>4, <2>1, <2>2, AccumulateDivides
  <2>4. Accumulate(Zero, s, x, y)[p] \in Nat
    <3>1. Accumulate(Zero, s, x, y) \in Matrix
      BY <1>4, AccumulateType
    <3>2. QED
      BY <3>1, WordFacts DEF Matrix
  <2>5. QED
    BY <1>1, <2>3, <2>4, DividesRemainder
<1>6. QED
  BY <1>1, <1>5 DEF e

(* All elements of the matrix have the factor.                             *)
KernelInv ==
  /\ pc \in {"begin", "first", "second", "end", "deliver"}
  /\ a \in Matrix /\ b \in Matrix /\ c \in Matrix /\ tmp \in Matrix
  /\ beta \in 0 .. Word - 1
  /\ evens \in 0 .. Bits
  /\ KernelDecays

LEMMA KernelInit == SystemInit => KernelInv
<1> SUFFICES ASSUME SystemInit PROVE KernelInv
  OBVIOUS
<1>1. /\ pc = "begin" /\ evens = 0 /\ beta = 0
      /\ a \in Matrix /\ b \in Matrix /\ c \in Matrix /\ tmp \in Matrix
  BY NativeAssumption DEF SystemInit, NativeInit
<1>2. KernelDecays
  <2>1. \A p \in Index \X Index : a[p] \in 0 .. Word - 1
    BY <1>1 DEF Matrix
  <2>2. \A p \in Index \X Index : a[p] % 1 = 0
    BY <2>1, WordFacts
  <2>3. QED
    BY <1>1, <2>2, Pow2Next DEF KernelDecays
<1>3. QED
  BY <1>1, <1>2, WordFacts DEF KernelInv

LEMMA KernelFirst == KernelInv /\ FirstLoop => KernelInv'
<1> SUFFICES ASSUME KernelInv, FirstLoop PROVE KernelInv'
  OBVIOUS
<1>1. /\ pc = "first" /\ pc' = "second" /\ a' = a /\ b' = b /\ c' = c
      /\ beta' \in 0 .. Word - 1
  BY NativeAssumption DEF FirstLoop
<1>2. PICK alpha \in Draws : /\ tmp' = Accumulate(Zero, alpha, a, b)
                             /\ evens' = WithFactor(alpha)
  BY DEF FirstLoop
<1>3. alpha \in Nat /\ Zero \in Matrix
  BY NativeAssumption, WordFacts DEF Zero, Matrix
<1>4. /\ evens \in 0 .. Bits /\ a \in Matrix /\ b \in Matrix /\ c \in Matrix
      /\ \A p \in Index \X Index : a[p] % pow2[evens] = 0
  BY <1>1 DEF KernelInv, KernelDecays
<1>5. /\ evens' \in 0 .. Bits
      /\ \A p \in Index \X Index : tmp'[p] % pow2[evens'] = 0
  BY <1>2, <1>3, <1>4, LoopGains
<1>6. tmp' \in Matrix
  BY <1>2, <1>3, <1>4, AccumulateType
<1>7. KernelDecays'
  BY <1>1, <1>5 DEF KernelDecays
<1>8. QED
  BY <1>1, <1>4, <1>5, <1>6, <1>7 DEF KernelInv

LEMMA KernelSecond == KernelInv /\ SecondLoop => KernelInv'
<1> SUFFICES ASSUME KernelInv, SecondLoop PROVE KernelInv'
  OBVIOUS
<1>1. /\ pc = "second" /\ pc' = "end" /\ b' = b /\ c' = c /\ tmp' = tmp
      /\ beta' = beta
      /\ a' = Accumulate(Zero, beta, tmp, c) /\ evens' = WithFactor(beta)
  BY DEF SecondLoop
<1>2. beta \in Nat /\ beta \in 0 .. Word - 1 /\ Zero \in Matrix
  BY WordFacts DEF Zero, Matrix, KernelInv
<1>3. /\ evens \in 0 .. Bits /\ tmp \in Matrix /\ b \in Matrix /\ c \in Matrix
      /\ \A p \in Index \X Index : tmp[p] % pow2[evens] = 0
  BY <1>1 DEF KernelInv, KernelDecays
<1>4. /\ evens' \in 0 .. Bits
      /\ \A p \in Index \X Index : a'[p] % pow2[evens'] = 0
  BY <1>1, <1>2, <1>3, LoopGains
<1>5. a' \in Matrix
  BY <1>1, <1>2, <1>3, AccumulateType
<1>6. KernelDecays'
  BY <1>1, <1>4 DEF KernelDecays
<1>7. QED
  BY <1>1, <1>2, <1>3, <1>4, <1>5, <1>6 DEF KernelInv

LEMMA KernelStep == KernelInv /\ [SystemNext]_systemVars => KernelInv'
<1> SUFFICES ASSUME KernelInv, [SystemNext]_systemVars PROVE KernelInv'
  OBVIOUS
<1>1. CASE FirstLoop
  BY <1>1, KernelFirst
<1>2. CASE SecondLoop
  BY <1>2, KernelSecond
<1>3. CASE /\ UNCHANGED kernelVars
           /\ pc' \in {"begin", "first", "deliver", pc}
           /\ pc' \in {"begin", "first", "deliver"} => pc # "second"
  BY <1>3 DEF KernelInv, KernelDecays, kernelVars
<1>4. CASE BeginRun \/ EndRun \/ Deliver \/ UNCHANGED nativeVars
  <2>1. /\ UNCHANGED kernelVars
        /\ pc' \in {"begin", "first", "deliver", pc}
        /\ pc' \in {"begin", "first", "deliver"} => pc # "second"
    BY <1>4 DEF BeginRun, EndRun, Deliver, nativeVars
  <2>2. QED
    BY <1>3, <2>1
<1>5. QED
  BY <1>1, <1>2, <1>4
     DEF SystemNext, Core0Step, NativeNext, BoundReached, IntruderStep,
         systemVars

(* With each even factor drawn the result of the kernel gains a factor of  *)
(* two, for matrices and elements of any size, whatever is drawn: with as  *)
(* many as an element has bits it stays zero (Kernel2MM::run).             *)
THEOREM KernelAlwaysDecays == SystemSpec => []KernelDecays
<1>1. KernelInv => KernelDecays
  BY DEF KernelInv
<1>2. QED
  BY <1>1, KernelInit, KernelStep, PTL DEF SystemSpec
-----------------------------------------------------------------------------
LEMMA CacheFacts ==
  /\ SizeBits \in Nat /\ LineBits \in Nat /\ WaysBits \in Nat /\ SetBits \in Nat
  /\ Line \in Nat /\ Line > 0 /\ Sets \in Nat /\ Sets > 0
  /\ Size \in Nat /\ Size > 0
  /\ \E ways \in Nat : ways > 0 /\ Size = (Sets * Line) * ways
<1>1. /\ SizeBits \in Nat /\ LineBits \in Nat /\ WaysBits \in Nat
      /\ SetBits \in Nat /\ SizeBits = (SetBits + LineBits) + WaysBits
  BY AttackAssumption DEF SetBits
<1>2. Size = (Sets * Line) * pow2[WaysBits]
  <2>1. pow2[SetBits + LineBits] = Sets * Line
    BY <1>1, Pow2Sum DEF Sets, Line
  <2>2. SetBits + LineBits \in Nat
    BY <1>1
  <2>3. QED
    BY <1>1, <2>1, <2>2, Pow2Sum DEF Size
<1>3. QED
  BY <1>1, <1>2, Pow2Type DEF Size, Sets, Line

(* Where a masked address is: in the same way of the cache as the address, *)
(* in the set that is kept of its own.                                     *)
LEMMA MaskedStays ==
  ASSUME setMask \in SetMasks, NEW low \in Nat, Divides(Size, low),
         NEW off \in 0 .. Size - 1
  PROVE  /\ Masked(low + off) \in low .. low + Size - 1
         /\ Selected(SetOf(Masked(low + off)))
<1> DEFINE way == Sets * Line
           addr == low + off
           tag == Tag(addr)
           set == SetOf(addr)
           kept == Kept(set)
<1>1. PICK ways \in Nat, q \in Nat :
        ways > 0 /\ Size = way * ways /\ low = Size * q
  BY CacheFacts DEF Divides
<1>2. /\ way \in Nat /\ way > 0 /\ Line \in Nat /\ Line > 0
      /\ Sets \in Nat /\ Sets > 0 /\ addr \in Nat /\ SetBits \in Nat
      /\ Size \in Nat
  BY CacheFacts
<1>3. tag \in Nat /\ way * tag <= addr /\ addr < way * (tag + 1)
  BY <1>2 DEF Tag
<1>4. set \in Nat
  BY <1>2 DEF SetOf
<1>5. /\ kept \in 0 .. Sets - 1
      /\ \A bit \in 0 .. SetBits - 1 : BitSet(kept, bit) => bit \in setMask
  BY <1>2, <1>4, AndBitsBits DEF Kept, Sets
<1>6. /\ Masked(addr) = (tag * Sets + kept) * Line
      /\ Masked(addr) = way * tag + kept * Line
      /\ tag * Sets + kept \in Nat
  <2>1. Masked(addr) = (tag * Sets + kept) * Line
    BY DEF Masked
  <2> HIDE DEF addr, tag, set, kept
  <2>2. (tag * Sets + kept) * Line = (Sets * Line) * tag + kept * Line
    BY <1>2, <1>3, <1>5
  <2>3. QED
    BY <1>2, <1>3, <1>5, <2>1, <2>2
<1> HIDE DEF addr, tag, set, kept, way
<1>7. Masked(addr) \in low .. low + Size - 1
  <2> DEFINE k == ways * q
  <2>1. k \in Nat /\ low = way * k /\ low + Size = way * (k + ways)
    BY <1>1, <1>2
  <2>2. low <= addr /\ addr < low + Size
    BY <1>1, <1>2 DEF addr
  <2>3. low \in Nat /\ addr \in Nat /\ way * (tag + 1) \in Nat
        /\ way * tag \in Nat /\ way * (k + ways) \in Nat
    BY <1>1, <1>2, <1>3
  <2> HIDE DEF k
  <2>4. tag >= k
    <3>1. CASE tag + 1 <= k
      <4>1. way * (tag + 1) <= way * k
        BY <1>2, <1>3, <2>1, <3>1
      <4>2. QED
        BY <1>3, <2>1, <2>2, <2>3, <4>1
    <3>2. QED
      BY <1>3, <2>1, <3>1
  <2>5. tag + 1 <= k + ways
    <3>1. CASE k + ways <= tag
      <4>1. way * (k + ways) <= way * tag
        BY <1>1, <1>2, <1>3, <2>1, <3>1
      <4>2. QED
        BY <1>2, <1>3, <2>1, <2>2, <2>3, <4>1
    <3>2. QED
      BY <1>1, <1>3, <2>1, <3>1
  <2>6. way * k <= way * tag /\ way * (tag + 1) <= way * (k + ways)
        /\ way * (tag + 1) = way * tag + way
    BY <1>1, <1>2, <1>3, <2>1, <2>4, <2>5
  <2>7. kept * Line \in Nat /\ kept * Line < way
    <3>1. kept * Line <= (Sets - 1) * Line /\ (Sets - 1) * Line = Sets * Line - Line
          /\ kept * Line \in Nat /\ Sets * Line \in Nat
      BY <1>2, <1>5
    <3>2. QED
      BY <1>2, <3>1 DEF way
  <2>8. QED
    BY <1>2, <1>6, <2>1, <2>3, <2>6, <2>7
<1>8. SetOf(Masked(addr)) = kept
  <2>1. Masked(addr) \div Line = tag * Sets + kept
    <3>1. (Line * (tag * Sets + kept) + 0) \div Line = tag * Sets + kept
      BY <1>2, <1>6, OneRemainder
    <3>2. Masked(addr) = Line * (tag * Sets + kept) + 0
      BY <1>2, <1>6
    <3>3. QED
      BY <3>1, <3>2
  <2>2. (Sets * tag + kept) % Sets = kept
    BY <1>2, <1>3, <1>5, OneRemainder
  <2>3. tag * Sets = Sets * tag
    BY <1>2, <1>3
  <2>4. QED
    BY <2>1, <2>2, <2>3 DEF SetOf
<1>9. QED
  BY <1>5, <1>7, <1>8 DEF Selected, addr

AttackInv ==
  /\ cpu \in Cores /\ setMask \in SetMasks
  /\ i \in 0 .. Size - 1
  /\ written \in Nat \cup {-1}
  /\ AttackConfined

LEMMA AttackStart == SystemInit => AttackInv
BY CacheFacts DEF SystemInit, AttackInit, AttackInv, AttackConfined

LEMMA AttackStep == AttackInv /\ [SystemNext]_systemVars => AttackInv'
<1> SUFFICES ASSUME AttackInv, [SystemNext]_systemVars PROVE AttackInv'
  OBVIOUS
<1>1. CASE Attack
  <2>1. /\ i' = NextOffset /\ cpu' = cpu /\ setMask' = setMask
        /\ written' = Masked(BufAddr(cpu) + NextOffset)
    BY <1>1 DEF Attack
  <2>2. NextOffset \in 0 .. Size - 1
    <3>1. i + cpu \in Nat /\ Step \in Nat
      BY AttackAssumption DEF AttackInv
    <3>2. (i + cpu) * Step \in Nat
      BY <3>1
    <3>3. QED
      BY <3>2, CacheFacts DEF NextOffset
  <2>3. BufAddr(cpu) \in Nat /\ Divides(Size, BufAddr(cpu))
    <3>1. cpu - 1 \in Nat /\ Base \in Nat /\ Base % Size = 0
      BY AttackAssumption DEF AttackInv
    <3>2. Divides(Size, Base)
      BY <3>1, CacheFacts, DividesRemainder
    <3>3. (cpu - 1) * Size \in Nat /\ (cpu - 1) * Size = Size * (cpu - 1)
      BY <3>1, CacheFacts
    <3>4. Divides(Size, (cpu - 1) * Size)
      BY <3>1, <3>3 DEF Divides
    <3>5. Divides(Size, Base + (cpu - 1) * Size)
      BY <3>1, <3>2, <3>3, <3>4, CacheFacts, DividesSum
    <3>6. QED
      BY <3>1, <3>3, <3>5 DEF BufAddr
  <2>4. /\ written' \in BufAddr(cpu) .. BufAddr(cpu) + Size - 1
        /\ Selected(SetOf(written'))
    BY <2>1, <2>2, <2>3, MaskedStays DEF AttackInv
  <2>5. written' \in Nat
    BY <2>3, <2>4, CacheFacts
  <2>6. AttackConfined'
    BY <2>1, <2>4 DEF AttackConfined, BufAddr, Selected
  <2>7. QED
    BY <2>1, <2>2, <2>5, <2>6 DEF AttackInv
<1>2. CASE UNCHANGED attackVars
  BY <1>2 DEF AttackInv, AttackConfined, attackVars, BufAddr, Selected
<1>3. QED
  BY <1>1, <1>2
     DEF SystemNext, Core0Step, IntruderStep, AttackNext, Spin, systemVars

(* For a cache of any geometry and every mask of set bits, a store stays   *)
(* in the core's own buffer and goes to a set of the mask (intruder_main). *)
THEOREM AttackAlwaysConfined == SystemSpec => []AttackConfined
<1>1. AttackInv => AttackConfined
  BY DEF AttackInv
<1>2. QED
  BY <1>1, AttackStart, AttackStep, PTL DEF SystemSpec
-----------------------------------------------------------------------------
(* What is left of the types: what was read of the clock is behind its     *)
(* ticks, and a run that has begun is one of MaxRuns.                      *)
ClockInv ==
  /\ runIdx \in 0 .. MaxRuns
  /\ pc \in {"first", "second", "end"} => runIdx < MaxRuns
  /\ last \in 0 .. cnt /\ from \in 0 .. cnt
  /\ update.timestamp \in 0 .. cnt /\ update.dt \in 0 .. cnt
  /\ intruderBreak \in BOOLEAN

LEMMA ClockFacts ==
  ASSUME cnt \in Nat
  PROVE  GetTimeUs \in 0 .. cnt
<1> DEFINE T == Freq \div Mega
<1>1. T \in Nat /\ T > 0
  BY Facts
<1> HIDE DEF T
<1>2. cnt \div T \in Nat /\ T * (cnt \div T) <= cnt
  BY <1>1
<1> DEFINE u == cnt \div T
<1>3. 1 * u <= T * u /\ T * u \in Nat
  BY <1>1, <1>2
<1>4. QED
  BY <1>2, <1>3 DEF GetTimeUs, T

(* The clock does not go back while a run lasts.                           *)
LEMMA LastBehind ==
  ASSUME MInv, Running
  PROVE  last <= GetTimeUs
<1> DEFINE T == Freq \div Mega
           x == cnt \div T
<1>1. T \in Nat /\ T > 0
  BY Facts
<1>2. cnt \in Nat /\ from \in Nat /\ from <= cnt /\ last = from \div T
  BY DEF MInv, Timed
<1> HIDE DEF T
<1>3. x \in Nat /\ cnt < T * (x + 1)
  BY <1>1, <1>2
<1>4. last \in Nat /\ T * last <= from
  BY <1>1, <1>2
<1> HIDE DEF x
<1>5. CASE last >= x + 1
  <2>1. T * last >= T * (x + 1) /\ T * last \in Nat /\ T * (x + 1) \in Nat
    BY <1>1, <1>3, <1>4, <1>5
  <2>2. QED
    BY <1>2, <1>3, <1>4, <2>1
<1>6. QED
  BY <1>3, <1>4, <1>5 DEF GetTimeUs, T, x

LEMMA ClockStart == SystemInit => ClockInv
<1> SUFFICES ASSUME SystemInit PROVE ClockInv
  OBVIOUS
<1>1. /\ pc = "begin" /\ cnt = 0 /\ last = 0 /\ from = 0 /\ runIdx = 0
      /\ intruderBreak \in BOOLEAN
  BY DEF SystemInit, NativeInit
<1>2. update.timestamp = 0 /\ update.dt = 0
  <2>1. update = [timestamp |-> 0, fuel |-> None, accF |-> None, dt |-> 0,
                  instr |-> None, l1d |-> None]
    BY DEF SystemInit, NativeInit
  <2>2. QED
    BY <2>1
<1>3. MaxRuns \in Nat
  BY NativeAssumption
<1>4. QED
  BY <1>1, <1>2, <1>3 DEF ClockInv

LEMMA ClockStep == MInv /\ ClockInv /\ [SystemNext]_systemVars => ClockInv'
<1> SUFFICES ASSUME MInv, ClockInv, [SystemNext]_systemVars PROVE ClockInv'
  OBVIOUS
<1>1. cnt \in Nat /\ GetTimeUs \in 0 .. cnt
  BY ClockFacts DEF MInv, Timed
<1>2. CASE BeginRun
  BY <1>1, <1>2 DEF BeginRun, ClockInv
<1>3. CASE FirstLoop \/ SecondLoop
  <2>1. cnt' \in Nat /\ cnt' >= cnt
    BY <1>3, ElapseCounted DEF FirstLoop, SecondLoop, Running
  <2>2. /\ UNCHANGED <<last, from, runIdx, update, intruderBreak>>
        /\ pc \in {"first", "second"}
    BY <1>3 DEF FirstLoop, SecondLoop, clockVars
  <2>3. QED
    BY <1>1, <2>1, <2>2 DEF ClockInv
<1>4. CASE EndRun
  <2>1. /\ UNCHANGED <<cnt, last, from, intruderBreak>>
        /\ pc = "end" /\ pc' = "deliver" /\ runIdx' = runIdx + 1
        /\ update'.timestamp = GetTimeUs /\ update'.dt = GetTimeUs - last
    BY <1>4 DEF EndRun, clockVars
  <2>2. runIdx' \in 0 .. MaxRuns
    BY <2>1, NativeAssumption DEF ClockInv
  <2>3. GetTimeUs - last \in 0 .. cnt
    <3>1. last <= GetTimeUs
      BY LastBehind, <2>1 DEF Running
    <3>2. QED
      BY <1>1, <3>1 DEF ClockInv
  <2>4. QED
    BY <1>1, <2>1, <2>2, <2>3 DEF ClockInv
<1>5. CASE Deliver
  BY <1>1, <1>5 DEF Deliver, Mitigate, ClockInv, clockVars
<1>6. CASE UNCHANGED nativeVars
  BY <1>6 DEF ClockInv, nativeVars, clockVars
<1>7. QED
  BY <1>2, <1>3, <1>4, <1>5, <1>6
     DEF SystemNext, Core0Step, NativeNext, BoundReached, IntruderStep,
         systemVars

(* Every variable has its type: no duration is negative, and neither the   *)
(* kernel nor the walk through the buffer leaves its range.                *)
THEOREM SystemTypeCorrect == SystemSpec => []SystemTypeOK
<1> DEFINE Inv == MInv /\ KernelInv /\ AttackInv /\ ClockInv
<1>1. SystemInit => Inv
  BY InitMeasured, KernelInit, AttackStart, ClockStart
<1>2. Inv /\ [SystemNext]_systemVars => Inv'
  BY StepMeasured, KernelStep, AttackStep, ClockStep
<1>3. Inv => SystemTypeOK
  BY DEF MInv, Counted, Timed, KernelInv, AttackInv, ClockInv, SystemTypeOK
<1>4. QED
  BY <1>1, <1>2, <1>3, PTL DEF SystemSpec
-----------------------------------------------------------------------------
(* The matrix with what the kernel has computed so far.                    *)
ResultIsZero ==
  \A p \in Index \X Index : (IF pc = "second" THEN tmp ELSE a)[p] = 0

(* The kernel that is measured ends up multiplying zeros: from as many     *)
(* even factors on as an element has bits, its result is zero for good, as *)
(* it becomes the input of the next run (Kernel2MM::run).                  *)
THEOREM KernelEndsInZeros == SystemSpec => [](evens = Bits => []ResultIsZero)
<1>1. ASSUME KernelInv, evens = Bits PROVE ResultIsZero
  <2> DEFINE result == IF pc = "second" THEN tmp ELSE a
  <2>1. /\ result \in [Index \X Index -> 0 .. Word - 1]
        /\ \A p \in Index \X Index : result[p] % Word = 0
    BY <1>1 DEF KernelInv, KernelDecays, Matrix, Word
  <2> HIDE DEF result
  <2>2. ASSUME NEW p \in Index \X Index PROVE result[p] = 0
    <3>1. result[p] \in 0 .. Word - 1 /\ result[p] % Word = 0
      BY <2>1
    <3> QED
      BY <3>1, WordFacts
  <2> QED
    BY <2>2 DEF result, ResultIsZero
<1>2. ASSUME KernelInv, evens = Bits, [SystemNext]_systemVars
      PROVE  evens' = Bits
  <2>1. \A f : WithFactor(f) = evens
    BY <1>2, WordFacts DEF WithFactor
  <2>2. CASE FirstLoop \/ SecondLoop
    BY <1>2, <2>1, <2>2 DEF FirstLoop, SecondLoop
  <2>3. CASE UNCHANGED kernelVars
    BY <1>2, <2>3 DEF kernelVars
  <2> QED
    BY <1>2, <2>2, <2>3
       DEF SystemNext, Core0Step, NativeNext, BeginRun, EndRun, Deliver,
           BoundReached, IntruderStep, nativeVars, systemVars
<1>3. KernelInv => (evens = Bits => ResultIsZero)
  BY <1>1
<1>4. KernelInv /\ [SystemNext]_systemVars
        => (evens = Bits => (evens = Bits)')
  BY <1>2
<1>5. QED
  BY KernelInit, KernelStep, <1>3, <1>4, PTL DEF SystemSpec
=============================================================================
