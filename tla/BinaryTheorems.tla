--------------------------- MODULE BinaryTheorems ---------------------------
(***************************************************************************)
(* What the operators of Binary compute, for all numbers. All of it is by  *)
(* induction. An induction theorem that takes a predicate cannot be used   *)
(* with the provers at hand, so that the induction here is over a set of   *)
(* numbers, from the fact that < is well founded, and a function defined   *)
(* by recursion, which is the one CHOSEN that satisfies its equation, is   *)
(* shown to exist as the limit of the functions that do so up to a number. *)
(***************************************************************************)
EXTENDS Binary, WellFoundedInduction, TLAPS

Below == {pair \in Nat \X Nat : pair[1] < pair[2]}

(* A set of numbers that is not empty has a least one.                     *)
LEMMA Least ==
  ASSUME NEW T, T \subseteq Nat, T # {}
  PROVE  \E x \in T : \A y \in T : x <= y
<1>1. IsWellFoundedOn(Below, Nat)
  BY NatLessThanWellFounded DEF OpToRel, Below
<1>2. PICK x \in T : \A y \in T : ~ (<<y, x>> \in Below)
  BY <1>1, WFMin, Zenon
<1>3. ASSUME NEW y \in T PROVE x <= y
  <2>1. x \in Nat /\ y \in Nat /\ <<y, x>> \in Nat \X Nat
    OBVIOUS
  <2>2. ~ (y < x)
    BY <1>2, <2>1 DEF Below
  <2> QED BY <2>1, <2>2
<1> QED BY <1>3

(* Induction over the numbers, for a set instead of a predicate.           *)
LEMMA Induction ==
  ASSUME NEW S, 0 \in S, \A n \in Nat : n \in S => n + 1 \in S
  PROVE  Nat \subseteq S
<1> DEFINE T == Nat \ S
<1>1. SUFFICES ASSUME T # {} PROVE FALSE
  OBVIOUS
<1>2. PICK x \in T : \A y \in T : x <= y
  BY <1>1, Least
<1>3. x # 0 /\ x \in Nat
  OBVIOUS
<1>4. x - 1 \in Nat /\ x - 1 \notin T
  BY <1>2, <1>3
<1> QED BY <1>3, <1>4

(* What a function defined by recursion has to satisfy up to k.            *)
Unfolds(g, S, c, step, k) ==
  /\ g \in [0 .. k -> S]
  /\ g[0] = c
  /\ \A n \in 1 .. k : g[n] = step[<<g[n - 1], n>>]

(* Up to every bound there is a function that unfolds as defined.          *)
LEMMA RecursionUpTo ==
  ASSUME NEW S, NEW c \in S, NEW m \in Nat, NEW step \in [S \X (1 .. m) -> S]
  PROVE  \A k \in 0 .. m : \E g : Unfolds(g, S, c, step, k)
<1> DEFINE T == {k \in Nat : k <= m => \E g : Unfolds(g, S, c, step, k)}
<1>1. 0 \in T
  <2>1. Unfolds([n \in 0 .. 0 |-> c], S, c, step, 0)
    BY DEF Unfolds
  <2> QED BY <2>1
<1>2. ASSUME NEW k \in Nat, k \in T PROVE k + 1 \in T
  <2> SUFFICES ASSUME k + 1 <= m
               PROVE  \E g : Unfolds(g, S, c, step, k + 1)
    OBVIOUS
  <2>1. PICK g : Unfolds(g, S, c, step, k)
    BY <1>2
  <2> DEFINE new == step[<<g[k], k + 1>>]
             h == [n \in 0 .. k + 1 |-> IF n = k + 1 THEN new ELSE g[n]]
  <2>2. g \in [0 .. k -> S] /\ g[0] = c
        /\ \A n \in 1 .. k : g[n] = step[<<g[n - 1], n>>]
    BY <2>1 DEF Unfolds
  <2>3. new \in S
    <3>1. g[k] \in S /\ k + 1 \in 1 .. m
      BY <2>2
    <3> QED BY <3>1
  <2>4. h \in [0 .. k + 1 -> S] /\ h[0] = c /\ h[k + 1] = new
    BY <2>2, <2>3
  <2>5. \A n \in 0 .. k : h[n] = g[n]
    OBVIOUS
  <2> HIDE DEF new, h
  <2>6. ASSUME NEW n \in 1 .. k + 1 PROVE h[n] = step[<<h[n - 1], n>>]
    <3>1. CASE n = k + 1
      <4>1. h[n - 1] = g[k]
        BY <2>5, <3>1
      <4> QED BY <2>4, <3>1, <4>1 DEF new
    <3>2. CASE n # k + 1
      <4>1. n \in 1 .. k /\ n - 1 \in 0 .. k /\ n \in 0 .. k
        BY <3>2
      <4>2. h[n] = g[n] /\ h[n - 1] = g[n - 1]
        BY <2>5, <4>1
      <4> QED BY <2>2, <4>1, <4>2
    <3> QED BY <3>1, <3>2
  <2> QED BY <2>4, <2>6 DEF Unfolds
<1>3. Nat \subseteq T
  <2> HIDE DEF T
  <2> QED BY <1>1, <1>2, Induction
<1> QED BY <1>3

(* Two functions that unfold by the same steps agree where both do.        *)
LEMMA RecursionAgrees ==
  ASSUME NEW S, NEW c, NEW step, NEW k \in Nat, NEW m \in Nat, k <= m,
         NEW g, Unfolds(g, S, c, step, k), NEW h, Unfolds(h, S, c, step, m)
  PROVE  g[k] = h[k]
<1> DEFINE T == {n \in Nat : n <= k => g[n] = h[n]}
<1>1. 0 \in T
  BY DEF Unfolds
<1>2. ASSUME NEW n \in Nat, n \in T PROVE n + 1 \in T
  <2> SUFFICES ASSUME n + 1 <= k PROVE g[n + 1] = h[n + 1]
    OBVIOUS
  <2>1. g[n] = h[n]
    BY <1>2
  <2>2. n + 1 \in 1 .. k /\ n + 1 \in 1 .. m /\ (n + 1) - 1 = n
    OBVIOUS
  <2>3. g[n + 1] = step[<<g[n], n + 1>>] /\ h[n + 1] = step[<<h[n], n + 1>>]
    BY <2>2 DEF Unfolds
  <2> QED BY <2>1, <2>3
<1>3. Nat \subseteq T
  <2> HIDE DEF T
  <2> QED BY <1>1, <1>2, Induction
<1> QED BY <1>3

UnfoldsAll(g, S, c, step) ==
  /\ g \in [Nat -> S]
  /\ g[0] = c
  /\ \A n \in Nat \ {0} : g[n] = step[<<g[n - 1], n>>]

(* There is a function on all numbers that unfolds as defined.             *)
LEMMA RecursionNat ==
  ASSUME NEW S, NEW c \in S, NEW step \in [S \X Nat -> S]
  PROVE  \E g : UnfoldsAll(g, S, c, step)
<1>1. ASSUME NEW k \in Nat PROVE \E g : Unfolds(g, S, c, step, k)
  <2> DEFINE less == [t \in S \X (1 .. k) |-> step[t]]
  <2>1. less \in [S \X (1 .. k) -> S]
    OBVIOUS
  <2>2. PICK g : Unfolds(g, S, c, less, k)
    <3> HIDE DEF less
    <3>1. k \in 0 .. k
      OBVIOUS
    <3> QED BY <2>1, <3>1, RecursionUpTo, Zenon
  <2>3. ASSUME NEW n \in 1 .. k PROVE g[n] = step[<<g[n - 1], n>>]
    <3>1. g[n - 1] \in S
      BY <2>2 DEF Unfolds
    <3>2. <<g[n - 1], n>> \in S \X (1 .. k)
      BY <3>1
    <3> QED BY <2>2, <3>2 DEF Unfolds
  <2> QED BY <2>2, <2>3 DEF Unfolds
<1> DEFINE up == [k \in Nat |-> CHOOSE g : Unfolds(g, S, c, step, k)]
           f == [k \in Nat |-> up[k][k]]
<1>2. ASSUME NEW k \in Nat PROVE Unfolds(up[k], S, c, step, k)
  <2>1. up[k] = CHOOSE g : Unfolds(g, S, c, step, k)
    OBVIOUS
  <2> HIDE DEF up
  <2> QED BY <1>1, <2>1, Zenon
<1> HIDE DEF up
<1>3. f \in [Nat -> S] /\ f[0] = c
  BY <1>2 DEF Unfolds
<1>4. ASSUME NEW n \in Nat, n # 0 PROVE f[n] = step[<<f[n - 1], n>>]
  <2>1. n - 1 \in Nat /\ n - 1 <= n /\ n \in 1 .. n
    BY <1>4
  <2>2. f[n] = up[n][n] /\ f[n - 1] = up[n - 1][n - 1]
    BY <2>1
  <2>3. up[n - 1][n - 1] = up[n][n - 1]
    BY <1>2, <2>1, RecursionAgrees
  <2>4. up[n][n] = step[<<up[n][n - 1], n>>]
    BY <1>2, <2>1 DEF Unfolds
  <2> QED BY <2>2, <2>3, <2>4
<1> HIDE DEF f
<1> QED BY <1>3, <1>4 DEF UnfoldsAll

(* pow2 satisfies the equation by which it is defined.                     *)
LEMMA Pow2Unfolds ==
  pow2 = [n \in Nat |-> IF n = 0 THEN 1 ELSE 2 * pow2[n - 1]]
<1>1. PICK step : step = [t \in Nat \X Nat |-> 2 * t[1]]
  OBVIOUS
<1>2. step \in [Nat \X Nat -> Nat] /\ 1 \in Nat
  BY <1>1
<1>3. PICK g : UnfoldsAll(g, Nat, 1, step)
  BY <1>2, RecursionNat, Zenon
<1>4. g \in [Nat -> Nat] /\ g[0] = 1
  BY <1>3 DEF UnfoldsAll
<1>5. ASSUME NEW n \in Nat, n # 0 PROVE g[n] = 2 * g[n - 1]
  <2>1. g[n] = step[<<g[n - 1], n>>] /\ g[n - 1] \in Nat
    BY <1>3, <1>5 DEF UnfoldsAll
  <2> QED BY <1>1, <2>1
<1>6. g = [n \in Nat |-> IF n = 0 THEN 1 ELSE 2 * g[n - 1]]
  BY <1>4, <1>5
<1> QED BY <1>6, Zenon DEF pow2

(* The equation, split into its two cases.                                 *)
LEMMA Pow2Next ==
  /\ pow2[0] = 1
  /\ \A n \in Nat : pow2[n + 1] = 2 * pow2[n]
<1>1. pow2[0] = 1
  BY Pow2Unfolds
<1>2. ASSUME NEW n \in Nat PROVE pow2[n + 1] = 2 * pow2[n]
  <2>1. n + 1 \in Nat /\ n + 1 # 0 /\ (n + 1) - 1 = n
    OBVIOUS
  <2> QED BY <2>1, Pow2Unfolds
<1> QED BY <1>1, <1>2

(* A power of two is a positive number.                                    *)
LEMMA Pow2Type == \A n \in Nat : pow2[n] \in Nat /\ pow2[n] > 0
<1> DEFINE T == {n \in Nat : pow2[n] \in Nat /\ pow2[n] > 0}
<1>1. 0 \in T /\ \A n \in Nat : n \in T => n + 1 \in T
  BY Pow2Next
<1>2. Nat \subseteq T
  <2> HIDE DEF T
  <2> QED BY <1>1, Induction
<1> QED BY <1>2

(* The power of a sum is the product of the powers.                        *)
LEMMA Pow2Sum == \A m, n \in Nat : pow2[m + n] = pow2[m] * pow2[n]
<1> SUFFICES ASSUME NEW m \in Nat
             PROVE  \A n \in Nat : pow2[m + n] = pow2[m] * pow2[n]
  OBVIOUS
<1> DEFINE T == {n \in Nat : pow2[m + n] = pow2[m] * pow2[n]}
<1>1. 0 \in T
  BY Pow2Next, Pow2Type
<1>2. ASSUME NEW n \in Nat, n \in T PROVE n + 1 \in T
  <2>1. pow2[m + (n + 1)] = 2 * pow2[m + n]
    <3>1. m + n \in Nat /\ m + (n + 1) = (m + n) + 1
      OBVIOUS
    <3> QED BY <3>1, Pow2Next
  <2>2. pow2[m + n] = pow2[m] * pow2[n] /\ pow2[n + 1] = 2 * pow2[n]
    BY <1>2, Pow2Next
  <2>3. 2 * (pow2[m] * pow2[n]) = pow2[m] * (2 * pow2[n])
    BY Pow2Type
  <2> QED BY <2>1, <2>2, <2>3
<1>3. Nat \subseteq T
  <2> HIDE DEF T
  <2> QED BY <1>1, <1>2, Induction
<1> QED BY <1>3
-----------------------------------------------------------------------------
(* A number has one quotient and one remainder.                            *)
LEMMA OneRemainder ==
  ASSUME NEW w \in Nat, w > 0, NEW e \in Nat, NEW s \in 0 .. w - 1
  PROVE  (w * e + s) % w = s /\ (w * e + s) \div w = e
<1> DEFINE x == w * e + s
           d == x \div w
           r == x % w
<1>1. x \in Nat
  OBVIOUS
<1> HIDE DEF x
<1>2. d \in Nat /\ r \in 0 .. w - 1 /\ x = w * d + r
  BY <1>1
<1> HIDE DEF d, r
<1>3. w * d + r = w * e + s
  BY <1>2 DEF x
<1>4. w * e \in Nat /\ w * d \in Nat
  BY <1>2
<1>5. CASE e = d
  <2>1. r = s
    BY <1>2, <1>3, <1>4, <1>5
  <2> QED BY <1>5, <2>1 DEF r, d, x
<1>6. CASE e >= d + 1
  <2>1. w * e >= w * (d + 1) /\ w * (d + 1) = w * d + w
    BY <1>2, <1>6
  <2>2. QED
    BY <1>2, <1>3, <1>4, <2>1
<1>7. CASE d >= e + 1
  <2>1. w * d >= w * (e + 1) /\ w * (e + 1) = w * e + w
    BY <1>2, <1>7
  <2>2. QED
    BY <1>2, <1>3, <1>4, <2>1
<1>8. QED
  BY <1>2, <1>5, <1>6, <1>7

Divides(d, x) == \E q \in Nat : x = d * q

(* Without a remainder means divides.                                      *)
LEMMA DividesRemainder ==
  ASSUME NEW d \in Nat, d > 0, NEW x \in Nat
  PROVE  Divides(d, x) <=> x % d = 0
<1>1. ASSUME NEW q \in Nat, x = d * q PROVE x % d = 0
  <2>1. 0 \in 0 .. d - 1 /\ d * q = d * q + 0
    OBVIOUS
  <2> QED BY <1>1, <2>1, OneRemainder
<1>2. ASSUME x % d = 0 PROVE x = d * (x \div d) /\ x \div d \in Nat
  BY <1>2
<1> QED BY <1>1, <1>2 DEF Divides

(* A divisor of two numbers divides their sum.                             *)
LEMMA DividesSum ==
  ASSUME NEW d \in Nat, NEW x \in Nat, NEW y \in Nat,
         Divides(d, x), Divides(d, y)
  PROVE  Divides(d, x + y)
<1>1. PICK q \in Nat, r \in Nat : x = d * q /\ y = d * r
  BY DEF Divides
<1>2. x + y = d * (q + r) /\ q + r \in Nat
  BY <1>1
<1> QED BY <1>2 DEF Divides

(* The divisors of the factors multiply.                                   *)
LEMMA DividesProduct ==
  ASSUME NEW d \in Nat, NEW e \in Nat, NEW x \in Nat, NEW y \in Nat,
         Divides(d, x), Divides(e, y)
  PROVE  Divides(d * e, x * y)
<1>1. PICK q \in Nat, r \in Nat : x = d * q /\ y = e * r
  BY DEF Divides
<1>2. x * y = (d * e) * (q * r) /\ q * r \in Nat
  BY <1>1
<1> QED BY <1>2 DEF Divides

(* Wrapping to a word keeps the factors that the word has.                 *)
LEMMA DividesWrapped ==
  ASSUME NEW d \in Nat, d > 0, NEW w \in Nat, w > 0, NEW x \in Nat,
         Divides(d, x), Divides(d, w)
  PROVE  Divides(d, x % w)
<1> DEFINE u == x \div w
           v == x % w
<1>1. u \in Nat /\ v \in Nat /\ x = w * u + v
  OBVIOUS
<1> HIDE DEF u, v
<1>2. PICK q \in Nat, r \in Nat : x = d * q /\ w = d * r
  BY DEF Divides
<1>3. v = d * (q - r * u)
  <2>1. w * u = d * (r * u)
    BY <1>1, <1>2
  <2>2. d * (q - r * u) = d * q - d * (r * u)
    BY <1>1, <1>2
  <2>3. d * q \in Nat /\ d * (r * u) \in Nat
    BY <1>1, <1>2
  <2> QED BY <1>1, <1>2, <2>1, <2>2, <2>3
<1>4. q - r * u \in Nat
  <2>1. q - r * u \in Int
    BY <1>1, <1>2
  <2>2. CASE q - r * u <= -1
    <3> DEFINE z == q - r * u
    <3>1. z \in Int /\ z <= -1 /\ v = d * z
      BY <1>3, <2>1, <2>2
    <3> HIDE DEF z
    <3>2. d * z <= d * (-1)
      BY <3>1
    <3> QED BY <1>1, <3>1, <3>2
  <2> QED BY <2>1, <2>2
<1> QED BY <1>3, <1>4 DEF Divides, v
-----------------------------------------------------------------------------
(* The function inside AndBits satisfies the equation it is defined by.    *)
LEMMA AndBitsUnfolds ==
  ASSUME NEW x \in Nat, NEW mask, NEW width \in Nat
  PROVE  \E kept :
           /\ kept[0] = 0
           /\ \A n \in 1 .. width :
                kept[n] = kept[n - 1] + (IF n - 1 \in mask /\ BitSet(x, n - 1)
                                         THEN pow2[n - 1] ELSE 0)
           /\ AndBits(x, mask, width) = kept[width]
<1>1. PICK step : step = [t \in Nat \X (1 .. width) |->
                            t[1] + (IF t[2] - 1 \in mask /\ BitSet(x, t[2] - 1)
                                    THEN pow2[t[2] - 1] ELSE 0)]
  OBVIOUS
<1>2. step \in [Nat \X (1 .. width) -> Nat] /\ 0 \in Nat /\ width \in 0 .. width
  BY <1>1, Pow2Type
<1>3. PICK g : Unfolds(g, Nat, 0, step, width)
  BY <1>2, RecursionUpTo, Zenon
<1>4. g \in [0 .. width -> Nat] /\ g[0] = 0
  BY <1>3 DEF Unfolds
<1>5. ASSUME NEW n \in 1 .. width
      PROVE  g[n] = g[n - 1] + (IF n - 1 \in mask /\ BitSet(x, n - 1)
                                THEN pow2[n - 1] ELSE 0)
  <2>1. g[n] = step[<<g[n - 1], n>>] /\ g[n - 1] \in Nat
    BY <1>3 DEF Unfolds
  <2> QED BY <1>1, <2>1
<1> DEFINE Eq(h) == h = [n \in 0 .. width |->
             IF n = 0 THEN 0
             ELSE h[n - 1] + (IF n - 1 \in mask /\ BitSet(x, n - 1)
                              THEN pow2[n - 1] ELSE 0)]
           kept == CHOOSE h : Eq(h)
<1>6. Eq(g)
  <2>1. \A n \in 0 .. width : n # 0 => n \in 1 .. width
    OBVIOUS
  <2> QED BY <1>4, <1>5, <2>1
<1>7. Eq(kept)
  <2> HIDE DEF Eq
  <2> QED BY <1>6, Zenon
<1>8. AndBits(x, mask, width) = kept[width]
  BY Zenon DEF AndBits
<1>9. kept[0] = 0 /\ \A n \in 1 .. width :
        kept[n] = kept[n - 1] + (IF n - 1 \in mask /\ BitSet(x, n - 1)
                                 THEN pow2[n - 1] ELSE 0)
  <2> HIDE DEF kept
  <2>1. \A n \in 1 .. width : n \in 0 .. width /\ n # 0
    OBVIOUS
  <2>2. 0 \in 0 .. width
    OBVIOUS
  <2> QED BY <1>7, <2>1, <2>2
<1> QED BY <1>8, <1>9

(* A power of two at or above a number below it only adds a bit.           *)
LEMMA BitAdded ==
  ASSUME NEW n \in Nat, NEW y \in 0 .. pow2[n] - 1, NEW e \in {0, 1}
  PROVE  /\ y + e * pow2[n] \in 0 .. pow2[n + 1] - 1
         /\ BitSet(y + e * pow2[n], n) <=> e = 1
         /\ \A b \in 0 .. n - 1 : BitSet(y + e * pow2[n], b) <=> BitSet(y, b)
<1> DEFINE p == pow2[n]
           z == y + e * p
<1>1. p \in Nat /\ p > 0 /\ pow2[n + 1] = 2 * p /\ y \in 0 .. p - 1 /\ z \in Nat
  BY Pow2Type, Pow2Next
<1>2. z \in 0 .. pow2[n + 1] - 1
  BY <1>1
<1>3. BitSet(z, n) <=> e = 1
  <2> HIDE DEF p
  <2>1. (p * e + y) \div p = e
    BY <1>1, OneRemainder
  <2>2. z = p * e + y
    BY <1>1
  <2>3. BitSet(z, n) <=> e % 2 = 1
    BY <2>1, <2>2 DEF BitSet, p
  <2> QED BY <2>3
<1>4. ASSUME NEW b \in 0 .. n - 1 PROVE BitSet(z, b) <=> BitSet(y, b)
  <2> DEFINE q == pow2[b]
             r == pow2[n - b - 1]
             u == y \div q
             v == y % q
  <2>1. q \in Nat /\ q > 0 /\ r \in Nat
    BY Pow2Type
  <2>2. p = q * (2 * r)
    <3>1. n - b - 1 \in Nat /\ b \in Nat /\ n = b + ((n - b - 1) + 1)
          /\ (n - b - 1) + 1 \in Nat
      OBVIOUS
    <3>2. pow2[(n - b - 1) + 1] = 2 * r
      BY <3>1, Pow2Next
    <3>3. pow2[b + ((n - b - 1) + 1)] = q * pow2[(n - b - 1) + 1]
      BY <3>1, Pow2Sum
    <3> QED BY <3>1, <3>2, <3>3
  <2> HIDE DEF p, q, r
  <2>3. u \in Nat /\ v \in 0 .. q - 1 /\ y = q * u + v
    BY <1>1, <2>1
  <2> HIDE DEF u, v
  <2>4. CASE e = 0
    BY <1>1, <2>4
  <2>5. CASE e = 1
    <3>1. z = q * (u + 2 * r) + v /\ u + 2 * r \in Nat
      <4>1. q * (u + 2 * r) = q * u + q * (2 * r)
        BY <2>1, <2>3
      <4>2. q * u \in Nat /\ q * (2 * r) \in Nat
        BY <2>1, <2>3
      <4> QED BY <1>1, <2>1, <2>2, <2>3, <2>5, <4>1, <4>2
    <3> HIDE DEF z
    <3>2. (q * (u + 2 * r) + v) \div q = u + 2 * r
      BY <2>1, <2>3, <3>1, OneRemainder
    <3>3. z \div q = u + 2 * r
      BY <3>1, <3>2
    <3>4. (u + 2 * r) % 2 = u % 2
      BY <2>1, <2>3
    <3> QED BY <3>3, <3>4 DEF BitSet, q, u
  <2> QED BY <2>4, <2>5
<1> QED BY <1>2, <1>3, <1>4

(* AndBits is the conjunction, bit by bit.                                 *)
THEOREM AndBitsBits ==
  ASSUME NEW x \in Nat, NEW mask, NEW width \in Nat
  PROVE  /\ AndBits(x, mask, width) \in 0 .. pow2[width] - 1
         /\ \A b \in 0 .. width - 1 :
              BitSet(AndBits(x, mask, width), b) <=> b \in mask /\ BitSet(x, b)
<1>1. PICK kept :
        /\ kept[0] = 0
        /\ \A n \in 1 .. width :
             kept[n] = kept[n - 1] + (IF n - 1 \in mask /\ BitSet(x, n - 1)
                                      THEN pow2[n - 1] ELSE 0)
        /\ AndBits(x, mask, width) = kept[width]
  BY AndBitsUnfolds
<1> DEFINE OK(n) ==
             /\ kept[n] \in 0 .. pow2[n] - 1
             /\ \A b \in 0 .. n - 1 :
                  BitSet(kept[n], b) <=> b \in mask /\ BitSet(x, b)
           T == {n \in Nat : n <= width => OK(n)}
<1>2. 0 \in T
  BY <1>1, Pow2Next
<1>3. ASSUME NEW n \in Nat, n \in T PROVE n + 1 \in T
  <2> SUFFICES ASSUME n + 1 <= width PROVE OK(n + 1)
    OBVIOUS
  <2>1. OK(n)
    BY <1>3
  <2>2. PICK e \in {0, 1} : e = 1 <=> n \in mask /\ BitSet(x, n)
    <3>1. CASE n \in mask /\ BitSet(x, n)
      BY <3>1
    <3>2. CASE ~ (n \in mask /\ BitSet(x, n))
      BY <3>2
    <3> QED BY <3>1, <3>2
  <2>3. kept[n + 1] = kept[n] + e * pow2[n]
    <3>1. n + 1 \in 1 .. width /\ (n + 1) - 1 = n /\ pow2[n] \in Nat
      BY Pow2Type
    <3>2. kept[n + 1] = kept[n] + (IF n \in mask /\ BitSet(x, n)
                                   THEN pow2[n] ELSE 0)
      BY <1>1, <3>1
    <3> QED BY <2>2, <3>1, <3>2
  <2>4. /\ kept[n + 1] \in 0 .. pow2[n + 1] - 1
        /\ BitSet(kept[n + 1], n) <=> e = 1
        /\ \A b \in 0 .. n - 1 : BitSet(kept[n + 1], b) <=> BitSet(kept[n], b)
    BY <2>1, <2>3, BitAdded
  <2>5. ASSUME NEW b \in 0 .. (n + 1) - 1
        PROVE  BitSet(kept[n + 1], b) <=> b \in mask /\ BitSet(x, b)
    <3>1. CASE b = n
      BY <2>2, <2>4, <3>1
    <3>2. CASE b # n
      <4>1. b \in 0 .. n - 1
        BY <3>2
      <4> QED BY <2>1, <2>4, <4>1
    <3> QED BY <3>1, <3>2
  <2> QED BY <2>4, <2>5
<1>4. Nat \subseteq T
  <2> HIDE DEF T
  <2> QED BY <1>2, <1>3, Induction
<1>5. OK(width)
  BY <1>4
<1> QED BY <1>1, <1>5
=============================================================================
