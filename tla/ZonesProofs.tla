----------------------------- MODULE ZonesProofs -----------------------------
(***************************************************************************)
(* The zones of every request: for series of any length, any settings that *)
(* are accepted and any number of digits.                                  *)
(***************************************************************************)
EXTENDS LevelsResponse, FiniteSetTheorems, SequenceTheorems, TLAPS

Detected == INSTANCE ExtremaProofs

-----------------------------------------------------------------------------
(* The powers of ten.                                                      *)
LEMMA PowersUnfold ==
  /\ PowerOfTen[0] = 1
  /\ \A n \in Nat : PowerOfTen[n + 1] = 10 * PowerOfTen[n]
<1> DEFINE e(f, i) == IF i = 0 THEN 1 ELSE 10 * f[i - 1]
           S == {n \in Nat : \E f : f = [i \in 0 .. n |-> e(f, i)]}
           part(n) == CHOOSE f : f = [i \in 0 .. n |-> e(f, i)]
           all == [n \in Nat |-> part(n)[n]]
<1>1. 0 \in S
  <2> DEFINE g == [i \in 0 .. 0 |-> e(<<>>, i)]
  <2>1. g = [i \in 0 .. 0 |-> e(g, i)]
    OBVIOUS
  <2> HIDE DEF e, g
  <2> QED
    BY <2>1
<1>2. ASSUME NEW n \in Nat, n \in S PROVE n + 1 \in S
  <2>1. PICK f : f = [i \in 0 .. n |-> e(f, i)]
    BY <1>2
  <2> DEFINE g == [i \in 0 .. n + 1 |-> IF i = n + 1 THEN e(f, n + 1) ELSE f[i]]
  <2>2. ASSUME NEW i \in 0 .. n + 1 PROVE g[i] = e(g, i)
    <3>1. i # n + 1 => i \in 0 .. n
      OBVIOUS
    <3>2. g[i] = e(f, i)
      <4> HIDE DEF e
      <4> QED
        BY <2>1, <3>1
    <3>3. e(g, i) = e(f, i)
      <4>1. i # 0 => i - 1 \in 0 .. n + 1 /\ i - 1 # n + 1
        OBVIOUS
      <4>2. i # 0 => g[i - 1] = f[i - 1]
        <5> HIDE DEF e
        <5> QED
          BY <4>1
      <4> HIDE DEF g
      <4> QED
        BY <4>2
    <3> QED
      BY <3>2, <3>3
  <2>3. g = [i \in 0 .. n + 1 |-> e(g, i)]
    <3> HIDE DEF e
    <3> QED
      BY <2>2
  <2> HIDE DEF e, g
  <2> QED
    BY <2>3
<1>3. Nat \subseteq S
  <2> HIDE DEF S
  <2> QED
    BY <1>1, <1>2, Detected!Induction
<1>4. \A n \in Nat : part(n) = [i \in 0 .. n |-> e(part(n), i)]
  <2> HIDE DEF e
  <2> QED
    BY <1>3
<1>5. \A n \in Nat : \A i \in 0 .. n : part(n)[i] = e(part(n), i)
  <2> HIDE DEF e, part
  <2> QED
    BY <1>4
<1> HIDE DEF part
(* Two of them agree as far as both go.                                    *)
<1> DEFINE T == {i \in Nat : \A m, n \in Nat : i <= m /\ i <= n => part(m)[i] = part(n)[i]}
<1>6. 0 \in T
  <2>1. \A n \in Nat : part(n)[0] = 1
    BY <1>5
  <2> QED
    BY <2>1
<1>7. ASSUME NEW i \in Nat, i \in T PROVE i + 1 \in T
  <2> SUFFICES ASSUME NEW m \in Nat, NEW n \in Nat, i + 1 <= m, i + 1 <= n
               PROVE  part(m)[i + 1] = part(n)[i + 1]
    OBVIOUS
  <2>1. part(m)[i] = part(n)[i]
    BY <1>7
  <2>2. ASSUME NEW k \in Nat, i + 1 <= k PROVE part(k)[i + 1] = 10 * part(k)[i]
    <3>1. i + 1 \in 0 .. k /\ i + 1 # 0 /\ (i + 1) - 1 = i
      BY <2>2
    <3> QED
      BY <1>5, <3>1
  <2> QED
    BY <2>1, <2>2
<1>8. Nat \subseteq T
  <2> HIDE DEF T
  <2> QED
    BY <1>6, <1>7, Detected!Induction
<1>9. \A n \in Nat : all[n] = part(n)[n]
  OBVIOUS
<1>10. ASSUME NEW n \in Nat PROVE all[n + 1] = 10 * all[n]
  <2>1. n + 1 \in 0 .. n + 1 /\ n + 1 # 0 /\ (n + 1) - 1 = n /\ n \in T
    BY <1>8
  <2>2. part(n + 1)[n + 1] = 10 * part(n + 1)[n]
    BY <1>5, <2>1
  <2>3. part(n + 1)[n] = part(n)[n]
    BY <2>1
  <2> QED
    BY <1>9, <2>2, <2>3
<1>11. all[0] = 1
  BY <1>5, <1>9
<1> HIDE DEF T, S
<1>12. all = [n \in Nat |-> e(all, n)]
  <2>1. ASSUME NEW n \in Nat PROVE all[n] = e(all, n)
    <3>1. CASE n = 0
      BY <1>11, <3>1
    <3>2. CASE n # 0
      <4>1. n - 1 \in Nat /\ (n - 1) + 1 = n
        BY <3>2
      <4>2. all[(n - 1) + 1] = 10 * all[n - 1]
        BY <1>10, <4>1
      <4> HIDE DEF all
      <4> QED
        BY <3>2, <4>1, <4>2
    <3> QED
      BY <3>1, <3>2
  <2>2. all = [n \in Nat |-> all[n]]
    OBVIOUS
  <2> HIDE DEF all, e
  <2> QED
    BY <2>1, <2>2
<1> HIDE DEF all
<1>13. PowerOfTen = [n \in Nat |-> e(PowerOfTen, n)]
  <2>1. PowerOfTen = CHOOSE f : f = [n \in Nat |-> e(f, n)]
    BY DEF PowerOfTen
  <2> HIDE DEF e
  <2> QED
    BY <1>12, <2>1
<1>14. \A n \in Nat : PowerOfTen[n] = e(PowerOfTen, n)
  <2> HIDE DEF e
  <2> QED
    BY <1>13
<1>15. ASSUME NEW n \in Nat PROVE PowerOfTen[n + 1] = 10 * PowerOfTen[n]
  <2>1. n + 1 \in Nat /\ n + 1 # 0 /\ (n + 1) - 1 = n
    OBVIOUS
  <2>2. PowerOfTen[n + 1] = e(PowerOfTen, n + 1)
    BY <1>14, <2>1
  <2> QED
    BY <2>1, <2>2
<1>16. PowerOfTen[0] = 1
  BY <1>14
<1> QED
  BY <1>15, <1>16

LEMMA PowersGrow ==
  /\ \A n \in Nat : PowerOfTen[n] \in Nat \ {0} /\ n < PowerOfTen[n]
  /\ \A m, n \in Nat : m <= n => PowerOfTen[m] <= PowerOfTen[n]
<1> DEFINE S == {n \in Nat : PowerOfTen[n] \in Nat \ {0} /\ n < PowerOfTen[n]}
<1>1. 0 \in S
  BY PowersUnfold
<1>2. ASSUME NEW n \in Nat, n \in S PROVE n + 1 \in S
  <2>1. PowerOfTen[n + 1] = 10 * PowerOfTen[n] /\ PowerOfTen[n] \in Nat \ {0} /\ n < PowerOfTen[n]
    BY <1>2, PowersUnfold
  <2> QED
    BY <2>1
<1>3. Nat \subseteq S
  <2> HIDE DEF S
  <2> QED
    BY <1>1, <1>2, Detected!Induction
<1>4. \A n \in Nat : PowerOfTen[n] \in Nat \ {0} /\ n < PowerOfTen[n]
  BY <1>3
<1> HIDE DEF S
<1>5. ASSUME NEW m \in Nat, NEW n \in Nat, m <= n PROVE PowerOfTen[m] <= PowerOfTen[n]
  <2> DEFINE T == {i \in Int : PowerOfTen[m] <= PowerOfTen[i]}
  <2>1. m \in T
    BY <1>4
  <2>2. ASSUME NEW i \in Int, i >= m, i \in T PROVE i + 1 \in T
    <3>1. i \in Nat /\ PowerOfTen[i + 1] = 10 * PowerOfTen[i]
      BY <2>2, PowersUnfold
    <3>2. PowerOfTen[i] \in Nat /\ PowerOfTen[m] \in Nat /\ PowerOfTen[m] <= PowerOfTen[i]
      BY <1>4, <2>2, <3>1
    <3> QED
      BY <3>1, <3>2
  <2>3. \A i \in Int : i >= m => i \in T
    <3> HIDE DEF T
    <3> QED
      BY <2>1, <2>2, Detected!InductionFrom
  <2> QED
    BY <1>5, <2>3
<1> QED
  BY <1>4, <1>5

LEMMA PowersAdd ==
  ASSUME NEW m \in Nat, NEW n \in Nat
  PROVE  PowerOfTen[m + n] = PowerOfTen[m] * PowerOfTen[n]
<1> DEFINE S == {i \in Nat : PowerOfTen[m + i] = PowerOfTen[m] * PowerOfTen[i]}
<1>1. 0 \in S
  <2>1. PowerOfTen[m] \in Nat /\ m + 0 = m /\ PowerOfTen[0] = 1
    BY PowersGrow, PowersUnfold
  <2> QED
    BY <2>1
<1>2. ASSUME NEW i \in Nat, i \in S PROVE i + 1 \in S
  <2>1. /\ PowerOfTen[m + i] = PowerOfTen[m] * PowerOfTen[i]
        /\ PowerOfTen[m] \in Nat /\ PowerOfTen[i] \in Nat
    BY <1>2, PowersGrow
  <2>2. m + i \in Nat /\ m + (i + 1) = (m + i) + 1
    OBVIOUS
  <2>3. PowerOfTen[(m + i) + 1] = 10 * PowerOfTen[m + i] /\ PowerOfTen[i + 1] = 10 * PowerOfTen[i]
    BY <2>2, PowersUnfold
  <2>4. \A x, y \in Nat : 10 * (x * y) = x * (10 * y)
    OBVIOUS
  <2>5. 10 * (PowerOfTen[m] * PowerOfTen[i]) = PowerOfTen[m] * (10 * PowerOfTen[i])
    BY <2>1, <2>4
  <2> QED
    BY <2>1, <2>2, <2>3, <2>5
<1>3. Nat \subseteq S
  <2> HIDE DEF S
  <2> QED
    BY <1>1, <1>2, Detected!Induction
<1> QED
  BY <1>3

(* Every natural has a number of digits.                                   *)
LEMMA PlacesAreExact ==
  ASSUME NEW n \in Nat
  PROVE  /\ Places(n) \in Nat \ {0}
         /\ n < PowerOfTen[Places(n)]
         /\ Places(n) = 1 \/ PowerOfTen[Places(n) - 1] <= n
<1> DEFINE Fits(k) == n < PowerOfTen[k] /\ (k = 1 \/ PowerOfTen[k - 1] <= n)
           S == {k \in Nat : k \in 1 .. n + 1 => PowerOfTen[k] <= n}
<1>1. \E k \in 1 .. n + 1 : Fits(k)
  <2> SUFFICES ASSUME \A k \in 1 .. n + 1 : ~Fits(k) PROVE FALSE
    OBVIOUS
  <2>1. 0 \in S
    OBVIOUS
  <2>2. ASSUME NEW k \in Nat, k \in S PROVE k + 1 \in S
    <3> SUFFICES ASSUME k + 1 \in 1 .. n + 1 PROVE PowerOfTen[k + 1] <= n
      OBVIOUS
    <3>1. PowerOfTen[k + 1] \in Nat
      BY PowersGrow
    <3>2. k + 1 = 1 \/ PowerOfTen[(k + 1) - 1] <= n
      <4>1. k # 0 => k \in 1 .. n + 1 /\ (k + 1) - 1 = k
        OBVIOUS
      <4> QED
        BY <2>2, <4>1
    <3>3. ~Fits(k + 1)
      OBVIOUS
    <3> QED
      BY <3>1, <3>2, <3>3
  <2>3. Nat \subseteq S
    <3> HIDE DEF S
    <3> QED
      BY <2>1, <2>2, Detected!Induction
  <2>4. PowerOfTen[n + 1] <= n
    <3>1. n + 1 \in Nat /\ n + 1 \in 1 .. n + 1
      OBVIOUS
    <3> QED
      BY <2>3, <3>1
  <2>5. PowerOfTen[n + 1] \in Nat /\ n + 1 < PowerOfTen[n + 1]
    BY PowersGrow
  <2> QED
    BY <2>4, <2>5
<1>2. Places(n) = CHOOSE k \in 1 .. n + 1 : Fits(k)
  BY DEF Places
<1>3. Places(n) \in 1 .. n + 1 /\ Fits(Places(n))
  <2> HIDE DEF Fits
  <2> QED
    BY <1>1, <1>2
<1> QED
  BY <1>3

LEMMA LastDigitIsPositive ==
  ASSUME NEW n \in Nat, NEW digits \in Nat \ {0}
  PROVE  LastDigit(n, digits) \in Nat \ {0}
<1>1. Places(n) \in Nat \ {0}
  BY PlacesAreExact
<1>2. ~(Places(n) <= digits) => Places(n) - digits \in Nat
  BY <1>1
<1> QED
  BY <1>2, PowersGrow DEF LastDigit

LEMMA ProductsGrow ==
  ASSUME NEW a \in Nat, NEW b \in Nat, NEW d \in Nat
  PROVE  d * a \in Nat /\ (a <= b => d * a <= d * b) /\ d * (b + 1) = d * b + d
OBVIOUS

LEMMA QuotientIsNatural ==
  ASSUME NEW a \in Nat, NEW b \in Nat \ {0}, NEW step \in Nat \ {0}
  PROVE  RoundedQuotient(a, b, step) \in Nat
<1> DEFINE x == 2 * a + b * step
           d == 2 * b * step
<1>1. x \in Nat /\ d \in Nat \ {0}
  <2>1. b * step \in Nat \ {0}
    OBVIOUS
  <2>2. 2 * b * step = 2 * (b * step)
    OBVIOUS
  <2> QED
    BY <2>1, <2>2
<1> HIDE DEF x, d
<1>2. x \div d \in Nat
  BY <1>1
<1>3. (x \div d) * step \in Nat
  BY <1>2
<1> QED
  BY <1>3 DEF RoundedQuotient, x, d

(* Divide: a quotient, kept to its significant digits, is a natural.       *)
LEMMA QuotientsAreNatural ==
  \A x \in Nat, y \in Nat \ {0} : Divide(x, y) \in Nat
<1> SUFFICES ASSUME NEW x \in Nat, NEW y \in Nat \ {0} PROVE Divide(x, y) \in Nat
  OBVIOUS
<1>1. x \div y \in Nat
  OBVIOUS
<1>2. LastDigit(x \div y, DivisionDigits) \in Nat \ {0}
  BY <1>1, LastDigitIsPositive, DivisionDigitsAssumption
<1> QED
  BY <1>2, QuotientIsNatural DEF Divide

(* Rounding to a step keeps an order, and passes no multiple of the step.  *)
LEMMA RoundingKeepsOrder ==
  ASSUME NEW v \in Nat, NEW w \in Nat, NEW m \in Nat, NEW s \in Nat \ {0}
  PROVE  /\ v <= w => RoundedQuotient(v, 1, s) <= RoundedQuotient(w, 1, s)
         /\ v <= m * s => RoundedQuotient(v, 1, s) <= m * s
         /\ m * s <= v => m * s <= RoundedQuotient(v, 1, s)
<1> DEFINE d == 2 * s
           q(x) == (2 * x + s) \div d
<1>1. d \in Nat \ {0} /\ 2 * 1 * s = d /\ 1 * s = s
  OBVIOUS
<1>2. \A x \in Nat : RoundedQuotient(x, 1, s) = q(x) * s
  BY <1>1 DEF RoundedQuotient
<1>3. ASSUME NEW x \in Nat
      PROVE  q(x) \in Nat /\ d * q(x) <= 2 * x + s /\ 2 * x + s < d * (q(x) + 1)
  <2> DEFINE y == 2 * x + s
  <2>1. y \in Nat
    OBVIOUS
  <2> HIDE DEF y, d
  <2>2. y \div d \in Nat /\ d * (y \div d) <= y /\ y < d * (y \div d) + d
    BY <1>1, <2>1
  <2>3. d * ((y \div d) + 1) = d * (y \div d) + d
    BY <1>1, <2>2, ProductsGrow
  <2> QED
    BY <2>2, <2>3 DEF y
<1>4. d * m = 2 * (m * s) /\ m * s \in Nat
  OBVIOUS
<1> HIDE DEF d, q
<1>5. ASSUME NEW a \in Nat, NEW b \in Nat, d * a < d * (b + 1) PROVE a <= b /\ a * s <= b * s
  <2>1. a <= b
    <3>1. b + 1 <= a => d * (b + 1) <= d * a
      BY <1>1, ProductsGrow
    <3>2. d * (b + 1) \in Nat /\ d * a \in Nat
      BY <1>1, ProductsGrow
    <3> QED
      BY <1>5, <3>1, <3>2
  <2>2. s * a <= s * b
    BY <2>1, ProductsGrow
  <2>3. a * s = s * a /\ b * s = s * b
    OBVIOUS
  <2> QED
    BY <2>1, <2>2, <2>3
<1>6. /\ q(v) \in Nat /\ d * q(v) \in Nat /\ d * (q(v) + 1) \in Nat
      /\ q(w) \in Nat /\ d * q(w) \in Nat /\ d * (q(w) + 1) \in Nat
      /\ d * (m + 1) = d * m + d /\ d * m \in Nat
  BY <1>1, <1>3, ProductsGrow
<1>7. ASSUME v <= w PROVE q(v) * s <= q(w) * s
  <2>1. d * q(v) < d * (q(w) + 1)
    BY <1>3, <1>6, <1>7
  <2> QED
    BY <1>5, <1>6, <2>1
<1>8. ASSUME v <= m * s PROVE q(v) * s <= m * s
  <2>1. d * q(v) < d * (m + 1)
    <3>1. d = 2 * s
      BY DEF d
    <3> QED
      BY <1>3, <1>4, <1>6, <1>8, <3>1
  <2> QED
    BY <1>5, <1>6, <2>1
<1>9. ASSUME m * s <= v PROVE m * s <= q(v) * s
  <2>1. d * m < d * (q(v) + 1)
    BY <1>3, <1>4, <1>6, <1>9
  <2> QED
    BY <1>5, <1>6, <2>1
<1> QED
  BY <1>2, <1>7, <1>8, <1>9

(* So the numbers of a response are in the order of the values they stand  *)
(* for, although a larger value keeps fewer digits below its point.        *)
THEOREM FormattingKeepsOrder ==
  ASSUME NEW a \in Nat, NEW b \in Nat, a <= b
  PROVE  FormatNumber(a) <= FormatNumber(b)
<1> DEFINE p == Places(a)
           q == Places(b)
           D == OutputDigits
           s == LastDigit(a, D)
           t == LastDigit(b, D)
<1>0. D \in Nat \ {0}
  BY OutputDigitsAssumption
<1>1. /\ p \in Nat \ {0} /\ a < PowerOfTen[p]
      /\ q \in Nat \ {0} /\ b < PowerOfTen[q] /\ (q = 1 \/ PowerOfTen[q - 1] <= b)
      /\ p = 1 \/ PowerOfTen[p - 1] <= a
  BY PlacesAreExact
<1>2. s \in Nat \ {0} /\ t \in Nat \ {0}
  BY <1>0, LastDigitIsPositive
<1>3. FormatNumber(a) = RoundedQuotient(a, 1, s) /\ FormatNumber(b) = RoundedQuotient(b, 1, t)
  BY DEF FormatNumber
<1>4. /\ s = IF p <= D THEN 1 ELSE PowerOfTen[p - D]
      /\ t = IF q <= D THEN 1 ELSE PowerOfTen[q - D]
  BY DEF LastDigit
<1>5. FormatNumber(a) \in Nat /\ FormatNumber(b) \in Nat
  BY <1>2, <1>3, QuotientIsNatural
<1> HIDE DEF p, q, D, s, t
<1>6. p <= q
  <2> SUFFICES ASSUME q <= p - 1 PROVE FALSE
    BY <1>1
  <2>1. p - 1 \in Nat /\ p # 1
    BY <1>1
  <2>2. PowerOfTen[q] <= PowerOfTen[p - 1] /\ PowerOfTen[q] \in Nat /\ PowerOfTen[p - 1] \in Nat
    BY <1>1, <2>1, PowersGrow
  <2> QED
    BY <1>1, <2>1, <2>2
<1>7. CASE s = t
  BY <1>2, <1>3, <1>7, RoundingKeepsOrder
<1>8. CASE s # t
  <2>1. p < q /\ D < q
    BY <1>0, <1>1, <1>4, <1>6, <1>8
  <2>2. q - 1 \in Nat /\ q - D \in Nat /\ D - 1 \in Nat /\ (D - 1) + (q - D) = q - 1
    BY <1>0, <1>1, <2>1
  <2>3. PowerOfTen[q - 1] = PowerOfTen[D - 1] * t /\ PowerOfTen[q - 1] <= b
    <3>1. PowerOfTen[(D - 1) + (q - D)] = PowerOfTen[D - 1] * PowerOfTen[q - D]
      BY <2>2, PowersAdd
    <3>2. t = PowerOfTen[q - D] /\ q # 1
      BY <1>0, <1>1, <1>4, <2>1
    <3> QED
      BY <1>1, <2>2, <3>1, <3>2
  <2>4. PowerOfTen[q - 1] <= FormatNumber(b)
    <3>1. PowerOfTen[D - 1] \in Nat
      BY <2>2, PowersGrow
    <3> QED
      BY <1>2, <1>3, <2>3, <3>1, RoundingKeepsOrder
  <2>5. \E m \in Nat : PowerOfTen[p] = m * s
    <3>1. CASE p <= D
      <4>1. s = 1 /\ PowerOfTen[p] \in Nat
        BY <1>1, <1>4, <3>1, PowersGrow
      <4> QED
        BY <4>1
    <3>2. CASE D < p
      <4>1. p - D \in Nat /\ D + (p - D) = p /\ D \in Nat /\ s = PowerOfTen[p - D]
        BY <1>0, <1>1, <1>4, <3>2
      <4>2. PowerOfTen[D + (p - D)] = PowerOfTen[D] * PowerOfTen[p - D] /\ PowerOfTen[D] \in Nat
        BY <4>1, PowersAdd, PowersGrow
      <4> QED
        BY <4>1, <4>2
    <3> QED
      BY <1>0, <1>1, <3>1, <3>2
  <2>6. FormatNumber(a) <= PowerOfTen[p]
    <3>1. PICK m \in Nat : PowerOfTen[p] = m * s
      BY <2>5
    <3>2. a <= m * s
      <4>1. PowerOfTen[p] \in Nat
        BY <1>1, PowersGrow
      <4> QED
        BY <1>1, <3>1, <4>1
    <3> QED
      BY <1>2, <1>3, <3>1, <3>2, RoundingKeepsOrder
  <2>7. PowerOfTen[p] <= PowerOfTen[q - 1]
    BY <1>1, <2>1, <2>2, PowersGrow
  <2>8. PowerOfTen[p] \in Nat /\ PowerOfTen[q - 1] \in Nat
    BY <1>1, <2>2, PowersGrow
  <2> QED
    BY <1>5, <2>4, <2>6, <2>7, <2>8
<1> QED
  BY <1>7, <1>8

(* A midpoint of prices that a quotient keeps all digits of.               *)
LEMMA MidpointStaysBetween ==
  ASSUME NEW l \in Nat, NEW u \in Nat, l <= u, u < PowerOfTen[DivisionDigits]
  PROVE  l <= Divide(l + u, 2) /\ Divide(l + u, 2) <= u
<1> DEFINE c == (l + u) \div 2
           D == DivisionDigits
<1>1. c \in Nat /\ c <= u /\ D \in Nat \ {0}
  BY DivisionDigitsAssumption
<1> HIDE DEF c
<1>2. Places(c) <= D
  <2>0. Places(c) \in Nat \ {0}
    BY <1>1, PlacesAreExact
  <2> SUFFICES ASSUME D <= Places(c) - 1 PROVE FALSE
    BY <1>1, <2>0
  <2>1. Places(c) - 1 \in Nat /\ Places(c) # 1
    BY <1>1, <2>0
  <2>2. PowerOfTen[D] <= PowerOfTen[Places(c) - 1] /\ PowerOfTen[Places(c) - 1] <= c
    BY <1>1, <2>1, PowersGrow, PlacesAreExact
  <2>3. PowerOfTen[D] \in Nat /\ PowerOfTen[Places(c) - 1] \in Nat
    BY <1>1, <2>1, PowersGrow
  <2> QED
    BY <1>1, <2>2, <2>3
<1>3. LastDigit(c, D) = 1
  BY <1>2 DEF LastDigit
<1>4. Divide(l + u, 2) = RoundedQuotient(l + u, 2, 1)
  BY <1>3 DEF Divide, c
<1>5. RoundedQuotient(l + u, 2, 1) = (2 * (l + u) + 2) \div 4
  <2>1. 2 * (l + u) + 2 * 1 = 2 * (l + u) + 2 /\ 2 * 2 * 1 = 4
    OBVIOUS
  <2>2. ((2 * (l + u) + 2) \div 4) \in Int
    OBVIOUS
  <2> QED
    BY <2>1, <2>2 DEF RoundedQuotient
<1>6. l <= (2 * (l + u) + 2) \div 4 /\ (2 * (l + u) + 2) \div 4 <= u
  OBVIOUS
<1> QED
  BY <1>4, <1>5, <1>6
-----------------------------------------------------------------------------
(* What is proved of ExtremaProofs' copy of Extrema holds for Detection:   *)
(* both are Extrema with the division of this module.                      *)
LEMMA SameSequence ==
  ASSUME NEW series, NEW period
  PROVE  Detection!SequenceOf(series, period) = Detected!SequenceOf(series, period)
BY DEF Detection!SequenceOf, Detected!SequenceOf,
       Detection!Wilder!ATRSequenceOf, Detected!Wilder!ATRSequenceOf,
       Detection!Wilder!TrueRange, Detected!Wilder!TrueRange,
       Detection!Wilder!Max, Detected!Wilder!Max

LEMMA SameAssumptions ==
  ASSUME NEW series, NEW s
  PROVE  /\ Detection!SoundSeries(series) <=> Detected!SoundSeries(series)
         /\ Detection!SoundSettings(s) <=> Detected!SoundSettings(s)
         /\ Detection!MinimumCount(s) = Detected!MinimumCount(s)
         /\ Detection!NoSequence = Detected!NoSequence
         /\ Count(series) = Detected!Count(series)
BY DEF Detection!SoundSeries, Detected!SoundSeries, Detection!SoundSettings,
       Detected!SoundSettings, Detection!MinimumCount, Detected!MinimumCount,
       Detection!NoSequence, Detected!NoSequence,
       Count, Detection!Count, Detected!Count,
       Cardinality, Detection!Cardinality, Detected!Cardinality

LEMMA SameLocalPoints ==
  ASSUME NEW series, NEW source, NEW span
  PROVE  Detection!LocalPoints(series, source, span) = Detected!LocalPoints(series, source, span)
BY DEF Detection!LocalPoints, Detected!LocalPoints,
       Detection!FlattenSeq, Detected!FlattenSeq,
       Detection!PointsAt, Detected!PointsAt, Detection!PointAt, Detected!PointAt,
       Detection!IsHigh, Detected!IsHigh, Detection!IsLow, Detected!IsLow,
       Detection!HighPrice, Detected!HighPrice, Detection!LowPrice, Detected!LowPrice,
       Detection!Count, Detected!Count, Detection!Cardinality, Detected!Cardinality

LEMMA SameCandidates ==
  ASSUME NEW series, NEW s, NEW atr, NEW i
  PROVE  /\ Detection!HighAt(series, s, atr, i) = Detected!HighAt(series, s, atr, i)
         /\ Detection!LowAt(series, s, atr, i) = Detected!LowAt(series, s, atr, i)
BY SMTT(30) DEF Detection!HighAt, Detected!HighAt, Detection!LowAt, Detected!LowAt,
       Detection!Candidate, Detected!Candidate, Detection!Evidence, Detected!Evidence,
       Detection!HighPrice, Detected!HighPrice, Detection!LowPrice, Detected!LowPrice

LEMMA SameReversalPoints ==
  ASSUME NEW series, NEW s, NEW atr
  PROVE  Detection!ReversalPoints(series, s, atr) = Detected!ReversalPoints(series, s, atr)
BY DEF Detection!ReversalPoints, Detected!ReversalPoints,
       Detection!ReversalPass, Detected!ReversalPass,
       Detection!Iteration, Detected!Iteration,
       Detection!FirstCandle, Detected!FirstCandle,
       Detection!Confirmed, Detected!Confirmed,
       Detection!ConfirmedPoint, Detected!ConfirmedPoint,
       Detection!HighAt, Detected!HighAt, Detection!LowAt, Detected!LowAt,
       Detection!Candidate, Detected!Candidate, Detection!Evidence, Detected!Evidence,
       Detection!HighPrice, Detected!HighPrice, Detection!LowPrice, Detected!LowPrice,
       Detection!Count, Detected!Count, Detection!Cardinality, Detected!Cardinality

LEMMA SameDetection ==
  ASSUME NEW series, NEW s, NEW sequence
  PROVE  Detection!DetectExtrema(series, s, sequence) = Detected!DetectExtrema(series, s, sequence)
<1>1. Detection!SequenceFor(series, s, sequence) = Detected!SequenceFor(series, s, sequence)
  BY SameSequence DEF Detection!SequenceFor, Detected!SequenceFor
<1> QED
  BY <1>1, SameLocalPoints, SameReversalPoints DEF Detection!DetectExtrema, Detected!DetectExtrema
-----------------------------------------------------------------------------
LEMMA Extremes ==
  ASSUME NEW S \in SUBSET Int, IsFiniteSet(S), S # {}
  PROVE  /\ Max(S) \in S /\ \A x \in S : x <= Max(S)
         /\ Min(S) \in S /\ \A x \in S : Min(S) <= x
<1>1. Detected!IsFiniteSet(S)
  BY DEF IsFiniteSet, Detected!IsFiniteSet
<1>2. /\ Detected!Max(S) \in S /\ \A x \in S : x <= Detected!Max(S)
      /\ Detected!Min(S) \in S /\ \A x \in S : Detected!Min(S) <= x
  BY <1>1, Detected!FiniteExtremes
<1>3. Max(S) = Detected!Max(S) /\ Min(S) = Detected!Min(S)
  BY DEF Max, Min, Detected!Max, Detected!Min
<1> QED
  BY <1>2, <1>3

(* The pairs of a strict total order of S.                                 *)
IsStrictOrder(R, S) ==
  /\ \A x \in S : <<x, x>> \notin R
  /\ \A x, y, z \in S : <<x, y>> \in R /\ <<y, z>> \in R => <<x, z>> \in R
  /\ \A x, y \in S : x # y => <<x, y>> \in R \/ <<y, x>> \in R

Below(R, S, x) == {y \in S : <<y, x>> \in R}

Arranged(R, S) ==
  [k \in 1 .. Cardinality(S) |-> CHOOSE x \in S : Cardinality(Below(R, S, x)) = k - 1]

(* How many stand before an element tells it from all others, so that      *)
(* InOrder is the sequence of all elements in their order.                 *)
LEMMA RanksOrder ==
  ASSUME NEW S, IsFiniteSet(S), NEW R, IsStrictOrder(R, S)
  PROVE  LET sorted == Arranged(R, S)
         IN  /\ Cardinality(S) \in Nat
             /\ sorted \in Seq(S) /\ Len(sorted) = Cardinality(S)
             /\ \A x \in S : \E k \in 1 .. Len(sorted) : sorted[k] = x
             /\ \A j, k \in 1 .. Len(sorted) : j < k => <<sorted[j], sorted[k]>> \in R
<1> DEFINE sorted == Arranged(R, S)
           n == Cardinality(S)
           rank(x) == Cardinality(Below(R, S, x))
           T == 0 .. n - 1
           f == [x \in S |-> rank(x)]
<1>1. n \in Nat
  BY FS_CardinalityType
<1>2. \A x \in S : IsFiniteSet(Below(R, S, x)) /\ rank(x) \in Nat
  <2> SUFFICES ASSUME NEW x \in S PROVE IsFiniteSet(Below(R, S, x)) /\ rank(x) \in Nat
    OBVIOUS
  <2>1. Below(R, S, x) \in SUBSET S
    BY DEF Below
  <2> QED
    BY <2>1, FS_Subset, FS_CardinalityType
<1>3. ASSUME NEW x \in S, NEW y \in S, <<x, y>> \in R PROVE rank(x) < rank(y)
  <2> DEFINE B == Below(R, S, x) \cup {x}
  <2>1. x \notin Below(R, S, x)
    BY DEF Below, IsStrictOrder
  <2>2. Cardinality(B) = rank(x) + 1
    BY <1>2, <2>1, FS_AddElement
  <2>3. B \in SUBSET Below(R, S, y)
    BY <1>3 DEF Below, IsStrictOrder
  <2>4. Cardinality(B) <= rank(y)
    BY <1>2, <2>3, FS_Subset
  <2> QED
    BY <1>2, <2>2, <2>4
<1>4. \A x \in S : rank(x) < n
  <2> SUFFICES ASSUME NEW x \in S PROVE rank(x) < n
    OBVIOUS
  <2> DEFINE B == Below(R, S, x) \cup {x}
  <2>1. x \notin Below(R, S, x)
    BY DEF Below, IsStrictOrder
  <2>2. Cardinality(B) = rank(x) + 1
    BY <1>2, <2>1, FS_AddElement
  <2>3. B \in SUBSET S
    BY DEF Below
  <2>4. Cardinality(B) <= n
    BY <2>3, FS_Subset
  <2> QED
    BY <1>1, <1>2, <2>2, <2>4
<1>5. \A x, y \in S : rank(x) = rank(y) => x = y
  <2> SUFFICES ASSUME NEW x \in S, NEW y \in S, rank(x) = rank(y), x # y PROVE FALSE
    OBVIOUS
  <2>1. <<x, y>> \in R \/ <<y, x>> \in R
    BY DEF IsStrictOrder
  <2>2. rank(x) < rank(y) \/ rank(y) < rank(x)
    BY <1>3, <2>1
  <2> QED
    BY <1>2, <2>2
<1> HIDE DEF rank
<1>6. f \in Injection(S, T)
  <2>1. f \in [S -> T]
    BY <1>1, <1>2, <1>4
  <2> QED
    BY <1>5, <2>1 DEF Injection, IsInjective
<1>7. IsFiniteSet(T) /\ Cardinality(T) = n
  BY <1>1, FS_Interval, SMTT(30)
<1>8. f \in Surjection(S, T)
  <2> HIDE DEF f, T
  <2> QED
    BY <1>6, <1>7, FS_Injection
<1>9. \A i \in T : \E x \in S : rank(x) = i
  BY <1>8 DEF Surjection
<1>10. /\ DOMAIN sorted = 1 .. n
       /\ \A k \in 1 .. n : sorted[k] = CHOOSE x \in S : rank(x) = k - 1
  BY DEF rank, Arranged
<1> HIDE DEF sorted
<1>11. \A k \in 1 .. n : sorted[k] \in S /\ rank(sorted[k]) = k - 1
  <2> SUFFICES ASSUME NEW k \in 1 .. n PROVE sorted[k] \in S /\ rank(sorted[k]) = k - 1
    OBVIOUS
  <2>1. k - 1 \in T
    BY <1>1
  <2>2. \E x \in S : rank(x) = k - 1
    BY <1>9, <2>1
  <2> HIDE DEF n, T
  <2> QED
    BY <1>10, <2>2
<1>12. sorted \in Seq(S) /\ Len(sorted) = n
  <2>1. sorted = [k \in 1 .. n |-> sorted[k]]
    BY DEF Arranged, sorted
  <2> HIDE DEF n
  <2>2. sorted \in [1 .. n -> S]
    BY <1>11, <2>1
  <2> QED
    BY <1>1, <2>2
<1>13. ASSUME NEW x \in S PROVE \E k \in 1 .. n : sorted[k] = x
  <2>1. rank(x) + 1 \in 1 .. n /\ (rank(x) + 1) - 1 = rank(x)
    BY <1>1, <1>2, <1>4
  <2>2. sorted[rank(x) + 1] \in S /\ rank(sorted[rank(x) + 1]) = rank(x)
    BY <1>11, <2>1
  <2> QED
    BY <1>5, <2>1, <2>2
<1>14. ASSUME NEW j \in 1 .. n, NEW k \in 1 .. n, j < k PROVE <<sorted[j], sorted[k]>> \in R
  <2>1. rank(sorted[j]) = j - 1 /\ rank(sorted[k]) = k - 1 /\ sorted[j] \in S /\ sorted[k] \in S
    BY <1>11
  <2>2. sorted[j] # sorted[k]
    <3>1. j - 1 # k - 1
      BY <1>1, <1>14
    <3> HIDE DEF n
    <3> QED
      BY <2>1, <3>1
  <2>3. ~(<<sorted[k], sorted[j]>> \in R)
    <3>1. <<sorted[k], sorted[j]>> \in R => k - 1 < j - 1
      BY <1>3, <2>1 DEF rank
    <3> QED
      BY <1>1, <1>14, <3>1
  <2> QED
    BY <2>1, <2>2, <2>3 DEF IsStrictOrder
<1> QED
  BY <1>1, <1>12, <1>13, <1>14 DEF sorted

LEMMA NumbersInOrder ==
  ASSUME NEW S \in SUBSET Int, IsFiniteSet(S)
  PROVE  LET sorted == CandlesInOrder(S)
         IN  /\ Cardinality(S) \in Nat
             /\ sorted \in Seq(S) /\ Len(sorted) = Cardinality(S)
             /\ \A x \in S : \E k \in 1 .. Len(sorted) : sorted[k] = x
             /\ \A j, k \in 1 .. Len(sorted) : j < k => sorted[j] < sorted[k]
<1> DEFINE R == {p \in S \X S : p[1] < p[2]}
           sorted == CandlesInOrder(S)
<1>1. \A x, y \in S : <<x, y>> \in R <=> x < y
  OBVIOUS
<1> HIDE DEF R
<1>2. IsStrictOrder(R, S)
  BY <1>1 DEF IsStrictOrder
<1>3. \A x \in S : Below(R, S, x) = {y \in S : y < x}
  BY <1>1 DEF Below
<1>4. sorted = [k \in 1 .. Cardinality(S) |->
                  CHOOSE x \in S : Cardinality({y \in S : y < x}) = k - 1]
  BY DEF CandlesInOrder, InOrder
<1>5. sorted = Arranged(R, S)
  BY <1>3, <1>4 DEF Arranged
<1> HIDE DEF sorted
<1>6. /\ Cardinality(S) \in Nat
      /\ sorted \in Seq(S) /\ Len(sorted) = Cardinality(S)
      /\ \A x \in S : \E k \in 1 .. Len(sorted) : sorted[k] = x
      /\ \A j, k \in 1 .. Len(sorted) : j < k => <<sorted[j], sorted[k]>> \in R
  BY <1>2, <1>5, RanksOrder
<1>7. \A j, k \in 1 .. Len(sorted) : j < k => sorted[j] < sorted[k]
  <2>1. \A k \in 1 .. Len(sorted) : sorted[k] \in S
    BY <1>6
  <2> QED
    BY <1>1, <1>6, <2>1
<1> QED
  BY <1>6, <1>7 DEF sorted
-----------------------------------------------------------------------------
(* What the loop of zoneFromGroup does with a candle.                      *)
WithCandle(accepted, c) ==
  IF accepted = <<>> \/ c - Last(accepted) >= request.spacing
    THEN Append(accepted, c) ELSE accepted

LEMMA AcceptedUnfolds ==
  ASSUME NEW candles, Len(CandlesInOrder(candles)) \in Nat
  PROVE  \E A : /\ Accepted(candles) = A[Len(CandlesInOrder(candles))]
                /\ A[0] = <<>>
                /\ \A k \in 1 .. Len(CandlesInOrder(candles)) :
                     A[k] = WithCandle(A[k - 1], CandlesInOrder(candles)[k])
<1> DEFINE sorted == CandlesInOrder(candles)
           n == Len(sorted)
           e(f, k) == IF k = 0 THEN <<>>
                      ELSE IF f[k - 1] = <<>> \/ sorted[k] - Last(f[k - 1]) >= request.spacing
                        THEN Append(f[k - 1], sorted[k])
                        ELSE f[k - 1]
           S == {m \in Int : \E f : f = [i \in 0 .. m |-> e(f, i)]}
           A == CHOOSE f : f = [i \in 0 .. n |-> e(f, i)]
<1>1. Accepted(candles) = A[n]
  BY DEF Accepted
<1> HIDE DEF sorted
<1>2. 0 \in S
  <2> DEFINE g == [i \in 0 .. 0 |-> e(<<>>, i)]
  <2>1. g = [i \in 0 .. 0 |-> e(g, i)]
    OBVIOUS
  <2> HIDE DEF e, g
  <2> QED
    BY <2>1
<1>3. ASSUME NEW m \in Int, m >= 0, m \in S PROVE m + 1 \in S
  <2>1. PICK f : f = [i \in 0 .. m |-> e(f, i)]
    BY <1>3
  <2> DEFINE g == [i \in 0 .. m + 1 |-> IF i = m + 1 THEN e(f, m + 1) ELSE f[i]]
  <2>2. ASSUME NEW i \in 0 .. m + 1 PROVE g[i] = e(g, i)
    <3>1. i # m + 1 => i \in 0 .. m
      OBVIOUS
    <3>2. g[i] = e(f, i)
      <4> HIDE DEF e
      <4> QED
        BY <2>1, <3>1
    <3>3. e(g, i) = e(f, i)
      <4>1. i # 0 => i - 1 \in 0 .. m /\ i - 1 # m + 1
        OBVIOUS
      <4>2. i # 0 => g[i - 1] = f[i - 1]
        <5> HIDE DEF e
        <5> QED
          BY <4>1
      <4> HIDE DEF g
      <4> QED
        BY <4>2
    <3> QED
      BY <3>2, <3>3
  <2>3. g = [i \in 0 .. m + 1 |-> e(g, i)]
    <3> HIDE DEF e
    <3> QED
      BY <2>2
  <2> HIDE DEF e, g
  <2> QED
    BY <2>3
<1>4. n \in Nat
  BY DEF sorted
<1>5. n \in S
  <2> HIDE DEF S, n
  <2> QED
    BY <1>2, <1>3, <1>4, Detected!InductionFrom
<1>6. A = [i \in 0 .. n |-> e(A, i)]
  <2> HIDE DEF e, n
  <2> QED
    BY <1>5
<1>7. \A i \in 0 .. n : A[i] = e(A, i)
  <2> HIDE DEF e, A, n
  <2> QED
    BY <1>6
<1> HIDE DEF A, n
<1>8. A[0] = <<>>
  BY <1>4, <1>7
<1>9. \A k \in 1 .. n : A[k] = WithCandle(A[k - 1], sorted[k])
  <2> SUFFICES ASSUME NEW k \in 1 .. n PROVE A[k] = WithCandle(A[k - 1], sorted[k])
    OBVIOUS
  <2>1. k \in 0 .. n /\ k # 0
    BY <1>4
  <2>2. A[k] = e(A, k)
    BY <1>7, <2>1
  <2> QED
    BY <2>1, <2>2 DEF WithCandle
<1> QED
  BY <1>1, <1>8, <1>9 DEF n, sorted

(* What has been accepted of the first k candles: they keep the spacing,   *)
(* and each of the k lies less than the spacing after one of them.         *)
Greedy(accepted, sorted, k, spacing) ==
  /\ \A i \in 1 .. Len(accepted) : \E j \in 1 .. k : accepted[i] = sorted[j]
  /\ k > 0 => accepted # <<>> /\ accepted[1] = sorted[1]
  /\ \A i \in 1 .. Len(accepted) : accepted[i] <= accepted[Len(accepted)]
  /\ \A i, j \in 1 .. Len(accepted) : i < j => accepted[j] - accepted[i] >= spacing
  /\ \A j \in 1 .. k : \E i \in 1 .. Len(accepted) :
       accepted[i] <= sorted[j] /\ sorted[j] - accepted[i] < spacing

LEMMA FartherBack ==
  ASSUME NEW a \in Nat, NEW b \in Nat, NEW c \in Nat, NEW spacing \in Nat,
         a <= b, c - b >= spacing
  PROVE  c - a >= spacing
OBVIOUS

LEMMA GreedyStep ==
  ASSUME NEW sorted \in Seq(Nat), NEW k \in Nat, k + 1 \in 1 .. Len(sorted),
         \A i, j \in 1 .. Len(sorted) : i < j => sorted[i] < sorted[j],
         request.spacing \in Nat \ {0},
         NEW accepted \in Seq(Nat), Greedy(accepted, sorted, k, request.spacing),
         k = 0 => accepted = <<>>
  PROVE  /\ WithCandle(accepted, sorted[k + 1]) \in Seq(Nat)
         /\ Greedy(WithCandle(accepted, sorted[k + 1]), sorted, k + 1, request.spacing)
<1> DEFINE c   == sorted[k + 1]
           sp  == request.spacing
           n   == Len(accepted)
           new == WithCandle(accepted, c)
<1>1. /\ \A i \in 1 .. n : \E j \in 1 .. k : accepted[i] = sorted[j]
      /\ k > 0 => accepted # <<>> /\ accepted[1] = sorted[1]
      /\ \A i \in 1 .. n : accepted[i] <= accepted[n]
      /\ \A i, j \in 1 .. n : i < j => accepted[j] - accepted[i] >= sp
      /\ \A j \in 1 .. k : \E i \in 1 .. n : accepted[i] <= sorted[j] /\ sorted[j] - accepted[i] < sp
  BY DEF Greedy
<1>2. /\ c \in Nat /\ n \in Nat /\ sp \in Nat \ {0}
      /\ \A i \in 1 .. n : accepted[i] \in Nat
      /\ \A j \in 1 .. k : sorted[j] \in Nat /\ sorted[j] < c
      /\ accepted # <<>> <=> n > 0
  <2>1. c \in Nat /\ sp \in Nat \ {0}
    OBVIOUS
  <2>2. n \in Nat /\ (accepted # <<>> <=> n > 0)
    OBVIOUS
  <2>3. \A i \in 1 .. n : accepted[i] \in Nat
    BY SMTT(30)
  <2>4. ASSUME NEW j \in 1 .. k PROVE sorted[j] \in Nat /\ sorted[j] < c
    <3>1. j \in 1 .. Len(sorted) /\ j < k + 1
      OBVIOUS
    <3>2. sorted[j] \in Nat
      BY <3>1, SMTT(30)
    <3>3. \A i \in 1 .. Len(sorted) : j < i => sorted[j] < sorted[i]
      BY <3>1
    <3>4. sorted[j] < sorted[k + 1]
      BY ONLY <3>1, <3>3, k + 1 \in 1 .. Len(sorted)
    <3> QED
      BY ONLY <3>2, <3>4 DEF c
  <2> HIDE DEF c, sp, n
  <2> QED
    BY ONLY <2>1, <2>2, <2>3, <2>4
<1>3. n > 0 => Last(accepted) = accepted[n]
  BY DEF Last
<1>4. \A i \in 1 .. n : accepted[i] < c
  <2> SUFFICES ASSUME NEW i \in 1 .. n PROVE accepted[i] < c
    OBVIOUS
  <2>1. PICK j \in 1 .. k : accepted[i] = sorted[j]
    BY <1>1
  <2> QED
    BY <1>2, <2>1
<1>5. CASE accepted = <<>> \/ c - Last(accepted) >= sp
  <2>1. new = Append(accepted, c)
    BY <1>5 DEF WithCandle
  <2>2. /\ new \in Seq(Nat) /\ Len(new) = n + 1 /\ new[n + 1] = c
        /\ \A i \in 1 .. n : new[i] = accepted[i]
    BY <1>2, <2>1
  <2> HIDE DEF new, c, sp, n
  <2>3. \A i \in 1 .. n + 1 : i = n + 1 \/ i \in 1 .. n
    BY <1>2
  <2>4. \A i \in 1 .. n + 1 : \E j \in 1 .. k + 1 : new[i] = sorted[j]
    <3> SUFFICES ASSUME NEW i \in 1 .. n + 1 PROVE \E j \in 1 .. k + 1 : new[i] = sorted[j]
      OBVIOUS
    <3>1. CASE i = n + 1
      <4>1. k + 1 \in 1 .. k + 1 /\ new[i] = sorted[k + 1]
        BY <2>2, <3>1 DEF c
      <4> QED
        BY <4>1
    <3>2. CASE i \in 1 .. n
      <4>1. PICK j \in 1 .. k : accepted[i] = sorted[j]
        BY <1>1, <3>2
      <4>2. j \in 1 .. k + 1
        OBVIOUS
      <4> QED
        BY <2>2, <3>2, <4>1, <4>2
    <3> QED
      BY <2>3, <3>1, <3>2
  <2>5. new # <<>> /\ new[1] = sorted[1]
    <3>1. new # <<>>
      BY <1>2, <2>2
    <3>2. CASE n = 0
      <4>1. k = 0
        BY <1>1, <1>2, <3>2
      <4>2. n + 1 = 1 /\ k + 1 = 1
        BY <3>2, <4>1
      <4>3. new[1] = sorted[1]
        BY <2>2, <4>2 DEF c
      <4> QED
        BY <3>1, <4>3
    <3>3. CASE n > 0
      <4>1. 1 \in 1 .. n
        BY <1>2, <3>3
      <4>2. k > 0
        <5>1. k # 0
          BY <1>2, <3>3
        <5> QED
          BY <5>1
      <4>3. accepted[1] = sorted[1]
        BY <1>1, <4>2
      <4>4. new[1] = accepted[1]
        BY <2>2, <4>1
      <4> QED
        BY <3>1, <4>3, <4>4
    <3> QED
      BY <1>2, <3>1, <3>2, <3>3
  <2>6. ASSUME NEW i \in 1 .. n + 1 PROVE new[i] <= new[n + 1]
    <3>1. CASE i = n + 1
      BY <1>2, <2>2, <3>1
    <3>2. CASE i \in 1 .. n
      <4>1. new[i] = accepted[i] /\ accepted[i] < c /\ accepted[i] \in Nat
        BY <1>2, <1>4, <2>2, <3>2
      <4>2. new[n + 1] = c /\ c \in Nat
        BY <1>2, <2>2
      <4>3. accepted[i] <= c
        BY <4>1, <4>2
      <4> QED
        BY <4>1, <4>2, <4>3
    <3> QED
      BY <2>3, <3>1, <3>2
  <2>7. ASSUME NEW i \in 1 .. n + 1, NEW j \in 1 .. n + 1, i < j PROVE new[j] - new[i] >= sp
    <3>1. i \in 1 .. n
      BY <1>2, <2>7
    <3>2. CASE j \in 1 .. n
      <4>1. new[j] = accepted[j] /\ new[i] = accepted[i]
        BY <2>2, <3>1, <3>2
      <4>2. accepted[j] - accepted[i] >= sp
        BY <1>1, <2>7, <3>1, <3>2
      <4> QED
        BY <4>1, <4>2
    <3>3. CASE j = n + 1
      <4>0. n > 0 /\ n \in 1 .. n
        BY <1>2, <3>1
      <4>1. /\ n > 0 /\ accepted[n] \in Nat /\ accepted[i] \in Nat
            /\ accepted[i] <= accepted[n]
        BY <1>1, <1>2, <3>1, <4>0
      <4>2. c - accepted[n] >= sp
        BY <1>2, <1>3, <1>5, <4>1
      <4>3. new[j] = c /\ new[i] = accepted[i]
        BY <2>2, <3>1, <3>3
      <4>4. c - accepted[i] >= sp
        <5>1. c \in Nat /\ sp \in Nat
          BY <1>2
        <5> QED
          BY <4>1, <4>2, <5>1, FartherBack
      <4> QED
        BY <4>3, <4>4
    <3> QED
      BY <2>3, <3>2, <3>3
  <2>8. ASSUME NEW j \in 1 .. k + 1
        PROVE  \E i \in 1 .. n + 1 : new[i] <= sorted[j] /\ sorted[j] - new[i] < sp
    <3>1. CASE j = k + 1
      <4>1. n + 1 \in 1 .. n + 1 /\ new[n + 1] = sorted[j] /\ sorted[j] \in Nat
        BY <1>2, <2>2, <3>1 DEF c
      <4>2. sp \in Nat \ {0}
        BY <1>2
      <4>3. sorted[j] <= sorted[j] /\ sorted[j] - sorted[j] < sp
        BY ONLY <4>1, <4>2
      <4>4. new[n + 1] <= sorted[j] /\ sorted[j] - new[n + 1] < sp
        BY ONLY <4>1, <4>3
      <4> QED
        BY ONLY <4>1, <4>4
    <3>2. CASE j # k + 1
      <4>1. j \in 1 .. k
        BY <3>2
      <4>2. PICK i \in 1 .. n : accepted[i] <= sorted[j] /\ sorted[j] - accepted[i] < sp
        BY <1>1, <4>1
      <4>3. i \in 1 .. n + 1 /\ new[i] = accepted[i]
        BY <1>2, <2>2
      <4> QED
        BY <4>2, <4>3
    <3> QED
      BY <3>1, <3>2
  <2>9. Greedy(new, sorted, k + 1, sp)
    BY <2>2, <2>4, <2>5, <2>6, <2>7, <2>8 DEF Greedy
  <2> QED
    BY <2>2, <2>9 DEF new, c, sp
<1>6. CASE ~(accepted = <<>> \/ c - Last(accepted) >= sp)
  <2>1. new = accepted
    BY <1>6 DEF WithCandle
  <2>2. /\ n > 0 /\ n \in 1 .. n /\ accepted[n] \in Nat
        /\ accepted[n] <= c /\ c - accepted[n] < sp
    <3>1. n > 0 /\ n \in 1 .. n
      BY <1>2, <1>6
    <3>2. accepted[n] \in Nat /\ accepted[n] < c
      BY <1>2, <1>4, <3>1
    <3>3. ~(c - accepted[n] >= sp)
      BY <1>3, <1>6, <3>1
    <3>4. c \in Nat /\ sp \in Nat
      BY <1>2
    <3> HIDE DEF c, n, sp
    <3> QED
      BY ONLY <3>1, <3>2, <3>3, <3>4
  <2>3. \A i \in 1 .. n : \E j \in 1 .. k + 1 : accepted[i] = sorted[j]
    <3> SUFFICES ASSUME NEW i \in 1 .. n PROVE \E j \in 1 .. k + 1 : accepted[i] = sorted[j]
      OBVIOUS
    <3>1. PICK j \in 1 .. k : accepted[i] = sorted[j]
      BY <1>1
    <3>2. j \in 1 .. k + 1
      OBVIOUS
    <3> QED
      BY <3>1, <3>2
  <2>4. accepted # <<>> /\ accepted[1] = sorted[1]
    BY <1>1, <1>2, <1>6
  <2>5. ASSUME NEW j \in 1 .. k + 1
        PROVE  \E i \in 1 .. n : accepted[i] <= sorted[j] /\ sorted[j] - accepted[i] < sp
    <3>1. CASE j = k + 1
      BY <2>2, <3>1
    <3>2. CASE j # k + 1
      <4>1. j \in 1 .. k
        BY <3>2
      <4> QED
        BY <1>1, <4>1
    <3> QED
      BY <3>1, <3>2
  <2>6. Greedy(accepted, sorted, k + 1, sp)
    BY <1>1, <2>3, <2>4, <2>5 DEF Greedy
  <2> QED
    BY <2>1, <2>6
<1> QED
  BY <1>5, <1>6

(* Numbers pairwise at least the spacing apart.                            *)
Spaced(T) == \A a, b \in T : a < b => b - a >= request.spacing

LEMMA LargestNumber ==
  ASSUME NEW S, NEW m \in Nat, m \in S, \A x \in S : x \in Nat /\ x <= m
  PROVE  Max(S) = m
<1>1. m \in S /\ \A x \in S : m >= x
  OBVIOUS
<1>2. \A y \in S : (\A x \in S : y >= x) => y = m
  <2> SUFFICES ASSUME NEW y \in S, \A x \in S : y >= x PROVE y = m
    OBVIOUS
  <2>1. y \in Nat /\ y <= m /\ y >= m
    OBVIOUS
  <2> QED
    BY <2>1
<1> QED
  BY <1>1, <1>2 DEF Max

(* The accepted touches of a group: no other choice of its candles that    *)
(* keeps the spacing has more.                                             *)
THEOREM GreedyIsMaximal ==
  ASSUME NEW candles \in SUBSET Nat, IsFiniteSet(candles), candles # {},
         request.spacing \in Nat \ {0}
  PROVE  LET touches == Accepted(candles)
         IN  /\ touches \in Seq(candles) /\ Len(touches) \in Nat \ {0}
             /\ touches[1] = Min(candles)
             /\ \A i, j \in 1 .. Len(touches) : i < j => touches[j] - touches[i] >= request.spacing
             /\ Len(touches) = MostTouches(candles)
<1> DEFINE sorted == CandlesInOrder(candles)
           n  == Len(sorted)
           sp == request.spacing
           touches == Accepted(candles)
           m  == Len(touches)
<1>1. candles \in SUBSET Int
  OBVIOUS
<1>2. /\ Cardinality(candles) \in Nat /\ sorted \in Seq(candles) /\ n = Cardinality(candles)
      /\ \A x \in candles : \E k \in 1 .. n : sorted[k] = x
      /\ \A j, k \in 1 .. n : j < k => sorted[j] < sorted[k]
  BY <1>1, NumbersInOrder
<1>3. n \in Nat /\ sorted \in Seq(Nat) /\ \A k \in 1 .. n : sorted[k] \in candles
  <2>1. sorted \in Seq(Nat)
    BY <1>2, SeqMonotonic
  <2> QED
    BY <1>2, <2>1
<1>4. PICK A : /\ touches = A[n] /\ A[0] = <<>>
               /\ \A k \in 1 .. n : A[k] = WithCandle(A[k - 1], sorted[k])
  BY <1>3, AcceptedUnfolds
<1> HIDE DEF sorted, touches
<1>5. n \in Nat \ {0}
  <2>1. PICK x \in candles : TRUE
    OBVIOUS
  <2>2. \E k \in 1 .. n : sorted[k] = x
    BY <1>2
  <2> QED
    BY <1>3, <2>2
<1> HIDE DEF n
<1> DEFINE G == {k \in Int : k <= n => A[k] \in Seq(Nat) /\ Greedy(A[k], sorted, k, sp)}
<1>6. 0 \in G
  <2>1. A[0] \in Seq(Nat) /\ Len(A[0]) = 0
    BY <1>4
  <2> QED
    BY <2>1 DEF Greedy
<1>7. ASSUME NEW k \in Int, k >= 0, k \in G PROVE k + 1 \in G
  <2> SUFFICES ASSUME k + 1 <= n
               PROVE  A[k + 1] \in Seq(Nat) /\ Greedy(A[k + 1], sorted, k + 1, sp)
    OBVIOUS
  <2>1. k \in Nat /\ k + 1 \in 1 .. n /\ (k + 1) - 1 = k
    BY <1>5, <1>7
  <2>2. A[k] \in Seq(Nat) /\ Greedy(A[k], sorted, k, sp)
    BY <1>5, <1>7
  <2>3. A[k + 1] = WithCandle(A[k], sorted[k + 1])
    BY <1>4, <2>1
  <2>4. k = 0 => A[k] = <<>>
    BY <1>4
  <2> DEFINE a == A[k]
  <2>5. /\ a \in Seq(Nat) /\ Greedy(a, sorted, k, sp) /\ (k = 0 => a = <<>>)
        /\ sorted \in Seq(Nat) /\ k \in Nat /\ k + 1 \in 1 .. Len(sorted)
        /\ \A i, j \in 1 .. Len(sorted) : i < j => sorted[i] < sorted[j]
    BY <1>2, <1>3, <2>1, <2>2, <2>4 DEF n
  <2>6. A[k + 1] = WithCandle(a, sorted[k + 1])
    BY <2>3
  <2> HIDE DEF a
  <2>7. /\ WithCandle(a, sorted[k + 1]) \in Seq(Nat)
        /\ Greedy(WithCandle(a, sorted[k + 1]), sorted, k + 1, sp)
    BY <2>5, GreedyStep
  <2> QED
    BY <2>6, <2>7
<1>8. touches \in Seq(Nat) /\ Greedy(touches, sorted, n, sp)
  <2>1. \A k \in Int : k >= 0 => k \in G
    <3> HIDE DEF G
    <3> QED
      BY <1>6, <1>7, Detected!InductionFrom
  <2>2. n \in G /\ n <= n
    BY <1>5, <2>1
  <2> QED
    BY <1>4, <2>2
<1>9. /\ \A i \in 1 .. m : \E j \in 1 .. n : touches[i] = sorted[j]
      /\ touches # <<>> /\ touches[1] = sorted[1]
      /\ \A i, j \in 1 .. m : i < j => touches[j] - touches[i] >= sp
      /\ \A j \in 1 .. n : \E i \in 1 .. m :
           touches[i] <= sorted[j] /\ sorted[j] - touches[i] < sp
  BY <1>5, <1>8 DEF Greedy
<1>10. m \in Nat \ {0} /\ \A i \in 1 .. m : touches[i] \in candles
  <2>1. m \in Nat \ {0}
    BY <1>8, <1>9
  <2> QED
    BY <1>3, <1>9, <2>1
<1>11. touches \in Seq(candles)
  <2>1. touches = [i \in 1 .. m |-> touches[i]]
    BY <1>8
  <2>2. touches \in [1 .. m -> candles]
    BY <1>10, <2>1
  <2> HIDE DEF m
  <2> QED
    BY <1>10, <2>2
<1>12. touches[1] = Min(candles)
  <2>1. sorted[1] \in candles /\ \A x \in candles : sorted[1] <= x
    <3>1. 1 \in 1 .. n
      BY <1>5
    <3>2. ASSUME NEW x \in candles PROVE sorted[1] <= x
      <4>1. PICK k \in 1 .. n : sorted[k] = x
        BY <1>2
      <4>2. k = 1 \/ 1 < k
        BY <1>5
      <4>3. sorted[1] = x \/ sorted[1] < x
        BY <1>2, <3>1, <4>1, <4>2
      <4>4. sorted[1] \in Nat /\ x \in Nat
        BY <1>3, <3>1
      <4> QED
        BY <4>3, <4>4
    <3> QED
      BY <1>3, <3>1, <3>2
  <2>2. Min(candles) \in candles /\ \A x \in candles : Min(candles) <= x
    BY <1>1, Extremes
  <2>3. sorted[1] <= Min(candles) /\ Min(candles) <= sorted[1]
    BY <2>1, <2>2
  <2>4. sorted[1] \in Int /\ Min(candles) \in Int
    BY <1>1, <2>1, <2>2
  <2> QED
    BY <1>9, <2>3, <2>4
<1> HIDE DEF m
<1> DEFINE W == {touches[i] : i \in 1 .. m}
           C == {Cardinality(S) : S \in {T \in SUBSET candles : Spaced(T)}}
<1>13. W \in SUBSET candles /\ Spaced(W)
  <2>1. W \in SUBSET candles
    BY <1>10
  <2>2. ASSUME NEW a \in W, NEW b \in W, a < b PROVE b - a >= sp
    <3>1. PICK i \in 1 .. m : a = touches[i]
      OBVIOUS
    <3>2. PICK j \in 1 .. m : b = touches[j]
      OBVIOUS
    <3>3. a \in Nat /\ b \in Nat
      BY <1>10, <3>1, <3>2
    <3>4. i < j \/ i = j \/ j < i
      BY <1>10
    <3>5. ~(j < i)
      <4>1. j < i => a - b >= sp
        BY <1>9, <3>1, <3>2 DEF m
      <4> QED
        BY <2>2, <3>3, <4>1
    <3>6. i # j
      BY <2>2, <3>1, <3>2, <3>3
    <3> QED
      BY <1>9, <3>1, <3>2, <3>4, <3>5, <3>6 DEF m
  <2> HIDE DEF W
  <2> QED
    BY <2>1, <2>2 DEF Spaced
<1>14. Cardinality(W) = m
  <2> DEFINE f == [i \in 1 .. m |-> touches[i]]
  <2>1. f \in Surjection(1 .. m, W)
    BY DEF Surjection
  <2>2. f \in Injection(1 .. m, W)
    <3>1. ASSUME NEW i \in 1 .. m, NEW j \in 1 .. m, touches[i] = touches[j] PROVE i = j
      <4>1. touches[i] \in Nat /\ touches[j] \in Nat
        BY <1>10
      <4>2. ~(touches[j] - touches[i] >= sp) /\ ~(touches[i] - touches[j] >= sp)
        BY <3>1, <4>1
      <4>3. ~(i < j) /\ ~(j < i)
        BY <1>9, <4>2 DEF m
      <4> QED
        BY <1>10, <4>3
    <3>2. f \in [1 .. m -> W]
      OBVIOUS
    <3> HIDE DEF W
    <3> QED
      BY <3>1, <3>2 DEF Injection, IsInjective
  <2>3. IsFiniteSet(1 .. m) /\ Cardinality(1 .. m) = m
    BY <1>10, FS_Interval, SMTT(30)
  <2> HIDE DEF f, W
  <2> QED
    BY <2>1, <2>2, <2>3, FS_Surjection
<1>15. ASSUME NEW T \in SUBSET candles, Spaced(T)
       PROVE  Cardinality(T) \in Nat /\ Cardinality(T) <= m
  <2> DEFINE covers(i, t) == touches[i] <= t /\ t - touches[i] < sp
             f == [t \in T |-> CHOOSE i \in 1 .. m : covers(i, t)]
  <2>1. ASSUME NEW t \in T PROVE f[t] \in 1 .. m /\ covers(f[t], t)
    <3>1. PICK j \in 1 .. n : sorted[j] = t
      BY <1>2 DEF n
    <3>2. \E i \in 1 .. m : covers(i, t)
      BY <1>9, <3>1 DEF m
    <3> HIDE DEF covers
    <3> QED
      BY <3>2
  <2>2. ASSUME NEW s \in T, NEW t \in T, f[s] = f[t] PROVE s = t
    <3> DEFINE i == f[s]
    <3>1. i \in 1 .. m /\ covers(i, s) /\ covers(i, t)
      BY <2>1, <2>2
    <3> HIDE DEF f, i
    <3>2. touches[i] \in Nat /\ s \in Nat /\ t \in Nat
      BY <1>10, <3>1
    <3>3. sp \in Nat
      OBVIOUS
    <3>4. s - t < sp /\ t - s < sp
      BY <3>1, <3>2, <3>3
    <3>5. ~(s < t) /\ ~(t < s)
      BY <1>15, <3>2, <3>3, <3>4 DEF Spaced
    <3> QED
      BY <3>2, <3>5
  <2>3. f \in Injection(T, 1 .. m)
    <3>1. f = [t \in T |-> f[t]]
      OBVIOUS
    <3> HIDE DEF f
    <3>2. f \in [T -> 1 .. m]
      BY <2>1, <3>1
    <3> QED
      BY <2>2, <3>2 DEF Injection, IsInjective
  <2>4. IsFiniteSet(1 .. m) /\ Cardinality(1 .. m) = m
    BY <1>10, FS_Interval
  <2> HIDE DEF f
  <2>5. Cardinality(T) <= m /\ IsFiniteSet(T)
    BY <2>3, <2>4, FS_Injection
  <2> QED
    BY <2>5, FS_CardinalityType
<1>16. MostTouches(candles) = Max(C)
  BY DEF MostTouches, Spaced
<1>17. m \in C
  <2> HIDE DEF W
  <2> QED
    BY <1>13, <1>14
<1>18. \A x \in C : x \in Nat /\ x <= m
  BY <1>15
<1> HIDE DEF C
<1>19. Max(C) = m
  BY <1>10, <1>17, <1>18, LargestNumber
<1> QED
  BY <1>9, <1>10, <1>11, <1>12, <1>16, <1>19 DEF m, touches
-----------------------------------------------------------------------------
(* What the proofs say of a state is stated of the values it holds, so     *)
(* that a step that leaves them alone leaves it alone.                     *)
(*                                                                         *)
(* Points as detection leaves them.                                        *)
SoundPoints(r, ps) ==
  /\ Len(ps) \in Nat /\ DOMAIN ps = 1 .. Len(ps)
  /\ \A k \in DOMAIN ps : Detected!Shown(r.series, r.extrema, ps[k])
  /\ Detected!InTimeOrder(ps)

(* All of them, by price.                                                  *)
ByPrice(ps, o) ==
  /\ o \in Seq(DOMAIN ps) /\ Len(o) \in Nat
  /\ \A j \in DOMAIN ps : \E k \in 1 .. Len(o) : o[k] = j
  /\ \A j, k \in 1 .. Len(o) : j < k => ps[o[j]].price <= ps[o[k]].price

PricesOf(ps) == { ps[k].price : k \in DOMAIN ps }

(* An anchor is a price no lower anchor reaches.                           *)
AnchorsOf(ps, w) ==
  LET anchor[p \in PricesOf(ps)] ==
        \A q \in PricesOf(ps) : q < p /\ p <= q + w => ~anchor[q]
  IN  anchor

Near(ps, p, w)    == { j \in DOMAIN ps : ps[j].price \in p .. p + w }
Touching(ps, p, w) == { ps[k].index : k \in Near(ps, p, w) }

Most(candles, spacing) ==
  Max({ Cardinality(S) : S \in { T \in SUBSET candles :
          \A a, b \in T : a < b => b - a >= spacing } })

Anchors(r, ps, w, p) == AnchorsOf(ps, w)[p] /\ Most(Touching(ps, p, w), r.spacing) >= r.minTouches

RoleOf(r, lower, upper) ==
  LET close == r.series[Count(r.series) - 1].close
  IN  IF close > upper THEN "SUPPORT" ELSE IF close < lower THEN "RESISTANCE" ELSE "AT_PRICE"

(* A zone: all points its lowest price reaches.                            *)
GoodZone(r, ps, w, z) ==
  /\ z.lower \in Nat /\ z.upper \in Nat
  /\ z.lower <= z.upper /\ z.upper <= z.lower + w
  /\ z.role = RoleOf(r, z.lower, z.upper)
  /\ z.representative = Divide(z.lower + z.upper, 2)
  /\ z.extrema \in Seq(DOMAIN ps)
  /\ Range(z.extrema) = Near(ps, z.lower, w)
  /\ \A j \in Near(ps, z.lower, w) : ps[j].price <= z.upper
  /\ z.touches \in Seq(Touching(ps, z.lower, w))
  /\ Len(z.touches) \in Nat \ {0} /\ Len(z.touches) >= r.minTouches
  /\ z.touches[1] = Min(Touching(ps, z.lower, w))
  /\ \A i, j \in 1 .. Len(z.touches) : i < j => z.touches[j] - z.touches[i] >= r.spacing
  /\ Len(z.touches) = Most(Touching(ps, z.lower, w), r.spacing)

(* The groups before position st are done: none of them reaches further,   *)
(* and their anchors with enough touches are the zones, in order.          *)
Grouped(r, ps, o, st, w, zs) ==
  /\ st \in 1 .. Len(o) + 1
  /\ st <= Len(o) =>
       \A k \in 1 .. st - 1 :
         /\ ps[o[k]].price < ps[o[st]].price
         /\ AnchorsOf(ps, w)[ps[o[k]].price] => ps[o[k]].price + w < ps[o[st]].price
  /\ \E S : zs \in Seq(S)
  /\ \A k \in 1 .. Len(zs) :
       /\ GoodZone(r, ps, w, zs[k])
       /\ \E i, j \in 1 .. st - 1 : zs[k].lower = ps[o[i]].price /\ zs[k].upper = ps[o[j]].price
       /\ Anchors(r, ps, w, zs[k].lower)
  /\ \A k \in 1 .. st - 1 : Anchors(r, ps, w, ps[o[k]].price) =>
       \E j \in 1 .. Len(zs) : zs[j].lower = ps[o[k]].price
  /\ \A j, k \in 1 .. Len(zs) : j < k => zs[j].upper < zs[k].lower

IInv ==
  /\ request \in Requests
  /\ phase \in {"detecting", "sorting", "grouping", "done", "canceled"}
  /\ width \in Nat
  /\ SoundPoints(request, points)
  /\ phase \in {"sorting", "grouping", "done"} =>
       points = Detection!DetectExtrema(request.series, request.extrema, ATRSequence)
  /\ phase \in {"detecting", "sorting"} => order = <<>> /\ zones = <<>> /\ start = 1
  /\ phase \in {"grouping", "done"} => ByPrice(points, order)
  /\ order \in Seq(DOMAIN points) /\ Len(order) \in Nat
  /\ Grouped(request, points, order, start, width, zones)
  /\ phase = "done" => start = Len(order) + 1

LEMMA SoundRequest ==
  ASSUME NEW r \in Requests
  PROVE  /\ Detected!SoundSeries(r.series) /\ Detected!SoundSettings(r.extrema)
         /\ Detected!Count(r.series) >= Detected!MinimumCount(r.extrema)
         /\ Count(r.series) = Detected!Count(r.series) /\ Count(r.series) \in Nat
         /\ DOMAIN r.series = 0 .. Count(r.series) - 1
         /\ r.atrPeriod \in Nat \ {0} /\ Count(r.series) >= r.atrPeriod + 1
         /\ r.zoneWidthATR \in Nat \ {0} /\ r.minTouches \in Nat /\ r.minTouches >= 2
         /\ r.spacing \in Nat \ {0}
<1>1. /\ Detection!SoundSeries(r.series) /\ Detection!SoundSettings(r.extrema)
      /\ Count(r.series) >= Detection!MinimumCount(r.extrema)
      /\ r.atrPeriod \in Nat \ {0} /\ Count(r.series) >= r.atrPeriod + 1
      /\ r.zoneWidthATR \in Nat \ {0} /\ r.minTouches \in Nat /\ r.minTouches >= 2
      /\ r.spacing \in Nat \ {0}
  BY RequestAssumption
<1>2. /\ Detected!SoundSeries(r.series) /\ Detected!SoundSettings(r.extrema)
      /\ Detection!MinimumCount(r.extrema) = Detected!MinimumCount(r.extrema)
      /\ Count(r.series) = Detected!Count(r.series)
  BY <1>1, SameAssumptions
<1>3. /\ Detected!Count(r.series) \in Nat
      /\ DOMAIN r.series = 0 .. Detected!Count(r.series) - 1
  BY <1>2 DEF Detected!SoundSeries
<1> QED
  BY <1>1, <1>2, <1>3

LEMMA PointFacts ==
  ASSUME NEW r \in Requests, NEW ps, SoundPoints(r, ps), NEW k \in DOMAIN ps
  PROVE  /\ ps[k].price \in Nat /\ ps[k].index \in DOMAIN r.series /\ ps[k].index \in Nat
         /\ ps[k].kind \in {"HIGH", "LOW"}
<1>1. Detected!FromCandle(r.series, r.extrema.source, ps[k])
  BY DEF SoundPoints, Detected!Shown
<1>2. /\ ps[k].kind \in {"HIGH", "LOW"} /\ ps[k].index \in DOMAIN r.series
      /\ ps[k].price = IF ps[k].kind = "HIGH"
                         THEN Detected!HighPrice(r.series[ps[k].index], r.extrema.source)
                         ELSE Detected!LowPrice(r.series[ps[k].index], r.extrema.source)
  BY <1>1 DEF Detected!FromCandle
<1>3. ps[k].price \in Nat
  BY <1>2, SoundRequest, Detected!PricesAreOrdered
<1>4. ps[k].index \in Nat
  BY <1>2, SoundRequest
<1> QED
  BY <1>2, <1>3, <1>4

LEMMA DetectedPointsAreSound ==
  ASSUME NEW r \in Requests, NEW sequence
  PROVE  SoundPoints(r, Detection!DetectExtrema(r.series, r.extrema, sequence))
<1> DEFINE found == Detected!DetectExtrema(r.series, r.extrema, sequence)
<1>1. /\ \E S : found \in Seq(S)
                /\ \A p \in S : Detected!FromCandle(r.series, r.extrema.source, p)
      /\ \A k \in 1 .. Len(found) : Detected!Shown(r.series, r.extrema, found[k])
      /\ Detected!InTimeOrder(found)
  BY SoundRequest, Detected!DetectionIsSound
<1>2. Detection!DetectExtrema(r.series, r.extrema, sequence) = found
  BY SameDetection
<1> HIDE DEF found
<1>3. Len(found) \in Nat /\ DOMAIN found = 1 .. Len(found)
  BY <1>1
<1> QED
  BY <1>1, <1>2, <1>3 DEF SoundPoints

LEMMA WidthIsNatural ==
  ASSUME NEW r \in Requests
  PROVE  Detection!SequenceOf(r.series, r.atrPeriod).values[Count(r.series) - 1] * r.zoneWidthATR
           \in Nat
<1> DEFINE last == Count(r.series) - 1
           atr  == Detected!Wilder!ATRSequenceOf(r.series, r.atrPeriod)
<1>1. Detected!QuotientsAreNatural
  BY QuotientsAreNatural DEF Detected!QuotientsAreNatural
<1>2. /\ r.atrPeriod \in Nat \ {0} /\ r.atrPeriod < Detected!Count(r.series)
      /\ last \in r.atrPeriod .. Detected!Count(r.series) - 1
  BY SoundRequest
<1>3. atr[last] \in Nat
  BY <1>1, <1>2, SoundRequest, Detected!SequenceIsNatural
<1>4. Detection!SequenceOf(r.series, r.atrPeriod).values[last] = atr[last]
  BY SameSequence DEF Detected!SequenceOf
<1> QED
  BY <1>3, <1>4, SoundRequest
-----------------------------------------------------------------------------
(* Sorting leaves every point in its place: Before orders any two points.  *)
LEMMA SortIsComplete ==
  ASSUME request \in Requests, SoundPoints(request, points)
  PROVE  ByPrice(points, PointsInOrder)
<1> DEFINE S == DOMAIN points
           R == {p \in S \X S : Before(p[1], p[2])}
           sorted == PointsInOrder
<1>1. \A x, y \in S : <<x, y>> \in R <=> Before(x, y)
  OBVIOUS
<1> HIDE DEF R
<1>2. /\ Len(points) \in Nat /\ S = 1 .. Len(points)
      /\ \A k \in S : /\ points[k].price \in Nat /\ points[k].index \in Nat
                      /\ points[k].kind \in {"HIGH", "LOW"}
      /\ \A j, k \in S : j < k => \/ points[j].index < points[k].index
                                  \/ /\ points[j].index = points[k].index
                                     /\ points[j].kind = "HIGH" /\ points[k].kind = "LOW"
  <2>1. \A k \in S : /\ points[k].price \in Nat /\ points[k].index \in Nat
                     /\ points[k].kind \in {"HIGH", "LOW"}
    BY PointFacts
  <2> QED
    BY <2>1 DEF SoundPoints, Detected!InTimeOrder, Detected!Precedes
<1> HIDE DEF S
<1>3. IsStrictOrder(R, S)
  <2>1. ASSUME NEW x \in S PROVE ~Before(x, x)
    BY <1>2 DEF Before
  <2>2. ASSUME NEW x \in S, NEW y \in S, NEW z \in S, Before(x, y), Before(y, z)
        PROVE  Before(x, z)
    BY <1>2, <2>2 DEF Before
  <2>3. ASSUME NEW x \in S, NEW y \in S, x # y PROVE Before(x, y) \/ Before(y, x)
    <3>1. x < y \/ y < x
      BY <1>2, <2>3
    <3> QED
      BY <1>2, <3>1 DEF Before
  <2> QED
    BY <1>1, <2>1, <2>2, <2>3 DEF IsStrictOrder
<1>4. IsFiniteSet(S)
  BY <1>2, FS_Interval
<1>5. sorted = Arranged(R, S)
  <2> DEFINE before(x) == {y \in S : Before(y, x)}
  <2>1. \A x \in S : Below(R, S, x) = before(x)
    BY <1>1 DEF Below
  <2>2. sorted = [k \in 1 .. Cardinality(S) |->
                    CHOOSE x \in S : Cardinality(before(x)) = k - 1]
    BY DEF PointsInOrder, InOrder, S
  <2> HIDE DEF before, sorted
  <2> QED
    BY <2>1, <2>2 DEF Arranged
<1> HIDE DEF sorted
<1>6. /\ Cardinality(S) \in Nat
      /\ sorted \in Seq(S) /\ Len(sorted) = Cardinality(S)
      /\ \A x \in S : \E k \in 1 .. Len(sorted) : sorted[k] = x
      /\ \A j, k \in 1 .. Len(sorted) : j < k => <<sorted[j], sorted[k]>> \in R
  BY <1>3, <1>4, <1>5, RanksOrder
<1>7. ASSUME NEW j \in 1 .. Len(sorted), NEW k \in 1 .. Len(sorted), j < k
      PROVE  points[sorted[j]].price <= points[sorted[k]].price
  <2>1. sorted[j] \in S /\ sorted[k] \in S
    BY <1>6
  <2>2. Before(sorted[j], sorted[k])
    BY <1>1, <1>6, <1>7, <2>1
  <2>3. points[sorted[j]].price \in Nat /\ points[sorted[k]].price \in Nat
    BY <1>2, <2>1
  <2> QED
    BY <2>2, <2>3 DEF Before
<1> QED
  BY <1>6, <1>7 DEF ByPrice, sorted, S
-----------------------------------------------------------------------------
LEMMA PricesAreBounded ==
  ASSUME NEW r \in Requests, NEW ps, SoundPoints(r, ps)
  PROVE  PricesOf(ps) \in SUBSET Nat /\ \E m \in Nat : \A p \in PricesOf(ps) : p <= m
<1> DEFINE P == PricesOf(ps)
<1>1. P \in SUBSET Nat
  BY PointFacts DEF PricesOf
<1>2. IsFiniteSet(P)
  <2>1. IsFiniteSet(DOMAIN ps)
    BY FS_Interval DEF SoundPoints
  <2> DEFINE D == DOMAIN ps
             f == [k \in D |-> ps[k].price]
  <2>2. f \in Surjection(D, P)
    BY DEF Surjection, PricesOf
  <2> HIDE DEF D, P, f
  <2> QED
    BY <2>1, <2>2, FS_Surjection DEF D
<1>3. CASE P = {}
  BY <1>1, <1>3
<1>4. CASE P # {}
  <2>1. P \in SUBSET Int
    BY <1>1
  <2>2. Max(P) \in P /\ \A p \in P : p <= Max(P)
    BY <1>2, <1>4, <2>1, Extremes
  <2> QED
    BY <1>1, <2>2
<1> QED
  BY <1>1, <1>3, <1>4

LEMMA AnchorsUnfold ==
  ASSUME NEW ps, NEW w \in Nat, PricesOf(ps) \in SUBSET Nat,
         NEW top \in Nat, \A p \in PricesOf(ps) : p <= top
  PROVE  \A p \in PricesOf(ps) :
           AnchorsOf(ps, w)[p] <=>
             \A q \in PricesOf(ps) : q < p /\ p <= q + w => ~AnchorsOf(ps, w)[q]
<1> DEFINE P == PricesOf(ps)
           upTo(m) == {q \in P : q <= m}
           e(f, p) == \A q \in P : q < p /\ p <= q + w => ~f[q]
           S == {m \in Int : \E f : f = [p \in upTo(m) |-> e(f, p)]}
           A == AnchorsOf(ps, w)
<1>1. A = CHOOSE f : f = [p \in P |-> e(f, p)]
  BY DEF AnchorsOf
<1>2. P \in SUBSET Nat /\ \A p \in P : p <= top
  OBVIOUS
<1> HIDE DEF P, A
<1>3. -1 \in S
  <2>1. upTo(-1) = {}
    <3>1. ASSUME NEW q \in P PROVE ~(q <= -1)
      <4>1. q \in Nat
        BY <1>2
      <4> QED
        BY <4>1
    <3> QED
      BY <3>1
  <2> DEFINE g == [p \in upTo(-1) |-> e(<<>>, p)]
  <2>2. g = [p \in upTo(-1) |-> e(g, p)]
    <3> HIDE DEF e, upTo
    <3> QED
      BY <2>1
  <2> HIDE DEF e, g, upTo
  <2> QED
    BY <2>2
<1>4. ASSUME NEW m \in Int, m >= -1, m \in S PROVE m + 1 \in S
  <2>1. PICK f : f = [p \in upTo(m) |-> e(f, p)]
    BY <1>4
  <2> DEFINE g == [p \in upTo(m + 1) |-> IF p = m + 1 THEN e(f, p) ELSE f[p]]
  <2>2. ASSUME NEW p \in upTo(m + 1) PROVE g[p] = e(g, p)
    <3>1. p \in P /\ p \in Nat /\ p <= m + 1 /\ (p # m + 1 => p \in upTo(m))
      BY <1>2
    <3>2. g[p] = e(f, p)
      <4> HIDE DEF e, upTo
      <4> QED
        BY <2>1, <3>1
    <3>3. \A q \in P : q < p => g[q] = f[q]
      <4> SUFFICES ASSUME NEW q \in P, q < p PROVE g[q] = f[q]
        OBVIOUS
      <4>1. q \in upTo(m + 1) /\ q # m + 1
        BY <1>2, <3>1
      <4> HIDE DEF e, upTo
      <4> QED
        BY <4>1
    <3>4. e(g, p) = e(f, p)
      <4> HIDE DEF g
      <4> QED
        BY <3>3
    <3> QED
      BY <3>2, <3>4
  <2>3. g = [p \in upTo(m + 1) |-> e(g, p)]
    <3> HIDE DEF e, upTo
    <3> QED
      BY <2>2
  <2> HIDE DEF e, g, upTo
  <2> QED
    BY <2>3
<1>5. top \in S
  <2> HIDE DEF S
  <2> QED
    BY <1>3, <1>4, Detected!InductionFrom
<1>6. upTo(top) = P
  BY <1>2
<1>7. A = [p \in P |-> e(A, p)]
  <2> HIDE DEF e, upTo
  <2> QED
    BY <1>1, <1>5, <1>6
<1>8. \A p \in P : A[p] = e(A, p)
  <2> HIDE DEF e
  <2> QED
    BY <1>7
<1> QED
  BY <1>8 DEF P, A
-----------------------------------------------------------------------------
(* The end of the group that starts at start.                              *)
LEMMA GroupEnds ==
  ASSUME ByPrice(points, order), width \in Nat, start \in 1 .. Len(order),
         \A k \in DOMAIN points : points[k].price \in Nat
  PROVE  /\ GroupEnd \in start .. Len(order)
         /\ \A k \in start .. GroupEnd : Price(k) <= Price(start) + width
         /\ \A k \in GroupEnd + 1 .. Len(order) : Price(start) + width < Price(k)
<1> DEFINE n == Len(order)
           E == { e \in start .. n : \A k \in start .. e : Price(k) <= Price(start) + width }
<1>1. /\ n \in Nat /\ start \in 1 .. n
      /\ \A k \in 1 .. n : Price(k) \in Nat
      /\ \A j, k \in 1 .. n : j < k => Price(j) <= Price(k)
  <2> DEFINE D == DOMAIN points
  <2>0. order \in Seq(D)
    BY DEF ByPrice
  <2> HIDE DEF D
  <2>1. \A k \in 1 .. n : order[k] \in D
    BY <2>0
  <2> USE DEF D
  <2> QED
    BY <2>1 DEF ByPrice, Price
<1> HIDE DEF n
<1>2. E \in SUBSET Int /\ start \in E
  BY <1>1
<1>3. IsFiniteSet(E)
  <2>1. E \in SUBSET (start .. n) /\ IsFiniteSet(start .. n)
    BY <1>1, FS_Interval
  <2> HIDE DEF E
  <2> QED
    BY <2>1, FS_Subset
<1>4. GroupEnd = Max(E)
  BY DEF GroupEnd, n
<1> HIDE DEF E
<1>5. GroupEnd \in E /\ \A e \in E : e <= GroupEnd
  BY <1>2, <1>3, <1>4, Extremes
<1>6. /\ GroupEnd \in start .. n
      /\ \A k \in start .. GroupEnd : Price(k) <= Price(start) + width
  BY <1>5 DEF E
<1>7. ASSUME NEW k \in GroupEnd + 1 .. n PROVE Price(start) + width < Price(k)
  <2> DEFINE e == GroupEnd + 1
  <2>1. e \in start .. n /\ e \in 1 .. n /\ k \in 1 .. n /\ e <= k
    BY <1>1, <1>6
  <2>2. e \notin E
    <3>1. GroupEnd \in Int /\ ~(e <= GroupEnd)
      BY <1>1, <1>6
    <3> HIDE DEF e
    <3> QED
      BY <1>5, <3>1
  <2>3. ~(Price(e) <= Price(start) + width)
    <3> SUFFICES ASSUME Price(e) <= Price(start) + width PROVE FALSE
      OBVIOUS
    <3>1. \A j \in start .. e : j = e \/ j \in start .. GroupEnd
      BY <1>1, <1>6
    <3>2. \A j \in start .. e : Price(j) <= Price(start) + width
      <4> HIDE DEF e
      <4> QED
        BY <1>6, <3>1
    <3> QED
      BY <2>1, <2>2, <3>2 DEF E
  <2>4. Price(e) <= Price(k)
    <3>1. e = k \/ e < k
      BY <2>1
    <3>2. Price(e) \in Nat
      BY <1>1, <2>1
    <3> HIDE DEF e
    <3> QED
      BY <1>1, <2>1, <3>1, <3>2
  <2>5. Price(e) \in Nat /\ Price(k) \in Nat /\ Price(start) \in Nat
    BY <1>1, <2>1
  <2> QED
    BY <2>3, <2>4, <2>5
<1> QED
  BY <1>6, <1>7 DEF n

LEMMA PricesInOrder ==
  ASSUME request \in Requests, SoundPoints(request, points), ByPrice(points, order)
  PROVE  /\ Len(order) \in Nat
         /\ \A k \in 1 .. Len(order) : order[k] \in DOMAIN points /\ Price(k) \in Nat
         /\ \A j, k \in 1 .. Len(order) : j <= k => Price(j) <= Price(k)
<1> DEFINE D == DOMAIN points
<1>1. Len(order) \in Nat /\ order \in Seq(D)
  BY DEF ByPrice
<1>2. \A j, k \in 1 .. Len(order) : j < k => Price(j) <= Price(k)
  BY DEF ByPrice, Price
<1>3. \A j \in D : points[j].price \in Nat
  BY PointFacts
<1> HIDE DEF D
<1>4. \A k \in 1 .. Len(order) : order[k] \in D /\ Price(k) \in Nat
  BY <1>1, <1>3 DEF Price
<1>5. ASSUME NEW j \in 1 .. Len(order), NEW k \in 1 .. Len(order), j <= k
      PROVE  Price(j) <= Price(k)
  <2>1. j = k \/ j < k
    BY <1>1, <1>5
  <2> QED
    BY <1>2, <1>4, <2>1
<1> QED
  BY <1>1, <1>4, <1>5 DEF D

(* The zone that an iteration of the loop makes of its group.              *)
LEMMA GroupIsZone ==
  ASSUME request \in Requests, SoundPoints(request, points), ByPrice(points, order),
         width \in Nat, start \in 1 .. Len(order),
         Grouped(request, points, order, start, width, zones)
  PROVE  LET zone == ZoneOf(SubSeq(order, start, GroupEnd))
         IN  /\ zone.lower = Price(start) /\ zone.upper = Price(GroupEnd)
             /\ Len(zone.touches) = Most(Touching(points, Price(start), width), request.spacing)
             /\ Len(zone.touches) \in Nat
             /\ Len(zone.touches) >= request.minTouches => GoodZone(request, points, width, zone)
<1> DEFINE n == Len(order)
           D == DOMAIN points
           e == GroupEnd
           group == SubSeq(order, start, e)
           low == Price(start)
           near == Near(points, low, width)
           candles == Touching(points, low, width)
           zone == ZoneOf(group)
<1>1. /\ n \in Nat /\ start \in 1 .. n /\ order \in Seq(D)
      /\ \A k \in 1 .. n : order[k] \in D /\ Price(k) \in Nat
      /\ \A j, k \in 1 .. n : j <= k => Price(j) <= Price(k)
      /\ \A j \in D : \E k \in 1 .. n : order[k] = j
      /\ \A k \in 1 .. n : Price(k) = points[order[k]].price
  BY PricesInOrder DEF ByPrice, Price
<1>2. /\ e \in start .. n
      /\ \A k \in start .. e : Price(k) <= low + width
      /\ \A k \in e + 1 .. n : low + width < Price(k)
  BY PointFacts, GroupEnds
<1>3. \A k \in 1 .. start - 1 : Price(k) < low
  BY <1>1 DEF Grouped, Price
<1> HIDE DEF n, D, e, low
<1>4. /\ group \in Seq(D) /\ Len(group) = e - start + 1 /\ DOMAIN group = 1 .. e - start + 1
      /\ \A i \in 1 .. e - start + 1 : group[i] = order[start + i - 1]
  <2>1. group = [i \in 1 .. e - start + 1 |-> order[start + i - 1]]
    BY <1>1, <1>2 DEF SubSeq
  <2>2. e - start + 1 \in Nat
    BY <1>1, <1>2
  <2>3. \A i \in 1 .. e - start + 1 : start + i - 1 \in 1 .. n
    BY <1>1, <1>2
  <2>4. group \in [1 .. e - start + 1 -> D]
    <3> HIDE DEF group
    <3> QED
      BY <1>1, <2>1, <2>3
  <2> DEFINE m == e - start + 1
  <2>5. m \in Nat /\ group \in [1 .. m -> D] /\ \A i \in 1 .. m : group[i] = order[start + i - 1]
    BY <2>1, <2>2, <2>4
  <2> HIDE DEF group, m
  <2>6. group \in Seq(D) /\ Len(group) = m /\ DOMAIN group = 1 .. m
    BY <2>5
  <2> QED
    BY <2>5, <2>6 DEF m
<1> HIDE DEF group
<1>5. /\ group[1] = order[start] /\ Last(group) = order[e]
  <2>1. 1 \in 1 .. e - start + 1 /\ start + 1 - 1 = start
    BY <1>1, <1>2
  <2>2. e - start + 1 \in 1 .. e - start + 1 /\ start + (e - start + 1) - 1 = e
    BY <1>1, <1>2
  <2>3. Last(group) = group[e - start + 1]
    BY <1>4 DEF Last
  <2> QED
    BY <1>4, <2>1, <2>2, <2>3
<1>6. Range(group) = near
  <2>1. ASSUME NEW j \in Range(group) PROVE j \in near
    <3>1. PICK i \in 1 .. e - start + 1 : j = group[i]
      BY <1>4, <2>1 DEF Range
    <3> DEFINE k == start + i - 1
    <3>2. k \in start .. e /\ k \in 1 .. n /\ start <= k
      BY <1>1, <1>2
    <3>3. j = order[k]
      BY <1>4, <3>1
    <3> HIDE DEF k
    <3>4. low <= Price(k) /\ Price(k) <= low + width /\ Price(k) \in Nat
      BY <1>1, <1>2, <3>2 DEF low
    <3>5. points[j].price = Price(k) /\ j \in D
      BY <1>1, <3>2, <3>3
    <3>6. low \in Nat
      BY <1>1 DEF low
    <3> QED
      BY <3>4, <3>5, <3>6 DEF Near, D
  <2>2. ASSUME NEW j \in near PROVE j \in Range(group)
    <3>1. j \in D /\ points[j].price \in low .. low + width
      BY DEF Near, D
    <3>2. PICK k \in 1 .. n : order[k] = j
      BY <1>1, <3>1
    <3>3. Price(k) \in low .. low + width /\ low \in Nat /\ Price(k) \in Nat
      BY <1>1, <3>1, <3>2 DEF low
    <3>4. ~(k < start)
      <4>1. k < start => k \in 1 .. start - 1
        BY <1>1
      <4> QED
        BY <1>3, <3>3, <4>1
    <3>5. ~(e < k)
      <4>1. e < k => k \in e + 1 .. n
        BY <1>1, <1>2
      <4> QED
        BY <1>2, <3>3, <4>1
    <3> DEFINE i == k - start + 1
    <3>6. i \in 1 .. e - start + 1 /\ start + i - 1 = k
      BY <1>1, <1>2, <3>4, <3>5
    <3>7. group[i] = j
      BY <1>4, <3>2, <3>6
    <3> HIDE DEF i
    <3> QED
      BY <1>4, <3>6, <3>7 DEF Range
  <2> HIDE DEF near
  <2> QED
    BY <2>1, <2>2
<1>7. { points[k].index : k \in Range(group) } = candles
  BY <1>6 DEF Touching
<1> HIDE DEF near
<1>8. candles \in SUBSET Nat /\ IsFiniteSet(candles) /\ candles # {}
  <2>1. near \in SUBSET D /\ \A j \in D : points[j].index \in Nat
    BY PointFacts DEF near, Near, D
  <2>2. candles = { points[k].index : k \in near }
    BY DEF Touching, near
  <2>3. order[start] \in near
    <3>1. 1 \in 1 .. e - start + 1
      BY <1>1, <1>2
    <3> QED
      BY <1>4, <1>5, <1>6, <3>1 DEF Range
  <2>4. IsFiniteSet(near)
    <3>1. IsFiniteSet(D)
      BY FS_Interval DEF SoundPoints, D
    <3> QED
      BY <2>1, <3>1, FS_Subset
  <2> DEFINE f == [k \in near |-> points[k].index]
  <2> HIDE DEF candles
  <2>5. f \in Surjection(near, candles)
    BY <2>2 DEF Surjection
  <2>6. IsFiniteSet(candles)
    <3> HIDE DEF f
    <3> QED
      BY <2>4, <2>5, FS_Surjection
  <2> QED
    BY <2>1, <2>2, <2>3, <2>6
<1> HIDE DEF candles
<1>9. /\ zone.lower = points[group[1]].price /\ zone.upper = points[Last(group)].price
      /\ zone.representative = Divide(zone.lower + zone.upper, 2)
      /\ zone.role = Role(zone.lower, zone.upper)
      /\ zone.extrema = group
      /\ zone.touches = Accepted(candles)
  BY <1>7 DEF ZoneOf
<1> HIDE DEF zone
<1> DEFINE touches == zone.touches
<1>10. /\ touches \in Seq(candles) /\ Len(touches) \in Nat \ {0}
       /\ touches[1] = Min(candles)
       /\ \A i, j \in 1 .. Len(touches) : i < j => touches[j] - touches[i] >= request.spacing
       /\ Len(touches) = MostTouches(candles)
  <2>1. request.spacing \in Nat \ {0}
    BY SoundRequest
  <2> QED
    BY <1>8, <1>9, <2>1, GreedyIsMaximal
<1>11. MostTouches(candles) = Most(candles, request.spacing)
  BY DEF MostTouches, Most
<1>12. zone.lower = low /\ zone.upper = Price(e) /\ e \in 1 .. n /\ start <= e
  <2>1. e \in 1 .. n /\ start <= e
    <3>1. n \in Nat /\ start \in 1 .. n /\ e \in start .. n
      BY <1>1, <1>2
    <3> QED
      BY ONLY <3>1
  <2>2. zone.lower = points[order[start]].price /\ zone.upper = points[order[e]].price
    BY ONLY <1>5, <1>9
  <2>3. Price(start) = points[order[start]].price /\ Price(e) = points[order[e]].price
    BY ONLY DEF Price
  <2> QED
    BY ONLY <2>1, <2>2, <2>3 DEF low
<1>13. zone.role = RoleOf(request, zone.lower, zone.upper)
  BY <1>9 DEF Role, RoleOf, Close
<1>14. ASSUME NEW j \in near PROVE points[j].price <= zone.upper
  <2>1. PICK i \in 1 .. e - start + 1 : j = group[i]
    BY <1>4, <1>6, <1>14 DEF Range
  <2> DEFINE k == start + i - 1
  <2>2. k \in 1 .. n /\ k <= e
    <3>1. n \in Nat /\ start \in 1 .. n /\ e \in start .. n /\ i \in 1 .. e - start + 1
      BY <1>1, <1>2
    <3> QED
      BY ONLY <3>1
  <2>3. j = order[k]
    BY <1>4, <2>1
  <2> HIDE DEF k
  <2> QED
    BY <1>1, <1>12, <2>2, <2>3
<1>15. low \in Nat /\ Price(e) \in Nat /\ low <= Price(e) /\ Price(e) <= low + width
  <2>1. e \in start .. e
    BY <1>1, <1>2
  <2> QED
    BY <1>1, <1>2, <1>12, <2>1 DEF low
<1>16. Len(touches) >= request.minTouches => GoodZone(request, points, width, zone)
  BY <1>4, <1>6, <1>9, <1>10, <1>11, <1>12, <1>13, <1>14, <1>15
     DEF GoodZone, near, candles, D
<1> QED
  BY <1>10, <1>11, <1>12, <1>16 DEF zone, low, e, candles, group

LEMMA GroupStep ==
  ASSUME request \in Requests, SoundPoints(request, points), ByPrice(points, order),
         width \in Nat, start \in 1 .. Len(order),
         Grouped(request, points, order, start, width, zones)
  PROVE  LET zone == ZoneOf(SubSeq(order, start, GroupEnd))
         IN  Grouped(request, points, order, GroupEnd + 1, width,
                     IF Len(zone.touches) >= request.minTouches
                       THEN Append(zones, zone) ELSE zones)
<1> DEFINE n == Len(order)
           e == GroupEnd
           low == Price(start)
           A(p) == AnchorsOf(points, width)[p]
           Zoned(p) == Anchors(request, points, width, p)
           zone == ZoneOf(SubSeq(order, start, e))
           enough == Len(zone.touches) >= request.minTouches
           next == IF enough THEN Append(zones, zone) ELSE zones
           m == Len(zones)
<1>1. /\ n \in Nat /\ start \in 1 .. n
      /\ \A k \in 1 .. n : Price(k) \in Nat
      /\ \A j, k \in 1 .. n : j <= k => Price(j) <= Price(k)
  BY PricesInOrder
<1>2. /\ e \in start .. n
      /\ \A k \in start .. e : Price(k) <= low + width
      /\ \A k \in e + 1 .. n : low + width < Price(k)
  BY PointFacts, GroupEnds
<1>3. /\ \A k \in 1 .. start - 1 : Price(k) < low /\ (A(Price(k)) => Price(k) + width < low)
      /\ \A k \in 1 .. m : /\ GoodZone(request, points, width, zones[k])
                           /\ Zoned(zones[k].lower)
      /\ \A k \in 1 .. m : \E i, j \in 1 .. start - 1 :
           zones[k].lower = Price(i) /\ zones[k].upper = Price(j)
      /\ \A k \in 1 .. start - 1 : Zoned(Price(k)) =>
           \E j \in 1 .. m : zones[j].lower = Price(k)
      /\ \A j, k \in 1 .. m : j < k => zones[j].upper < zones[k].lower
  BY <1>1 DEF Grouped, Price
<1>4. /\ PricesOf(points) \in SUBSET Nat
      /\ \A k \in 1 .. n : Price(k) \in PricesOf(points)
      /\ \A p \in PricesOf(points) : \E k \in 1 .. n : p = Price(k)
  <2>1. \A k \in 1 .. n : order[k] \in DOMAIN points
    BY PricesInOrder
  <2>2. \A j \in DOMAIN points : \E k \in 1 .. n : order[k] = j
    BY DEF ByPrice
  <2>3. PricesOf(points) \in SUBSET Nat
    BY PricesAreBounded
  <2>4. \A k \in 1 .. n : Price(k) \in PricesOf(points)
    BY ONLY <2>1 DEF PricesOf, Price
  <2>5. \A p \in PricesOf(points) : \E k \in 1 .. n : p = Price(k)
    BY ONLY <2>2 DEF PricesOf, Price
  <2> QED
    BY ONLY <2>3, <2>4, <2>5
<1>5. \A p \in PricesOf(points) :
        A(p) <=> \A q \in PricesOf(points) : q < p /\ p <= q + width => ~A(q)
  BY PricesAreBounded, AnchorsUnfold
<1>6. /\ zone.lower = low /\ zone.upper = Price(e)
      /\ Len(zone.touches) = Most(Touching(points, low, width), request.spacing)
      /\ Len(zone.touches) \in Nat
      /\ enough => GoodZone(request, points, width, zone)
  BY GroupIsZone
<1> HIDE DEF n, e, zone, m
(* The first price of the group is an anchor, no other price of it is.     *)
<1>7. A(low)
  <2> SUFFICES ASSUME NEW q \in PricesOf(points), q < low, low <= q + width, A(q) PROVE FALSE
    BY <1>1, <1>4, <1>5
  <2>1. PICK k \in 1 .. n : q = Price(k)
    BY <1>4
  <2>2. ~(start <= k)
    <3>1. q \in Nat /\ low \in Nat
      BY <1>1, <1>4
    <3>2. start <= k => low <= q
      BY <1>1, <2>1
    <3> QED
      BY <3>1, <3>2
  <2>3. k \in 1 .. start - 1
    BY <1>1, <2>2
  <2>4. q + width < low
    BY <1>3, <2>1, <2>3
  <2>5. q + width \in Nat /\ low \in Nat
    BY <1>1, <1>4
  <2> QED
    BY <2>4, <2>5
<1>8. ASSUME NEW k \in start .. e, A(Price(k)) PROVE Price(k) = low
  <2>1. k \in 1 .. n /\ start <= k
    BY <1>1, <1>2
  <2>2. low <= Price(k) /\ Price(k) <= low + width /\ low \in Nat /\ Price(k) \in Nat
    BY <1>1, <1>2, <2>1
  <2>3. ~(low < Price(k))
    <3>1. low \in PricesOf(points) /\ Price(k) \in PricesOf(points)
      BY <1>1, <1>4, <2>1
    <3> HIDE DEF low, A
    <3> QED
      BY <1>5, <1>7, <1>8, <2>2, <3>1
  <2> QED
    BY <2>2, <2>3
<1> HIDE DEF A
<1>9. ASSUME e + 1 <= n, NEW k \in 1 .. e
      PROVE  Price(k) < Price(e + 1) /\ (A(Price(k)) => Price(k) + width < Price(e + 1))
  <2>1. e + 1 \in e + 1 .. n /\ e + 1 \in 1 .. n /\ k \in 1 .. n
    BY <1>1, <1>2, <1>9
  <2>2. low + width < Price(e + 1) /\ Price(e + 1) \in Nat /\ low \in Nat /\ Price(k) \in Nat
    BY <1>1, <1>2, <2>1
  <2>3. CASE k \in 1 .. start - 1
    <3>1. Price(k) < low /\ (A(Price(k)) => Price(k) + width < low)
      BY <1>3, <2>3
    <3> QED
      BY <2>2, <3>1
  <2>4. CASE k \in start .. e
    <3>1. Price(k) <= low + width /\ (A(Price(k)) => Price(k) = low)
      BY <1>2, <1>8, <2>4
    <3> QED
      BY <2>2, <3>1
  <2> QED
    BY <1>1, <1>2, <2>3, <2>4
<1>10. enough <=> Zoned(low)
  BY <1>6, <1>7 DEF Anchors, A
<1>11. PICK S : zones \in Seq(S) /\ zone \in S
  <2>1. PICK T : zones \in Seq(T)
    BY DEF Grouped
  <2> DEFINE S == T \cup {zone}
  <2>2. zones \in Seq(S)
    BY <2>1, SeqMonotonic
  <2> QED
    BY <2>2
<1>12. /\ m \in Nat
       /\ next \in Seq(S)
       /\ Len(next) = IF enough THEN m + 1 ELSE m
       /\ \A k \in 1 .. m : next[k] = zones[k]
       /\ enough => next[m + 1] = zone
  BY <1>11, AppendProperties DEF m
<1>13. /\ \A k \in 1 .. Len(next) : k \in 1 .. m \/ (k = m + 1 /\ enough)
       /\ 1 .. m \in SUBSET (1 .. Len(next))
       /\ enough => m + 1 \in 1 .. Len(next)
       /\ \A k \in 1 .. e : k \in 1 .. start - 1 \/ k \in start .. e
       /\ 1 .. start - 1 \in SUBSET (1 .. e) /\ start \in 1 .. e /\ e \in 1 .. e
  <2>1. Len(next) = IF enough THEN m + 1 ELSE m
    BY <1>12
  <2> HIDE DEF next, enough
  <2> QED
    BY <1>1, <1>2, <1>12, <2>1
<1> HIDE DEF next, enough, Zoned, low
<1>14. ASSUME NEW k \in 1 .. Len(next)
       PROVE  /\ GoodZone(request, points, width, next[k]) /\ Zoned(next[k].lower)
              /\ \E i, j \in 1 .. e : next[k].lower = Price(i) /\ next[k].upper = Price(j)
  <2>1. CASE k \in 1 .. m
    <3>1. next[k] = zones[k]
      BY <1>12, <2>1
    <3>2. PICK i \in 1 .. start - 1, j \in 1 .. start - 1 :
            zones[k].lower = Price(i) /\ zones[k].upper = Price(j)
      BY <1>3, <2>1
    <3>3. i \in 1 .. e /\ j \in 1 .. e
      BY <1>13
    <3> QED
      BY <1>3, <2>1, <3>1, <3>2, <3>3
  <2>2. CASE k = m + 1 /\ enough
    <3>1. next[k] = zone
      BY <1>12, <2>2
    <3>2. zone.lower = Price(start) /\ zone.upper = Price(e)
      BY <1>6 DEF low
    <3>3. Zoned(zone.lower)
      BY <1>6, <1>10, <2>2
    <3> QED
      BY <1>6, <1>13, <2>2, <3>1, <3>2, <3>3
  <2> QED
    BY <1>13, <2>1, <2>2
<1>15. ASSUME NEW k \in 1 .. e, Zoned(Price(k))
       PROVE  \E j \in 1 .. Len(next) : next[j].lower = Price(k)
  <2>1. CASE k \in 1 .. start - 1
    <3>1. PICK j \in 1 .. m : zones[j].lower = Price(k)
      BY <1>3, <1>15, <2>1
    <3>2. next[j].lower = Price(k) /\ j \in 1 .. Len(next)
      BY <1>12, <1>13, <3>1
    <3> QED
      BY <3>2
  <2>2. CASE k \in start .. e
    <3>1. A(Price(k))
      BY <1>15 DEF Zoned, Anchors, A
    <3>2. Price(k) = low
      BY <1>8, <2>2, <3>1
    <3>3. enough
      BY <1>10, <1>15, <3>2
    <3>4. next[m + 1].lower = Price(k) /\ m + 1 \in 1 .. Len(next)
      BY <1>6, <1>12, <1>13, <3>2, <3>3
    <3> QED
      BY <3>4
  <2> QED
    BY <1>13, <2>1, <2>2
<1>16. ASSUME NEW j \in 1 .. Len(next), NEW k \in 1 .. Len(next), j < k
       PROVE  next[j].upper < next[k].lower
  <2>1. j \in 1 .. m
    BY <1>12, <1>13, <1>16
  <2>2. next[j] = zones[j]
    BY <1>12, <2>1
  <2>3. CASE k \in 1 .. m
    BY <1>3, <1>12, <1>16, <2>1, <2>2, <2>3
  <2>4. CASE k = m + 1 /\ enough
    <3>1. next[k].lower = low
      BY <1>6, <1>12, <2>4
    <3>2. PICK i \in 1 .. start - 1 : zones[j].upper = Price(i)
      BY <1>3, <2>1
    <3> QED
      BY <1>3, <2>2, <3>1, <3>2
  <2> QED
    BY <1>13, <2>3, <2>4
<1>17. Grouped(request, points, order, e + 1, width, next)
  <2> DEFINE s == e + 1
  <2>1. s \in 1 .. n + 1 /\ s - 1 = e
    BY <1>1, <1>2
  <2>2. s <= n => \A k \in 1 .. e :
          Price(k) < Price(s) /\ (A(Price(k)) => Price(k) + width < Price(s))
    BY <1>9
  <2> HIDE DEF s
  <2>3. Grouped(request, points, order, s, width, next)
    <3>1. \E T : next \in Seq(T)
      BY <1>12
    <3>2. \A k \in 1 .. Len(next) :
            /\ GoodZone(request, points, width, next[k])
            /\ \E i, j \in 1 .. e : next[k].lower = Price(i) /\ next[k].upper = Price(j)
            /\ Zoned(next[k].lower)
      BY <1>14
    <3>3. \A k \in 1 .. e : Zoned(Price(k)) => \E j \in 1 .. Len(next) : next[j].lower = Price(k)
      BY <1>15
    <3>4. \A j, k \in 1 .. Len(next) : j < k => next[j].upper < next[k].lower
      BY <1>16
    <3> QED
      BY <2>1, <2>2, <3>1, <3>2, <3>3, <3>4 DEF Grouped, Price, Zoned, A, n
  <2> QED
    BY <2>3 DEF s
<1> QED
  BY <1>17 DEF next, enough, zone, e
-----------------------------------------------------------------------------
LEMMA NothingGrouped ==
  ASSUME NEW r, NEW ps, NEW o, Len(o) \in Nat, NEW w
  PROVE  Grouped(r, ps, o, 1, w, <<>>)
<1>1. 1 \in 1 .. Len(o) + 1 /\ 1 - 1 = 0
  OBVIOUS
<1>2. \E S : <<>> \in Seq(S)
  OBVIOUS
<1>3. Len(<<>>) = 0
  OBVIOUS
<1> QED
  BY <1>1, <1>2, <1>3 DEF Grouped

LEMMA InitIsSound == Init => IInv
<1> SUFFICES ASSUME Init PROVE IInv
  OBVIOUS
<1>1. /\ request \in Requests /\ phase = "detecting" /\ points = <<>> /\ order = <<>>
      /\ start = 1 /\ width = 0 /\ zones = <<>>
  BY DEF Init
<1>2. Len(<<>>) = 0 /\ DOMAIN <<>> = {} /\ 1 .. 0 = {} /\ <<>> \in Seq(DOMAIN points)
  OBVIOUS
<1>3. SoundPoints(request, points)
  BY <1>1, <1>2 DEF SoundPoints, Detected!InTimeOrder
<1>4. Grouped(request, points, order, start, width, zones)
  BY <1>1, <1>2, NothingGrouped
<1> QED
  BY <1>1, <1>2, <1>3, <1>4 DEF IInv

LEMMA DetectKeeps == IInv /\ Detect => IInv'
<1> SUFFICES ASSUME IInv, Detect PROVE IInv'
  OBVIOUS
<1>1. /\ request \in Requests /\ request' = request /\ phase = "detecting" /\ phase' = "sorting"
      /\ points' = Detection!DetectExtrema(request.series, request.extrema, ATRSequence)
      /\ order' = <<>> /\ start' = 1 /\ zones' = <<>>
  BY DEF IInv, Detect
<1>2. width' \in Nat
  BY <1>1, WidthIsNatural DEF Detect, LatestATR, ATRSequence
<1>3. SoundPoints(request', points')
  BY <1>1, DetectedPointsAreSound
<1>4. Len(order') = 0 /\ order' \in Seq(DOMAIN points')
  BY <1>1
<1>5. Grouped(request', points', order', start', width', zones')
  BY <1>1, <1>4, NothingGrouped
<1>6. points' = Detection!DetectExtrema(request'.series, request'.extrema, ATRSequence')
  BY <1>1 DEF ATRSequence
<1> QED
  BY <1>1, <1>2, <1>3, <1>4, <1>5, <1>6 DEF IInv

LEMMA SortKeeps == IInv /\ Sort => IInv'
<1> SUFFICES ASSUME IInv, Sort PROVE IInv'
  OBVIOUS
<1>1. /\ request \in Requests /\ request' = request /\ phase = "sorting" /\ phase' = "grouping"
      /\ points' = points /\ width \in Nat /\ width' = width
      /\ start' = 1 /\ zones' = <<>> /\ order' = PointsInOrder
      /\ SoundPoints(request, points)
      /\ points = Detection!DetectExtrema(request.series, request.extrema, ATRSequence)
  BY DEF IInv, Sort
<1>2. ByPrice(points', order')
  BY <1>1, SortIsComplete
<1>3. order' \in Seq(DOMAIN points') /\ Len(order') \in Nat
  BY <1>2 DEF ByPrice
<1>4. Grouped(request', points', order', start', width', zones')
  BY <1>1, <1>3, NothingGrouped
<1>5. points' = Detection!DetectExtrema(request'.series, request'.extrema, ATRSequence')
  BY <1>1 DEF ATRSequence
<1> QED
  BY <1>1, <1>2, <1>3, <1>4, <1>5 DEF IInv

LEMMA GroupKeeps == IInv /\ Group => IInv'
<1> SUFFICES ASSUME IInv, Group PROVE IInv'
  OBVIOUS
<1>1. /\ request \in Requests /\ request' = request /\ phase = "grouping" /\ phase' = "grouping"
      /\ points' = points /\ width \in Nat /\ width' = width /\ order' = order
      /\ SoundPoints(request, points) /\ ByPrice(points, order)
      /\ order \in Seq(DOMAIN points) /\ Len(order) \in Nat
      /\ Grouped(request, points, order, start, width, zones)
      /\ points = Detection!DetectExtrema(request.series, request.extrema, ATRSequence)
      /\ start' = GroupEnd + 1
  BY DEF IInv, Group
<1>2. zones' = IF Len(ZoneOf(SubSeq(order, start, GroupEnd)).touches) >= request.minTouches
                 THEN Append(zones, ZoneOf(SubSeq(order, start, GroupEnd))) ELSE zones
  BY DEF Group
<1>3. start \in 1 .. Len(order)
  BY <1>1 DEF Group, Grouped
<1>4. Grouped(request', points', order', start', width', zones')
  BY <1>1, <1>2, <1>3, GroupStep
<1>5. points' = Detection!DetectExtrema(request'.series, request'.extrema, ATRSequence')
  BY <1>1 DEF ATRSequence
<1> QED
  BY <1>1, <1>4, <1>5 DEF IInv

(* The other steps leave all but the phase alone.                          *)
LEMMA PhaseKeeps ==
  IInv /\ (Finish \/ Cancel \/ UNCHANGED vars) => IInv'
<1> SUFFICES ASSUME IInv, Finish \/ Cancel \/ UNCHANGED vars PROVE IInv'
  OBVIOUS
<1>1. /\ request' = request /\ points' = points /\ order' = order /\ start' = start
      /\ width' = width /\ zones' = zones
      /\ phase' \in {phase, "done", "canceled"}
      /\ phase' = "done" /\ phase # "done" => phase = "grouping" /\ start > Len(order)
  BY DEF Finish, Cancel, vars
<1>2. ATRSequence' = ATRSequence
  BY <1>1 DEF ATRSequence
<1>3. /\ start \in 1 .. Len(order) + 1 /\ Len(order) \in Nat
  BY DEF IInv, Grouped
<1>4. phase' = "done" => start = Len(order) + 1
  BY <1>1, <1>3 DEF IInv
<1> QED
  BY <1>1, <1>2, <1>4 DEF IInv

LEMMA Invariance == Spec => []IInv
<1>1. IInv /\ [Next]_vars => IInv'
  BY DetectKeeps, SortKeeps, GroupKeeps, PhaseKeeps DEF Next
<1> QED
  BY InitIsSound, <1>1, PTL DEF Spec

(* The state is well formed all along.                                     *)
THEOREM TypeCorrect == Spec => []TypeOK
<1>1. IInv => TypeOK
  <2> SUFFICES ASSUME IInv PROVE TypeOK
    OBVIOUS
  <2>1. /\ request \in Requests
        /\ phase \in {"detecting", "sorting", "grouping", "done", "canceled"}
        /\ width \in Nat /\ start \in 1 .. Len(order) + 1
    BY DEF IInv, Grouped
  <2>2. Range(order) \subseteq DOMAIN points
    <3> DEFINE D == DOMAIN points
    <3>1. order \in Seq(D)
      BY DEF IInv
    <3> HIDE DEF D
    <3>2. Range(order) \subseteq D
      BY <3>1 DEF Range
    <3> QED
      BY <3>2 DEF D
  <2>3. ASSUME NEW k \in 1 .. Len(zones)
        PROVE  /\ zones[k].lower <= zones[k].upper
               /\ Range(zones[k].extrema) \subseteq DOMAIN points
               /\ zones[k].touches # <<>>
    <3>1. GoodZone(request, points, width, zones[k])
      BY DEF IInv, Grouped
    <3>2. zones[k].lower <= zones[k].upper /\ Len(zones[k].touches) \in Nat \ {0}
      BY <3>1 DEF GoodZone
    <3>3. Range(zones[k].extrema) = Near(points, zones[k].lower, width)
      BY <3>1 DEF GoodZone
    <3>4. Len(<<>>) = 0
      OBVIOUS
    <3> QED
      BY <3>2, <3>3, <3>4 DEF Near
  <2> QED
    BY <2>1, <2>2, <2>3 DEF TypeOK
<1> QED
  BY <1>1, Invariance, PTL

(* Every zone of every request has as many touches as its candles allow.   *)
THEOREM TouchCountMaximal == Spec => []TouchCountIsMaximal
<1>1. IInv => TouchCountIsMaximal
  <2> SUFFICES ASSUME IInv, NEW k \in DOMAIN zones
               PROVE  LET candles == { points[j].index : j \in Range(zones[k].extrema) }
                          touches == zones[k].touches
                      IN  /\ Range(touches) \subseteq candles
                          /\ touches[1] = Min(candles)
                          /\ Len(touches) = MostTouches(candles)
                          /\ \A j \in 2 .. Len(touches) :
                               touches[j] - touches[j - 1] >= request.spacing
    BY DEF TouchCountIsMaximal
  <2> DEFINE candles == { points[j].index : j \in Range(zones[k].extrema) }
             touches == zones[k].touches
             C == Touching(points, zones[k].lower, width)
  <2>1. k \in 1 .. Len(zones)
    BY DEF IInv, Grouped
  <2>2. GoodZone(request, points, width, zones[k])
    BY <2>1 DEF IInv, Grouped
  <2>3. candles = C
    BY <2>2 DEF GoodZone, Touching
  <2>4. /\ touches \in Seq(C) /\ Len(touches) \in Nat
        /\ touches[1] = Min(C)
        /\ \A i, j \in 1 .. Len(touches) : i < j => touches[j] - touches[i] >= request.spacing
        /\ Len(touches) = Most(C, request.spacing)
    BY <2>2 DEF GoodZone
  <2> HIDE DEF C, candles, touches
  <2>5. Range(touches) \subseteq C
    BY <2>4 DEF Range
  <2>6. MostTouches(C) = Most(C, request.spacing)
    BY DEF MostTouches, Most
  <2>7. ASSUME NEW j \in 2 .. Len(touches) PROVE touches[j] - touches[j - 1] >= request.spacing
    <3>1. j - 1 \in 1 .. Len(touches) /\ j \in 1 .. Len(touches) /\ j - 1 < j
      BY <2>4
    <3> QED
      BY <2>4, <3>1
  <2> QED
    BY <2>3, <2>4, <2>5, <2>6, <2>7 DEF candles, touches
<1> QED
  BY <1>1, Invariance, PTL

(* The loop over the sorted points finds the zones that the anchors        *)
(* define, whatever the series.                                            *)
LEMMA DoneIsAnchored == IInv => ZonesAreAnchored
<1> SUFFICES ASSUME IInv, phase = "done" PROVE ZonesAreAnchored
  BY DEF ZonesAreAnchored
<1> DEFINE prices == { points[k].price : k \in DOMAIN points }
           A == AnchorsOf(points, width)
           m == Len(zones)
           n == Len(order)
           wanted(p) == A[p] /\ MostTouches(CandlesFrom(p)) >= request.minTouches
<1>1. /\ request \in Requests /\ width \in Nat /\ SoundPoints(request, points)
      /\ ByPrice(points, order) /\ start = n + 1
      /\ Grouped(request, points, order, start, width, zones)
  BY DEF IInv
<1>2. n \in Nat /\ start - 1 = n
  BY <1>1 DEF ByPrice
<1>3. /\ m \in Nat /\ DOMAIN zones = 1 .. m
      /\ \A k \in 1 .. m : GoodZone(request, points, width, zones[k])
      /\ \A k \in 1 .. m : \E i \in 1 .. n : zones[k].lower = points[order[i]].price
      /\ \A k \in 1 .. m : Anchors(request, points, width, zones[k].lower)
      /\ \A k \in 1 .. n : Anchors(request, points, width, points[order[k]].price) =>
           \E j \in 1 .. m : zones[j].lower = points[order[k]].price
      /\ \A j, k \in 1 .. m : j < k => zones[j].upper < zones[k].lower
  <2>1. m \in Nat /\ DOMAIN zones = 1 .. m
    BY <1>1 DEF Grouped
  <2>2. \A k \in 1 .. m : /\ GoodZone(request, points, width, zones[k])
                          /\ Anchors(request, points, width, zones[k].lower)
    BY <1>1 DEF Grouped
  <2>3. \A k \in 1 .. m : \E i \in 1 .. start - 1 : zones[k].lower = points[order[i]].price
    BY <1>1 DEF Grouped
  <2>4. \A k \in 1 .. start - 1 : Anchors(request, points, width, points[order[k]].price) =>
          \E j \in 1 .. m : zones[j].lower = points[order[k]].price
    BY <1>1 DEF Grouped
  <2>5. \A j, k \in 1 .. m : j < k => zones[j].upper < zones[k].lower
    BY <1>1 DEF Grouped
  <2> QED
    BY <1>2, <2>1, <2>2, <2>3, <2>4, <2>5
<1>4. \A p : wanted(p) <=> Anchors(request, points, width, p)
  <2> SUFFICES ASSUME NEW p PROVE wanted(p) <=> Anchors(request, points, width, p)
    OBVIOUS
  <2>1. CandlesFrom(p) = Touching(points, p, width)
    BY DEF CandlesFrom, Touching, Near
  <2>2. \A C : MostTouches(C) = Most(C, request.spacing)
    BY DEF MostTouches, Most
  <2> QED
    BY <2>1, <2>2 DEF Anchors
<1> HIDE DEF wanted
<1>5. { zones[k].lower : k \in DOMAIN zones } = { p \in prices : wanted(p) }
  <2>1. ASSUME NEW k \in 1 .. m PROVE zones[k].lower \in prices /\ wanted(zones[k].lower)
    <3>1. PICK i \in 1 .. n : zones[k].lower = points[order[i]].price
      BY <1>3
    <3>2. order[i] \in DOMAIN points
      BY <1>1, PricesInOrder
    <3> QED
      BY <1>3, <1>4, <3>1, <3>2
  <2>2. ASSUME NEW p \in prices, wanted(p) PROVE \E k \in 1 .. m : zones[k].lower = p
    <3>1. PICK j \in DOMAIN points : p = points[j].price
      OBVIOUS
    <3>2. PICK k \in 1 .. n : order[k] = j
      BY <1>1 DEF ByPrice
    <3> QED
      BY <1>3, <1>4, <2>2, <3>1, <3>2
  <2> HIDE DEF prices
  <2> QED
    BY <1>3, <2>1, <2>2
<1>6. ASSUME NEW k \in 1 .. m
      PROVE  /\ Range(zones[k].extrema) =
                  { j \in DOMAIN points : points[j].price \in zones[k].lower .. zones[k].upper }
             /\ \A j \in Range(order) \ Range(zones[k].extrema) :
                  points[j].price \notin zones[k].lower .. zones[k].lower + width
  <2> DEFINE low == zones[k].lower
             high == zones[k].upper
             near == Near(points, low, width)
  <2>1. /\ low \in Nat /\ high \in Nat /\ low <= high /\ high <= low + width
        /\ Range(zones[k].extrema) = near
        /\ \A j \in near : points[j].price <= high
    BY <1>3 DEF GoodZone
  <2>2. \A j \in DOMAIN points : points[j].price \in Nat
    BY <1>1, PointFacts
  <2> HIDE DEF low, high
  <2>3. ASSUME NEW j \in DOMAIN points
        PROVE  j \in near <=> points[j].price \in low .. high
    <3>1. j \in near <=> points[j].price \in low .. low + width
      BY DEF Near
    <3> HIDE DEF near
    <3> QED
      BY <1>1, <2>1, <2>2, <3>1
  <2>4. near \subseteq DOMAIN points
    BY DEF Near
  <2>5. near = { j \in DOMAIN points : points[j].price \in low .. high }
    <3> HIDE DEF near
    <3> QED
      BY <2>3, <2>4
  <2>6. Range(order) \subseteq DOMAIN points
    <3>1. \A i \in 1 .. n : order[i] \in DOMAIN points
      BY <1>1, PricesInOrder
    <3>2. DOMAIN order = 1 .. n
      BY DEF IInv
    <3> QED
      BY <3>1, <3>2 DEF Range
  <2>7. \A j \in Range(order) \ near : points[j].price \notin low .. low + width
    BY <2>6 DEF Near
  <2> QED
    BY <2>1, <2>5, <2>7 DEF low, high
<1>7. ASSUME NEW k \in 2 .. m PROVE zones[k - 1].lower < zones[k].lower
  <2>1. k - 1 \in 1 .. m /\ k \in 1 .. m /\ k - 1 < k
    BY <1>3
  <2>2. zones[k - 1].upper < zones[k].lower
    BY <1>3, <2>1
  <2>3. /\ zones[k - 1].lower \in Nat /\ zones[k - 1].upper \in Nat
        /\ zones[k - 1].lower <= zones[k - 1].upper /\ zones[k].lower \in Nat
    BY <1>3, <2>1 DEF GoodZone
  <2> QED
    BY <2>2, <2>3
(* A zone is a support if a higher one holds the price or lies below it.   *)
<1>8. ASSUME NEW j \in 1 .. m, NEW k \in 1 .. m, j < k
      PROVE  /\ zones[k].role # "RESISTANCE" => zones[j].role = "SUPPORT"
             /\ zones[j].role # "SUPPORT" => zones[k].role = "RESISTANCE"
  <2>1. zones[j].upper < zones[k].lower
    BY <1>3, <1>8
  <2>2. /\ zones[j].lower \in Nat /\ zones[j].upper \in Nat
        /\ zones[k].lower \in Nat /\ zones[k].upper \in Nat
        /\ zones[k].lower <= zones[k].upper
        /\ zones[j].role = RoleOf(request, zones[j].lower, zones[j].upper)
        /\ zones[k].role = RoleOf(request, zones[k].lower, zones[k].upper)
    BY <1>3 DEF GoodZone
  <2>3. request.series[Count(request.series) - 1].close \in Nat
    <3>1. Count(request.series) - 1 \in DOMAIN request.series
      BY <1>1, SoundRequest
    <3> QED
      BY <1>1, <3>1, SoundRequest DEF Detected!SoundSeries
  <2> DEFINE close == request.series[Count(request.series) - 1].close
  <2>4. /\ close > zones[j].upper => zones[j].role = "SUPPORT"
        /\ ~(close > zones[k].upper) /\ close < zones[k].lower => zones[k].role = "RESISTANCE"
    BY <2>2 DEF RoleOf
  <2>5. close \in Nat
    BY <2>3
  <2> HIDE DEF close
  <2>6. CASE close < zones[k].lower
    <3>1. ~(close > zones[k].upper)
      BY <2>2, <2>5, <2>6
    <3> QED
      BY <2>4, <2>6, <3>1
  <2>7. CASE ~(close < zones[k].lower)
    <3>1. close > zones[j].upper
      <4> DEFINE u == zones[j].upper
                 l == zones[k].lower
      <4>1. u \in Nat /\ l \in Nat /\ u < l /\ ~(close < l)
        BY <2>1, <2>2, <2>7
      <4> HIDE DEF u, l
      <4>2. close > u
        BY <2>5, <4>1
      <4> QED
        BY <4>2 DEF u
    <3> QED
      BY <2>4, <3>1
  <2> QED
    BY <2>6, <2>7
<1>9. \A k \in 2 .. Len(zones) : k - 1 \in 1 .. m /\ k \in 1 .. m
  BY <1>3
<1> QED
  BY <1>3, <1>5, <1>6, <1>7, <1>8 DEF ZonesAreAnchored, wanted, AnchorsOf, PricesOf

(* A calculation that ends has exactly the zones of the contract, apart    *)
(* from each other and in the order of their prices and roles.             *)
THEOREM ZonesAnchored == Spec => []ZonesAreAnchored
BY Invariance, DoneIsAnchored, PTL
-----------------------------------------------------------------------------
(* What a response shows.                                                  *)
LEMMA SameFormat ==
  ASSUME NEW value
  PROVE  Responses!Formatted(value) = [value |-> FormatNumber(value), spelling |-> -1]
<1>1. Responses!PowerOfTen = PowerOfTen
  BY DEF Responses!PowerOfTen, PowerOfTen
<1>2. Responses!FormatNumber(value) = FormatNumber(value)
  BY <1>1 DEF Responses!FormatNumber, FormatNumber, Responses!RoundedQuotient, RoundedQuotient,
              Responses!LastDigit, LastDigit, Responses!Places, Places
<1> QED
  BY <1>2 DEF Responses!Formatted

(* A series' candles, as a response lists them.                            *)
LEMMA CandlesAreValid ==
  ASSUME NEW r \in Requests
  PROVE  LET candles == Responses!MapCandles(r.series)
         IN  /\ DOMAIN candles = DOMAIN r.series
             /\ \A k \in DOMAIN candles : Responses!ValidCandle(candles, k)
<1> DEFINE candles == Responses!MapCandles(r.series)
<1>1. /\ DOMAIN candles = DOMAIN r.series
      /\ \A k \in DOMAIN r.series :
           /\ candles[k].openTime = k /\ candles[k].closeTime = k + 1
           /\ candles[k].high.value = r.series[k].high
           /\ candles[k].low.value = r.series[k].low
           /\ candles[k].close.value = r.series[k].close
  BY DEF Responses!MapCandles, Responses!MapCandle, Responses!OpenTime, Responses!CloseTime
<1>2. /\ Count(r.series) \in Nat /\ DOMAIN r.series = 0 .. Count(r.series) - 1
      /\ \A k \in DOMAIN r.series :
           /\ r.series[k].low \in Nat /\ r.series[k].low > 0
           /\ r.series[k].low <= r.series[k].close /\ r.series[k].close <= r.series[k].high
  <2>1. Detected!SoundSeries(r.series)
    BY SoundRequest
  <2>2. \A k \in DOMAIN r.series :
          /\ r.series[k].low \in Nat \ {0}
          /\ r.series[k].low <= r.series[k].close /\ r.series[k].close <= r.series[k].high
    BY <2>1 DEF Detected!SoundSeries
  <2> QED
    BY <2>2, SoundRequest
<1> HIDE DEF candles
<1>3. ASSUME NEW k \in DOMAIN r.series PROVE Responses!ValidCandle(candles, k)
  <2>1. k \in Nat /\ (k > 0 => k - 1 \in DOMAIN r.series /\ (k - 1) + 1 = k)
    BY <1>2
  <2>2. k > 0 => candles[k - 1].closeTime = candles[k].openTime
    <3>1. k > 0 => candles[k - 1].closeTime = (k - 1) + 1
      BY <1>1, <2>1
    <3>2. candles[k].openTime = k
      BY <1>1
    <3> QED
      BY <2>1, <3>1, <3>2
  <2>3. /\ candles[k].openTime = k /\ candles[k].closeTime = k + 1
        /\ candles[k].low.value = r.series[k].low
        /\ candles[k].close.value = r.series[k].close
        /\ candles[k].high.value = r.series[k].high
    BY <1>1
  <2>4. k < k + 1
    BY <2>1
  <2> QED
    BY <1>2, <2>2, <2>3, <2>4 DEF Responses!ValidCandle
<1> QED
  BY <1>1, <1>3 DEF candles

(* A sound point can be mapped, and what the response says of it can be    *)
(* read off its candles.                                                   *)
LEMMA PointIsValid ==
  ASSUME NEW r \in Requests, NEW p, Detected!Shown(r.series, r.extrema, p)
  PROVE  LET candles == Responses!MapCandles(r.series)
         IN  Responses!ValidPoint(Responses!MapPoint(p, candles, r.extrema.source), candles,
                                  r.extrema.source, r.extrema.method)
<1> DEFINE candles == Responses!MapCandles(r.series)
           source == r.extrema.source
           method == r.extrema.method
           q == Responses!MapPoint(p, candles, source)
<1>1. /\ p.kind \in {"HIGH", "LOW"} /\ p.index \in DOMAIN r.series
      /\ p.confirmation \in DOMAIN r.series /\ p.index <= p.confirmation
      /\ "reversal" \in DOMAIN p <=> method # "local"
      /\ method = "atr" => "atr" \in DOMAIN p.reversal
  BY DEF Detected!Shown, Detected!FromCandle
<1>2. /\ DOMAIN candles = DOMAIN r.series
      /\ \A k \in DOMAIN candles : candles[k].openTime = k /\ candles[k].closeTime = k + 1
  BY DEF Responses!MapCandles, Responses!MapCandle, Responses!OpenTime, Responses!CloseTime
<1>3. source \in {"CLOSE", "HIGH_LOW"} /\ method \in {"local", "percent", "atr"}
  BY SoundRequest DEF Detected!SoundSettings
<1> HIDE DEF candles, source, method
<1>4. /\ q.kind = p.kind /\ q.index = p.index /\ q.time = p.index
      /\ q.price = Responses!SourcePrice(candles[p.index], source, p.kind)
      /\ q.confirmation = p.confirmation /\ q.confirmationTime = p.confirmation + 1
      /\ "reversal" \notin DOMAIN p => q.reversal = Responses!None
      /\ "reversal" \in DOMAIN p => q.reversal =
           [threshold         |-> Responses!Formatted(p.reversal.threshold),
            confirmationPrice |->
              Responses!ConfirmationPrice(candles[p.confirmation], source, p.kind),
            candidateATR      |-> IF "atr" \in DOMAIN p.reversal
                                    THEN Responses!Formatted(p.reversal.atr)
                                    ELSE Responses!None]
  BY DEF Responses!MapPoint, Responses!OpenTime, Responses!CloseTime
<1> HIDE DEF q
<1>5. \A a, b, c : [threshold |-> a, confirmationPrice |-> b, candidateATR |-> c] # Responses!None
  BY DEF Responses!None
<1>6. \A a : Responses!Formatted(a) # Responses!None
  BY DEF Responses!Formatted, Responses!None
<1>7. method = "local" <=> q.reversal = Responses!None
  <2>1. CASE "reversal" \in DOMAIN p
    <3>1. q.reversal # Responses!None
      BY <1>4, <1>5, <2>1
    <3> QED
      BY <1>1, <2>1, <3>1
  <2>2. CASE "reversal" \notin DOMAIN p
    BY <1>1, <1>4, <2>2
  <2> QED
    BY <2>1, <2>2
<1>8. ASSUME q.reversal # Responses!None
      PROVE  /\ method = "atr" => q.reversal.candidateATR # Responses!None
             /\ q.reversal.confirmationPrice =
                  IF source # "HIGH_LOW" THEN candles[p.confirmation].close
                  ELSE IF q.kind = "HIGH" THEN candles[p.confirmation].low
                       ELSE candles[p.confirmation].high
  <2>1. "reversal" \in DOMAIN p
    BY <1>4, <1>8
  <2>2. /\ q.reversal.confirmationPrice =
             Responses!ConfirmationPrice(candles[p.confirmation], source, p.kind)
        /\ "atr" \in DOMAIN p.reversal =>
             q.reversal.candidateATR = Responses!Formatted(p.reversal.atr)
    BY <1>4, <2>1
  <2>3. method = "atr" => q.reversal.candidateATR # Responses!None
    BY <1>1, <1>6, <2>2
  <2>4. source # "HIGH_LOW" <=> source = "CLOSE"
    BY <1>3
  <2> QED
    BY <1>4, <2>2, <2>3, <2>4 DEF Responses!ConfirmationPrice
<1>9. Responses!ValidReversal(q, candles[q.confirmation], source, method)
  BY <1>4, <1>7, <1>8 DEF Responses!ValidReversal
<1>10. q.price = IF source # "HIGH_LOW" THEN candles[q.index].close
                 ELSE IF q.kind = "HIGH" THEN candles[q.index].high ELSE candles[q.index].low
  <2>1. source # "HIGH_LOW" <=> source = "CLOSE"
    BY <1>3
  <2> QED
    BY <1>4, <2>1 DEF Responses!SourcePrice
<1>11. q.confirmation >= q.index /\ q.kind \in Responses!Kinds
  <2>1. p.confirmation \in Nat /\ p.index \in Nat
    BY <1>1, SoundRequest
  <2> QED
    BY <1>1, <1>4, <2>1 DEF Responses!Kinds
<1>12. /\ q.index \in DOMAIN candles /\ q.confirmation \in DOMAIN candles
       /\ q.time = candles[q.index].openTime
       /\ q.confirmationTime = candles[q.confirmation].closeTime
  BY <1>1, <1>2, <1>4
<1>13. Responses!ValidPoint(q, candles, source, method)
  BY <1>9, <1>10, <1>11, <1>12 DEF Responses!ValidPoint
<1> QED
  BY <1>13 DEF q, candles, source, method

(* No price has more digits than a quotient keeps.                         *)
PricesFit ==
  \A r \in Requests : \A k \in DOMAIN r.series : r.series[k].high < PowerOfTen[DivisionDigits]

LEMMA ZoneIsValid ==
  ASSUME NEW r \in Requests, NEW ps, SoundPoints(r, ps), NEW w \in Nat, NEW z,
         GoodZone(r, ps, w, z), z.upper < PowerOfTen[DivisionDigits], NEW extrema,
         Len(extrema) = Len(ps)
  PROVE  Responses!ValidZone(Responses!MapZone(z), Responses!MapCandles(r.series),
                             extrema, r.minTouches)
<1> DEFINE candles == Responses!MapCandles(r.series)
           q == Responses!MapZone(z)
           C == Touching(ps, z.lower, w)
           D == DOMAIN ps
<1>1. /\ z.lower \in Nat /\ z.upper \in Nat /\ z.lower <= z.upper
      /\ z.role = RoleOf(r, z.lower, z.upper)
      /\ z.representative = Divide(z.lower + z.upper, 2)
      /\ z.extrema \in Seq(D)
      /\ z.touches \in Seq(C) /\ Len(z.touches) \in Nat \ {0} /\ Len(z.touches) >= r.minTouches
  BY DEF GoodZone
<1>2. /\ DOMAIN candles = DOMAIN r.series
      /\ \A k \in DOMAIN candles : candles[k].openTime = k
  BY DEF Responses!MapCandles, Responses!MapCandle, Responses!OpenTime
<1>3. C \subseteq DOMAIN r.series
  BY PointFacts DEF Touching, Near
<1>4. D = 1 .. Len(ps) /\ Len(ps) \in Nat
  BY DEF SoundPoints
<1> HIDE DEF candles, C, D
<1>5. /\ q.lower = [value |-> FormatNumber(z.lower), spelling |-> -1]
      /\ q.upper = [value |-> FormatNumber(z.upper), spelling |-> -1]
      /\ q.representative = [value |-> FormatNumber(z.representative), spelling |-> -1]
      /\ q.role = z.role
      /\ q.extrema = [k \in DOMAIN z.extrema |-> z.extrema[k] - 1]
      /\ q.touches = z.touches /\ q.count = Len(z.touches)
      /\ q.firstTouch = z.touches[1] /\ q.lastTouch = z.touches[Len(z.touches)]
  BY SameFormat DEF Responses!MapZone, Responses!OpenTime
<1> HIDE DEF q
<1>6. /\ q.lower.value = FormatNumber(z.lower) /\ q.upper.value = FormatNumber(z.upper)
      /\ q.representative.value = FormatNumber(z.representative)
  BY <1>5
<1>7. /\ z.lower <= z.representative /\ z.representative <= z.upper /\ z.representative \in Nat
  <2>1. z.lower <= Divide(z.lower + z.upper, 2) /\ Divide(z.lower + z.upper, 2) <= z.upper
    BY <1>1, MidpointStaysBetween
  <2>2. Divide(z.lower + z.upper, 2) \in Nat
    <3>1. z.lower + z.upper \in Nat /\ 2 \in Nat \ {0}
      BY <1>1
    <3> QED
      BY <3>1, QuotientsAreNatural
  <2> QED
    BY <1>1, <2>1, <2>2
<1>8. /\ FormatNumber(z.lower) <= FormatNumber(z.upper)
      /\ FormatNumber(z.lower) <= FormatNumber(z.representative)
      /\ FormatNumber(z.representative) <= FormatNumber(z.upper)
  BY <1>1, <1>7, FormattingKeepsOrder
<1>9. \A a \in Nat : FormatNumber(a) \in Nat
  <2> SUFFICES ASSUME NEW a \in Nat PROVE FormatNumber(a) \in Nat
    OBVIOUS
  <2>1. LastDigit(a, OutputDigits) \in Nat \ {0}
    BY LastDigitIsPositive, OutputDigitsAssumption
  <2> QED
    BY <2>1, QuotientIsNatural DEF FormatNumber
<1>10. z.role \in Responses!Roles
  BY <1>1 DEF RoleOf, Responses!Roles
<1>11. \A k \in DOMAIN q.extrema : q.extrema[k] \in 0 .. Len(extrema) - 1
  <2>1. DOMAIN q.extrema = DOMAIN z.extrema
    BY <1>5
  <2>2. \A k \in DOMAIN z.extrema : z.extrema[k] \in D
    BY <1>1
  <2>3. \A k \in DOMAIN z.extrema : q.extrema[k] = z.extrema[k] - 1
    BY <1>5
  <2> QED
    BY <1>4, <2>1, <2>2, <2>3
<1>12. \A k \in 1 .. Len(z.touches) : z.touches[k] \in DOMAIN candles
  BY <1>1, <1>2, <1>3
<1>13. DOMAIN q.touches = 1 .. Len(z.touches)
  BY <1>1, <1>5
<1>14. /\ q.firstTouch = candles[q.touches[1]].openTime
       /\ q.lastTouch = candles[q.touches[q.count]].openTime
  <2>1. 1 \in 1 .. Len(z.touches) /\ Len(z.touches) \in 1 .. Len(z.touches)
    BY <1>1
  <2> QED
    BY <1>2, <1>5, <1>12, <2>1
<1>15. /\ q.representative.value >= q.lower.value /\ q.representative.value <= q.upper.value
       /\ q.lower.value <= q.upper.value
  BY <1>1, <1>6, <1>7, <1>8, <1>9
<1>16. Responses!ValidZone(q, candles, extrema, r.minTouches)
  BY <1>1, <1>5, <1>10, <1>11, <1>12, <1>13, <1>14, <1>15 DEF Responses!ValidZone
<1> QED
  BY <1>16 DEF q, candles

LEMMA PricesOfPointsFit ==
  ASSUME PricesFit, NEW r \in Requests, NEW ps, SoundPoints(r, ps), NEW k \in DOMAIN ps
  PROVE  ps[k].price < PowerOfTen[DivisionDigits]
<1> DEFINE i == ps[k].index
           candle == r.series[i]
<1>1. Detected!FromCandle(r.series, r.extrema.source, ps[k])
  BY DEF SoundPoints, Detected!Shown
<1>2. /\ i \in DOMAIN r.series
      /\ ps[k].price = IF ps[k].kind = "HIGH"
                         THEN Detected!HighPrice(candle, r.extrema.source)
                         ELSE Detected!LowPrice(candle, r.extrema.source)
  BY <1>1 DEF Detected!FromCandle
<1>3. /\ candle.high \in Nat /\ candle.low \in Nat /\ candle.close \in Nat
      /\ candle.low <= candle.close /\ candle.close <= candle.high
  <2>1. Detected!SoundSeries(r.series)
    BY SoundRequest
  <2> QED
    BY <1>2, <2>1 DEF Detected!SoundSeries
<1>4. candle.high < PowerOfTen[DivisionDigits] /\ PowerOfTen[DivisionDigits] \in Nat
  BY <1>2, PowersGrow, DivisionDigitsAssumption DEF PricesFit
<1> HIDE DEF candle, i
<1>5. ps[k].price \in {candle.high, candle.low, candle.close}
  BY <1>2 DEF Detected!HighPrice, Detected!LowPrice
<1>6. ps[k].price <= candle.high /\ ps[k].price \in Nat
  BY <1>3, <1>5
<1> QED
  BY <1>3, <1>4, <1>6

LEMMA DoneIsValid == PricesFit /\ IInv => ResponsePassesChecks
<1> SUFFICES ASSUME PricesFit, IInv, phase = "done" PROVE ResponsePassesChecks
  BY DEF ResponsePassesChecks
<1> DEFINE candles == Responses!MapCandles(request.series)
           source == request.extrema.source
           method == request.extrema.method
           extrema == Responses!MapExtrema(points, candles, source)
           shown == [k \in DOMAIN zones |-> Responses!MapZone(zones[k])]
           view == LevelsView
<1>1. /\ request \in Requests /\ width \in Nat /\ SoundPoints(request, points)
      /\ Grouped(request, points, order, start, width, zones)
      /\ points = Detection!DetectExtrema(request.series, request.extrema, ATRSequence)
      /\ start = Len(order) + 1 /\ order \in Seq(DOMAIN points) /\ Len(order) \in Nat
  BY DEF IInv
<1>2. /\ view.candles = candles /\ view.extrema = extrema /\ view.zones = shown
      /\ view.source = source /\ view.method = method
      /\ view.minTouches = request.minTouches
  BY DEF LevelsView
<1> HIDE DEF view
<1>3. DOMAIN candles = DOMAIN request.series
      /\ \A k \in DOMAIN candles : Responses!ValidCandle(candles, k)
  BY <1>1, CandlesAreValid
<1>4. \A k \in DOMAIN points : Detected!Shown(request.series, request.extrema, points[k])
  BY <1>1 DEF SoundPoints
<1> HIDE DEF candles
<1>5. Responses!Mappable(points, candles)
  BY <1>3, <1>4 DEF Responses!Mappable, Responses!Kinds, Detected!Shown, Detected!FromCandle
<1>6. /\ DOMAIN extrema = DOMAIN points /\ Len(extrema) = Len(points)
      /\ \A k \in DOMAIN points : extrema[k] = Responses!MapPoint(points[k], candles, source)
  <2>1. /\ DOMAIN extrema = DOMAIN points
        /\ \A k \in DOMAIN points : extrema[k] = Responses!MapPoint(points[k], candles, source)
    BY DEF Responses!MapExtrema
  <2>2. DOMAIN points = 1 .. Len(points) /\ Len(points) \in Nat
    BY <1>1 DEF SoundPoints
  <2>3. Len(extrema) = Len(points)
    <3>1. extrema = [k \in 1 .. Len(points) |-> Responses!MapPoint(points[k], candles, source)]
      BY <2>2 DEF Responses!MapExtrema
    <3> QED
      BY <2>2, <3>1
  <2> QED
    BY <2>1, <2>3
<1> HIDE DEF extrema
<1>7. ASSUME NEW k \in DOMAIN extrema
      PROVE  Responses!ValidPoint(extrema[k], candles, source, method)
  <2>1. Detected!Shown(request.series, request.extrema, points[k])
    BY <1>4, <1>6
  <2>2. Responses!ValidPoint(Responses!MapPoint(points[k], candles, source), candles,
                             source, method)
    BY <1>1, <2>1, PointIsValid DEF candles
  <2> QED
    BY <1>6, <2>2
<1>8. ASSUME NEW k \in DOMAIN shown
      PROVE  Responses!ValidZone(shown[k], candles, extrema, request.minTouches)
  <2>1. k \in 1 .. Len(zones)
    BY <1>1 DEF Grouped
  <2>2. GoodZone(request, points, width, zones[k])
    BY <1>1, <2>1 DEF Grouped
  <2>3. zones[k].upper < PowerOfTen[DivisionDigits]
    <3>1. PICK j \in 1 .. start - 1 : zones[k].upper = points[order[j]].price
      BY <1>1, <2>1 DEF Grouped
    <3> DEFINE D == DOMAIN points
    <3>2. order \in Seq(D) /\ j \in 1 .. Len(order)
      BY <1>1
    <3> HIDE DEF D
    <3>3. order[j] \in D
      BY <3>2
    <3> QED
      BY <1>1, <3>1, <3>3, PricesOfPointsFit DEF D
  <2>4. Responses!ValidZone(Responses!MapZone(zones[k]), candles, extrema, request.minTouches)
    BY <1>1, <1>6, <2>2, <2>3, ZoneIsValid DEF candles
  <2> QED
    BY <2>4
<1>9. Responses!ValidResult(view)
  <2> HIDE DEF shown, source, method
  <2> QED
    BY <1>2, <1>3, <1>7, <1>8 DEF Responses!ValidResult
(* The sequence that the zones' ATR left behind changes no point.          *)
<1>10. points = Detection!DetectExtrema(request.series, request.extrema, Detection!NoSequence)
  <2>1. Detected!SoundSettings(request.extrema)
    BY <1>1, SoundRequest
  <2>2. Detected!DetectExtrema(request.series, request.extrema,
                               Detected!SequenceOf(request.series, request.atrPeriod))
          = Detected!DetectExtrema(request.series, request.extrema, Detected!NoSequence)
    BY <2>1, Detected!SequenceAtHand
  <2>3. ATRSequence = Detected!SequenceOf(request.series, request.atrPeriod)
    BY SameSequence DEF ATRSequence
  <2>4. Detection!NoSequence = Detected!NoSequence
    BY SameAssumptions
  <2> QED
    BY <1>1, <2>2, <2>3, <2>4, SameDetection
<1> QED
  BY <1>2, <1>5, <1>9, <1>10 DEF ResponsePassesChecks, view

(* A response passes the release checks, as long as no price is longer     *)
(* than a quotient.                                                        *)
THEOREM ResponsesPass == PricesFit => (Spec => []ResponsePassesChecks)
<1>1. PricesFit => (IInv => ResponsePassesChecks)
  BY DoneIsValid
<1>2. ASSUME PricesFit PROVE Spec => []ResponsePassesChecks
  BY <1>1, <1>2, Invariance, PTL
<1> QED
  BY <1>2

LEMMA RepresentativeIsBetween == PricesFit /\ IInv => RepresentativeWithinBounds
<1> SUFFICES ASSUME PricesFit, IInv, NEW k \in DOMAIN zones
             PROVE  /\ FormatNumber(zones[k].lower) <= FormatNumber(zones[k].representative)
                    /\ FormatNumber(zones[k].representative) <= FormatNumber(zones[k].upper)
  BY DEF RepresentativeWithinBounds
<1> DEFINE l == zones[k].lower
           u == zones[k].upper
           m == zones[k].representative
           D == DOMAIN points
<1>1. /\ request \in Requests /\ SoundPoints(request, points)
      /\ order \in Seq(D) /\ Len(order) \in Nat /\ start \in 1 .. Len(order) + 1
      /\ k \in 1 .. Len(zones)
  BY DEF IInv, Grouped
<1>2. l \in Nat /\ u \in Nat /\ l <= u /\ m = Divide(l + u, 2)
  BY <1>1 DEF IInv, Grouped, GoodZone
<1>3. PICK j \in 1 .. start - 1 : u = points[order[j]].price
  BY <1>1 DEF IInv, Grouped
<1>4. u < PowerOfTen[DivisionDigits]
  <2> HIDE DEF D, u
  <2>1. order[j] \in D
    BY <1>1
  <2> QED
    BY <1>1, <1>3, <2>1, PricesOfPointsFit DEF D
<1> HIDE DEF l, u, m
<1>5. l <= Divide(l + u, 2) /\ Divide(l + u, 2) <= u
  BY <1>2, <1>4, MidpointStaysBetween
<1>6. m \in Nat
  <2>1. l + u \in Nat /\ 2 \in Nat \ {0}
    BY <1>2
  <2> QED
    BY <1>2, <2>1, QuotientsAreNatural
<1>7. FormatNumber(l) <= FormatNumber(m) /\ FormatNumber(m) <= FormatNumber(u)
  BY <1>2, <1>5, <1>6, FormattingKeepsOrder
<1> QED
  BY <1>7 DEF l, u, m

(* Nor is a representative price ever outside its zone, as stated in the   *)
(* response: the run zones_rounding needs prices longer than a quotient.   *)
THEOREM RepresentativeStaysWithin == PricesFit => (Spec => []RepresentativeWithinBounds)
<1>1. PricesFit => (IInv => RepresentativeWithinBounds)
  BY RepresentativeIsBetween
<1>2. ASSUME PricesFit PROVE Spec => []RepresentativeWithinBounds
  BY <1>1, <1>2, Invariance, PTL
<1> QED
  BY <1>2
=============================================================================
