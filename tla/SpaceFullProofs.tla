----------------------------- MODULE SpaceFullProofs -----------------------------
(***************************************************************************)
(* What holds of SpaceFull for mount points of every size: the conversions *)
(* of the size, and what the blocks of the files amount to.                *)
(***************************************************************************)
EXTENDS SpaceFull, TLAPS, FiniteSetTheorems

\* Division rounded up: the least number of b's that is not less than a.
LEMMA CeilDivBounds ==
  ASSUME NEW a \in Nat, NEW b \in Nat, b > 0
  PROVE  /\ CeilDiv(a, b) \in Nat
         /\ a <= CeilDiv(a, b) * b /\ CeilDiv(a, b) * b < a + b
<1>1. ASSUME NEW x \in Nat
      PROVE  x \div b \in Nat /\ (x \div b) * b <= x /\ x < (x \div b) * b + b
  OBVIOUS
<1>2. a + b - 1 \in Nat
  OBVIOUS
<1> QED
  BY <1>1, <1>2 DEF CeilDiv

\* It does not fall when a grows.
LEMMA CeilDivGrows ==
  ASSUME NEW a \in Nat, NEW c \in Nat, NEW b \in Nat, b > 0, a <= c
  PROVE  CeilDiv(a, b) <= CeilDiv(c, b)
<1>1. CeilDiv(a, b) \in Nat /\ CeilDiv(c, b) \in Nat
  BY CeilDivBounds
<1>2. CeilDiv(a, b) * b < a + b /\ c <= CeilDiv(c, b) * b
  BY CeilDivBounds, Zenon
<1> DEFINE x == CeilDiv(a, b)
           y == CeilDiv(c, b)
<1>3. x \in Nat /\ y \in Nat /\ x * b < a + b /\ c <= y * b
  BY <1>1, <1>2
<1> HIDE DEF x, y
<1>4. x < y + 1
  <2>1. ASSUME NEW n \in Nat PROVE (y + 1 + n) * b = y * b + b + n * b /\ n * b \in Nat
    BY <1>3
  <2>2. CASE x >= y + 1
    <3>1. x - (y + 1) \in Nat /\ x = y + 1 + (x - (y + 1))
      BY <1>3, <2>2
    <3>2. x * b >= y * b + b
      BY <1>3, <2>1, <3>1
    <3> QED
      BY <1>3, <3>2
  <2> QED
    BY <1>3, <2>2
<1> QED
  BY <1>3, <1>4 DEF x, y
--------------------------------------------------------------------------------
(***************************************************************************)
(* The size of the mount point as df prints it.                            *)
(***************************************************************************)
\* Each unit is Kb of the one before.
LEMMA UnitSizes ==
  /\ \A u \in 1 .. 5 : InUnit[u] \in Nat /\ InUnit[u] > 0
  /\ \A u \in 2 .. 5 : InUnit[u] = Kb * InUnit[u - 1]
<1>1. /\ InUnit[1] = 1 /\ InUnit[2] = Kb /\ InUnit[3] = Kb * Kb
      /\ InUnit[4] = Kb * Kb * Kb /\ InUnit[5] = Kb * Kb * Kb * Kb
  BY DEF InUnit
<1>2. Kb \in Nat /\ Kb > 0
  BY SpaceAssumption
<1>3. Kb * Kb \in Nat /\ Kb * Kb > 0
  BY <1>2
<1>4. Kb * Kb * Kb \in Nat /\ Kb * Kb * Kb > 0
  BY <1>2, <1>3
<1>5. Kb * Kb * Kb * Kb \in Nat /\ Kb * Kb * Kb * Kb > 0
  BY <1>2, <1>4
<1>6. \A u \in 1 .. 5 : u = 1 \/ u = 2 \/ u = 3 \/ u = 4 \/ u = 5
  OBVIOUS
<1>7. \A u \in 1 .. 5 : InUnit[u] \in Nat /\ InUnit[u] > 0
  BY <1>1, <1>2, <1>3, <1>4, <1>5, <1>6
<1>8. \A u \in 2 .. 5 : InUnit[u] = Kb * InUnit[u - 1]
  <2>1. Kb * Kb * Kb = Kb * (Kb * Kb) /\ Kb * Kb * Kb * Kb = Kb * (Kb * Kb * Kb)
    BY <1>2
  <2>2. \A u \in 2 .. 5 : u = 2 \/ u = 3 \/ u = 4 \/ u = 5
    OBVIOUS
  <2> QED
    BY <1>1, <1>2, <2>1, <2>2
<1> QED
  BY <1>7, <1>8

\* What df prints is at least the size.  Above ten of the unit it is less than
\* one unit too much, below ten less than a tenth.
LEMMA TenthsBounds ==
  ASSUME NEW k \in Nat, NEW u \in 1 .. 5
  PROVE  /\ Tenths(k, u) \in Nat
         /\ 10 * k <= Tenths(k, u) * InUnit[u]
         /\ IF Tenths(k, u) <= 100 THEN Tenths(k, u) * InUnit[u] < 10 * k + InUnit[u]
            ELSE /\ Tenths(k, u) * InUnit[u] < 10 * k + 10 * InUnit[u]
                 /\ 10 * InUnit[u] < k
<1> DEFINE U == InUnit[u]
           t == CeilDiv(10 * k, U)
           c == CeilDiv(k, U)
<1>1. 10 * k \in Nat /\ U \in Nat /\ U > 0
  BY UnitSizes
<1>2. t \in Nat /\ 10 * k <= t * U /\ t * U < 10 * k + U
  BY <1>1, CeilDivBounds, Zenon
<1>3. c \in Nat /\ k <= c * U /\ c * U < k + U
  BY <1>1, CeilDivBounds, Zenon
<1>4. Tenths(k, u) = IF t <= 100 THEN t ELSE 10 * c
  BY DEF Tenths
<1> HIDE DEF U, t, c
<1>5. CASE t <= 100
  BY <1>2, <1>4, <1>5 DEF U
<1>6. CASE ~(t <= 100)
  <2>1. t * U >= 101 * U
    BY <1>1, <1>2, <1>6
  <2>2. 100 * U < 10 * k
    BY <1>1, <1>2, <2>1
  <2>3. c * U > 10 * U
    BY <1>1, <1>3, <2>2
  <2>4. c > 10
    BY <1>1, <1>3, <2>3
  <2>5. 10 * c > 100 /\ (10 * c) * U = 10 * (c * U)
    BY <1>1, <1>3, <2>4
  <2> QED
    BY <1>1, <1>3, <1>4, <1>6, <2>2, <2>5 DEF U
<1> QED
  BY <1>2, <1>5, <1>6

\* A unit other than the first is used only for a size that fills it but for
\* one of the unit before.
LEMMA UnitFilled ==
  ASSUME NEW k \in Nat, NEW u \in 2 .. 5, Tenths(k, u - 1) >= 10 * Kb
  PROVE  InUnit[u] - InUnit[u - 1] < k
<1> DEFINE V == InUnit[u - 1]
           t == Tenths(k, u - 1)
<1>1. u - 1 \in 1 .. 5
  OBVIOUS
<1>2. V \in Nat /\ V > 0 /\ InUnit[u] = Kb * V
  BY <1>1, UnitSizes
<1>3. t \in Nat /\ ~(t <= 100) /\ Kb \in Nat
  <2>1. t \in Nat
    BY <1>1, TenthsBounds, Zenon
  <2> HIDE DEF t
  <2>2. t >= 10 * Kb
    BY DEF t
  <2> QED
    BY <2>1, <2>2, SpaceAssumption
<1>4. t * V < 10 * k + 10 * V
  BY <1>1, <1>3, TenthsBounds
<1>5. (10 * Kb) * V <= t * V
  <2>1. 10 * Kb \in Nat /\ t - 10 * Kb \in Nat
    BY <1>3
  <2>2. (t - 10 * Kb) * V \in Nat /\ t * V = (10 * Kb) * V + (t - 10 * Kb) * V
    BY <1>2, <1>3, <2>1
  <2> QED
    BY <1>2, <1>3, <2>1, <2>2
<1>6. (10 * Kb) * V = 10 * (Kb * V)
  BY <1>2, <1>3
<1> HIDE DEF V, t
<1> QED
  BY <1>2, <1>3, <1>4, <1>5, <1>6 DEF V

\* What is printed in a unit is never above the size by more than a tenth.
LEMMA TenthTooMuch ==
  ASSUME NEW k \in Nat, NEW u \in 2 .. 5, Tenths(k, u - 1) >= 10 * Kb
  PROVE  Tenths(k, u) * InUnit[u] <= 11 * k
<1> DEFINE U == InUnit[u]
           V == InUnit[u - 1]
           t == Tenths(k, u)
<1>1. u \in 1 .. 5 /\ u - 1 \in 1 .. 5
  OBVIOUS
<1>2. U \in Nat /\ U > 0 /\ V \in Nat /\ V > 0 /\ U = Kb * V
  BY <1>1, UnitSizes
<1>3. t \in Nat /\ (t <= 100 => t * U < 10 * k + U)
      /\ (~(t <= 100) => t * U < 10 * k + 10 * U /\ 10 * U < k)
  BY <1>1, TenthsBounds
<1>4. U - V < k
  BY UnitFilled
<1>5. Kb * V >= 11 * V
  <2>1. Kb \in Nat /\ Kb - 11 \in Nat
    BY SpaceAssumption
  <2>2. (Kb - 11) * V \in Nat /\ Kb * V = 11 * V + (Kb - 11) * V
    BY <1>2, <2>1
  <2> QED
    BY <1>2, <2>1, <2>2
<1>6. ~(t <= 10) => t * U >= 11 * U
  BY <1>2, <1>3
<1>7. t <= 10 => t * U <= 10 * U
  BY <1>2, <1>3
<1>8. t * U \in Nat
  BY <1>2, <1>3
<1> HIDE DEF U, V, t
<1>9. CASE t <= 10
  BY <1>2, <1>4, <1>5, <1>7, <1>8, <1>9 DEF t, U
<1>10. CASE ~(t <= 10)
  BY <1>2, <1>3, <1>6, <1>8, <1>10 DEF t, U
<1> QED
  BY <1>9, <1>10

\* Some unit serves: the first in which the number is small enough, or the last.
LEMMA SomeUnit ==
  ASSUME NEW k \in Nat
  PROVE  /\ UnitOf(k) \in 1 .. 5
         /\ UnitOf(k) # 1 => Tenths(k, UnitOf(k) - 1) >= 10 * Kb
<1> DEFINE Serves(u) == u = 5 \/ Tenths(k, u) < 10 * Kb
           Foremost(u) == Serves(u) /\ \A v \in 1 .. u - 1 : Tenths(k, v) >= 10 * Kb
<1>1. \A u \in 1 .. 5 : Tenths(k, u) \in Nat
  BY TenthsBounds
<1>2. Kb \in Nat
  BY SpaceAssumption
<1>3. \E u \in 1 .. 5 : Foremost(u)
  <2>1. CASE Serves(1)
    BY <2>1
  <2>2. CASE ~Serves(1) /\ Serves(2)
    BY <1>1, <1>2, <2>2
  <2>3. CASE ~Serves(1) /\ ~Serves(2) /\ Serves(3)
    <3>1. \A v \in 1 .. 2 : v = 1 \/ v = 2
      OBVIOUS
    <3> QED
      BY <1>1, <1>2, <2>3, <3>1
  <2>4. CASE ~Serves(1) /\ ~Serves(2) /\ ~Serves(3) /\ Serves(4)
    <3>1. \A v \in 1 .. 3 : v = 1 \/ v = 2 \/ v = 3
      OBVIOUS
    <3> QED
      BY <1>1, <1>2, <2>4, <3>1
  <2>5. CASE ~Serves(1) /\ ~Serves(2) /\ ~Serves(3) /\ ~Serves(4)
    <3>1. \A v \in 1 .. 4 : v = 1 \/ v = 2 \/ v = 3 \/ v = 4
      OBVIOUS
    <3> QED
      BY <1>1, <1>2, <2>5, <3>1
  <2> QED
    BY <2>1, <2>2, <2>3, <2>4, <2>5
<1>4. UnitOf(k) = CHOOSE u \in 1 .. 5 : Foremost(u)
  BY DEF UnitOf
<1> HIDE DEF Foremost
<1>5. UnitOf(k) \in 1 .. 5 /\ Foremost(UnitOf(k))
  BY <1>3, <1>4
<1> QED
  BY <1>5 DEF Foremost

--------------------------------------------------------------------------------
(***************************************************************************)
(* The number as ParseFloat reads it and the count that comes of it.       *)
(***************************************************************************)
\* Some number of blocks that lies above a product with q is above it.
LEMMA Cancel ==
  ASSUME NEW x \in Int, NEW y \in Int, NEW q \in Nat, q > 0
  PROVE  (x * q < y * q => x < y) /\ (x * q <= y * q => x <= y)
<1>1. ASSUME x >= y PROVE x * q >= y * q
  <2>1. x - y \in Nat /\ (x - y) * q \in Nat
    BY <1>1
  <2>2. x * q = y * q + (x - y) * q
    OBVIOUS
  <2> QED
    BY <2>1, <2>2
<1>2. ASSUME x > y PROVE x * q > y * q
  <2>1. x - y - 1 \in Nat /\ (x - y - 1) * q \in Nat
    BY <1>2
  <2>2. x * q = y * q + q + (x - y - 1) * q
    OBVIOUS
  <2> QED
    BY <2>1, <2>2
<1>3. x * q \in Int /\ y * q \in Int
  OBVIOUS
<1> QED
  BY <1>1, <1>2, <1>3

\* A tenth of a, rounded to a q-th part and then up to a whole number: never more
\* than the tenth of a rounded up, and less than the tenth of a by no more than
\* rounding to a q-th can take away.
LEMMA Rounded ==
  ASSUME NEW a \in Nat, NEW q \in Nat, q > 0, NEW m \in Nat, m > 0, NEW r,
         r = (2 * (a * q) + 10) \div 20
  PROVE  /\ r \in Nat /\ CeilDiv(r * m, q * m) \in Nat
         /\ 10 * (CeilDiv(r * m, q * m) - 1) < a
         /\ 10 * (CeilDiv(r * m, q * m) * q) >= a * q - 4
<1> DEFINE w == a * q
           h == CeilDiv(a, 10)
           n == CeilDiv(r * m, q * m)
<1>1. w \in Nat
  OBVIOUS
<1>2. r \in Nat /\ 10 * r <= w + 5 /\ w + 5 < 10 * r + 10
  <2> HIDE DEF w
  <2>1. r = (2 * w + 10) \div 20
    BY DEF w
  <2> QED
    BY <1>1, <2>1
<1>3. q * m \in Nat /\ q * m > 0 /\ r * m \in Nat
  BY <1>2
<1>4. n \in Nat /\ r * m <= n * (q * m) /\ n * (q * m) < r * m + q * m
  <2> HIDE DEF n
  <2>1. /\ CeilDiv(r * m, q * m) \in Nat
        /\ r * m <= CeilDiv(r * m, q * m) * (q * m)
        /\ CeilDiv(r * m, q * m) * (q * m) < r * m + q * m
    BY <1>3, CeilDivBounds, Zenon
  <2> QED
    BY <2>1 DEF n
<1>5. h \in Nat /\ a <= h * 10 /\ h * 10 < a + 10
  <2>1. 10 \in Nat /\ 10 > 0
    OBVIOUS
  <2> QED
    BY <2>1, CeilDivBounds, Zenon
<1> HIDE DEF h, n
<1>6. r <= n * q
  <2>1. n * (q * m) = (n * q) * m /\ n * q \in Int
    BY <1>4
  <2> QED
    BY <1>2, <1>4, <2>1, Cancel
<1>7. r <= h * q
  <2>1. (10 * h - a) * q \in Nat /\ (10 * h - a) * q = 10 * (h * q) - w
    BY <1>5
  <2>2. h * q \in Nat
    BY <1>5
  <2> HIDE DEF w
  <2> QED
    BY <1>1, <1>2, <2>1, <2>2
<1>8. n < h + 1
  <2>1. (h * q - r) * m \in Nat
    BY <1>2, <1>5, <1>7
  <2>2. (h + 1) * (q * m) = r * m + (h * q - r) * m + q * m
    BY <1>2, <1>5
  <2>3. n * (q * m) < (h + 1) * (q * m)
    BY <1>3, <1>4, <2>1, <2>2
  <2> QED
    BY <1>3, <1>4, <1>5, <2>3, Cancel
<1>9. n * q \in Nat
  BY <1>4
<1> HIDE DEF w
<1>10. 10 * (n * q) >= w - 4
  BY <1>1, <1>2, <1>6, <1>9
<1> QED
  BY <1>2, <1>4, <1>5, <1>8, <1>10 DEF n, w

\* The parts of 1 / (Kb * Kb) that 32 bits leave of a number of tenths.
Parts(t) ==
  CASE t < 20 -> 8 [] t \in 20 .. 39 -> 4 [] t \in 40 .. 79 -> 2 [] OTHER -> 1

\* What dd is given, in the terms of that: a is the size in tenths of a megabyte,
\* q the parts of a megabyte that 32 bits leave.
LEMMA Megabytes ==
  ASSUME NEW k \in Nat, Readable(k)
  PROVE  /\ UnitOf(k) \in 2 .. 4
         /\ \E m, q \in Nat :
              /\ m > 0 /\ q > 0 /\ InUnit[UnitOf(k)] = m * Kb
              /\ UnitOf(k) # 4 => q >= 5
              /\ UnitOf(k) = 4 => /\ m = Kb * Kb
                                  /\ q = Parts(Printed(k))
              /\ Scale(Printed(k)) = q * m
              /\ getMountPointSize(k) = ((2 * (Printed(k) * m * q) + 10) \div 20) * m
<1> DEFINE u == UnitOf(k)
           t == Printed(k)
           c == Parts(t)
<1>1. u \in 1 .. 5 /\ t \in Nat
  BY SomeUnit, TenthsBounds DEF Printed
<1>2. Kb \in Nat /\ Kb > 10
  BY SpaceAssumption
<1>3. c \in Nat /\ c >= 1
  BY DEF Parts
<1>4. Scale(t) = c * Kb * Kb /\ ParseFloat(t) = (2 * t * Scale(t) + 10) \div 20
  BY DEF Scale, ParseFloat, Parts
<1>5. getMountPointSize(k) = transSizeToMb(t, Unit[u])
  BY DEF getMountPointSize
<1>6. getMountPointSize(k) >= 0
  BY DEF Readable
<1>7. Kb * Kb \in Nat /\ Kb * Kb > Kb
  <2>1. (Kb - 1) * Kb \in Nat /\ Kb * Kb = Kb + (Kb - 1) * Kb
    BY <1>2
  <2>2. (Kb - 2) * Kb \in Nat /\ (Kb - 1) * Kb = Kb + (Kb - 2) * Kb
    BY <1>2
  <2> QED
    BY <1>2, <2>1, <2>2
<1>8. c = Parts(Printed(k))
  OBVIOUS
<1> HIDE DEF u, t, c
<1>9. CASE u = 1 \/ u = 5
  <2>1. Unit[u] = "K" \/ Unit[u] = "P"
    BY <1>9 DEF Unit
  <2>2. transSizeToMb(t, Unit[u]) = -1
    BY <2>1 DEF transSizeToMb
  <2> QED
    BY <1>5, <1>6, <2>2
<1>10. CASE u = 2
  <2> DEFINE m == 1
             q == c * Kb * Kb
  <2>1. getMountPointSize(k) = ParseFloat(t) /\ InUnit[u] = m * Kb
    BY <1>2, <1>5, <1>10 DEF Unit, InUnit, transSizeToMb
  <2>2. q \in Nat /\ q >= 5 /\ Scale(t) = q * m
    <3>1. q = c * (Kb * Kb) /\ (c - 1) * (Kb * Kb) \in Nat
          /\ c * (Kb * Kb) = Kb * Kb + (c - 1) * (Kb * Kb)
      BY <1>2, <1>3
    <3> QED
      BY <1>2, <1>3, <1>4, <1>7, <3>1
  <2> HIDE DEF q
  <2>3. 2 * t * Scale(t) = 2 * (t * m * q)
    BY <1>1, <2>2
  <2>4. getMountPointSize(k) = ((2 * (t * m * q) + 10) \div 20) * m
    <3>1. t * m * q \in Nat
      BY <1>1, <2>2
    <3>2. ((2 * (t * m * q) + 10) \div 20) \in Nat
      BY <3>1
    <3> QED
      BY <1>4, <2>1, <2>3, <3>2
  <2>5. m \in Nat /\ m > 0
    OBVIOUS
  <2> HIDE DEF m
  <2> QED
    BY <1>1, <1>10, <2>1, <2>2, <2>4, <2>5 DEF u, t
<1>11. CASE u = 3
  <2> DEFINE q == c * Kb
  <2>1. getMountPointSize(k) = ParseFloat(t) * Kb /\ InUnit[u] = Kb * Kb
    BY <1>2, <1>5, <1>11 DEF Unit, InUnit, transSizeToMb
  <2>2. q \in Nat /\ q >= 5 /\ Scale(t) = q * Kb
    <3>1. (c - 1) * Kb \in Nat /\ c * Kb = Kb + (c - 1) * Kb
      BY <1>2, <1>3
    <3> QED
      BY <1>2, <1>3, <1>4, <3>1
  <2> HIDE DEF q
  <2>3. 2 * t * Scale(t) = 2 * (t * Kb * q)
    BY <1>1, <1>2, <2>2
  <2> QED
    BY <1>1, <1>2, <1>4, <1>11, <2>1, <2>2, <2>3 DEF u, t
<1>12. CASE u = 4
  <2> DEFINE m == Kb * Kb
  <2>1. getMountPointSize(k) = ParseFloat(t) * Kb * Kb /\ InUnit[u] = m * Kb
    BY <1>2, <1>5, <1>12 DEF Unit, InUnit, transSizeToMb
  <2>2. m \in Nat /\ m > 0 /\ Scale(t) = c * m
    BY <1>2, <1>3, <1>4, <1>7
  <2>3. 2 * t * Scale(t) = 2 * (t * m * c)
    <3> HIDE DEF m
    <3> QED
      BY <1>1, <1>3, <2>2
  <2>4. ParseFloat(t) \in Nat
    <3>1. 2 * t * Scale(t) \in Nat
      BY <1>1, <1>3, <2>2
    <3> QED
      BY <1>4, <3>1
  <2>5. ParseFloat(t) * Kb * Kb = ParseFloat(t) * m
    BY <1>2, <2>4
  <2>6. getMountPointSize(k) = ((2 * (t * m * c) + 10) \div 20) * m
    BY <1>4, <2>1, <2>3, <2>5
  <2> QED
    BY <1>3, <1>8, <1>12, <2>1, <2>2, <2>6 DEF u, t
<1> QED
  BY <1>1, <1>9, <1>10, <1>11, <1>12 DEF u

\* What df prints without a tenth: ten of the unit and more.
LEMMA WholeAboveTen ==
  ASSUME NEW k \in Nat, NEW u \in 1 .. 5, Tenths(k, u) >= 100
  PROVE  \E b \in Nat : Tenths(k, u) = 10 * b
<1> DEFINE t == CeilDiv(10 * k, InUnit[u])
           b == CeilDiv(k, InUnit[u])
<1>1. t \in Nat /\ b \in Nat
  <2>1. 10 * k \in Nat /\ InUnit[u] \in Nat /\ InUnit[u] > 0
    BY UnitSizes
  <2> QED
    BY <2>1, CeilDivBounds, Zenon
<1>2. Tenths(k, u) = IF t <= 100 THEN t ELSE 10 * b
  BY DEF Tenths
<1> HIDE DEF t, b
<1> QED
  BY <1>1, <1>2

\* The count that dd is given: enough for a mount point of any size whose unit is
\* known, but for less than half a block between 4T and 10T, and never more than a
\* tenth and a block too much.
LEMMA EnoughAlways ==
  ASSUME NEW k \in Nat
  PROVE  EnoughFor(k) /\ (Readable(k) => CountOf(k) \in Nat \ {0})
<1> SUFFICES ASSUME Readable(k)
             PROVE  /\ CountOf(k) * Kb >= k \/ (Coarse(k) /\ 2 * (k - CountOf(k) * Kb) < Kb)
                    /\ 10 * (CountOf(k) - 1) * Kb < 11 * k
                    /\ CountOf(k) \in Nat \ {0}
  BY DEF EnoughFor
<1> DEFINE u == UnitOf(k)
           t == Printed(k)
           n == CountOf(k)
<1>1. u \in 2 .. 4 /\ u \in 1 .. 5 /\ u - 1 \in 1 .. 5 /\ u \in 2 .. 5
      /\ Tenths(k, u - 1) >= 10 * Kb
  BY Megabytes, SomeUnit
<1>2. PICK m \in Nat, q \in Nat :
        /\ m > 0 /\ q > 0 /\ InUnit[u] = m * Kb
        /\ u # 4 => q >= 5
        /\ u = 4 => m = Kb * Kb /\ q = Parts(t)
        /\ Scale(t) = q * m
        /\ getMountPointSize(k) = ((2 * (t * m * q) + 10) \div 20) * m
  BY Megabytes
<1> DEFINE a == t * m
           r == (2 * (a * q) + 10) \div 20
<1>3. /\ t \in Nat /\ 10 * k <= t * InUnit[u] /\ t * InUnit[u] <= 11 * k
      /\ Kb \in Nat /\ Kb > 10 /\ Kb % 2 = 0
  BY <1>1, TenthsBounds, TenthTooMuch, SpaceAssumption DEF Printed
<1>4. a \in Nat /\ 10 * k <= a * Kb /\ a * Kb <= 11 * k
  <2>1. \A x, y, z \in Nat : x * (y * z) = (x * y) * z
    OBVIOUS
  <2> HIDE DEF t
  <2>2. t * (m * Kb) = a * Kb
    BY <1>2, <1>3, <2>1
  <2> QED
    BY <1>2, <1>3, <2>2
<1>5. n \in Nat /\ 10 * (n - 1) < a /\ 10 * (n * q) >= a * q - 4
  <2>1. n = CeilDiv(r * m, q * m)
    BY <1>2 DEF CountOf
  <2> HIDE DEF a, n
  <2> QED
    BY <1>2, <1>4, <2>1, Rounded
<1>6. t >= 100 => \E b \in Nat : t = 10 * b
  BY <1>1, WholeAboveTen DEF Printed
<1>7. Coarse(k) <=> u = 4 /\ 40 < t /\ t < 100
  <2>1. u = 2 \/ u = 3 \/ u = 4
    BY <1>1
  <2> HIDE DEF u
  <2>2. Unit[u] = "T" <=> u = 4
    BY <2>1 DEF Unit
  <2> QED
    BY <2>2 DEF Coarse, u
<1> HIDE DEF u, t, n
<1>8. ~Coarse(k) => 10 * n >= a
  <2> SUFFICES ASSUME ~Coarse(k) PROVE 10 * n >= a
    OBVIOUS
  <2>1. (10 * n) * q = 10 * (n * q) /\ (a - 1) * q = a * q - q
    BY <1>2, <1>4, <1>5
  <2>2. CASE q >= 5
    <3>1. (a - 1) * q < (10 * n) * q
      BY <1>2, <1>4, <1>5, <2>1, <2>2
    <3>2. a - 1 < 10 * n
      BY <1>2, <1>4, <1>5, <3>1, Cancel
    <3> QED
      BY <1>4, <1>5, <3>2
  <2>3. CASE u = 4 /\ q = 4
    <3>1. (a - 1) * q <= (10 * n) * q
      BY <1>2, <1>4, <1>5, <2>1, <2>3
    <3>2. a - 1 <= 10 * n
      BY <1>2, <1>4, <1>5, <3>1, Cancel
    <3>3. PICK h \in Nat : Kb = 2 * h
      BY <1>3
    <3>4. a = 2 * (t * (h * Kb)) /\ t * (h * Kb) \in Nat
      BY <1>2, <1>3, <2>3, <3>3
    <3> QED
      BY <1>5, <3>2, <3>4
  <2>4. CASE u = 4 /\ t >= 40
    <3>1. PICK b \in Nat : t = 10 * b
      <4>1. CASE t = 40
        <5>1. t = 10 * 4
          BY <4>1
        <5> QED
          BY <5>1
      <4>2. CASE t >= 100
        BY <1>6, <4>2
      <4> QED
        BY <1>3, <1>7, <2>4, <4>1, <4>2
    <3>2. a * q = 10 * ((b * m) * q) /\ (b * m) * q \in Nat /\ b * m \in Nat /\ n * q \in Nat
          /\ a = 10 * (b * m)
      BY <1>2, <1>5, <3>1
    <3> DEFINE x == (b * m) * q
               y == n * q
    <3>3. x \in Nat /\ y \in Nat /\ 10 * y >= 10 * x - 4
      BY <1>5, <3>2
    <3> HIDE DEF x, y
    <3>4. x <= y
      BY <3>3
    <3> HIDE DEF a
    <3>5. b * m <= n
      BY <1>2, <1>5, <3>2, <3>4, Cancel DEF x, y
    <3> QED
      BY <1>5, <3>2, <3>5
  <2>5. u # 4 \/ t >= 40 \/ q = 4 \/ q = 8
    BY <1>2, <1>3 DEF Parts
  <2> QED
    BY <1>2, <2>2, <2>3, <2>4, <2>5
<1>9. Coarse(k) => 10 * n >= a - 4
  <2> SUFFICES ASSUME Coarse(k) PROVE 10 * n >= a - 4
    OBVIOUS
  <2>1. u = 4 /\ ~(t < 20) /\ ~(t < 40)
    BY <1>3, <1>7
  <2>2. q = 2 \/ q = 1
    BY <1>2, <1>3, <2>1 DEF Parts
  <2> HIDE DEF a
  <2>3. CASE q = 1
    BY <1>4, <1>5, <2>3
  <2>4. CASE q = 2
    BY <1>4, <1>5, <2>4
  <2> QED
    BY <2>2, <2>3, <2>4
<1> HIDE DEF a
<1>10. /\ n * Kb \in Nat /\ a * Kb \in Nat /\ 10 * (n - 1) * Kb = 10 * (n * Kb) - 10 * Kb
       /\ (10 * n - a) * Kb = 10 * (n * Kb) - a * Kb
       /\ (10 * n - a + 4) * Kb = 10 * (n * Kb) - a * Kb + 4 * Kb
       /\ (a - 1 - 10 * (n - 1)) * Kb = a * Kb - Kb - (10 * (n * Kb) - 10 * Kb)
  BY <1>3, <1>4, <1>5
<1>11. 10 * (n - 1) * Kb < 11 * k
  <2>1. a - 1 - 10 * (n - 1) \in Nat
    BY <1>4, <1>5
  <2>2. (a - 1 - 10 * (n - 1)) * Kb \in Nat
    BY <1>3, <2>1
  <2> QED
    BY <1>3, <1>4, <1>10, <2>2
<1>12. ~Coarse(k) => n * Kb >= k
  <2> SUFFICES ASSUME ~Coarse(k) PROVE n * Kb >= k
    OBVIOUS
  <2>1. 10 * n - a \in Nat
    BY <1>4, <1>5, <1>8
  <2>2. (10 * n - a) * Kb \in Nat
    BY <1>3, <2>1
  <2> QED
    BY <1>3, <1>4, <1>10, <2>2
<1>13. Coarse(k) => 2 * (k - n * Kb) < Kb
  <2> SUFFICES ASSUME Coarse(k) PROVE 2 * (k - n * Kb) < Kb
    OBVIOUS
  <2>1. 10 * n - a + 4 \in Nat
    BY <1>4, <1>5, <1>9
  <2>2. (10 * n - a + 4) * Kb \in Nat
    BY <1>3, <2>1
  <2> QED
    BY <1>3, <1>4, <1>10, <2>2
<1>14. n * Kb >= k \/ 2 * (k - n * Kb) < Kb
  BY <1>12, <1>13
<1>15. k >= Kb
  <2> DEFINE V == InUnit[u - 1]
  <2>1. V \in Nat /\ V > 0 /\ InUnit[u] = Kb * V /\ InUnit[u] - V < k
    BY <1>1, UnitSizes, UnitFilled DEF u
  <2> HIDE DEF V
  <2>2. (Kb - 1) * (V - 1) \in Nat /\ Kb * V - V = (Kb - 1) * (V - 1) + Kb - 1
    <3>1. Kb - 1 \in Nat /\ V - 1 \in Nat
      BY <1>3, <2>1
    <3> QED
      BY <1>3, <2>1, <3>1
  <2> QED
    BY <1>3, <2>1, <2>2
<1>16. n # 0
  BY <1>3, <1>10, <1>14, <1>15
<1> QED
  BY <1>5, <1>11, <1>12, <1>13, <1>16 DEF n
--------------------------------------------------------------------------------
(***************************************************************************)
(* What the blocks of the files amount to: the typing, and that the blocks *)
(* there are are finitely many, a dd that is open has a file, and an       *)
(* injection that is about to start a dd has a count.                      *)
(***************************************************************************)
Taken == UNION {{i} \X blocks[i] : i \in Inode}

Machine ==
  /\ size \in Sizes /\ mount \in {"none", "ro", "error", "rw"}
  /\ due \in [Proc -> BOOLEAN] /\ mishaps \in 0 .. MaxMishaps
Files ==
  /\ image \in Inode \cup {None} /\ blocks \in [Inode -> SUBSET Nat]
  /\ \A i \in Inode : blocks[i] # {} => i = image \/ Opened(i, Dd)
  /\ IsFiniteSet(Taken) /\ Used <= Room
Dds ==
  /\ dd \in [Dd -> DdType]
  /\ \A d \in Dd : /\ dd[d].phase # "none" => dd[d].count > 0
                   /\ dd[d].phase = "open" => dd[d].file \in Inode
Invocations ==
  /\ pc \in [Proc -> {"idle", "check", "wait", "search", "kill", "stat", "unlink"}]
  /\ count \in [Proc -> Nat]
  /\ pids \in [Proc -> SUBSET (Dd \X BOOLEAN)] /\ mine \in [Proc -> SUBSET Dd]
  /\ hit \in [Proc -> BOOLEAN]
  /\ \A p \in Proc : pc[p] = "check" => count[p] > 0

IInv == Machine /\ Files /\ Dds /\ Invocations

LEMMA UsedIsTaken == Used = Cardinality(Taken) /\ Used' = Cardinality(Taken')
BY DEF Used, Taken

LEMMA RoomSize ==
  ASSUME size \in Sizes, size' \in Sizes, size <= size'
  PROVE  Room \in Nat /\ Room' \in Nat /\ Room <= Room'
<1>1. size \in Nat /\ size' \in Nat /\ Kb \in Nat /\ Kb > 0
  BY SpaceAssumption
<1>2. CeilDiv(size, Kb) \in Nat /\ CeilDiv(size', Kb) \in Nat
  BY <1>1, CeilDivBounds, Zenon
<1>3. CeilDiv(size, Kb) <= CeilDiv(size', Kb)
  BY <1>1, CeilDivGrows, Zenon
<1> QED
  BY <1>2, <1>3 DEF Room

\* With no more blocks in any file, and no less room, there is room enough.
LEMMA FewerBlocks ==
  ASSUME IsFiniteSet(Taken), Used <= Room, size \in Sizes, size' \in Sizes,
         size <= size', \A i \in Inode : blocks'[i] \subseteq blocks[i]
  PROVE  IsFiniteSet(Taken') /\ Used' <= Room'
<1>1. Taken' \in SUBSET Taken
  BY DEF Taken
<1>2. IsFiniteSet(Taken') /\ Cardinality(Taken') <= Cardinality(Taken)
  BY <1>1, FS_Subset
<1>3. Cardinality(Taken) \in Nat /\ Cardinality(Taken') \in Nat
  BY <1>2, FS_CardinalityType
<1> QED
  BY <1>2, <1>3, RoomSize, UsedIsTaken

\* One block more, where there is room for it or it was there before.
LEMMA OneBlock ==
  ASSUME IsFiniteSet(Taken), Used <= Room, size \in Sizes, size' = size,
         NEW i \in Inode, NEW b \in Nat, b \in blocks[i] \/ Used < Room,
         blocks \in [Inode -> SUBSET Nat],
         blocks' = [blocks EXCEPT ![i] = @ \cup {b}]
  PROVE  IsFiniteSet(Taken') /\ Used' <= Room'
<1>1. Taken' = Taken \cup {<<i, b>>}
  BY DEF Taken
<1>2. IsFiniteSet(Taken') /\ Cardinality(Taken) \in Nat
  BY <1>1, FS_AddElement, FS_CardinalityType
<1>3. Cardinality(Taken') =
        IF <<i, b>> \in Taken THEN Cardinality(Taken) ELSE Cardinality(Taken) + 1
  BY <1>1, FS_AddElement
<1>4. b \in blocks[i] => <<i, b>> \in Taken
  BY DEF Taken
<1>5. Room \in Nat /\ Room' = Room
  BY RoomSize, SpaceAssumption DEF Room
<1> QED
  BY <1>2, <1>3, <1>4, <1>5, UsedIsTaken

\* A dd that opens the image anew finds a file nobody else has open.
LEMMA FreeInode ==
  ASSUME Dds, NEW d \in Dd, dd[d].phase = "fork"
  PROVE  \E j \in Inode : ~Opened(j, Dd)
<1> DEFINE S == {e \in Dd : dd[e].phase = "open"}
           T == {j \in Inode : Opened(j, Dd)}
           f == [e \in S |-> dd[e].file]
<1>1. S \in SUBSET (Dd \ {d}) /\ T \subseteq Inode
  OBVIOUS
<1>2. f \in [S -> T]
  BY DEF Dds, Opened
<1>3. \A j \in T : \E e \in S : f[e] = j
  BY DEF Opened
<1>4. f \in Surjection(S, T)
  BY <1>2, <1>3 DEF Surjection
<1>5. IsFiniteSet(Dd \ {d}) /\ Cardinality(Dd \ {d}) = Cardinality(Dd) - 1
  BY SpaceAssumption, FS_RemoveElement
<1>6. IsFiniteSet(S) /\ Cardinality(S) <= Cardinality(Dd \ {d})
  BY <1>1, <1>5, FS_Subset
<1>7. IsFiniteSet(T) /\ Cardinality(T) <= Cardinality(S)
  BY <1>4, <1>6, FS_Surjection
<1>8. Cardinality(Dd) \in Nat /\ Cardinality(Inode) \in Nat
      /\ Cardinality(S) \in Nat /\ Cardinality(T) \in Nat
  BY <1>6, <1>7, SpaceAssumption, FS_CardinalityType
<1>9. Cardinality(T) < Cardinality(Inode)
  BY <1>5, <1>6, <1>7, <1>8, SpaceAssumption
<1>10. T \subseteq Inode
  BY <1>1
<1> HIDE DEF S, T, f
<1>11. T # Inode
  BY <1>8, <1>9
<1> QED
  BY <1>10, <1>11 DEF T

\* With the files and each dd as they were, and no less room, there is no more
\* than fits.
LEMMA FilesKept ==
  ASSUME IInv, size' \in Sizes, size <= size', UNCHANGED <<image, blocks>>,
         \A d \in Dd : dd'[d].phase = dd[d].phase /\ dd'[d].file = dd[d].file
  PROVE  Files'
<1>1. IsFiniteSet(Taken') /\ Used' <= Room'
  BY FewerBlocks DEF IInv, Machine, Files
<1> QED
  BY <1>1 DEF IInv, Files, Opened

\* An invocation that ends, or goes on, keeps the types of all.
LEMMA EndTypes == ASSUME IInv, NEW p \in Proc, End(p) PROVE Invocations'
BY DEF IInv, Invocations, End

LEMMA GoTypes ==
  ASSUME IInv, NEW p \in Proc, NEW from, NEW to \in {"wait", "search", "kill", "stat", "unlink"},
         Goto(p, from, to), UNCHANGED count,
         pids' \in [Proc -> SUBSET (Dd \X BOOLEAN)], mine' \in [Proc -> SUBSET Dd],
         hit' \in [Proc -> BOOLEAN]
  PROVE  Invocations'
BY DEF IInv, Invocations, Goto

LEMMA InitHolds == Init => IInv
<1> SUFFICES ASSUME Init PROVE IInv
  OBVIOUS
<1>1. Taken = {}
  BY DEF Init, Taken
<1>2. IsFiniteSet(Taken) /\ Used = 0
  BY <1>1, UsedIsTaken, FS_EmptySet
<1>3. size \in Nat /\ Kb \in Nat /\ Kb > 0
  BY SpaceAssumption DEF Init
<1>4. Room \in Nat
  BY <1>3, CeilDivBounds DEF Room
<1>5. NoDd \in DdType /\ NoDd.phase = "none"
  BY DEF NoDd, DdType
<1>6. Dds
  BY <1>5 DEF Init, Dds
<1> QED
  BY <1>2, <1>4, <1>6, SpaceAssumption DEF Init, IInv, Machine, Files, Invocations

\* Every step of an invocation keeps the invariant.
LEMMA StepKeeps == ASSUME IInv, NEW p \in Proc, Step(p) PROVE IInv'
<1> USE DEF fs, own
<1>0. size \in Nat /\ Machine /\ Dds /\ Invocations
  BY SpaceAssumption DEF IInv, Machine
<1>1. ASSUME UNCHANGED <<fs, mishaps>>, due' \in [Proc -> BOOLEAN] PROVE Machine'
  BY <1>0, <1>1 DEF Machine
<1>2. ASSUME UNCHANGED <<fs, dd>> PROVE Files' /\ Dds'
  BY <1>0, <1>2, FilesKept DEF Machine, Dds
<1>3. ASSUME NEW from, Fails(p, from) PROVE due' \in [Proc -> BOOLEAN] /\ Invocations'
  BY <1>0, <1>3, EndTypes DEF Fails, Ends, Machine
<1>4. CASE Check(p)
  <2>1. CASE Fails(p, "check") /\ UNCHANGED dd
    BY <1>1, <1>2, <1>3, <1>4, <2>1 DEF Check, IInv
  <2>2. ASSUME Goto(p, "check", "wait"), UNCHANGED <<count, pids, hit, due>>,
               NEW d \in Dd \ Live,
               dd' = [dd EXCEPT ![d] = [NoDd EXCEPT !.phase = "bash", !.count = count[p]]],
               mine' = [mine EXCEPT ![p] = {d}]
        PROVE  IInv'
    <3>1. /\ dd' = [dd EXCEPT ![d] = [NoDd EXCEPT !.phase = "bash", !.count = count[p]]]
          /\ mine' = [mine EXCEPT ![p] = {d}]
      BY <2>2
    <3>2. count[p] \in Nat /\ count[p] > 0 /\ UNCHANGED <<fs, mishaps>>
      BY <1>0, <1>4, <2>2 DEF Check, Goto, Invocations
    <3>3. Dds'
      BY <1>0, <3>1, <3>2 DEF Dds, DdType, NoDd
    <3>4. \A e \in Dd : dd[e].phase = "open" => dd'[e] = dd[e]
      BY <1>0, <3>1 DEF Dds, Live
    <3>5. Files'
      <4>1. IsFiniteSet(Taken') /\ Used' <= Room'
        BY <1>0, <3>2, FewerBlocks DEF IInv, Machine, Files
      <4>2. \A i \in Inode : Opened(i, Dd) => Opened(i, Dd)'
        BY <3>4 DEF Opened
      <4> QED
        BY <3>2, <4>1, <4>2 DEF IInv, Files
    <3>6. Machine' /\ Invocations'
      BY <1>0, <1>1, <2>2, <3>1, <3>2, GoTypes DEF Machine, Invocations
    <3> QED
      BY <3>3, <3>5, <3>6 DEF IInv
  <2> QED
    BY <1>4, <2>1, <2>2 DEF Check
<1>5. CASE Injected(p) \/ SearchFails(p)
  BY <1>1, <1>2, <1>3, <1>5 DEF Injected, SearchFails, IInv
<1>6. CASE Search(p)
  <2>1. pids' \in [Proc -> SUBSET (Dd \X BOOLEAN)]
    <3> DEFINE found == {<<d, dd[d].phase>> : d \in {e \in Live : dd[e].count = count[p]}}
               named == {<<x[1], x[2] # "bash">> : x \in found}
    <3>1. \A x \in found : x[1] \in Dd
      BY DEF Live
    <3>2. named \subseteq Dd \X BOOLEAN
      <4> HIDE DEF found
      <4>1. \A x \in found : <<x[1], x[2] # "bash">> \in Dd \X BOOLEAN
        BY <3>1
      <4> QED
        BY <4>1
    <3>3. pids' = [pids EXCEPT ![p] = named]
      BY <1>6 DEF Search
    <3> QED
      BY <1>0, <3>2, <3>3 DEF Invocations
  <2>2. Invocations'
    BY <1>0, <1>6, <2>1, GoTypes DEF Search, Invocations
  <2> QED
    BY <1>0, <1>1, <1>2, <1>6, <2>2 DEF Search, IInv, Machine
<1>7. CASE Kill(p)
  <2> DEFINE x == First(pids[p])
  <2>1. /\ pc[p] = "kill" /\ x \in pids[p] /\ x[1] \in Dd
        /\ dd' = IF There(x) /\ dd[x[1]].killed = "no"
                 THEN [dd EXCEPT ![x[1]].killed = "in"] ELSE dd
        /\ UNCHANGED <<fs, mishaps>>
    BY <1>0, <1>7 DEF Kill, Signal, First, Invocations
  <2> HIDE DEF x
  <2>2. \A d \in Dd : \/ dd'[d] = dd[d]
                      \/ dd'[d] = [dd[d] EXCEPT !.killed = "in"]
    BY <1>0, <2>1 DEF Dds
  <2>3. \A d \in Dd : /\ dd'[d] \in DdType /\ dd'[d].phase = dd[d].phase
                      /\ dd'[d].file = dd[d].file /\ dd'[d].count = dd[d].count
    <3> SUFFICES ASSUME NEW d \in Dd
                 PROVE  /\ dd'[d] \in DdType /\ dd'[d].phase = dd[d].phase
                        /\ dd'[d].file = dd[d].file /\ dd'[d].count = dd[d].count
      OBVIOUS
    <3>1. dd[d] \in DdType
      BY <1>0 DEF Dds
    <3>2. CASE dd'[d] = dd[d]
      BY <3>1, <3>2
    <3>3. CASE dd'[d] = [dd[d] EXCEPT !.killed = "in"]
      BY <3>1, <3>3 DEF DdType
    <3> QED
      BY <2>2, <3>2, <3>3
  <2>4. Dds'
    <3>1. dd' = [d \in Dd |-> dd'[d]]
      BY <1>0, <2>1 DEF Dds
    <3> QED
      BY <1>0, <2>3, <3>1 DEF Dds
  <2>5. Files'
    BY <1>0, <2>1, <2>3, FilesKept DEF Machine
  <2>6. PICK reached \in BOOLEAN :
          \/ /\ pids' = [pids EXCEPT ![p] = @ \ {First(@)}]
             /\ hit' = [hit EXCEPT ![p] = @ \/ reached]
             /\ UNCHANGED <<pc, count, mine, due>>
          \/ /\ Goto(p, "kill", "stat")
             /\ pids' = [pids EXCEPT ![p] = {}] /\ hit' = [hit EXCEPT ![p] = FALSE]
             /\ UNCHANGED <<count, mine, due>>
          \/ Fails(p, "kill")
    BY <1>7 DEF Kill, Reached
  <2>7. CASE /\ pids' = [pids EXCEPT ![p] = @ \ {First(@)}]
             /\ hit' = [hit EXCEPT ![p] = @ \/ reached]
             /\ UNCHANGED <<pc, count, mine, due>>
    BY <1>0, <1>1, <2>1, <2>4, <2>5, <2>7 DEF IInv, Machine, Invocations
  <2>8. CASE /\ Goto(p, "kill", "stat")
             /\ pids' = [pids EXCEPT ![p] = {}] /\ hit' = [hit EXCEPT ![p] = FALSE]
             /\ UNCHANGED <<count, mine, due>>
    BY <1>0, <1>1, <2>1, <2>4, <2>5, <2>8, GoTypes DEF IInv, Machine, Invocations
  <2>9. CASE Fails(p, "kill")
    BY <1>1, <1>3, <2>1, <2>4, <2>5, <2>9 DEF IInv
  <2> QED
    BY <2>6, <2>7, <2>8, <2>9
<1>8. CASE Stat(p)
  <2>1. UNCHANGED <<fs, dd, due, mishaps>>
    BY <1>8 DEF Stat
  <2>2. Machine' /\ Files' /\ Dds'
    BY <1>0, <1>1, <1>2, <2>1 DEF Machine
  <2>3. Invocations'
    BY <1>0, <1>8, EndTypes, GoTypes DEF Stat, Ends, Invocations
  <2> QED
    BY <2>2, <2>3 DEF IInv
<1>9. CASE Unlink(p)
  <2>1. CASE Fails(p, "unlink") /\ UNCHANGED <<fs, dd, mishaps>>
    BY <1>1, <1>2, <1>3, <2>1 DEF IInv
  <2>2. CASE /\ Ends(p, "unlink") /\ image # None /\ image' = None
             /\ blocks' = IF Opened(image, Dd) THEN blocks ELSE [blocks EXCEPT ![image] = {}]
             /\ UNCHANGED <<size, mount, dd, due, mishaps>>
    <3>1. blocks' \in [Inode -> SUBSET Nat] /\ \A i \in Inode : blocks'[i] \subseteq blocks[i]
      BY <2>2 DEF IInv, Files
    <3>2. IsFiniteSet(Taken') /\ Used' <= Room'
      BY <1>0, <2>2, <3>1, FewerBlocks DEF IInv, Machine, Files
    <3>3. \A i \in Inode : blocks'[i] # {} => Opened(i, Dd)'
      BY <2>2 DEF IInv, Files, Opened
    <3>4. Files'
      BY <2>2, <3>1, <3>2, <3>3 DEF Files
    <3>5. Machine' /\ Dds' /\ Invocations'
      BY <1>0, <2>2, EndTypes DEF Ends, Machine, Dds
    <3> QED
      BY <3>4, <3>5 DEF IInv
  <2> QED
    BY <1>9, <2>1, <2>2 DEF Unlink
<1> QED
  BY <1>4, <1>5, <1>6, <1>7, <1>8, <1>9 DEF Step

\* Every step of a dd keeps the invariant: it opens a file nobody else has, a
\* block goes where there is room, and a file that loses its last dd goes.
LEMMA DdKeeps == ASSUME IInv, NEW d \in Dd, DdStep(d) PROVE IInv'
<1> USE DEF fs, own
<1>0. /\ Machine /\ Files /\ Dds /\ Invocations
      /\ size \in Sizes /\ size \in Nat /\ dd[d] \in DdType
  BY SpaceAssumption DEF IInv, Machine, Dds
<1>1. UNCHANGED <<size, mount, pc, own, due, mishaps>>
  BY DEF DdStep, Fork, Open, WriteBlock, DdEnds
<1>2. Machine' /\ Invocations'
  BY <1>0, <1>1 DEF Machine, Invocations
<1>3. CASE Fork(d)
  <2>1. Dds'
    BY <1>0, <1>3 DEF Fork, Dds, DdType
  <2>2. \A e \in Dd : dd[e].phase = "open" => dd'[e] = dd[e]
    BY <1>0, <1>3 DEF Fork, Dds
  <2>3. IsFiniteSet(Taken') /\ Used' <= Room'
    BY <1>0, <1>1, <1>3, FewerBlocks DEF Fork, Files
  <2>4. Files'
    BY <1>0, <1>3, <2>2, <2>3 DEF Fork, Files, Opened
  <2> QED
    BY <1>2, <2>1, <2>4 DEF IInv
<1>4. CASE Open(d)
  <2> DEFINE i == IF image # None THEN image ELSE CHOOSE j \in Inode : ~Opened(j, Dd)
  <2>1. i \in Inode
    BY <1>0, <1>4, FreeInode DEF Open, Files
  <2>2. /\ image' = i /\ blocks' = [blocks EXCEPT ![i] = {}]
        /\ dd' = [dd EXCEPT ![d].phase = "open", ![d].file = i, ![d].killed = Pending(d)]
        /\ dd[d].phase = "fork"
    BY <1>4 DEF Open
  <2>3. image # None => i = image
    OBVIOUS
  <2> HIDE DEF i
  <2>4. Pending(d) \in {"no", "in", "out"}
    BY <1>0 DEF Pending, DdType
  <2>5. Dds'
    BY <1>0, <2>1, <2>2, <2>4 DEF Dds, DdType
  <2>6. blocks' \in [Inode -> SUBSET Nat] /\ \A j \in Inode : blocks'[j] \subseteq blocks[j]
    BY <1>0, <2>1, <2>2 DEF Files
  <2>7. IsFiniteSet(Taken') /\ Used' <= Room'
    BY <1>0, <1>1, <2>6, FewerBlocks DEF Files
  <2>8. \A e \in Dd : dd[e].phase = "open" => dd'[e] = dd[e]
    BY <1>0, <2>2 DEF Dds
  <2>9. \A j \in Inode : blocks'[j] # {} => j # i /\ (j = image \/ Opened(j, Dd))
    BY <1>0, <2>2 DEF Files
  <2>10. \A j \in Inode : blocks'[j] # {} => j = image' \/ Opened(j, Dd)'
    BY <2>2, <2>3, <2>8, <2>9, SpaceAssumption DEF Opened
  <2> QED
    BY <1>2, <2>1, <2>2, <2>5, <2>6, <2>7, <2>10 DEF Files, IInv
<1>5. CASE WriteBlock(d)
  <2>1. /\ dd[d].phase = "open" /\ dd[d].file \in Inode /\ dd[d].next \in Nat
        /\ dd[d].next \in blocks[dd[d].file] \/ Used < Room
    BY <1>0, <1>5 DEF WriteBlock, Writable, Dds, DdType
  <2>2. /\ blocks' = [blocks EXCEPT ![dd[d].file] = @ \cup {dd[d].next}] /\ image' = image
        /\ dd' = [dd EXCEPT ![d].next = @ + 1, ![d].killed = Pending(d)]
    BY <1>5 DEF WriteBlock
  <2>3. Pending(d) \in {"no", "in", "out"}
    BY <1>0 DEF Pending, DdType
  <2>4. Dds' /\ \A e \in Dd : dd'[e].phase = dd[e].phase /\ dd'[e].file = dd[e].file
    <3>1. dd'[d] = [dd[d] EXCEPT !.next = @ + 1, !.killed = Pending(d)]
      BY <1>0, <2>2 DEF Dds
    <3>2. /\ dd'[d] \in DdType /\ dd'[d].phase = dd[d].phase
          /\ dd'[d].file = dd[d].file /\ dd'[d].count = dd[d].count
      <4> DEFINE e == dd[d]
                 f == dd'[d]
                 k == Pending(d)
      <4>1. e \in DdType /\ e.next + 1 \in Nat /\ k \in {"no", "in", "out"}
        BY <1>0, <2>1, <2>3
      <4>2. f = [e EXCEPT !.next = e.next + 1, !.killed = k]
        BY <3>1
      <4> HIDE DEF e, f, k
      <4>3. /\ f \in DdType /\ f.phase = e.phase /\ f.file = e.file /\ f.count = e.count
        BY <4>1, <4>2 DEF DdType
      <4> QED
        BY <4>3 DEF e, f
    <3>3. \A e \in Dd \ {d} : dd'[e] = dd[e]
      BY <1>0, <2>2 DEF Dds
    <3>4. dd' = [e \in Dd |-> dd'[e]]
      BY <1>0, <2>2 DEF Dds
    <3> QED
      BY <1>0, <3>2, <3>3, <3>4 DEF Dds
  <2>5. IsFiniteSet(Taken') /\ Used' <= Room'
    <3>1. PICK i \in Inode, b \in Nat :
            /\ b \in blocks[i] \/ Used < Room
            /\ blocks' = [blocks EXCEPT ![i] = @ \cup {b}]
      BY <2>1, <2>2
    <3>2. /\ IsFiniteSet(Taken) /\ Used <= Room /\ size' = size
          /\ blocks \in [Inode -> SUBSET Nat]
      BY <1>0, <1>1 DEF Files
    <3> QED
      BY <1>0, <3>1, <3>2, OneBlock
  <2>6. \A j \in Inode : blocks'[j] # {} => j = image' \/ Opened(j, Dd)'
    <3>1. \A j \in Inode : j = dd[d].file \/ Opened(j, Dd) => Opened(j, Dd)'
      BY <2>1, <2>4 DEF Opened
    <3>2. \A j \in Inode : j # dd[d].file => blocks'[j] = blocks[j]
      BY <1>0, <2>2 DEF Files
    <3> QED
      BY <1>0, <2>2, <3>1, <3>2 DEF Files
  <2>7. blocks' \in [Inode -> SUBSET Nat]
    BY <1>0, <2>1, <2>2 DEF Files
  <2> QED
    BY <1>0, <1>2, <2>2, <2>4, <2>5, <2>6, <2>7 DEF Files, IInv
<1>6. CASE DdEnds(d)
  <2>1. /\ dd' = [dd EXCEPT ![d] = NoDd] /\ image' = image
        /\ blocks' = [i \in Inode |->
                        IF i = image \/ Opened(i, Dd \ {d}) THEN blocks[i] ELSE {}]
    BY <1>6 DEF DdEnds
  <2>2. Dds'
    BY <1>0, <2>1 DEF Dds, DdType, NoDd
  <2>3. blocks' \in [Inode -> SUBSET Nat] /\ \A j \in Inode : blocks'[j] \subseteq blocks[j]
    BY <1>0, <2>1 DEF Files
  <2>4. IsFiniteSet(Taken') /\ Used' <= Room'
    BY <1>0, <1>1, <2>3, FewerBlocks DEF Files
  <2>5. \A e \in Dd \ {d} : dd'[e] = dd[e]
    BY <1>0, <2>1 DEF Dds
  <2>6. \A j \in Inode : blocks'[j] # {} => j = image' \/ Opened(j, Dd)'
    BY <2>1, <2>5 DEF Opened
  <2> QED
    BY <1>0, <1>2, <2>1, <2>2, <2>3, <2>4, <2>6 DEF Files, IInv
<1> QED
  BY <1>3, <1>4, <1>5, <1>6 DEF DdStep

\* Every request, mishap and crash keeps the invariant.
LEMMA OtherKeeps ==
  ASSUME IInv,
         \/ \E p \in Proc : Crash(p) \/ \E o \in {"prepare", "inject", "remove"} : Start(p, o)
         \/ Grow \/ Remount
  PROVE  IInv'
<1> USE DEF fs, own
<1>0. Machine /\ Dds /\ Invocations /\ size \in Sizes /\ Sizes \subseteq Nat
  BY SpaceAssumption DEF IInv, Machine
<1>1. ASSUME UNCHANGED <<image, blocks, dd>>, size' \in Sizes, size <= size'
      PROVE  Files' /\ Dds'
  BY <1>0, <1>1, FilesKept DEF Dds
<1>2. ASSUME Mishap PROVE mishaps' \in 0 .. MaxMishaps
  BY <1>0, <1>2, SpaceAssumption DEF Mishap, Machine
<1>3. ASSUME NEW p \in Proc, Crash(p) PROVE IInv'
  BY <1>0, <1>1, <1>2, <1>3, EndTypes DEF Crash, Fails, Ends, Machine, IInv
<1>4. ASSUME NEW p \in Proc, NEW o \in {"prepare", "inject", "remove"}, Start(p, o)
      PROVE  IInv'
  <2>1. UNCHANGED <<fs, dd, mishaps>>
    BY <1>4 DEF Start
  <2>2. due' \in [Proc -> BOOLEAN]
    BY <1>0, <1>4 DEF Start, Machine
  <2>3. Invocations'
    <3>1. CASE UNCHANGED <<pc, own>>
      BY <1>0, <3>1 DEF Invocations
    <3>2. CASE /\ Readable(size) /\ UNCHANGED <<pids, hit, mine>>
               /\ pc' = [pc EXCEPT ![p] = IF o = "inject" THEN "check" ELSE "search"]
               /\ count' = [count EXCEPT ![p] = CountOf(size)]
      <4>1. CountOf(size) \in Nat \ {0}
        BY <1>0, <3>2, EnoughAlways
      <4> QED
        BY <1>0, <3>2, <4>1 DEF Invocations
    <3> QED
      BY <1>4, <3>1, <3>2 DEF Start
  <2> QED
    BY <1>0, <1>1, <2>1, <2>2, <2>3 DEF IInv, Machine
<1>5. CASE Grow
  <2>1. size' \in Sizes /\ size <= size' /\ UNCHANGED <<mount, image, blocks, dd, pc, own>>
    BY <1>0, <1>5 DEF Grow
  <2>2. due' \in [Proc -> BOOLEAN] /\ mishaps' \in 0 .. MaxMishaps
    BY <1>2, <1>5 DEF Grow
  <2> QED
    BY <1>0, <1>1, <2>1, <2>2 DEF IInv, Machine, Invocations
<1>6. CASE Remount
  BY <1>0, <1>1, <1>2, <1>6 DEF Remount, IInv, Machine, Invocations
<1> QED
  BY <1>3, <1>4, <1>5, <1>6

LEMMA Invariant == Spec => []IInv
<1>1. IInv /\ [Next]_vars => IInv'
  <2>1. IInv /\ UNCHANGED vars => IInv'
    BY DEF vars, fs, own, IInv, Machine, Files, Dds, Invocations, Opened, Taken, Used, Room
  <2> QED
    BY <2>1, StepKeeps, DdKeeps, OtherKeeps DEF Next
<1> QED
  BY <1>1, InitHolds, PTL DEF Spec

\* On a mount point of every size, with every number of invocations and dd: only
\* the image and what a dd has open take space, no more than there is, and no dd
\* is ever started to write nothing.
THEOREM TypeCorrect == Spec => []TypeOK
<1>1. IInv => TypeOK
  BY DEF IInv, Machine, Files, Dds, Invocations, TypeOK, Live
<1> QED
  BY <1>1, Invariant, PTL

\* The blocks that dd is given are enough for a mount point of every size, but for
\* less than half a block between 4T and 10T, where the tenths do not fit into the
\* 32 bits they are read with, and never more than a tenth and a block too much.
THEOREM EnoughHolds == Spec => []Enough
<1>1. IInv => Enough
  BY EnoughAlways, SpaceAssumption DEF IInv, Machine, Enough, EnoughForAll
<1> QED
  BY <1>1, Invariant, PTL
--------------------------------------------------------------------------------
(***************************************************************************)
(* What a removal has given back when it returns.                          *)
(***************************************************************************)
\* Every dd that has still to open the image has the signal of a kill before it.
Doomed  == \A d \in Dd : dd[d].phase = "fork" => dd[d].killed # "no"
\* What has the name of the image is empty, and nobody can write to it any more.
Emptied ==
  image # None =>
    /\ blocks[image] = {}
    /\ \A d \in Dd : dd[d].phase = "open" /\ dd[d].file = image => dd[d].killed = "out"
\* How far a removal that owes the mount point its space has come.
Owes(p) ==
  due[p] =>
    /\ Settled
    /\ pc[p] = "search" => count[p] = CountOf(size)
    /\ pc[p] = "kill" =>
         \A d \in Dd : dd[d].phase = "fork" /\ dd[d].killed = "no" => <<d, TRUE>> \in pids[p]
    /\ pc[p] \in {"stat", "unlink", "idle"} => Doomed
    /\ pc[p] = "idle" => Emptied

\* Where none is started, no injection is under way after a step either.
LEMMA Settles ==
  ASSUME Settled, size' = size, \A q \in Proc : pc'[q] \notin {"check", "wait"},
         \A d \in Dd : \/ dd'[d].phase \in {"none", "open"}
                       \/ dd'[d].phase = dd[d].phase /\ dd'[d].count = dd[d].count
  PROVE  Settled'
<1> DEFINE n == CountOf(size)
<1>1. \A d \in Live : dd[d].phase = "open" \/ (dd[d].phase = "fork" /\ dd[d].count = n)
  BY Zenon DEF Settled
<1>2. n = CountOf(size') BY Zenon
<1> HIDE DEF n
<1>3. \A d \in Live' : dd'[d].phase = "open" \/ (dd'[d].phase = "fork" /\ dd'[d].count = n)
  BY <1>1 DEF Live
<1> QED BY <1>2, <1>3, Zenon DEF Settled

\* Steps of others, of which p sees no more than its dd ending or being killed.
LEMMA OwesStill ==
  ASSUME NEW p \in Proc, Owes(p), due'[p] => due[p],
         due[p] => Settled', size' = size,
         pc'[p] = pc[p], count'[p] = count[p], pids'[p] = pids[p],
         \A d \in Dd : \/ dd'[d].phase = "none"
                       \/ /\ dd'[d].phase = dd[d].phase /\ dd'[d].file = dd[d].file
                          /\ dd'[d].killed = "no" => dd[d].killed = "no"
                          /\ dd[d].killed = "out" => dd'[d].killed = "out",
         image' # None => image' = image /\ (blocks[image] = {} => blocks'[image] = {})
  PROVE  Owes(p)'
<1> SUFFICES ASSUME due'[p] PROVE Owes(p)'
  BY DEF Owes
<1>1. /\ due[p] /\ Settled'
      /\ pc[p] = "search" => count[p] = CountOf(size)
      /\ pc[p] = "kill" =>
         \A d \in Dd : dd[d].phase = "fork" /\ dd[d].killed = "no" => <<d, TRUE>> \in pids[p]
      /\ pc[p] \in {"stat", "unlink", "idle"} => Doomed
      /\ pc[p] = "idle" => Emptied
  BY DEF Owes
<1>2. pc'[p] = "search" => count'[p] = CountOf(size') BY <1>1
<1>3. pc'[p] = "kill" =>
        \A d \in Dd : dd'[d].phase = "fork" /\ dd'[d].killed = "no" => <<d, TRUE>> \in pids'[p]
  BY <1>1
<1>4. Doomed => Doomed' BY DEF Doomed
<1>5. Emptied => Emptied' BY DEF Emptied
<1> QED BY <1>1, <1>2, <1>3, <1>4, <1>5 DEF Owes

\* The steps of a dd: it opens the image only when a removal that has done its kill
\* can still stop it, and it writes only to what no such removal has left.
LEMMA DdOwes ==
  ASSUME IInv, NEW p \in Proc, Owes(p), due[p], NEW d \in Dd, DdStep(d)
  PROVE  Owes(p)'
<1> USE DEF fs, own
<1>0. /\ Settled /\ Files /\ Dds /\ UNCHANGED <<size, mount, pc, own, due, mishaps>>
      /\ pc[p] = "search" => count[p] = CountOf(size)
      /\ pc[p] = "kill" =>
         \A e \in Dd : dd[e].phase = "fork" /\ dd[e].killed = "no" => <<e, TRUE>> \in pids[p]
      /\ pc[p] \in {"stat", "unlink", "idle"} => Doomed
      /\ pc[p] = "idle" => Emptied
  BY Zenon DEF IInv, Owes, DdStep, Fork, Open, WriteBlock, DdEnds
<1>1. \A q \in Proc : pc[q] \notin {"check", "wait"} /\ pc'[q] \notin {"check", "wait"}
  BY <1>0, Zenon DEF Settled
<1>2. ASSUME Fork(d) PROVE FALSE
  <2>1. dd[d].phase = "bash" /\ d \in Live BY <1>2 DEF Fork, Live
  <2>2. dd[d].phase = "fork" \/ dd[d].phase = "open" BY <1>0, <2>1, Zenon DEF Settled
  <2> QED BY <2>1, <2>2
<1>3. CASE Open(d)
  <2> DEFINE i == IF image # None THEN image ELSE CHOOSE j \in Inode : ~Opened(j, Dd)
  <2>1. i \in Inode /\ (image = None => ~Opened(i, Dd))
    BY <1>0, <1>3, FreeInode DEF Open, Files
  <2>2. /\ image' = i /\ blocks' = [blocks EXCEPT ![i] = {}]
        /\ dd' = [dd EXCEPT ![d].phase = "open", ![d].file = i, ![d].killed = Pending(d)]
        /\ dd[d].phase = "fork" /\ Called(d)
    BY <1>3 DEF Open
  <2>3. image # None => i = image
    OBVIOUS
  <2> HIDE DEF i
  <2>4. /\ dd'[d].phase = "open" /\ dd'[d].file = i /\ dd'[d].killed = Pending(d)
        /\ \A e \in Dd \ {d} : dd'[e] = dd[e]
    BY <1>0, <2>2 DEF Dds, DdType
  <2>5. Settled' BY <1>0, <1>1, <2>4, Settles
  <2>6. Doomed => Doomed' BY <2>4 DEF Doomed
  <2>7. Doomed => Pending(d) = "out"
    BY <1>0, <2>2 DEF Doomed, Pending, Called, Dds, DdType
  <2>8. Doomed /\ Emptied => Emptied'
    <3>1. blocks'[i] = {} BY <1>0, <2>1, <2>2 DEF Files
    <3>2. ASSUME Doomed, Emptied, NEW e \in Dd, dd'[e].phase = "open", dd'[e].file = i
          PROVE  dd'[e].killed = "out"
      BY <2>1, <2>3, <2>4, <2>7, <3>2 DEF Emptied, Opened
    <3> QED BY <2>2, <3>1, <3>2 DEF Emptied
  <2>9. pc'[p] = "kill" =>
          \A e \in Dd : dd'[e].phase = "fork" /\ dd'[e].killed = "no" => <<e, TRUE>> \in pids'[p]
    BY <1>0, <2>4
  <2>10. pc'[p] = "search" => count'[p] = CountOf(size') BY <1>0, Zenon
  <2> QED BY <1>0, <2>5, <2>6, <2>8, <2>9, <2>10 DEF Owes
<1>4. CASE WriteBlock(d)
  <2>1. /\ dd' = [dd EXCEPT ![d].next = @ + 1, ![d].killed = Pending(d)]
        /\ blocks' = [blocks EXCEPT ![dd[d].file] = @ \cup {dd[d].next}] /\ image' = image
        /\ dd[d].phase = "open" /\ Called(d)
    BY <1>4 DEF WriteBlock
  <2>2. /\ dd'[d].phase = dd[d].phase /\ dd'[d].count = dd[d].count
        /\ dd'[d].file = dd[d].file /\ dd'[d].killed = Pending(d)
        /\ \A e \in Dd \ {d} : dd'[e] = dd[e]
    BY <1>0, <2>1 DEF Dds, DdType
  <2>3. Pending(d) = "no" => dd[d].killed = "no"
    BY <1>0 DEF Pending, Dds, DdType
  <2>4. Settled' BY <1>0, <1>1, <2>2, Settles
  <2>5. pc[p] = "idle" => (image # None => dd[d].file # image)
    BY <1>0, <2>1 DEF Emptied, Called
  <2>6. pc[p] = "idle" /\ image # None => blocks'[image] = blocks[image]
    BY <1>0, <2>1, <2>5 DEF Files
  <2>7. Doomed => Doomed' BY <2>2, <2>3 DEF Doomed
  <2>8. pc[p] = "idle" => Emptied' BY <1>0, <2>1, <2>2, <2>5, <2>6 DEF Emptied
  <2>9. pc'[p] = "kill" =>
          \A e \in Dd : dd'[e].phase = "fork" /\ dd'[e].killed = "no" => <<e, TRUE>> \in pids'[p]
    BY <1>0, <2>2, <2>3
  <2>10. pc'[p] = "search" => count'[p] = CountOf(size') BY <1>0, Zenon
  <2> QED BY <1>0, <2>4, <2>7, <2>8, <2>9, <2>10 DEF Owes
<1>5. CASE DdEnds(d)
  <2>1. /\ dd'[d].phase = "none" /\ \A e \in Dd \ {d} : dd'[e] = dd[e]
        /\ image' = image
        /\ \A i \in Inode : blocks'[i] = blocks[i] \/ blocks'[i] = {}
    BY <1>0, <1>5 DEF DdEnds, Dds, NoDd
  <2>2. Settled' BY <1>0, <1>1, <2>1, Settles
  <2>3. image # None => (blocks[image] = {} => blocks'[image] = {})
    BY <1>0, <2>1 DEF Files
  <2> QED BY <1>0, <2>1, <2>2, <2>3, OwesStill
<1> QED BY <1>2, <1>3, <1>4, <1>5 DEF DdStep

\* The steps of invocations: a search lists every dd that has still to open the
\* image, a kill reaches each of them or finds it gone, and the image goes after
\* that.
LEMMA StepOwes ==
  ASSUME IInv, NEW p \in Proc, Owes(p), NEW q \in Proc, Step(q) \/ Crash(q), due'[p]
  PROVE  Owes(p)'
<1> USE DEF fs, own
<1>1. due[p] /\ (Fails(q, pc[q]) => q # p)
  BY DEF IInv, Machine, Step, Crash, Check, Injected, Search, SearchFails, Kill,
         Stat, Unlink, Fails
<1>2. /\ Settled /\ Files /\ Dds /\ Invocations
      /\ pc[p] = "search" => count[p] = CountOf(size)
      /\ pc[p] = "kill" =>
         \A e \in Dd : dd[e].phase = "fork" /\ dd[e].killed = "no" => <<e, TRUE>> \in pids[p]
      /\ pc[p] \in {"stat", "unlink", "idle"} => Doomed
      /\ pc[p] = "idle" => Emptied
  BY <1>1, Zenon DEF IInv, Owes
<1>3. \A r \in Proc : pc[r] \notin {"check", "wait"} BY <1>2, Zenon DEF Settled
<1>4. \A r \in Proc \ {q} : pc'[r] = pc[r] /\ count'[r] = count[r] /\ pids'[r] = pids[r]
  BY <1>2 DEF Invocations, Step, Crash, Check, Injected, Search, SearchFails, Kill, Stat, Unlink,
              Fails, Ends, End, Goto
<1>5. pc'[q] \in {"kill", "stat", "unlink", "idle"}
  BY <1>2, <1>3 DEF Invocations, Step, Crash, Check, Injected, Search, SearchFails, Kill, Stat, Unlink,
                    Fails, Ends, End, Goto
<1>6. \A r \in Proc : pc'[r] \notin {"check", "wait"} BY <1>3, <1>4, <1>5
<1>7. size' = size
  BY DEF Step, Crash, Check, Injected, Search, SearchFails, Kill, Stat, Unlink
<1>8. CASE Check(q) \/ Injected(q)
  BY <1>3, <1>8 DEF Check, Injected, Fails, Ends, Goto
<1>14. ASSUME SearchFails(q) PROVE Owes(p)'
  <2>1. UNCHANGED <<fs, dd>> /\ q # p BY <1>1, <1>14 DEF SearchFails, Fails, Ends
  <2>2. Settled' BY <1>2, <1>6, <2>1, Settles
  <2> QED BY <1>1, <1>4, <2>1, <2>2, OwesStill
<1>9. CASE Search(q)
  <2>1. UNCHANGED <<fs, dd>> BY <1>9 DEF Search
  <2>2. Settled' BY <1>2, <1>6, <2>1, Settles
  <2>3. CASE q # p BY <1>1, <1>4, <2>1, <2>2, <2>3, OwesStill
  <2>4. CASE q = p
    <3> DEFINE found == {<<d, dd[d].phase>> : d \in {e \in Live : dd[e].count = count[p]}}
               named == {<<x[1], x[2] # "bash">> : x \in found}
               n == CountOf(size)
    <3>1. /\ pc[p] = "search" /\ pc'[p] = IF found = {} THEN "stat" ELSE "kill"
          /\ pids'[p] = named
      BY <1>2, <1>9, <2>4 DEF Search, Goto, Invocations
    <3>2. \A d \in Live : dd[d].phase = "open" \/ (dd[d].phase = "fork" /\ dd[d].count = n)
      BY <1>2, Zenon DEF Settled
    <3>3. count[p] = n BY <1>2, <3>1
    <3> HIDE DEF n
    <3>4. \A d \in Dd : dd[d].phase = "fork" => <<d, "fork">> \in found
      BY <3>2, <3>3 DEF Live
    <3> HIDE DEF found
    <3>5. \A d \in Dd : <<d, "fork">> \in found => <<d, TRUE>> \in named
      <4> SUFFICES ASSUME NEW d \in Dd, <<d, "fork">> \in found PROVE <<d, TRUE>> \in named
        OBVIOUS
      <4>1. <<d, "fork">>[1] = d /\ <<d, "fork">>[2] # "bash" OBVIOUS
      <4>2. <<d, TRUE>> = <<<<d, "fork">>[1], <<d, "fork">>[2] # "bash">> BY <4>1
      <4> QED BY <4>2
    <3> HIDE DEF named
    <3>6. found = {} => Doomed' BY <2>1, <3>4 DEF Doomed
    <3> QED BY <2>1, <2>2, <3>1, <3>4, <3>5, <3>6 DEF Owes
  <2> QED BY <2>3, <2>4
<1>10. CASE Kill(q)
  <2> DEFINE x == First(pids[q])
  <2>1. /\ UNCHANGED fs /\ pc[q] = "kill" /\ x \in pids[q] /\ x \in Dd \X BOOLEAN
        /\ dd' = IF There(x) /\ dd[x[1]].killed = "no"
                 THEN [dd EXCEPT ![x[1]].killed = "in"] ELSE dd
    BY <1>2, <1>10 DEF Kill, Signal, First, Invocations
  <2> HIDE DEF x
  <2>2. \A d \in Dd : /\ dd'[d].phase = dd[d].phase /\ dd'[d].count = dd[d].count
                      /\ dd'[d].file = dd[d].file
                      /\ dd'[d].killed = "no" => dd[d].killed = "no"
                      /\ dd[d].killed = "out" => dd'[d].killed = "out"
                      /\ There(x) /\ d = x[1] => dd'[d].killed # "no"
    <3> SUFFICES ASSUME NEW d \in Dd
                 PROVE  /\ dd'[d].phase = dd[d].phase /\ dd'[d].count = dd[d].count
                        /\ dd'[d].file = dd[d].file
                        /\ dd'[d].killed = "no" => dd[d].killed = "no"
                        /\ dd[d].killed = "out" => dd'[d].killed = "out"
                        /\ There(x) /\ d = x[1] => dd'[d].killed # "no"
      OBVIOUS
    <3>1. dd[d] \in DdType BY <1>2 DEF Dds
    <3>2. [dd[d] EXCEPT !.killed = "in"].killed = "in" BY <3>1 DEF DdType
    <3>3. dd'[d] = IF There(x) /\ dd[x[1]].killed = "no" /\ d = x[1]
                   THEN [dd[d] EXCEPT !.killed = "in"] ELSE dd[d]
      BY <1>2, <2>1 DEF Dds
    <3> QED BY <3>1, <3>2, <3>3 DEF DdType
  <2>3. Settled' BY <1>2, <1>6, <1>7, <2>2, Settles
  <2>4. CASE q # p
    BY <1>1, <1>4, <1>7, <2>1, <2>2, <2>3, <2>4, OwesStill
  <2>5. CASE q = p
    <3>1. \/ pc'[p] = "kill" /\ pids'[p] = pids[p] \ {x}
          \/ pc'[p] = "stat" /\ pids[p] = {x}
      <4>1. ~Fails(p, "kill") BY <1>1, <2>1, <2>5
      <4> QED BY <1>2, <1>10, <2>1, <2>5, <4>1 DEF Kill, Goto, Invocations, x
    <3>2. ASSUME NEW d \in Dd, dd'[d].phase = "fork", dd'[d].killed = "no"
          PROVE  <<d, TRUE>> \in pids[p] /\ <<d, TRUE>> # x
      <4>0. pc[p] = "kill" /\ dd[d].phase = "fork" /\ dd[d].killed = "no"
        BY <2>1, <2>2, <2>5, <3>2
      <4>1. <<d, TRUE>> \in pids[p] BY <1>2, <4>0
      <4>2. There(<<d, TRUE>>) BY <2>2, <3>2 DEF There
      <4>3. ASSUME <<d, TRUE>> = x PROVE FALSE
        <5>1. There(x) /\ d = x[1] BY <4>2, <4>3
        <5> QED BY <2>2, <3>2, <5>1
      <4> QED BY <4>1, <4>3
    <3>3. pc'[p] = "stat" => Doomed' BY <3>1, <3>2 DEF Doomed
    <3>4. pc'[p] = "kill" =>
            \A e \in Dd : dd'[e].phase = "fork" /\ dd'[e].killed = "no" => <<e, TRUE>> \in pids'[p]
      BY <3>1, <3>2
    <3> QED BY <2>3, <3>1, <3>3, <3>4 DEF Owes
  <2> QED BY <2>4, <2>5
<1>11. CASE Stat(q)
  <2>1. UNCHANGED <<fs, dd>> BY <1>11 DEF Stat
  <2>2. Settled' BY <1>2, <1>6, <2>1, Settles
  <2>3. CASE q # p BY <1>1, <1>4, <2>1, <2>2, <2>3, OwesStill
  <2>4. CASE q = p
    <3>1. pc[p] = "stat" /\ (pc'[p] = "unlink" \/ (pc'[p] = "idle" /\ image = None))
      BY <1>2, <1>11, <2>4 DEF Stat, Goto, Ends, End, Invocations
    <3>2. Doomed' BY <1>2, <2>1, <3>1 DEF Doomed
    <3>3. image = None => Emptied' BY <2>1 DEF Emptied
    <3> QED BY <2>2, <3>1, <3>2, <3>3 DEF Owes
  <2> QED BY <2>3, <2>4
<1>12. CASE Unlink(q)
  <2>1. dd' = dd /\ (image' = None \/ UNCHANGED <<image, blocks>>)
    BY <1>12 DEF Unlink
  <2>2. Settled' BY <1>2, <1>6, <1>7, <2>1, Settles
  <2>3. CASE q # p BY <1>1, <1>4, <1>7, <2>1, <2>2, <2>3, OwesStill
  <2>4. CASE q = p
    <3>1. pc[p] = "unlink" /\ pc'[p] = "idle" /\ image' = None
      BY <1>1, <1>2, <1>12, <2>4 DEF Unlink, Fails, Ends, End, Invocations
    <3>2. Doomed' BY <1>2, <2>1, <3>1 DEF Doomed
    <3>3. Emptied' BY <3>1 DEF Emptied
    <3> QED BY <2>2, <3>1, <3>2, <3>3 DEF Owes
  <2> QED BY <2>3, <2>4
<1>13. CASE Crash(q)
  <2>1. UNCHANGED <<fs, dd>> /\ q # p BY <1>1, <1>13 DEF Crash
  <2>2. Settled' BY <1>2, <1>6, <2>1, Settles
  <2> QED BY <1>1, <1>4, <2>1, <2>2, OwesStill
<1> QED BY <1>8, <1>9, <1>10, <1>11, <1>12, <1>13, <1>14 DEF Step

\* A request: only a removal makes the mount point owed anything.
LEMMA StartOwes ==
  ASSUME IInv, NEW p \in Proc, Owes(p), NEW q \in Proc,
         NEW o \in {"prepare", "inject", "remove"}, Start(q, o), due'[p]
  PROVE  Owes(p)'
<1> USE DEF fs, own
<1>1. UNCHANGED <<fs, dd, mishaps>> /\ pc[q] = "idle" /\ Machine /\ Invocations
  BY DEF Start, IInv
<1>2. CASE UNCHANGED <<pc, own, due>>
  <2>1. due[p] /\ Settled BY <1>2 DEF Owes
  <2>2. \A r \in Proc : pc'[r] \notin {"check", "wait"} BY <1>2, <2>1, Zenon DEF Settled
  <2>3. Settled' BY <1>1, <2>1, <2>2, Settles
  <2> QED BY <1>1, <1>2, <2>1, <2>3, OwesStill
<1>3. CASE /\ UNCHANGED <<pc, own>> /\ o = "prepare"
           /\ due' = [due EXCEPT ![q] = o = "remove" /\ Settled]
  <2>1. q # p /\ due[p] /\ Settled BY <1>1, <1>3 DEF Machine, Owes
  <2>2. \A r \in Proc : pc'[r] \notin {"check", "wait"} BY <1>3, <2>1, Zenon DEF Settled
  <2>3. Settled' BY <1>1, <2>1, <2>2, Settles
  <2> QED BY <1>1, <1>3, <2>1, <2>3, OwesStill
<1>4. CASE /\ o = "remove" /\ pc' = [pc EXCEPT ![q] = "search"]
           /\ count' = [count EXCEPT ![q] = CountOf(size)] /\ UNCHANGED <<pids, hit, mine>>
           /\ due' = [due EXCEPT ![q] = o = "remove" /\ Settled]
  <2>1. Settled BY <1>1, <1>4 DEF Machine, Owes
  <2>2. \A r \in Proc : pc[r] \notin {"check", "wait"} BY <2>1, Zenon DEF Settled
  <2>3. \A r \in Proc : pc'[r] \notin {"check", "wait"} BY <1>1, <1>4, <2>2 DEF Invocations
  <2>4. Settled' BY <1>1, <2>1, <2>3, Settles
  <2>5. CASE q # p
    <3>1. due[p] /\ pc'[p] = pc[p] /\ count'[p] = count[p] /\ pids'[p] = pids[p]
      BY <1>1, <1>4, <2>5 DEF Machine, Invocations
    <3> QED BY <1>1, <2>4, <3>1, OwesStill
  <2>6. CASE q = p
    <3>1. pc'[p] = "search" BY <1>1, <1>4, <2>6 DEF Invocations
    <3>2. count'[p] = CountOf(size') BY <1>1, <1>4, <2>6, Zenon DEF Invocations
    <3> QED BY <2>4, <3>1, <3>2 DEF Owes
  <2> QED BY <2>5, <2>6
<1>5. CASE due' = [r \in Proc |-> FALSE] BY <1>5
<1>6. CASE o = "prepare" BY <1>2, <1>3, <1>6 DEF Start
<1>7. CASE o = "inject"
  <2>1. due' = [r \in Proc |-> FALSE] \/ UNCHANGED <<pc, own, due>>
    BY <1>7, Zenon DEF Start
  <2> QED BY <1>2, <1>5, <2>1
<1>8. CASE o = "remove"
  <2>1. "remove" # "prepare" /\ "remove" # "inject" OBVIOUS
  <2>2. \/ UNCHANGED <<pc, own, due>>
        \/ /\ pc' = [pc EXCEPT ![q] = "search"]
           /\ count' = [count EXCEPT ![q] = CountOf(size)] /\ UNCHANGED <<pids, hit, mine>>
           /\ due' = [due EXCEPT ![q] = o = "remove" /\ Settled]
    BY <1>8, <2>1, Zenon DEF Start
  <2> QED BY <1>2, <1>4, <1>8, <2>2
<1> QED BY <1>6, <1>7, <1>8

\* What a removal that was begun with no injection under way leaves when it reports
\* success: a dd that has yet to open the image dies on it, and what takes space is a file
\* without a name that a dd its search has missed has open.
Released ==
  \A p \in Proc : due[p] /\ pc[p] = "idle" =>
    /\ \A d \in Live : dd[d].phase = "fork" => dd[d].killed # "no"
    /\ \A i \in Inode : blocks[i] # {} => i # image /\ Opened(i, Dd)
    /\ Live = {} => Used = 0

\* The safety half of Freed, for mount points of every size and any number of
\* invocations and dd: all that is left to happen is that these dd end.
THEOREM SpaceReleased == Spec => []Released
<1> DEFINE Owing == \A p \in Proc : Owes(p)
<1>1. Init => Owing
  BY DEF Init, Owes
<1>2. ASSUME IInv, Owing, [Next]_vars PROVE Owing'
  <2> SUFFICES ASSUME NEW p \in Proc PROVE Owes(p)'
    OBVIOUS
  <2>0. Owes(p) BY <1>2
  <2>1. CASE UNCHANGED vars
    BY <2>0, <2>1 DEF vars, fs, own, Owes, Settled, Live, Doomed, Emptied
  <2>2. ASSUME ~due'[p] PROVE Owes(p)' BY <2>2 DEF Owes
  <2>3. ASSUME NEW q \in Proc, Step(q) \/ Crash(q), due'[p] PROVE Owes(p)'
    BY <1>2, <2>0, <2>3, StepOwes
  <2>4. ASSUME NEW q \in Proc, NEW o \in {"prepare", "inject", "remove"}, Start(q, o), due'[p]
        PROVE  Owes(p)'
    BY <1>2, <2>0, <2>4, StartOwes
  <2>5. ASSUME NEW d \in Dd, DdStep(d), due'[p] PROVE Owes(p)'
    <3>1. due[p] BY <2>5 DEF DdStep, Fork, Open, WriteBlock, DdEnds
    <3> QED BY <1>2, <2>0, <2>5, <3>1, DdOwes
  <2>6. CASE Grow BY <2>2, <2>6 DEF Grow
  <2>7. CASE Remount
    BY <2>0, <2>7 DEF Remount, own, Owes, Settled, Live, Doomed, Emptied
  <2> QED BY <1>2, <2>1, <2>2, <2>3, <2>4, <2>5, <2>6, <2>7 DEF Next
<1>3. ASSUME IInv, Owing PROVE Released
  <2> SUFFICES ASSUME NEW p \in Proc, due[p], pc[p] = "idle"
               PROVE  /\ \A d \in Live : dd[d].phase = "fork" => dd[d].killed # "no"
                      /\ \A i \in Inode : blocks[i] # {} => i # image /\ Opened(i, Dd)
                      /\ Live = {} => Used = 0
    BY DEF Released
  <2>1. Doomed /\ Emptied BY <1>3 DEF Owes
  <2>2. \A i \in Inode : blocks[i] # {} => i # image /\ Opened(i, Dd)
    BY <1>3, <2>1, SpaceAssumption DEF IInv, Files, Emptied
  <2>3. Live = {} => Taken = {}
    BY <1>3, <2>2 DEF Opened, Live, Taken, IInv, Files
  <2> QED BY <2>1, <2>2, <2>3, UsedIsTaken, FS_EmptySet DEF Doomed, Live
<1> QED BY <1>1, <1>2, <1>3, Invariant, PTL DEF Spec
================================================================================
