----------------------------- MODULE PathProofs -----------------------------
(***************************************************************************)
(* astar finds a shortest path, on a map of any size and whatever cells of *)
(* it are walkable.                                                        *)
(*                                                                         *)
(* Costs are in order because the root of 2 is no quotient.  The estimate  *)
(* is consistent, so a cell that is taken from the frontier at its score   *)
(* is never improved: SearchInv.  From it, no walk is cheaper than what    *)
(* the search found (NoneCheaper), and what it found is a walk (PathWalks).*)
(***************************************************************************)
EXTENDS PathFinding, FiniteSetTheorems, SequenceTheorems, WellFoundedInduction, TLAPS

-----------------------------------------------------------------------------
(* Numbers. *)

\* A set of numbers that holds 0 and the next of each of its own holds them all: of the intervals
\* that end in a number it lacks, one would contain no other.
LEMMA Induct ==
  ASSUME NEW S \in SUBSET Nat, 0 \in S, \A n \in S : n + 1 \in S
  PROVE  S = Nat
<1> SUFFICES ASSUME NEW m \in Nat, m \notin S PROVE FALSE
  OBVIOUS
<1> DEFINE U == 0 .. m
           T == {0 .. i : i \in U \ S}
<1>1. IsFiniteSet(U)
  BY FS_Interval
<1>2. IsWellFoundedOn(StrictSubsetOrdering(U), SUBSET U)
  BY <1>1, FS_StrictSubsetOrderingWellFounded, FS_FiniteSubsetsOfFinite
<1>3. T \subseteq SUBSET U /\ T # {}
  <2>1. ASSUME NEW j \in U PROVE 0 .. j \in SUBSET U
    OBVIOUS
  <2>2. m \in U \ S
    OBVIOUS
  <2> HIDE DEF U
  <2> QED BY <2>1, <2>2
<1>4. m \in U
  OBVIOUS
<1> HIDE DEF T
<1>5. \E x \in T : \A y \in T : ~ (<<y, x>> \in StrictSubsetOrdering(U))
  <2> HIDE DEF U
  <2> QED BY <1>2, <1>3, WFMin
<1>6. PICK i \in U \ S : \A y \in U \ S : ~ (<<0 .. y, 0 .. i>> \in StrictSubsetOrdering(U))
  BY <1>5 DEF T
<1>7. i \in 0 .. m /\ i # 0
  BY <1>6
<1>8. i - 1 \in U /\ i - 1 \in Nat /\ (i - 1) + 1 = i
  BY <1>7
<1>9. i - 1 \notin S
  BY <1>6, <1>8
<1>10. (0 .. i - 1) \subseteq (0 .. i) /\ (0 .. i - 1) # (0 .. i)
  BY <1>7
<1>11. (0 .. i - 1) \in SUBSET U /\ (0 .. i) \in SUBSET U
  BY <1>7
<1>12. <<0 .. i - 1, 0 .. i>> \in StrictSubsetOrdering(U)
  BY <1>10, <1>11 DEF StrictSubsetOrdering
<1> QED BY <1>6, <1>8, <1>9, <1>12

\* A larger number has the larger square, and a larger square is of a larger number.
LEMMA Squares ==
  ASSUME NEW x \in Nat, NEW y \in Nat
  PROVE  /\ x < y => x * x < y * y
         /\ x <= y => x * x <= y * y
         /\ x * x < y * y => x < y
<1>1. ASSUME NEW u \in Nat, NEW v \in Nat, u < v PROVE u * u < v * v
  <2> DEFINE k == v - u
  <2>1. k \in Nat /\ k > 0 /\ v = u + k
    BY <1>1
  <2> HIDE DEF k
  <2>2. v * v = u * u + 2 * (u * k) + k * k
    BY <2>1
  <2>3. u * k \in Nat /\ k * k \in Nat /\ k * k > 0 /\ u * u \in Nat
    BY <2>1
  <2> QED BY <2>2, <2>3
<1>2. x < y \/ x = y \/ y < x
  OBVIOUS
<1>3. x * x \in Nat /\ y * y \in Nat
  OBVIOUS
<1> QED BY <1>1, <1>2, <1>3

\* p / q and r / s are at least, or at most, the root of 2: so is their product at least, or at most, 2.
LEMMA Products ==
  ASSUME NEW p \in Nat, NEW q \in Nat, NEW r \in Nat, NEW s \in Nat
  PROVE  /\ p * p >= 2 * (q * q) /\ r * r >= 2 * (s * s) => p * r >= 2 * (q * s)
         /\ p * p <= 2 * (q * q) /\ r * r <= 2 * (s * s) => p * r <= 2 * (q * s)
<1> DEFINE X == p * p
           Y == r * r
           U == q * q
           V == s * s
           m == p * r
           n == 2 * (q * s)
<1>1. X \in Nat /\ Y \in Nat /\ U \in Nat /\ V \in Nat /\ m \in Nat /\ n \in Nat
  OBVIOUS
<1>2. m * m = X * Y /\ n * n = 4 * (U * V)
  OBVIOUS
<1> HIDE DEF X, Y, U, V, m, n
<1>3. U * V \in Nat /\ X * Y \in Nat
  BY <1>1
<1>4. ASSUME NEW a \in Nat, NEW b \in Nat, NEW c \in Nat, a <= b PROVE a * c <= b * c
  <2> DEFINE k == b - a
  <2>1. k \in Nat /\ b = a + k
    BY <1>4
  <2> HIDE DEF k
  <2>2. b * c = a * c + k * c /\ k * c \in Nat /\ a * c \in Nat
    BY <2>1
  <2> QED BY <2>2
<1>5. ASSUME X >= 2 * U, Y >= 2 * V PROVE m >= n
  <2>1. (2 * U) * Y <= X * Y
    BY <1>1, <1>4, <1>5
  <2>2. (2 * V) * (2 * U) <= Y * (2 * U)
    BY <1>1, <1>4, <1>5
  <2>3. (2 * V) * (2 * U) = 4 * (U * V) /\ Y * (2 * U) = (2 * U) * Y
    BY <1>1
  <2>4. 4 * (U * V) <= X * Y
    <3>1. (2 * U) * Y \in Nat
      BY <1>1
    <3> QED BY <1>3, <2>1, <2>2, <2>3, <3>1
  <2>5. ~(m * m < n * n)
    BY <1>2, <1>3, <2>4
  <2>6. ~(m < n)
    BY <1>1, <2>5, Squares
  <2> QED BY <1>1, <2>6
<1>6. ASSUME X <= 2 * U, Y <= 2 * V PROVE m <= n
  <2>1. X * Y <= (2 * U) * Y
    BY <1>1, <1>4, <1>6
  <2>2. Y * (2 * U) <= (2 * V) * (2 * U)
    BY <1>1, <1>4, <1>6
  <2>3. (2 * V) * (2 * U) = 4 * (U * V) /\ Y * (2 * U) = (2 * U) * Y
    BY <1>1
  <2>4. X * Y <= 4 * (U * V)
    <3>1. (2 * U) * Y \in Nat
      BY <1>1
    <3> QED BY <1>3, <2>1, <2>2, <2>3, <3>1
  <2>5. ~(n * n < m * m)
    BY <1>2, <1>3, <2>4
  <2>6. ~(n < m)
    BY <1>1, <2>5, Squares
  <2> QED BY <1>1, <2>6
<1> QED BY <1>5, <1>6 DEF X, Y, U, V, m, n

-----------------------------------------------------------------------------
(* Costs: they are compared as the numbers a + b * sqrt(2), which are in order. *)

\* p > q * sqrt(2), and p < q * sqrt(2).
Over(p, q)  == p * p > 2 * (q * q)
Under(p, q) == p * p < 2 * (q * q)

\* Two that are over, or one that is not under and one over, are over together; so with under.
LEMMA Together ==
  ASSUME NEW p \in Nat, NEW q \in Nat, NEW r \in Nat, NEW s \in Nat
  PROVE  /\ ~Under(p, q) /\ Over(r, s) => Over(p + r, q + s)
         /\ ~Over(p, q) /\ Under(r, s) => Under(p + r, q + s)
<1> DEFINE X == p * p
           Y == r * r
           U == q * q
           V == s * s
           m == p * r
           n == q * s
<1>1. X \in Nat /\ Y \in Nat /\ U \in Nat /\ V \in Nat /\ m \in Nat /\ n \in Nat
  OBVIOUS
<1>2. (p + r) * (p + r) = X + 2 * m + Y
  OBVIOUS
<1>3. (q + s) * (q + s) = U + 2 * n + V
  OBVIOUS
<1>4. /\ X >= 2 * U /\ Y >= 2 * V => m >= 2 * n
      /\ X <= 2 * U /\ Y <= 2 * V => m <= 2 * n
  BY Products
<1>5. /\ Under(p, q) <=> X < 2 * U
      /\ Over(p, q) <=> X > 2 * U
      /\ Under(r, s) <=> Y < 2 * V
      /\ Over(r, s) <=> Y > 2 * V
  BY DEF Under, Over
<1>6. /\ Over(p + r, q + s) <=> X + 2 * m + Y > 2 * (U + 2 * n + V)
      /\ Under(p + r, q + s) <=> X + 2 * m + Y < 2 * (U + 2 * n + V)
  BY <1>2, <1>3 DEF Under, Over
<1> HIDE DEF X, Y, U, V, m, n
<1> QED BY <1>1, <1>4, <1>5, <1>6

\* What is over is so with more before the root and less under it; and the other way.
LEMMA Widened ==
  ASSUME NEW p \in Nat, NEW q \in Nat, NEW r \in Nat, NEW s \in Nat
  PROVE  /\ Over(p, q) /\ p <= r /\ s <= q => Over(r, s)
         /\ Under(p, q) /\ r <= p /\ q <= s => Under(r, s)
<1>1. p * p \in Nat /\ q * q \in Nat /\ r * r \in Nat /\ s * s \in Nat
  OBVIOUS
<1>2. /\ p <= r => p * p <= r * r
      /\ s <= q => s * s <= q * q
      /\ r <= p => r * r <= p * p
      /\ q <= s => q * q <= s * s
  BY Squares
<1> DEFINE X == p * p
           Y == r * r
           U == q * q
           V == s * s
<1>3. /\ Over(p, q) <=> X > 2 * U
      /\ Under(p, q) <=> X < 2 * U
      /\ Over(r, s) <=> Y > 2 * V
      /\ Under(r, s) <=> Y < 2 * V
  BY DEF Over, Under
<1> HIDE DEF X, Y, U, V
<1>4. X \in Nat /\ U \in Nat /\ Y \in Nat /\ V \in Nat
  BY <1>1 DEF X, Y, U, V
<1>5. /\ p <= r => X <= Y
      /\ s <= q => V <= U
      /\ r <= p => Y <= X
      /\ q <= s => U <= V
  BY <1>2 DEF X, Y, U, V
<1> QED BY <1>3, <1>4, <1>5

LEMMA PositiveCases ==
  ASSUME NEW a \in Int, NEW b \in Int
  PROVE  /\ a >= 0 /\ b >= 0 => (Positive(a, b) <=> a + b > 0)
         /\ a > 0 /\ b < 0 => (Positive(a, b) <=> Over(a, -b))
         /\ a < 0 /\ b > 0 => (Positive(a, b) <=> Under(-a, b))
         /\ a <= 0 /\ b <= 0 => ~Positive(a, b)
<1>1. (-a) * (-a) = a * a /\ (-b) * (-b) = b * b
  OBVIOUS
<1>2. 2 * b * b = 2 * (b * b)
  OBVIOUS
<1> QED BY <1>1, <1>2 DEF Positive, Over, Under

\* The sum of two positive numbers is positive: of one over and one under.
LEMMA MixedSum ==
  ASSUME NEW p \in Nat, NEW q \in Nat, NEW r \in Nat, NEW s \in Nat, Over(p, q), Under(r, s)
  PROVE  Positive(p - r, s - q)
<1>1. CASE p >= r /\ s >= q
  <2>1. ~(p = r /\ s = q)
    <3>1. p * p \in Nat /\ q * q \in Nat
      OBVIOUS
    <3> QED BY <3>1 DEF Over, Under
  <2> QED BY <1>1, <2>1, PositiveCases
<1>2. CASE p > r /\ s < q
  <2> DEFINE a == p - r
             b == q - s
  <2>1. a \in Nat /\ b \in Nat /\ p = a + r /\ q = b + s /\ a > 0 /\ b > 0 /\ s - q = -b
    BY <1>2
  <2> HIDE DEF a, b
  <2>2. ~Over(a, b) => Under(a + r, b + s)
    BY <2>1, Together
  <2>3. Over(a, b)
    <3>1. ~(Over(p, q) /\ Under(p, q))
      <4>1. p * p \in Nat /\ q * q \in Nat
        OBVIOUS
      <4> QED BY <4>1 DEF Over, Under
    <3> QED BY <2>1, <2>2, <3>1
  <2>4. Positive(a, -b)
    <3>1. -b \in Int /\ -b < 0 /\ -(-b) = b
      BY <2>1
    <3> QED BY <2>1, <2>3, <3>1, PositiveCases
  <2> QED BY <2>1, <2>4 DEF a
<1>3. CASE p < r /\ s > q
  <2> DEFINE a == r - p
             b == s - q
  <2>1. a \in Nat /\ b \in Nat /\ r = a + p /\ s = b + q /\ a > 0 /\ b > 0 /\ p - r = -a
    BY <1>3
  <2> HIDE DEF a, b
  <2>2. ~Under(a, b) => Over(a + p, b + q)
    BY <2>1, Together
  <2>3. Under(a, b)
    <3>1. ~(Over(r, s) /\ Under(r, s))
      <4>1. r * r \in Nat /\ s * s \in Nat
        OBVIOUS
      <4> QED BY <4>1 DEF Over, Under
    <3> QED BY <2>1, <2>2, <3>1
  <2>4. Positive(-a, b)
    <3>1. -a \in Int /\ -a < 0 /\ -(-a) = a
      BY <2>1
    <3> QED BY <2>1, <2>3, <3>1, PositiveCases
  <2> QED BY <2>1, <2>4 DEF b
<1>4. CASE p <= r /\ s <= q
  <2>1. Over(r, s)
    BY <1>4, Widened
  <2>2. r * r \in Nat /\ s * s \in Nat
    OBVIOUS
  <2> QED BY <2>1, <2>2 DEF Over, Under
<1> QED BY <1>1, <1>2, <1>3, <1>4

LEMMA PositiveSum ==
  ASSUME NEW a \in Int, NEW b \in Int, NEW c \in Int, NEW d \in Int, Positive(a, b), Positive(c, d)
  PROVE  Positive(a + c, b + d)
<1> DEFINE Sum(v, w, x, y) == Positive(v, w) /\ Positive(x, y) => Positive(v + x, w + y)
<1>1. ASSUME NEW v \in Int, NEW w \in Int, NEW x \in Int, NEW y \in Int, v >= 0, w >= 0
      PROVE  Sum(v, w, x, y)
  <2> SUFFICES ASSUME Positive(v, w), Positive(x, y) PROVE Positive(v + x, w + y)
    OBVIOUS
  <2>1. v + w > 0 /\ v + x \in Int /\ w + y \in Int
    BY <1>1, PositiveCases
  <2>2. CASE x >= 0 /\ y >= 0
    <3>1. x + y > 0
      BY <2>2, PositiveCases
    <3> QED BY <1>1, <2>1, <2>2, <3>1, PositiveCases
  <2>3. CASE x > 0 /\ y < 0
    <3>1. Over(x, -y) /\ x \in Nat /\ -y \in Nat
      BY <2>3, PositiveCases
    <3>2. CASE w + y >= 0
      BY <1>1, <2>1, <2>3, <3>2, PositiveCases
    <3>3. CASE w + y < 0
      <4>1. v + x \in Nat /\ -(w + y) \in Nat /\ x <= v + x /\ -(w + y) <= -y /\ v + x > 0
        BY <1>1, <2>3, <3>3
      <4>2. Over(v + x, -(w + y))
        BY <3>1, <4>1, Widened
      <4> QED BY <2>1, <3>3, <4>1, <4>2, PositiveCases
    <3> QED BY <2>1, <3>2, <3>3
  <2>4. CASE x < 0 /\ y > 0
    <3>1. Under(-x, y) /\ y \in Nat /\ -x \in Nat
      BY <2>4, PositiveCases
    <3>2. CASE v + x >= 0
      BY <1>1, <2>1, <2>4, <3>2, PositiveCases
    <3>3. CASE v + x < 0
      <4>1. w + y \in Nat /\ -(v + x) \in Nat /\ y <= w + y /\ -(v + x) <= -x /\ w + y > 0
        BY <1>1, <2>4, <3>3
      <4>2. Under(-(v + x), w + y)
        BY <3>1, <4>1, Widened
      <4> QED BY <2>1, <3>3, <4>1, <4>2, PositiveCases
    <3> QED BY <2>1, <3>2, <3>3
  <2>5. CASE x <= 0 /\ y <= 0
    BY <2>5, PositiveCases
  <2> QED BY <2>2, <2>3, <2>4, <2>5
<1>2. ASSUME NEW v \in Int, NEW w \in Int, NEW x \in Int, NEW y \in Int, v > 0, w < 0, x < 0, y > 0
      PROVE  Sum(v, w, x, y)
  <2> SUFFICES ASSUME Positive(v, w), Positive(x, y) PROVE Positive(v + x, w + y)
    OBVIOUS
  <2>1. v \in Nat /\ -w \in Nat /\ -x \in Nat /\ y \in Nat
    BY <1>2
  <2>2. Over(v, -w) /\ Under(-x, y)
    BY <1>2, PositiveCases
  <2>3. Positive(v - (-x), y - (-w))
    BY <2>1, <2>2, MixedSum
  <2>4. v - (-x) = v + x /\ y - (-w) = w + y
    OBVIOUS
  <2> QED BY <2>3, <2>4
<1>3. ASSUME NEW v \in Int, NEW w \in Int, NEW x \in Int, NEW y \in Int, v > 0, w < 0, x > 0, y < 0
      PROVE  Sum(v, w, x, y)
  <2> SUFFICES ASSUME Positive(v, w), Positive(x, y) PROVE Positive(v + x, w + y)
    OBVIOUS
  <2>1. v \in Nat /\ -w \in Nat /\ x \in Nat /\ -y \in Nat
    BY <1>3
  <2>2. Over(v, -w) /\ Over(x, -y)
    BY <1>3, PositiveCases
  <2>3. ~Under(v, -w)
    <3>1. v * v \in Nat /\ (-w) * (-w) \in Nat
      BY <2>1
    <3> QED BY <2>2, <3>1 DEF Over, Under
  <2>4. Over(v + x, (-w) + (-y))
    BY <2>1, <2>2, <2>3, Together
  <2>5. (-w) + (-y) = -(w + y) /\ v + x > 0 /\ w + y < 0 /\ v + x \in Int /\ w + y \in Int
    BY <1>3
  <2> QED BY <2>4, <2>5, PositiveCases
<1>4. ASSUME NEW v \in Int, NEW w \in Int, NEW x \in Int, NEW y \in Int, v < 0, w > 0, x < 0, y > 0
      PROVE  Sum(v, w, x, y)
  <2> SUFFICES ASSUME Positive(v, w), Positive(x, y) PROVE Positive(v + x, w + y)
    OBVIOUS
  <2>1. -v \in Nat /\ w \in Nat /\ -x \in Nat /\ y \in Nat
    BY <1>4
  <2>2. Under(-v, w) /\ Under(-x, y)
    BY <1>4, PositiveCases
  <2>3. ~Over(-v, w)
    <3>1. w * w \in Nat /\ (-v) * (-v) \in Nat
      BY <2>1
    <3> QED BY <2>2, <3>1 DEF Over, Under
  <2>4. Under((-v) + (-x), w + y)
    BY <2>1, <2>2, <2>3, Together
  <2>5. (-v) + (-x) = -(v + x) /\ v + x < 0 /\ w + y > 0 /\ v + x \in Int /\ w + y \in Int
    BY <1>4
  <2> QED BY <2>4, <2>5, PositiveCases
<1>5. ASSUME NEW v \in Int, NEW w \in Int, NEW x \in Int, NEW y \in Int, Sum(x, y, v, w)
      PROVE  Sum(v, w, x, y)
  <2>1. v + x = x + v /\ w + y = y + w
    OBVIOUS
  <2> QED BY <1>5, <2>1
<1>6. /\ \/ a >= 0 /\ b >= 0
         \/ a > 0 /\ b < 0
         \/ a < 0 /\ b > 0
      /\ \/ c >= 0 /\ d >= 0
         \/ c > 0 /\ d < 0
         \/ c < 0 /\ d > 0
  BY DEF Positive
<1> HIDE DEF Sum
<1>7. Sum(a, b, c, d)
  <2>1. CASE a >= 0 /\ b >= 0
    BY <1>1, <2>1
  <2>2. CASE c >= 0 /\ d >= 0
    BY <1>1, <1>5, <2>2
  <2>3. CASE (a > 0 /\ b < 0) /\ (c > 0 /\ d < 0)
    BY <1>3, <2>3
  <2>4. CASE (a < 0 /\ b > 0) /\ (c < 0 /\ d > 0)
    BY <1>4, <2>4
  <2>5. CASE (a > 0 /\ b < 0) /\ (c < 0 /\ d > 0)
    BY <1>2, <2>5
  <2>6. CASE (a < 0 /\ b > 0) /\ (c > 0 /\ d < 0)
    BY <1>2, <1>5, <2>6
  <2> QED BY <1>6, <2>1, <2>2, <2>3, <2>4, <2>5, <2>6
<1> QED BY <1>7 DEF Sum

\* The root of 2 is not the quotient of two numbers: of two such, their halves would be smaller ones.
LEMMA Irrational ==
  ASSUME NEW a \in Nat, NEW b \in Nat, a * a = 2 * (b * b)
  PROVE  b = 0
<1> DEFINE S == {n \in Nat : \A p, q \in 0 .. n : p * p = 2 * (q * q) => q = 0}
<1>1. 0 \in S
  OBVIOUS
<1>2. ASSUME NEW n \in S PROVE n + 1 \in S
  <2> SUFFICES ASSUME NEW p \in 0 .. n + 1, NEW q \in 0 .. n + 1, p * p = 2 * (q * q), q # 0 PROVE FALSE
    OBVIOUS
  <2>1. PICK k \in Nat : p = 2 * k \/ p = 2 * k + 1
    <3>1. p \div 2 \in Nat /\ (p = 2 * (p \div 2) \/ p = 2 * (p \div 2) + 1)
      OBVIOUS
    <3> QED BY <3>1
  <2>2. q * q \in Nat /\ k * k \in Nat /\ q * q > 0
    OBVIOUS
  <2>3. p = 2 * k
    <3>1. CASE p = 2 * k + 1
      <4>1. p * p = 4 * (k * k) + 4 * k + 1
        BY <3>1
      <4>2. 2 * (q * q) = 2 * (2 * (k * k) + 2 * k) + 1
        BY <4>1, <2>2
      <4> DEFINE u == q * q
                 v == 2 * (k * k) + 2 * k
      <4>3. u \in Nat /\ v \in Nat /\ 2 * u = 2 * v + 1
        BY <4>2, <2>2
      <4> HIDE DEF u, v
      <4> QED BY <4>3
    <3> QED BY <2>1, <3>1
  <2>4. p * p = 4 * (k * k)
    BY <2>3
  <2>5. q * q = 2 * (k * k)
    BY <2>2, <2>4
  <2>6. q * q < p * p /\ k * k < q * q
    BY <2>2, <2>4, <2>5
  <2>7. q < p /\ k < q
    BY <2>6, Squares
  <2>8. q \in 0 .. n /\ k \in 0 .. n
    BY <2>7
  <2>9. k = 0
    BY <2>5, <2>8
  <2> QED BY <2>5, <2>9
<1>3. S = Nat
  <2> HIDE DEF S
  <2>1. S \in SUBSET Nat
    BY DEF S
  <2> QED BY <1>1, <1>2, <2>1, Induct
<1>4. a + b \in Nat /\ a \in 0 .. a + b /\ b \in 0 .. a + b
  OBVIOUS
<1>5. a + b \in S
  <2> HIDE DEF S
  <2> QED BY <1>3, <1>4
<1> QED BY <1>4, <1>5

LEMMA Trichotomy ==
  ASSUME NEW a \in Int, NEW b \in Int
  PROVE  /\ Positive(a, b) \/ Positive(-a, -b) \/ (a = 0 /\ b = 0)
         /\ ~(Positive(a, b) /\ Positive(-a, -b)) /\ ~Positive(0, 0)
<1>1. ~Positive(0, 0)
  BY DEF Positive
<1>2. ~(Positive(a, b) /\ Positive(-a, -b))
  <2>1. a + (-a) = 0 /\ b + (-b) = 0
    OBVIOUS
  <2>2. -a \in Int /\ -b \in Int
    OBVIOUS
  <2>3. Positive(a, b) /\ Positive(-a, -b) => Positive(a + (-a), b + (-b))
    BY <2>2, PositiveSum
  <2> QED BY <1>1, <2>1, <2>3
<1>3. ASSUME NEW p \in Int, NEW q \in Int, p > 0, q < 0 PROVE Positive(p, q) \/ Positive(-p, -q)
  <2>1. p \in Nat /\ -q \in Nat /\ -q # 0
    BY <1>3
  <2>2. p * p # 2 * ((-q) * (-q))
    BY <2>1, Irrational
  <2>3. p * p \in Nat /\ (-q) * (-q) \in Nat
    BY <2>1
  <2>4. Over(p, -q) \/ Under(p, -q)
    BY <2>2, <2>3 DEF Over, Under
  <2>5. -p \in Int /\ -q \in Int /\ -p < 0 /\ -q > 0 /\ -(-p) = p
    BY <1>3
  <2> QED BY <1>3, <2>4, <2>5, PositiveCases
<1>4. CASE a > 0 /\ b < 0
  BY <1>1, <1>2, <1>3, <1>4
<1>5. CASE a < 0 /\ b > 0
  <2>1. -a \in Int /\ -b \in Int /\ -a > 0 /\ -b < 0 /\ -(-a) = a /\ -(-b) = b
    BY <1>5
  <2> QED BY <1>1, <1>2, <1>3, <2>1
<1>6. CASE a >= 0 /\ b >= 0
  <2>1. Positive(a, b) <=> a + b > 0
    BY <1>6, PositiveCases
  <2> QED BY <1>1, <1>2, <1>6, <2>1
<1>7. CASE a <= 0 /\ b <= 0
  <2>1. -a \in Int /\ -b \in Int /\ -a >= 0 /\ -b >= 0
    BY <1>7
  <2>2. Positive(-a, -b) <=> (-a) + (-b) > 0
    BY <2>1, PositiveCases
  <2> QED BY <1>1, <1>2, <1>7, <2>1, <2>2
<1> QED BY <1>4, <1>5, <1>6, <1>7

-----------------------------------------------------------------------------
(* The order of the costs. *)

Costs == Int \X Int

AtMost(v, w) == ~Less(w, v)

LEMMA PlusType ==
  ASSUME NEW v \in Costs, NEW w \in Costs
  PROVE  /\ Plus(v, w) \in Costs /\ Plus(v, w)[1] = v[1] + w[1] /\ Plus(v, w)[2] = v[2] + w[2]
         /\ v = <<v[1], v[2]>> /\ v[1] \in Int /\ v[2] \in Int
  BY DEF Plus, Costs

LEMMA SamePair ==
  ASSUME NEW v \in Costs, NEW w \in Costs, v[1] = w[1], v[2] = w[2]
  PROVE  v = w
  BY DEF Costs

LEMMA LessTransitive ==
  ASSUME NEW u \in Costs, NEW v \in Costs, NEW w \in Costs, Less(u, v), Less(v, w)
  PROVE  Less(u, w)
<1> DEFINE a == v[1] - u[1]
           b == v[2] - u[2]
           c == w[1] - v[1]
           d == w[2] - v[2]
<1>1. a \in Int /\ b \in Int /\ c \in Int /\ d \in Int
  BY DEF Costs
<1>2. a + c = w[1] - u[1] /\ b + d = w[2] - u[2]
  BY DEF Costs
<1>3. Positive(a, b) /\ Positive(c, d)
  BY DEF Less
<1> HIDE DEF a, b, c, d
<1>4. Positive(a + c, b + d)
  BY <1>1, <1>3, PositiveSum
<1> QED BY <1>2, <1>4 DEF Less

LEMMA LessTotal ==
  ASSUME NEW v \in Costs, NEW w \in Costs
  PROVE  /\ Less(v, w) \/ Less(w, v) \/ v = w
         /\ ~(Less(v, w) /\ Less(w, v)) /\ ~Less(v, v)
<1> DEFINE a == w[1] - v[1]
           b == w[2] - v[2]
<1>1. a \in Int /\ b \in Int /\ -a = v[1] - w[1] /\ -b = v[2] - w[2]
  BY DEF Costs
<1>2. a = 0 /\ b = 0 => v = w
  <2>1. v = <<v[1], v[2]>> /\ w = <<w[1], w[2]>> /\ v[1] \in Int /\ v[2] \in Int /\ w[1] \in Int /\ w[2] \in Int
    BY DEF Costs
  <2> QED BY <2>1
<1>3. /\ Less(v, w) <=> Positive(a, b)
      /\ Less(w, v) <=> Positive(-a, -b)
  BY <1>1 DEF Less
<1>4. ~Less(v, v)
  <2>1. v[1] - v[1] = 0 /\ v[2] - v[2] = 0
    BY DEF Costs
  <2>2. ~Positive(0, 0)
    BY Trichotomy
  <2> QED BY <2>1, <2>2 DEF Less
<1> HIDE DEF a, b
<1> QED BY <1>1, <1>2, <1>3, <1>4, Trichotomy

LEMMA AtMostOrder ==
  ASSUME NEW u \in Costs, NEW v \in Costs, NEW w \in Costs
  PROVE  /\ AtMost(u, v) /\ AtMost(v, w) => AtMost(u, w)
         /\ AtMost(u, v) /\ AtMost(v, u) => u = v
         /\ Less(u, v) /\ AtMost(v, w) => Less(u, w)
         /\ AtMost(u, v) /\ Less(v, w) => Less(u, w)
         /\ AtMost(u, u) /\ (AtMost(u, v) \/ Less(v, u)) /\ (Less(u, v) => AtMost(u, v))
<1>1. /\ AtMost(u, v) <=> Less(u, v) \/ u = v
      /\ AtMost(v, w) <=> Less(v, w) \/ v = w
      /\ AtMost(u, w) <=> Less(u, w) \/ u = w
      /\ AtMost(v, u) <=> Less(v, u) \/ v = u
      /\ AtMost(u, u)
  BY LessTotal DEF AtMost
<1>2. Less(u, v) /\ Less(v, w) => Less(u, w)
  BY LessTransitive
<1>3. /\ Less(u, v) \/ Less(v, u) \/ u = v
      /\ ~(Less(u, v) /\ Less(v, u))
  BY LessTotal
<1> QED BY <1>1, <1>2, <1>3

\* A sum is in the order of what is added to.
LEMMA PlusOrder ==
  ASSUME NEW u \in Costs, NEW v \in Costs, NEW w \in Costs
  PROVE  /\ AtMost(Plus(u, w), Plus(v, w)) <=> AtMost(u, v)
         /\ Less(Plus(u, w), Plus(v, w)) <=> Less(u, v)
         /\ AtMost(Plus(w, u), Plus(w, v)) <=> AtMost(u, v)
         /\ Plus(Plus(u, v), w) = Plus(u, Plus(v, w))
         /\ Plus(u, w) = Plus(v, w) => u = v
<1>1. /\ u = <<u[1], u[2]>> /\ v = <<v[1], v[2]>> /\ w = <<w[1], w[2]>>
      /\ u[1] \in Int /\ u[2] \in Int /\ v[1] \in Int /\ v[2] \in Int /\ w[1] \in Int /\ w[2] \in Int
  BY DEF Costs
<1>2. /\ (v[1] + w[1]) - (u[1] + w[1]) = v[1] - u[1] /\ (v[2] + w[2]) - (u[2] + w[2]) = v[2] - u[2]
      /\ (u[1] + w[1]) - (v[1] + w[1]) = u[1] - v[1] /\ (u[2] + w[2]) - (v[2] + w[2]) = u[2] - v[2]
      /\ (w[1] + v[1]) - (w[1] + u[1]) = v[1] - u[1] /\ (w[2] + v[2]) - (w[2] + u[2]) = v[2] - u[2]
      /\ (w[1] + u[1]) - (w[1] + v[1]) = u[1] - v[1] /\ (w[2] + u[2]) - (w[2] + v[2]) = u[2] - v[2]
  BY <1>1
<1>3. /\ Less(Plus(u, w), Plus(v, w)) <=> Less(u, v)
      /\ Less(Plus(v, w), Plus(u, w)) <=> Less(v, u)
      /\ Less(Plus(w, u), Plus(w, v)) <=> Less(u, v)
      /\ Less(Plus(w, v), Plus(w, u)) <=> Less(v, u)
  BY <1>2 DEF Less, Plus
<1>4. (u[1] + v[1]) + w[1] = u[1] + (v[1] + w[1]) /\ (u[2] + v[2]) + w[2] = u[2] + (v[2] + w[2])
  BY <1>1
<1>5. Plus(Plus(u, v), w) = Plus(u, Plus(v, w))
  BY <1>4 DEF Plus
<1>6. Plus(u, w) = Plus(v, w) => u = v
  <2>1. Plus(u, w) = Plus(v, w) => u[1] + w[1] = v[1] + w[1] /\ u[2] + w[2] = v[2] + w[2]
    BY DEF Plus
  <2>2. /\ u[1] + w[1] = v[1] + w[1] => u[1] = v[1]
        /\ u[2] + w[2] = v[2] + w[2] => u[2] = v[2]
    <3>1. \A i, j, k \in Int : i + k = j + k => i = j
      OBVIOUS
    <3>2. u[1] \in Int /\ u[2] \in Int /\ v[1] \in Int /\ v[2] \in Int /\ w[1] \in Int /\ w[2] \in Int
      BY <1>1
    <3> QED BY <3>1, <3>2
  <2>3. u[1] = v[1] /\ u[2] = v[2] => u = v
    BY SamePair
  <2> QED BY <2>1, <2>2, <2>3
<1> QED BY <1>3, <1>5, <1>6 DEF AtMost

-----------------------------------------------------------------------------
(* Steps and estimates. *)

LEMMA StepCostAdds ==
  ASSUME NEW c, NEW d, NEW v \in Costs
  PROVE  StepCost(c, d) \in Costs /\ Plus(v, StepCost(c, d)) \in Costs /\ Less(v, Plus(v, StepCost(c, d)))
<1>1. StepCost(c, d) = <<0, 1>> \/ StepCost(c, d) = <<1, 0>>
  BY DEF StepCost
<1>2. Positive(0, 1) /\ Positive(1, 0)
  BY DEF Positive
<1>3. v[1] \in Int /\ v[2] \in Int
  BY DEF Costs
<1>4. /\ (v[1] + 0) - v[1] = 0 /\ (v[2] + 1) - v[2] = 1
      /\ (v[1] + 1) - v[1] = 1 /\ (v[2] + 0) - v[2] = 0
  BY <1>3
<1>5. Less(v, Plus(v, <<0, 1>>)) /\ Less(v, Plus(v, <<1, 0>>))
  BY <1>2, <1>4 DEF Less, Plus
<1>6. <<0, 1>> \in Costs /\ <<1, 0>> \in Costs
  BY DEF Costs
<1> QED BY <1>1, <1>5, <1>6, PlusType

LEMMA StepCostSame == ASSUME NEW c, NEW d PROVE StepCost(c, d) = StepCost(d, c)
  BY DEF StepCost

LEMMA OctileType ==
  ASSUME NEW c \in Cells, NEW d \in Cells
  PROVE  /\ Octile(c, d) \in Costs /\ Octile(c, c) = <<0, 0>>
         /\ AtMost(<<0, 0>>, Octile(c, d))
<1>1. c[1] \in Int /\ c[2] \in Int /\ d[1] \in Int /\ d[2] \in Int
  BY PathAssumption DEF Cells
<1> DEFINE x == Abs(c[1] - d[1])
           y == Abs(c[2] - d[2])
           m == IF x < y THEN x ELSE y
<1>2. x \in Nat /\ y \in Nat
  BY <1>1 DEF Abs
<1>3. Octile(c, d) = <<x + y - 2 * m, m>>
  BY DEF Octile
<1>4. Abs(c[1] - c[1]) = 0 /\ Abs(c[2] - c[2]) = 0
  BY <1>1 DEF Abs
<1>5. Octile(c, c) = <<0, 0>>
  BY <1>4 DEF Octile
<1> HIDE DEF x, y
<1>6. m \in Nat /\ x + y - 2 * m \in Nat
  BY <1>2
<1>7. AtMost(<<0, 0>>, <<x + y - 2 * m, m>>)
  <2> HIDE DEF m
  <2>1. ~Positive(0 - (x + y - 2 * m), 0 - m)
    BY <1>2, <1>6, PositiveCases
  <2> QED BY <2>1 DEF AtMost, Less
<1> HIDE DEF m
<1>8. <<x + y - 2 * m, m>> \in Costs
  BY <1>6 DEF Costs
<1> QED BY <1>3, <1>5, <1>7, <1>8

LEMMA NeighbourIs ==
  ASSUME NEW ground \in SUBSET Cells, NEW c \in Cells, NEW d \in Neighbours(ground, c)
  PROVE  d \in ground /\ d \in Cells /\ d # c /\ (c \in ground => c \in Neighbours(ground, d))
<1>1. /\ d \in ground /\ d # c /\ Abs(d[1] - c[1]) <= 1 /\ Abs(d[2] - c[2]) <= 1
      /\ <<d[1], c[2]>> \in ground /\ <<c[1], d[2]>> \in ground
  BY DEF Neighbours
<1>2. c[1] \in Int /\ c[2] \in Int /\ d[1] \in Int /\ d[2] \in Int
  BY <1>1, PathAssumption DEF Cells
<1>3. Abs(c[1] - d[1]) <= 1 /\ Abs(c[2] - d[2]) <= 1
  BY <1>1, <1>2 DEF Abs
<1> QED BY <1>1, <1>3 DEF Neighbours

\* An estimate is at most a step and the estimate after it.
LEMMA Consistent ==
  ASSUME NEW ground \in SUBSET Cells, NEW c \in Cells, NEW d \in Neighbours(ground, c), NEW g \in Cells
  PROVE  AtMost(Octile(c, g), Plus(StepCost(c, d), Octile(d, g)))
<1> DEFINE x == Abs(c[1] - g[1])
           y == Abs(c[2] - g[2])
           u == Abs(d[1] - g[1])
           v == Abs(d[2] - g[2])
           m == IF x < y THEN x ELSE y
           n == IF u < v THEN u ELSE v
<1>1. d \in Cells /\ d # c /\ Abs(d[1] - c[1]) <= 1 /\ Abs(d[2] - c[2]) <= 1
  BY NeighbourIs DEF Neighbours
<1>2. /\ c[1] \in Int /\ c[2] \in Int /\ d[1] \in Int /\ d[2] \in Int /\ g[1] \in Int /\ g[2] \in Int
      /\ c = <<c[1], c[2]>> /\ d = <<d[1], d[2]>>
  BY <1>1, PathAssumption DEF Cells
<1>3. c[1] # d[1] \/ c[2] # d[2]
  BY <1>1, <1>2
<1>4. /\ x \in Nat /\ u \in Nat /\ (c[1] = d[1] => x = u)
      /\ (c[1] # d[1] => x = u + 1 \/ u = x + 1)
  <2>1. \A i, j, k \in Int : Abs(j - i) <= 1 =>
          /\ Abs(i - k) \in Nat /\ Abs(j - k) \in Nat
          /\ (i # j => Abs(i - k) = Abs(j - k) + 1 \/ Abs(j - k) = Abs(i - k) + 1)
    BY DEF Abs
  <2> QED BY <1>1, <1>2, <2>1
<1>5. /\ y \in Nat /\ v \in Nat /\ (c[2] = d[2] => y = v)
      /\ (c[2] # d[2] => y = v + 1 \/ v = y + 1)
  <2>1. \A i, j, k \in Int : Abs(j - i) <= 1 =>
          /\ Abs(i - k) \in Nat /\ Abs(j - k) \in Nat
          /\ (i # j => Abs(i - k) = Abs(j - k) + 1 \/ Abs(j - k) = Abs(i - k) + 1)
    BY DEF Abs
  <2> QED BY <1>1, <1>2, <2>1
<1>6. Octile(c, g) = <<x + y - 2 * m, m>> /\ Octile(d, g) = <<u + v - 2 * n, n>>
  BY DEF Octile
<1> HIDE DEF x, y, u, v
<1>7. m \in Nat /\ n \in Nat
  BY <1>4, <1>5
<1>8. CASE c[1] # d[1] /\ c[2] # d[2]
  <2> DEFINE A == (x + y - 2 * m) - (0 + (u + v - 2 * n))
             B == m - (1 + n)
  <2>1. A \in Int /\ B \in Int /\ ((A <= 0 /\ B <= 0) \/ (A = 2 /\ B = -2))
    BY <1>4, <1>5, <1>8
  <2> HIDE DEF A, B
  <2>2. ~Positive(2, -2)
    BY DEF Positive
  <2>3. ~Positive(A, B)
    BY <2>1, <2>2, PositiveCases
  <2>4. StepCost(c, d) = <<0, 1>>
    BY <1>8 DEF StepCost
  <2> QED BY <1>6, <2>3, <2>4 DEF AtMost, Less, Plus, A, B
<1>9. CASE ~(c[1] # d[1] /\ c[2] # d[2])
  <2> DEFINE A == (x + y - 2 * m) - (1 + (u + v - 2 * n))
             B == m - (0 + n)
  <2>1. A \in Int /\ B \in Int /\ ((A <= 0 /\ B <= 0) \/ (A = -2 /\ B = 1))
    BY <1>3, <1>4, <1>5, <1>9
  <2> HIDE DEF A, B
  <2>2. ~Positive(-2, 1)
    BY DEF Positive
  <2>3. ~Positive(A, B)
    BY <2>1, <2>2, PositiveCases
  <2>4. StepCost(c, d) = <<1, 0>>
    BY <1>9 DEF StepCost
  <2> QED BY <1>6, <2>3, <2>4 DEF AtMost, Less, Plus, A, B
<1> QED BY <1>8, <1>9

-----------------------------------------------------------------------------
(* What is chosen and what is iterated. *)

\* Of finitely many costs one is the least: of the sets of those below one, one contains no other.
LEMMA LeastIs ==
  ASSUME NEW costs \in SUBSET Costs, IsFiniteSet(costs), costs # {}
  PROVE  Least(costs) \in costs /\ \A w \in costs : AtMost(Least(costs), w)
<1> DEFINE Below(v) == {w \in costs : Less(w, v)}
           T == {Below(v) : v \in costs}
<1>1. IsWellFoundedOn(StrictSubsetOrdering(costs), SUBSET costs)
  BY FS_StrictSubsetOrderingWellFounded, FS_FiniteSubsetsOfFinite
<1>2. T \subseteq SUBSET costs /\ T # {}
  OBVIOUS
<1> HIDE DEF T
<1>3. \E x \in T : \A y \in T : ~ (<<y, x>> \in StrictSubsetOrdering(costs))
  BY <1>1, <1>2, WFMin
<1>4. PICK v \in costs : \A u \in costs : ~ (<<Below(u), Below(v)>> \in StrictSubsetOrdering(costs))
  BY <1>3 DEF T
<1>5. ASSUME NEW w \in costs, Less(w, v) PROVE FALSE
  <2>1. \A u \in costs : Less(u, w) => Less(u, v)
    BY <1>5, LessTransitive
  <2>2. Below(w) \subseteq Below(v)
    BY <2>1
  <2>3. w \in Below(v) /\ w \notin Below(w)
    BY <1>5, LessTotal
  <2>4. Below(w) \in SUBSET costs /\ Below(v) \in SUBSET costs
    OBVIOUS
  <2> HIDE DEF Below
  <2>5. <<Below(w), Below(v)>> \in StrictSubsetOrdering(costs)
    BY <2>2, <2>3, <2>4 DEF StrictSubsetOrdering
  <2> QED BY <1>4, <2>5
<1>6. \E u \in costs : \A w \in costs : ~Less(w, u)
  BY <1>5
<1> QED BY <1>6 DEF Least, AtMost

\* Of a set and a function on it: a sequence of iterates exists, first up to each number.
Iterates(S, a, g, n) == {f \in [0 .. n -> S] : f[0] = a /\ \A i \in 0 .. n - 1 : f[i + 1] = g[f[i]]}

LEMMA IteratesTo ==
  ASSUME NEW S, NEW a \in S, NEW g \in [S -> S], NEW n \in Nat
  PROVE  Iterates(S, a, g, n) # {}
<1> DEFINE B == {m \in Nat : Iterates(S, a, g, m) # {}}
<1>1. 0 \in B
  <2> DEFINE f == [i \in 0 .. 0 |-> a]
  <2>1. f \in Iterates(S, a, g, 0)
    BY DEF Iterates
  <2> QED BY <2>1
<1>2. ASSUME NEW m \in B PROVE m + 1 \in B
  <2>1. PICK f : f \in Iterates(S, a, g, m)
    OBVIOUS
  <2>2. m \in Nat /\ f \in [0 .. m -> S] /\ f[0] = a /\ \A i \in 0 .. m - 1 : f[i + 1] = g[f[i]]
    BY <2>1 DEF Iterates
  <2> DEFINE h == [i \in 0 .. m + 1 |-> IF i = m + 1 THEN g[f[m]] ELSE f[i]]
  <2>3. f[m] \in S /\ g[f[m]] \in S
    BY <2>2
  <2>4. \A i \in 0 .. m + 1 : i # m + 1 => i \in 0 .. m
    BY <2>2
  <2>5. h \in [0 .. m + 1 -> S]
    BY <2>2, <2>3, <2>4
  <2>6. 0 \in 0 .. m + 1 /\ 0 # m + 1 /\ m + 1 \in 0 .. m + 1
    BY <2>2
  <2>7. h[0] = a /\ h[m + 1] = g[f[m]]
    BY <2>2, <2>6
  <2>8. ASSUME NEW i \in 0 .. (m + 1) - 1 PROVE h[i + 1] = g[h[i]]
    <3>1. i \in 0 .. m + 1 /\ i # m + 1 /\ i + 1 \in 0 .. m + 1
      BY <2>2
    <3>2. h[i] = f[i]
      BY <3>1
    <3>3. CASE i = m
      BY <2>7, <3>2, <3>3
    <3>4. CASE i # m
      <4>1. i \in 0 .. m - 1 /\ i + 1 # m + 1
        BY <2>2, <3>4
      <4>2. h[i + 1] = f[i + 1]
        BY <3>1, <4>1
      <4> QED BY <2>2, <3>2, <4>1, <4>2
    <3> QED BY <3>3, <3>4
  <2> HIDE DEF h
  <2>9. h \in Iterates(S, a, g, m + 1)
    BY <2>5, <2>7, <2>8 DEF Iterates
  <2> QED BY <2>2, <2>9
<1>3. B = Nat
  <2> HIDE DEF B
  <2>1. B \in SUBSET Nat
    BY DEF B
  <2> QED BY <1>1, <1>2, <2>1, Induct
<1> QED BY <1>3

\* Two that are of different lengths agree where both are defined.
LEMMA IteratesAgree ==
  ASSUME NEW S, NEW a, NEW g, NEW m \in Nat, NEW e \in Iterates(S, a, g, m), NEW f \in Iterates(S, a, g, m + 1)
  PROVE  f[m] = e[m]
<1> DEFINE B == {n \in Nat : n <= m => f[n] = e[n]}
<1>1. e[0] = a /\ \A i \in 0 .. m - 1 : e[i + 1] = g[e[i]]
  BY DEF Iterates
<1>2. f[0] = a /\ \A i \in 0 .. (m + 1) - 1 : f[i + 1] = g[f[i]]
  BY DEF Iterates
<1>3. 0 \in B
  BY <1>1, <1>2
<1>4. ASSUME NEW n \in B PROVE n + 1 \in B
  <2>1. SUFFICES ASSUME n + 1 <= m PROVE f[n + 1] = e[n + 1]
    OBVIOUS
  <2>2. n \in 0 .. m - 1 /\ n \in 0 .. (m + 1) - 1 /\ n <= m
    BY <2>1
  <2> QED BY <1>1, <1>2, <2>2
<1>5. B = Nat
  <2> HIDE DEF B
  <2>1. B \in SUBSET Nat
    BY DEF B
  <2> QED BY <1>3, <1>4, <2>1, Induct
<1> QED BY <1>5

LEMMA Iterated ==
  ASSUME NEW S, NEW a \in S, NEW g \in [S -> S]
  PROVE  \E f \in [Nat -> S] : f[0] = a /\ \A n \in Nat : f[n + 1] = g[f[n]]
<1> DEFINE W(n) == CHOOSE e : e \in Iterates(S, a, g, n)
           f == [n \in Nat |-> W(n)[n]]
<1>1. ASSUME NEW n \in Nat PROVE W(n) \in Iterates(S, a, g, n)
  BY IteratesTo
<1>2. ASSUME NEW n \in Nat PROVE W(n)[n] \in S
  <2>1. W(n) \in [0 .. n -> S] /\ n \in 0 .. n
    BY <1>1 DEF Iterates
  <2> QED BY <2>1
<1>3. f \in [Nat -> S]
  BY <1>2
<1>4. f[0] = a
  <2>1. W(0)[0] = a
    BY <1>1 DEF Iterates
  <2> QED BY <2>1
<1>5. ASSUME NEW n \in Nat PROVE f[n + 1] = g[f[n]]
  <2>1. n + 1 \in Nat /\ n \in 0 .. (n + 1) - 1
    OBVIOUS
  <2>2. W(n) \in Iterates(S, a, g, n) /\ W(n + 1) \in Iterates(S, a, g, n + 1)
    BY <1>1, <2>1
  <2>3. f[n + 1] = W(n + 1)[n + 1] /\ f[n] = W(n)[n]
    BY <2>1
  <2> HIDE DEF W, f
  <2>4. W(n + 1)[n] = W(n)[n]
    BY <2>2, IteratesAgree
  <2>5. W(n + 1)[n + 1] = g[W(n + 1)[n]]
    BY <2>1, <2>2 DEF Iterates
  <2> QED BY <2>3, <2>4, <2>5
<1> HIDE DEF f
<1> QED BY <1>3, <1>4, <1>5

-----------------------------------------------------------------------------
(* The least costs of walks. *)

Tables(ground) == UNION {[D -> Costs] : D \in SUBSET ground}

LEMMA TableIs ==
  ASSUME NEW ground, NEW r \in Tables(ground)
  PROVE  DOMAIN r \subseteq ground /\ r \in [DOMAIN r -> Costs]
  BY DEF Tables

LEMMA FiniteGround ==
  ASSUME NEW ground \in SUBSET Cells
  PROVE  IsFiniteSet(ground) /\ Cardinality(ground) \in Nat
<1>1. IsFiniteSet(0 .. Width - 1) /\ IsFiniteSet(0 .. Height - 1)
  BY PathAssumption, FS_Interval
<1>2. IsFiniteSet(Cells)
  BY <1>1, FS_Product DEF Cells
<1> QED BY <1>2, FS_Subset, FS_CardinalityType

LEMMA WaysFinite ==
  ASSUME NEW ground \in SUBSET Cells, NEW r \in Tables(ground), NEW c \in Cells
  PROVE  Ways(ground, r, c) \in SUBSET Costs /\ IsFiniteSet(Ways(ground, r, c))
<1> DEFINE S == Neighbours(ground, c) \cap DOMAIN r
           T == {Plus(r[d], StepCost(d, c)) : d \in S}
           O == IF c \in DOMAIN r THEN {r[c]} ELSE {}
           f == [d \in S |-> Plus(r[d], StepCost(d, c))]
<1>1. \A d \in DOMAIN r : r[d] \in Costs /\ d \in ground
  BY TableIs
<1>2. T \in SUBSET Costs /\ O \in SUBSET Costs
  BY <1>1, StepCostAdds
<1>3. IsFiniteSet(S)
  <2>1. S \in SUBSET ground
    BY <1>1
  <2> HIDE DEF S
  <2> QED BY <2>1, FiniteGround, FS_Subset
<1>4. f \in Surjection(S, T)
  <2> HIDE DEF S
  <2>1. f \in [S -> T] /\ \A t \in T : \E d \in S : f[d] = t
    OBVIOUS
  <2> HIDE DEF f, T
  <2> QED BY <2>1 DEF Surjection
<1>5. IsFiniteSet(T)
  <2> HIDE DEF S, T, f
  <2> QED BY <1>3, <1>4, FS_Surjection
<1>6. IsFiniteSet(O)
  BY FS_Singleton, FS_EmptySet
<1>7. Ways(ground, r, c) = T \cup O
  BY DEF Ways
<1> HIDE DEF T, O
<1> QED BY <1>2, <1>5, <1>6, <1>7, FS_Union

\* A further step keeps what was reached, at no higher cost, and adds the neighbours.
LEMMA FartherDoes ==
  ASSUME NEW ground \in SUBSET Cells, NEW r \in Tables(ground)
  PROVE  /\ Farther(ground, r) \in Tables(ground)
         /\ \A c \in DOMAIN r : c \in DOMAIN Farther(ground, r) /\ AtMost(Farther(ground, r)[c], r[c])
         /\ \A d \in DOMAIN r : \A c \in Neighbours(ground, d) :
              c \in DOMAIN Farther(ground, r) /\ AtMost(Farther(ground, r)[c], Plus(r[d], StepCost(d, c)))
         /\ \A c \in DOMAIN Farther(ground, r) :
              \/ c \in DOMAIN r /\ Farther(ground, r)[c] = r[c]
              \/ \E d \in DOMAIN r : /\ c \in Neighbours(ground, d)
                                     /\ Farther(ground, r)[c] = Plus(r[d], StepCost(d, c))
<1> DEFINE far == Farther(ground, r)
           E == {e \in ground : Ways(ground, r, e) # {}}
<1>1. far = [c \in E |-> Least(Ways(ground, r, c))]
  BY DEF Farther
<1>2. ASSUME NEW c \in E
      PROVE  far[c] \in Ways(ground, r, c) /\ far[c] \in Costs /\ \A w \in Ways(ground, r, c) : AtMost(far[c], w)
  <2>1. c \in Cells /\ Ways(ground, r, c) # {}
    OBVIOUS
  <2>2. Ways(ground, r, c) \in SUBSET Costs /\ IsFiniteSet(Ways(ground, r, c))
    BY <2>1, WaysFinite
  <2>3. far[c] = Least(Ways(ground, r, c))
    BY <1>1
  <2> QED BY <2>1, <2>2, <2>3, LeastIs
<1>3. E \in SUBSET ground /\ DOMAIN far = E
  BY <1>1
<1> HIDE DEF far
<1>4. far \in Tables(ground)
  <2>1. far \in [E -> Costs]
    <3>1. far = [c \in E |-> far[c]]
      BY <1>1
    <3> HIDE DEF E
    <3> QED BY <1>2, <3>1
  <2> HIDE DEF E
  <2> QED BY <1>3, <2>1 DEF Tables
<1>5. ASSUME NEW c \in DOMAIN r PROVE c \in DOMAIN far /\ AtMost(far[c], r[c])
  <2>1. r[c] \in Ways(ground, r, c) /\ c \in ground
    BY TableIs DEF Ways
  <2> QED BY <1>2, <1>3, <2>1
<1>6. ASSUME NEW d \in DOMAIN r, NEW c \in Neighbours(ground, d)
      PROVE  c \in DOMAIN far /\ AtMost(far[c], Plus(r[d], StepCost(d, c)))
  <2>1. d \in ground /\ d \in Cells
    BY TableIs
  <2>2. c \in ground /\ d \in Neighbours(ground, c)
    BY <2>1, NeighbourIs
  <2>3. Plus(r[d], StepCost(d, c)) \in Ways(ground, r, c)
    BY <2>2 DEF Ways
  <2> QED BY <1>2, <1>3, <2>2, <2>3
<1>7. ASSUME NEW c \in DOMAIN far
      PROVE  \/ c \in DOMAIN r /\ far[c] = r[c]
             \/ \E d \in DOMAIN r : c \in Neighbours(ground, d) /\ far[c] = Plus(r[d], StepCost(d, c))
  <2>1. far[c] \in Ways(ground, r, c) /\ c \in ground /\ c \in Cells
    BY <1>2, <1>3
  <2>2. CASE c \in DOMAIN r /\ far[c] = r[c]
    BY <2>2
  <2>3. CASE \E d \in Neighbours(ground, c) \cap DOMAIN r : far[c] = Plus(r[d], StepCost(d, c))
    <3>1. PICK d \in Neighbours(ground, c) \cap DOMAIN r : far[c] = Plus(r[d], StepCost(d, c))
      BY <2>3
    <3>2. c \in Neighbours(ground, d)
      BY <2>1, NeighbourIs
    <3> QED BY <3>1, <3>2
  <2> QED BY <2>1, <2>2, <2>3 DEF Ways
<1> QED BY <1>4, <1>5, <1>6, <1>7 DEF far

LEMMA ReachedIs ==
  ASSUME NEW ground \in SUBSET Cells, NEW start \in ground
  PROVE  /\ Reached(ground, start) \in [Nat -> Tables(ground)]
         /\ Reached(ground, start)[0] = [c \in {start} |-> <<0, 0>>]
         /\ \A n \in Nat : Reached(ground, start)[n + 1] = Farther(ground, Reached(ground, start)[n])
<1> DEFINE S == Tables(ground)
           a == [c \in {start} |-> <<0, 0>>]
           g == [r \in S |-> Farther(ground, r)]
           Is(f) == f = [n \in Nat |-> IF n = 0 THEN a ELSE Farther(ground, f[n - 1])]
<1>1. a \in S
  <2>1. <<0, 0>> \in Costs
    BY DEF Costs
  <2>2. {start} \in SUBSET ground /\ a \in [{start} -> Costs]
    BY <2>1
  <2> HIDE DEF a
  <2> QED BY <2>2 DEF Tables
<1>2. g \in [S -> S]
  BY FartherDoes
<1>3. PICK f \in [Nat -> S] : f[0] = a /\ \A n \in Nat : f[n + 1] = g[f[n]]
  <2> HIDE DEF S, a, g
  <2> QED BY <1>1, <1>2, Iterated
<1>4. \A n \in Nat : f[n + 1] = Farther(ground, f[n])
  <2> HIDE DEF a
  <2> QED BY <1>3
<1>5. Is(f)
  <2> HIDE DEF a, S, g
  <2>1. ASSUME NEW n \in Nat PROVE f[n] = IF n = 0 THEN a ELSE Farther(ground, f[n - 1])
    <3>1. CASE n # 0
      <4>1. n - 1 \in Nat /\ (n - 1) + 1 = n
        BY <3>1
      <4>2. f[(n - 1) + 1] = Farther(ground, f[n - 1])
        BY <1>4, <4>1
      <4> QED BY <3>1, <4>1, <4>2
    <3> QED BY <1>3, <3>1
  <2>2. f = [n \in Nat |-> f[n]]
    BY <1>3
  <2> QED BY <2>1, <2>2
<1>6. Is(Reached(ground, start))
  <2>1. Reached(ground, start) = CHOOSE h : Is(h)
    BY DEF Reached
  <2> HIDE DEF Is
  <2> QED BY <1>5, <2>1
<1> DEFINE h == Reached(ground, start)
<1>7. h[0] = a /\ \A n \in Nat : h[n + 1] = Farther(ground, h[n])
  <2> HIDE DEF a
  <2>1. h = [n \in Nat |-> IF n = 0 THEN a ELSE Farther(ground, h[n - 1])]
    BY <1>6
  <2> HIDE DEF h
  <2>2. h[0] = a
    BY <2>1
  <2>3. ASSUME NEW n \in Nat PROVE h[n + 1] = Farther(ground, h[n])
    <3>1. n + 1 \in Nat /\ n + 1 # 0 /\ (n + 1) - 1 = n
      OBVIOUS
    <3>2. h[n + 1] = Farther(ground, h[(n + 1) - 1])
      BY <2>1, <3>1
    <3> QED BY <3>1, <3>2
  <2> QED BY <2>2, <2>3
<1>8. h \in [Nat -> S]
  <2>1. h = [n \in Nat |-> h[n]]
    BY <1>6
  <2> HIDE DEF h, S, a
  <2> DEFINE B == {n \in Nat : h[n] \in S}
  <2>2. 0 \in B
    BY <1>1, <1>7
  <2>3. ASSUME NEW n \in B PROVE n + 1 \in B
    <3>1. Farther(ground, h[n]) \in S
      BY FartherDoes DEF S
    <3> QED BY <1>7, <3>1
  <2>4. B = Nat
    <3> HIDE DEF B
    <3>1. B \in SUBSET Nat
      BY DEF B
    <3> QED BY <2>2, <2>3, <3>1, Induct
  <2> QED BY <2>1, <2>4
<1> QED BY <1>7, <1>8

-----------------------------------------------------------------------------
(* The search. *)

Entries == [estimate : Costs, cost : Costs, cell : Cells]

Searches ==
  [ground : SUBSET Cells, start : Cells, goal : Cells, frontier : SUBSET Entries, score : Tables(Cells),
   from : UNION {[D -> Cells \cup {Nowhere}] : D \in SUBSET Cells}, done : BOOLEAN]

\* The cells that were taken from the frontier at their scores.
Closed(s) == {c \in DOMAIN s.score : \A e \in s.frontier : e.cell = c => e.cost # s.score[c]}

\* The least that a walk to the goal through a cell may cost.
Total(s, c) == Plus(s.score[c], Octile(c, s.goal))

Rooted(s) ==
  /\ s \in Searches
  /\ s.start \in s.ground /\ s.goal \in s.ground
  /\ DOMAIN s.score \subseteq s.ground /\ DOMAIN s.from = DOMAIN s.score
  /\ s.start \in DOMAIN s.score /\ s.score[s.start] = <<0, 0>>
  /\ \A c \in DOMAIN s.score : AtMost(<<0, 0>>, s.score[c])

\* An entry costs what a walk to its cell did.
Entered(s) ==
  \A e \in s.frontier :
    /\ e.cell \in DOMAIN s.score /\ AtMost(s.score[e.cell], e.cost)
    /\ e.estimate = Plus(e.cost, Octile(e.cell, s.goal))

\* No cell that is left in the frontier promises less than one that was taken from it.
InOrder(s) == \A c \in Closed(s) : \A e \in s.frontier : AtMost(Total(s, c), e.estimate)

\* The neighbours of a cell that was taken were looked at.
LookedAt(s) ==
  \A c \in Closed(s) : \A d \in Neighbours(s.ground, c) :
    d \in DOMAIN s.score /\ AtMost(s.score[d], Plus(s.score[c], StepCost(c, d)))

\* A cell was come to from one that was taken, and costs a step more.
CameFrom(s) ==
  \A d \in DOMAIN s.score : d # s.start =>
    /\ s.from[d] \in Closed(s) /\ d \in Neighbours(s.ground, s.from[d])
    /\ s.score[d] = Plus(s.score[s.from[d]], StepCost(s.from[d], d))

\* The search ends with the goal the best of the frontier, or with no frontier.
Ended(s) ==
  s.done => \/ s.frontier = {}
            \/ \E e \in s.frontier : /\ e.cell = s.goal /\ e.cost = s.score[s.goal]
                                     /\ \A other \in s.frontier : AtMost(e.estimate, other.estimate)

SearchInv(s) ==
  Rooted(s) /\ Entered(s) /\ InOrder(s) /\ LookedAt(s) /\ CameFrom(s) /\ s.goal \notin Closed(s) /\ Ended(s)

LEMMA SearchIs ==
  ASSUME NEW s, Rooted(s)
  PROVE  /\ s.ground \in SUBSET Cells /\ s.start \in Cells /\ s.goal \in Cells
         /\ s.frontier \subseteq Entries /\ s.done \in BOOLEAN
         /\ \A c \in DOMAIN s.score : c \in Cells /\ s.score[c] \in Costs /\ Total(s, c) \in Costs
         /\ \A e \in s.frontier : e.estimate \in Costs /\ e.cost \in Costs /\ e.cell \in Cells
<1>1. /\ s.ground \in SUBSET Cells /\ s.start \in Cells /\ s.goal \in Cells
      /\ s.frontier \subseteq Entries /\ s.done \in BOOLEAN /\ s.score \in Tables(Cells)
  BY DEF Rooted, Searches
<1>2. ASSUME NEW c \in DOMAIN s.score PROVE c \in Cells /\ s.score[c] \in Costs /\ Total(s, c) \in Costs
  <2>1. c \in Cells /\ s.score[c] \in Costs
    BY <1>1, TableIs
  <2>2. Octile(c, s.goal) \in Costs
    BY <1>1, <2>1, OctileType
  <2> QED BY <2>1, <2>2, PlusType DEF Total
<1>3. \A e \in s.frontier : e.estimate \in Costs /\ e.cost \in Costs /\ e.cell \in Cells
  BY <1>1 DEF Entries
<1> QED BY <1>1, <1>2, <1>3

LEMMA SearchingInv ==
  ASSUME NEW ground \in SUBSET Cells, NEW start \in ground, NEW goal \in ground
  PROVE  SearchInv(Searching(ground, start, goal))
<1> DEFINE s == Searching(ground, start, goal)
           first == [estimate |-> Octile(start, goal), cost |-> <<0, 0>>, cell |-> start]
           zero == [c \in {start} |-> <<0, 0>>]
           none == [c \in {start} |-> Nowhere]
<1>1. /\ s.ground = ground /\ s.start = start /\ s.goal = goal /\ s.frontier = {first} /\ s.score = zero
      /\ s.from = none /\ s.done = (start = goal)
  BY DEF Searching
<1>2. <<0, 0>> \in Costs /\ AtMost(<<0, 0>>, <<0, 0>>)
  <2>1. <<0, 0>> \in Costs
    BY DEF Costs
  <2> QED BY <2>1, AtMostOrder
<1>3. Octile(start, goal) \in Costs /\ Plus(<<0, 0>>, Octile(start, goal)) = Octile(start, goal)
  <2>1. Octile(start, goal) \in Costs
    BY OctileType
  <2>2. \A v \in Costs : Plus(<<0, 0>>, v) = v
    BY DEF Plus, Costs
  <2> QED BY <2>1, <2>2
<1>4. s \in Searches
  <2>1. first \in Entries
    BY <1>2, <1>3 DEF Entries
  <2>2. zero \in [{start} -> Costs] /\ none \in [{start} -> Cells \cup {Nowhere}] /\ {start} \in SUBSET Cells
    BY <1>2
  <2> HIDE DEF first, zero, none
  <2>3. zero \in Tables(Cells) /\ none \in UNION {[D -> Cells \cup {Nowhere}] : D \in SUBSET Cells}
    BY <2>2 DEF Tables
  <2>4. s = [ground |-> ground, start |-> start, goal |-> goal, frontier |-> {first}, score |-> zero,
             from |-> none, done |-> (start = goal)]
    BY DEF Searching, first, zero, none
  <2> QED BY <2>1, <2>3, <2>4 DEF Searches
<1> HIDE DEF s
<1>5. Rooted(s)
  BY <1>1, <1>2, <1>4 DEF Rooted
<1>6. Entered(s)
  BY <1>1, <1>2, <1>3 DEF Entered
<1>7. Closed(s) = {}
  BY <1>1 DEF Closed
<1>8. CameFrom(s)
  BY <1>1 DEF CameFrom
<1>9. Ended(s)
  <2>1. SUFFICES ASSUME start = goal PROVE Ended(s)
    BY <1>1 DEF Ended
  <2>2. AtMost(first.estimate, first.estimate)
    BY <1>3, AtMostOrder
  <2>3. first \in s.frontier /\ first.cell = s.goal /\ first.cost = s.score[s.goal]
    BY <1>1, <2>1
  <2>4. \A other \in s.frontier : AtMost(first.estimate, other.estimate)
    BY <1>1, <2>2
  <2> HIDE DEF first
  <2> QED BY <2>3, <2>4 DEF Ended
<1> QED BY <1>5, <1>6, <1>7, <1>8, <1>9 DEF SearchInv, InOrder, LookedAt, s

\* Two entries of a cell at one cost are one.
LEMMA SameEntry ==
  ASSUME NEW s, Rooted(s), Entered(s), NEW e \in s.frontier, NEW f \in s.frontier,
         e.cell = f.cell, e.cost = f.cost
  PROVE  e = f
<1>1. e \in Entries /\ f \in Entries
  BY SearchIs
<1>2. e.estimate = f.estimate
  BY DEF Entered
<1>3. /\ e = [estimate |-> e.estimate, cost |-> e.cost, cell |-> e.cell]
      /\ f = [estimate |-> f.estimate, cost |-> f.cost, cell |-> f.cell]
  BY <1>1 DEF Entries
<1> QED BY <1>2, <1>3

\* An entry that is dearer than its cell's score is dropped.
LEMMA StaleInv ==
  ASSUME NEW s, SearchInv(s), ~s.done, NEW e \in s.frontier, Less(s.score[e.cell], e.cost)
  PROVE  SearchInv([s EXCEPT !.frontier = @ \ {e}])
<1> DEFINE t == [s EXCEPT !.frontier = @ \ {e}]
<1>1. s \in Searches /\ Rooted(s)
  BY DEF SearchInv, Rooted
<1>2. /\ t.ground = s.ground /\ t.start = s.start /\ t.goal = s.goal /\ t.frontier = s.frontier \ {e}
      /\ t.score = s.score /\ t.from = s.from /\ t.done = s.done /\ t \in Searches
  BY <1>1 DEF Searches
<1>3. e.cost # s.score[e.cell]
  <2>1. e.cell \in DOMAIN s.score
    BY DEF SearchInv, Entered
  <2>2. s.score[e.cell] \in Costs
    BY <1>1, <2>1, SearchIs
  <2> QED BY <2>2, LessTotal
<1> HIDE DEF t
<1>4. Closed(t) = Closed(s)
  BY <1>2, <1>3 DEF Closed
<1>5. \A c : Total(t, c) = Total(s, c)
  BY <1>2 DEF Total
<1>6. Rooted(t)
  BY <1>1, <1>2 DEF Rooted
<1>7. Entered(t)
  BY <1>2 DEF SearchInv, Entered
<1>8. InOrder(t)
  BY <1>2, <1>4, <1>5 DEF SearchInv, InOrder
<1>9. LookedAt(t)
  BY <1>2, <1>4 DEF SearchInv, LookedAt
<1>10. CameFrom(t)
  BY <1>2, <1>4 DEF SearchInv, CameFrom
<1>11. Ended(t)
  BY <1>2 DEF Ended
<1>12. t.goal \notin Closed(t)
  BY <1>2, <1>4 DEF SearchInv
<1> QED BY <1>6, <1>7, <1>8, <1>9, <1>10, <1>11, <1>12 DEF SearchInv, t

\* An end changes nothing else.
LEMMA EndInv ==
  ASSUME NEW s, SearchInv(s), Ended([s EXCEPT !.done = TRUE])
  PROVE  SearchInv([s EXCEPT !.done = TRUE])
<1> DEFINE t == [s EXCEPT !.done = TRUE]
<1>1. s \in Searches
  BY DEF SearchInv, Rooted
<1>2. /\ t.ground = s.ground /\ t.start = s.start /\ t.goal = s.goal /\ t.frontier = s.frontier
      /\ t.score = s.score /\ t.from = s.from /\ t \in Searches
  BY <1>1 DEF Searches
<1>3. Ended(t)
  OBVIOUS
<1> HIDE DEF t
<1>4. Closed(t) = Closed(s)
  BY <1>2 DEF Closed
<1>5. \A c : Total(t, c) = Total(s, c)
  BY <1>2 DEF Total
<1>6. Rooted(t)
  BY <1>2 DEF SearchInv, Rooted
<1>7. Entered(t)
  BY <1>2 DEF SearchInv, Entered
<1>8. InOrder(t)
  BY <1>2, <1>4, <1>5 DEF SearchInv, InOrder
<1>9. LookedAt(t)
  BY <1>2, <1>4 DEF SearchInv, LookedAt
<1>10. CameFrom(t)
  BY <1>2, <1>4 DEF SearchInv, CameFrom
<1>11. t.goal \notin Closed(t)
  BY <1>2, <1>4 DEF SearchInv
<1> QED BY <1>3, <1>6, <1>7, <1>8, <1>9, <1>10, <1>11 DEF SearchInv, t

-----------------------------------------------------------------------------
(* A cell is expanded. *)

\* An entry that may be expanded: the best of the frontier, at its cell's score.
Best(s, e) ==
  /\ SearchInv(s) /\ ~s.done /\ e \in s.frontier /\ e.cell # s.goal /\ e.cost = s.score[e.cell]
  /\ \A other \in s.frontier : AtMost(e.estimate, other.estimate)

Cost(e, d) == Plus(e.cost, StepCost(e.cell, d))

Improved(s, e) == {d \in Neighbours(s.ground, e.cell) : Better(s, e, d)}

NewEntry(s, e, d) == [estimate |-> Plus(Cost(e, d), Octile(d, s.goal)), cost |-> Cost(e, d), cell |-> d]

NewEntries(s, e) == {NewEntry(s, e, d) : d \in Improved(s, e)}

LEMMA ExpandedFields ==
  ASSUME NEW s, NEW e, Rooted(s), e \in s.frontier
  PROVE  LET t == Expanded(s, e)
         IN /\ t.ground = s.ground /\ t.start = s.start /\ t.goal = s.goal /\ t.done = s.done
            /\ t.score = [d \in DOMAIN s.score \cup Improved(s, e) |->
                            IF d \in Improved(s, e) THEN Cost(e, d) ELSE s.score[d]]
            /\ t.from = [d \in DOMAIN s.from \cup Improved(s, e) |->
                           IF d \in Improved(s, e) THEN e.cell ELSE s.from[d]]
            /\ t.frontier = (s.frontier \ {e}) \cup NewEntries(s, e)
            /\ t = [ground |-> t.ground, start |-> t.start, goal |-> t.goal, frontier |-> t.frontier, score |-> t.score,
                    from |-> t.from, done |-> t.done]
<1> DEFINE better == Improved(s, e)
           score == [d \in DOMAIN s.score \cup better |-> IF d \in better THEN Cost(e, d) ELSE s.score[d]]
           from == [d \in DOMAIN s.from \cup better |-> IF d \in better THEN e.cell ELSE s.from[d]]
           frontier == (s.frontier \ {e}) \cup NewEntries(s, e)
<1>1. Expanded(s, e) = [s EXCEPT !.score = score, !.from = from, !.frontier = frontier]
  BY DEF Expanded, Improved, NewEntries, NewEntry, Cost, Rooted, Searches
<1> HIDE DEF score, from, frontier
<1>2. s \in Searches
  BY DEF Rooted
<1>3. /\ Expanded(s, e).ground = s.ground /\ Expanded(s, e).start = s.start /\ Expanded(s, e).goal = s.goal
      /\ Expanded(s, e).done = s.done /\ Expanded(s, e).score = score /\ Expanded(s, e).from = from
      /\ Expanded(s, e).frontier = frontier
  BY <1>1, <1>2 DEF Searches
<1>4. Expanded(s, e) = [ground |-> s.ground, start |-> s.start, goal |-> s.goal, frontier |-> frontier,
                        score |-> score, from |-> from, done |-> s.done]
  BY <1>1, <1>2 DEF Searches
<1> QED BY <1>3, <1>4 DEF score, from, frontier

\* A neighbour of the cell costs a step more, and promises no less than the cell did.
LEMMA CostIs ==
  ASSUME NEW s, NEW e, Best(s, e), NEW d \in Neighbours(s.ground, e.cell)
  PROVE  /\ d \in s.ground /\ d \in Cells /\ d # e.cell
         /\ Cost(e, d) \in Costs /\ Less(e.cost, Cost(e, d)) /\ AtMost(<<0, 0>>, Cost(e, d))
         /\ Cost(e, d) = Plus(s.score[e.cell], StepCost(e.cell, d))
         /\ Octile(d, s.goal) \in Costs /\ NewEntry(s, e, d) \in Entries
         /\ AtMost(e.estimate, Plus(Cost(e, d), Octile(d, s.goal)))
<1>1. /\ Rooted(s) /\ e \in s.frontier /\ e.cost = s.score[e.cell] /\ e.cell \in DOMAIN s.score
      /\ e.estimate = Plus(e.cost, Octile(e.cell, s.goal))
  BY DEF Best, SearchInv, Entered
<1>2. e.cost \in Costs /\ e.cell \in Cells /\ s.goal \in Cells /\ s.ground \in SUBSET Cells /\ e.estimate \in Costs
  BY <1>1, SearchIs
<1>3. d \in s.ground /\ d \in Cells /\ d # e.cell
  BY <1>2, NeighbourIs
<1>4. Cost(e, d) \in Costs /\ Less(e.cost, Cost(e, d)) /\ StepCost(e.cell, d) \in Costs
  BY <1>2, StepCostAdds DEF Cost
<1>5. <<0, 0>> \in Costs /\ AtMost(<<0, 0>>, e.cost)
  BY <1>1 DEF Rooted, Costs
<1>6. AtMost(<<0, 0>>, Cost(e, d))
  <2>1. AtMost(e.cost, Cost(e, d))
    BY <1>2, <1>4, AtMostOrder
  <2> QED BY <1>2, <1>4, <1>5, <2>1, AtMostOrder
<1>7. Octile(d, s.goal) \in Costs /\ Octile(e.cell, s.goal) \in Costs
  BY <1>2, <1>3, OctileType
<1>8. Plus(Cost(e, d), Octile(d, s.goal)) \in Costs
  BY <1>4, <1>7, PlusType
<1>9. NewEntry(s, e, d) \in Entries
  BY <1>3, <1>4, <1>8 DEF NewEntry, Entries
<1>10. AtMost(Octile(e.cell, s.goal), Plus(StepCost(e.cell, d), Octile(d, s.goal)))
  BY <1>2, Consistent
<1>11. AtMost(e.estimate, Plus(Cost(e, d), Octile(d, s.goal)))
  <2> DEFINE h == Octile(e.cell, s.goal)
             k == Octile(d, s.goal)
             step == StepCost(e.cell, d)
  <2>1. Plus(Plus(e.cost, step), k) = Plus(e.cost, Plus(step, k))
    <3> HIDE DEF step, k
    <3>1. step \in Costs /\ k \in Costs
      BY <1>4, <1>7 DEF step, k
    <3> QED BY <1>2, <3>1, PlusOrder
  <2>2. AtMost(Plus(e.cost, h), Plus(e.cost, Plus(step, k)))
    <3> HIDE DEF step, k, h
    <3>1. step \in Costs /\ k \in Costs /\ h \in Costs /\ AtMost(h, Plus(step, k))
      BY <1>4, <1>7, <1>10 DEF step, k, h
    <3>2. Plus(step, k) \in Costs
      BY <3>1, PlusType
    <3> QED BY <1>2, <3>1, <3>2, PlusOrder
  <2> QED BY <1>1, <2>1, <2>2 DEF Cost
<1> QED BY <1>1, <1>3, <1>4, <1>6, <1>7, <1>9, <1>11 DEF Cost

\* No cell that was taken from the frontier is improved: it would have promised more than the entry.
LEMMA ImprovedIs ==
  ASSUME NEW s, NEW e, Best(s, e), NEW d \in Improved(s, e)
  PROVE  /\ d \in Neighbours(s.ground, e.cell) /\ d \notin Closed(s) /\ d # e.cell /\ d # s.start
         /\ d \in DOMAIN s.score => Less(Cost(e, d), s.score[d])
<1>1. d \in Neighbours(s.ground, e.cell) /\ (d \in DOMAIN s.score => Less(Cost(e, d), s.score[d]))
  BY DEF Improved, Better, Cost
<1>2. Rooted(s) /\ e \in s.frontier
  BY DEF Best, SearchInv
<1>3. /\ d # e.cell /\ Cost(e, d) \in Costs /\ AtMost(<<0, 0>>, Cost(e, d)) /\ Octile(d, s.goal) \in Costs
      /\ AtMost(e.estimate, Plus(Cost(e, d), Octile(d, s.goal)))
  BY <1>1, CostIs
<1>4. d # s.start
  <2>1. ~Less(Cost(e, d), <<0, 0>>)
    BY <1>3 DEF AtMost
  <2> QED BY <1>1, <1>2, <2>1 DEF Rooted
<1>5. ASSUME d \in Closed(s) PROVE FALSE
  <2>1. d \in DOMAIN s.score /\ AtMost(Total(s, d), e.estimate)
    BY <1>2, <1>5 DEF Closed, Best, SearchInv, InOrder
  <2>2. s.score[d] \in Costs /\ e.estimate \in Costs /\ Total(s, d) \in Costs
    BY <1>2, <2>1, SearchIs
  <2> DEFINE k == Octile(d, s.goal)
             n == Cost(e, d)
  <2>3. k \in Costs /\ n \in Costs /\ Less(n, s.score[d]) /\ AtMost(e.estimate, Plus(n, k))
    BY <1>1, <1>3, <2>1
  <2>4. Total(s, d) = Plus(s.score[d], k)
    BY DEF Total
  <2> HIDE DEF k, n
  <2>5. Plus(n, k) \in Costs
    BY <2>3, PlusType
  <2>6. Less(Plus(n, k), Total(s, d))
    BY <2>2, <2>3, <2>4, PlusOrder
  <2>7. AtMost(Total(s, d), Plus(n, k))
    BY <2>1, <2>2, <2>3, <2>5, AtMostOrder
  <2> QED BY <2>6, <2>7 DEF AtMost
<1> QED BY <1>1, <1>3, <1>4, <1>5

LEMMA ExpandedCells ==
  ASSUME NEW s, NEW e, Best(s, e)
  PROVE  LET t == Expanded(s, e)
         IN /\ DOMAIN t.score = DOMAIN s.score \cup Improved(s, e) /\ DOMAIN t.from = DOMAIN t.score
            /\ \A d \in Improved(s, e) : t.score[d] = Cost(e, d) /\ t.from[d] = e.cell
            /\ \A d \in DOMAIN s.score \ Improved(s, e) : t.score[d] = s.score[d] /\ t.from[d] = s.from[d]
            /\ \A d \in DOMAIN s.score : AtMost(t.score[d], s.score[d])
            /\ \A f \in t.frontier : \/ f \in s.frontier /\ f # e
                                     \/ \E d \in Improved(s, e) : f = NewEntry(s, e, d)
<1> DEFINE t == Expanded(s, e)
<1>1. Rooted(s) /\ e \in s.frontier /\ DOMAIN s.from = DOMAIN s.score
  BY DEF Best, SearchInv, Rooted
<1>2. /\ t.score = [d \in DOMAIN s.score \cup Improved(s, e) |->
                      IF d \in Improved(s, e) THEN Cost(e, d) ELSE s.score[d]]
      /\ t.from = [d \in DOMAIN s.from \cup Improved(s, e) |->
                     IF d \in Improved(s, e) THEN e.cell ELSE s.from[d]]
      /\ t.frontier = (s.frontier \ {e}) \cup NewEntries(s, e)
  BY <1>1, ExpandedFields
<1> HIDE DEF t
<1>3. /\ DOMAIN t.score = DOMAIN s.score \cup Improved(s, e) /\ DOMAIN t.from = DOMAIN t.score
      /\ \A d \in Improved(s, e) : t.score[d] = Cost(e, d) /\ t.from[d] = e.cell
      /\ \A d \in DOMAIN s.score \ Improved(s, e) : t.score[d] = s.score[d] /\ t.from[d] = s.from[d]
  BY <1>1, <1>2
<1>4. ASSUME NEW d \in DOMAIN s.score PROVE AtMost(t.score[d], s.score[d])
  <2>1. s.score[d] \in Costs
    BY <1>1, SearchIs
  <2>2. CASE d \in Improved(s, e)
    <3>1. Less(Cost(e, d), s.score[d]) /\ d \in Neighbours(s.ground, e.cell)
      BY <2>2, ImprovedIs
    <3>2. Cost(e, d) \in Costs
      BY <3>1, CostIs
    <3> QED BY <1>3, <2>1, <2>2, <3>1, <3>2, AtMostOrder
  <2>3. CASE d \notin Improved(s, e)
    BY <1>3, <2>1, <2>3, AtMostOrder
  <2> QED BY <2>2, <2>3
<1>5. \A f \in t.frontier : (f \in s.frontier /\ f # e) \/ \E d \in Improved(s, e) : f = NewEntry(s, e, d)
  BY <1>2 DEF NewEntries
<1> QED BY <1>3, <1>4, <1>5 DEF t

\* The cell is closed, and no other is opened or closed.
LEMMA ExpandedClosed ==
  ASSUME NEW s, NEW e, Best(s, e)
  PROVE  Closed(Expanded(s, e)) = Closed(s) \cup {e.cell}
<1> DEFINE t == Expanded(s, e)
<1>1. Rooted(s) /\ Entered(s) /\ e \in s.frontier /\ e.cost = s.score[e.cell] /\ e.cell \in DOMAIN s.score
  BY DEF Best, SearchInv, Entered
<1>2. /\ DOMAIN t.score = DOMAIN s.score \cup Improved(s, e)
      /\ \A d \in Improved(s, e) : t.score[d] = Cost(e, d)
      /\ \A d \in DOMAIN s.score \ Improved(s, e) : t.score[d] = s.score[d]
      /\ \A f \in t.frontier : \/ f \in s.frontier /\ f # e
                               \/ \E d \in Improved(s, e) : f = NewEntry(s, e, d)
  BY ExpandedCells
<1>3. t.frontier = (s.frontier \ {e}) \cup NewEntries(s, e)
  BY <1>1, ExpandedFields
<1>4. \A d : NewEntry(s, e, d).cell = d /\ NewEntry(s, e, d).cost = Cost(e, d)
  BY DEF NewEntry
<1> HIDE DEF t
<1>5. e.cell \notin Improved(s, e) /\ Improved(s, e) \cap Closed(s) = {}
  BY ImprovedIs
<1>6. ASSUME NEW d \in Improved(s, e) PROVE d \notin Closed(t)
  <2>1. NewEntry(s, e, d) \in t.frontier
    BY <1>3 DEF NewEntries
  <2> QED BY <1>2, <1>4, <2>1 DEF Closed
<1>7. e.cell \in Closed(t)
  <2>1. e.cell \in DOMAIN t.score /\ t.score[e.cell] = e.cost
    BY <1>1, <1>2, <1>5
  <2>2. ASSUME NEW f \in t.frontier, f.cell = e.cell, f.cost = e.cost PROVE FALSE
    <3>1. CASE f \in s.frontier /\ f # e
      BY <1>1, <2>2, <3>1, SameEntry
    <3>2. CASE \E d \in Improved(s, e) : f = NewEntry(s, e, d)
      BY <1>4, <1>5, <2>2, <3>2
    <3> QED BY <1>2, <3>1, <3>2
  <2> QED BY <2>1, <2>2 DEF Closed
<1>8. ASSUME NEW c \in DOMAIN s.score, c \notin Improved(s, e), c # e.cell PROVE c \in Closed(t) <=> c \in Closed(s)
  <2>1. c \in DOMAIN t.score /\ t.score[c] = s.score[c]
    BY <1>2, <1>8
  <2>2. \A f : f.cell = c => (f \in t.frontier <=> f \in s.frontier)
    BY <1>3, <1>4, <1>8 DEF NewEntries
  <2> QED BY <2>1, <2>2 DEF Closed
<1>9. Closed(t) \subseteq DOMAIN t.score /\ Closed(s) \subseteq DOMAIN s.score
  BY DEF Closed
<1>10. Closed(t) = Closed(s) \cup {e.cell}
  BY <1>2, <1>5, <1>6, <1>7, <1>8, <1>9
<1> QED BY <1>10 DEF t

LEMMA ExpandedRooted ==
  ASSUME NEW s, NEW e, Best(s, e)
  PROVE  Rooted(Expanded(s, e))
<1> DEFINE t == Expanded(s, e)
           B == Improved(s, e)
<1>1. Rooted(s) /\ e \in s.frontier /\ s \in Searches /\ e.cell \in Cells
  <2>1. Rooted(s) /\ e \in s.frontier
    BY DEF Best, SearchInv
  <2> QED BY <2>1, SearchIs DEF Rooted
<1>2. /\ t.ground = s.ground /\ t.start = s.start /\ t.goal = s.goal /\ t.done = s.done
      /\ t.score = [d \in DOMAIN s.score \cup B |-> IF d \in B THEN Cost(e, d) ELSE s.score[d]]
      /\ t.from = [d \in DOMAIN s.from \cup B |-> IF d \in B THEN e.cell ELSE s.from[d]]
      /\ t.frontier = (s.frontier \ {e}) \cup NewEntries(s, e)
  BY <1>1, ExpandedFields
<1>3. ASSUME NEW d \in B
      PROVE  d \in s.ground /\ d \in Cells /\ d # s.start /\ Cost(e, d) \in Costs /\ AtMost(<<0, 0>>, Cost(e, d))
             /\ NewEntry(s, e, d) \in Entries
  BY ImprovedIs, CostIs
<1>4. /\ s.ground \in SUBSET Cells /\ s.start \in Cells /\ s.goal \in Cells /\ s.frontier \subseteq Entries
      /\ s.done \in BOOLEAN
      /\ \A c \in DOMAIN s.score : c \in Cells /\ s.score[c] \in Costs
  BY <1>1, SearchIs
<1>5. s.start \notin B
  BY <1>3
<1> HIDE DEF B
<1>6. t.score \in Tables(Cells)
  <2>1. t.score \in [DOMAIN s.score \cup B -> Costs]
    BY <1>2, <1>3, <1>4
  <2>2. DOMAIN s.score \cup B \in SUBSET Cells
    BY <1>3, <1>4
  <2> QED BY <2>1, <2>2 DEF Tables
<1>7. t.from \in UNION {[D -> Cells \cup {Nowhere}] : D \in SUBSET Cells}
  <2>1. \A c \in DOMAIN s.from : s.from[c] \in Cells \cup {Nowhere}
    BY <1>1 DEF Searches
  <2>2. t.from \in [DOMAIN s.from \cup B -> Cells \cup {Nowhere}]
    BY <1>1, <1>2, <2>1
  <2>3. DOMAIN s.from \cup B \in SUBSET Cells
    BY <1>1, <1>3, <1>4 DEF Rooted
  <2> QED BY <2>2, <2>3
<1>8. t.frontier \subseteq Entries
  BY <1>2, <1>3, <1>4 DEF NewEntries, B
<1>9. t \in Searches
  <2>1. t = [ground |-> t.ground, start |-> t.start, goal |-> t.goal, frontier |-> t.frontier, score |-> t.score,
             from |-> t.from, done |-> t.done]
    BY <1>1, ExpandedFields
  <2> HIDE DEF t
  <2> QED BY <1>2, <1>4, <1>6, <1>7, <1>8, <2>1 DEF Searches
<1>10. \A c \in DOMAIN t.score : c \in s.ground /\ AtMost(<<0, 0>>, t.score[c])
  BY <1>1, <1>2, <1>3 DEF Rooted
<1>11. DOMAIN t.from = DOMAIN t.score
  BY <1>1, <1>2 DEF Rooted
<1>12. t.start \in DOMAIN t.score /\ t.score[t.start] = <<0, 0>>
  BY <1>1, <1>2, <1>5 DEF Rooted
<1> HIDE DEF t
<1>13. Rooted(t)
  BY <1>1, <1>2, <1>9, <1>10, <1>11, <1>12 DEF Rooted
<1> QED BY <1>13 DEF t

LEMMA ExpandedEntered ==
  ASSUME NEW s, NEW e, Best(s, e)
  PROVE  Entered(Expanded(s, e))
<1> DEFINE t == Expanded(s, e)
<1>1. Rooted(s) /\ Entered(s) /\ e \in s.frontier
  BY DEF Best, SearchInv
<1>2. t.goal = s.goal
  BY <1>1, ExpandedFields
<1>3. /\ DOMAIN t.score = DOMAIN s.score \cup Improved(s, e)
      /\ \A d \in Improved(s, e) : t.score[d] = Cost(e, d)
      /\ \A d \in DOMAIN s.score : AtMost(t.score[d], s.score[d])
      /\ \A f \in t.frontier : \/ f \in s.frontier /\ f # e
                               \/ \E d \in Improved(s, e) : f = NewEntry(s, e, d)
  BY ExpandedCells
<1>4. Rooted(t)
  BY ExpandedRooted
<1> HIDE DEF t
<1>5. ASSUME NEW f \in t.frontier
      PROVE  f.cell \in DOMAIN t.score /\ AtMost(t.score[f.cell], f.cost)
             /\ f.estimate = Plus(f.cost, Octile(f.cell, t.goal))
  <2>1. CASE f \in s.frontier
    <3>1. /\ f.cell \in DOMAIN s.score /\ AtMost(s.score[f.cell], f.cost)
          /\ f.estimate = Plus(f.cost, Octile(f.cell, s.goal))
      BY <1>1, <2>1 DEF Entered
    <3>2. s.score[f.cell] \in Costs /\ f.cost \in Costs
      BY <1>1, <2>1, <3>1, SearchIs
    <3>3. f.cell \in DOMAIN t.score /\ t.score[f.cell] \in Costs /\ AtMost(t.score[f.cell], s.score[f.cell])
      BY <1>3, <1>4, <3>1, SearchIs
    <3>4. AtMost(t.score[f.cell], f.cost)
      BY <3>1, <3>2, <3>3, AtMostOrder
    <3> QED BY <1>2, <3>1, <3>3, <3>4
  <2>2. CASE \E d \in Improved(s, e) : f = NewEntry(s, e, d)
    <3>1. PICK d \in Improved(s, e) : f = NewEntry(s, e, d)
      BY <2>2
    <3>2. f.cell = d /\ f.cost = Cost(e, d) /\ f.estimate = Plus(f.cost, Octile(f.cell, t.goal))
      BY <1>2, <3>1 DEF NewEntry
    <3>3. Cost(e, d) \in Costs
      BY ImprovedIs, CostIs
    <3> QED BY <1>3, <3>2, <3>3, AtMostOrder
  <2> QED BY <1>3, <2>1, <2>2
<1> QED BY <1>5 DEF Entered, t

LEMMA ExpandedInOrder ==
  ASSUME NEW s, NEW e, Best(s, e)
  PROVE  InOrder(Expanded(s, e))
<1> DEFINE t == Expanded(s, e)
<1>1. Rooted(s) /\ Entered(s) /\ InOrder(s) /\ e \in s.frontier /\ e.cost = s.score[e.cell] /\ e.cell \in DOMAIN s.score
  BY DEF Best, SearchInv, Entered
<1>2. t.goal = s.goal
  BY <1>1, ExpandedFields
<1>3. /\ \A d \in DOMAIN s.score \ Improved(s, e) : t.score[d] = s.score[d]
      /\ \A f \in t.frontier : \/ f \in s.frontier /\ f # e
                               \/ \E d \in Improved(s, e) : f = NewEntry(s, e, d)
  BY ExpandedCells
<1>4. Closed(t) = Closed(s) \cup {e.cell}
  BY ExpandedClosed
<1>5. Rooted(t)
  BY ExpandedRooted
<1> HIDE DEF t
<1>6. e.estimate \in Costs
  BY <1>1, SearchIs
\* A closed cell promises no more than the entry, and the frontier no less.
<1>7. ASSUME NEW c \in Closed(t) PROVE Total(t, c) \in Costs /\ AtMost(Total(t, c), e.estimate)
  <2>1. c \in DOMAIN s.score /\ c \notin Improved(s, e)
    BY <1>1, <1>4, ImprovedIs DEF Closed
  <2>2. Total(t, c) = Total(s, c) /\ Total(s, c) \in Costs
    BY <1>1, <1>2, <1>3, <2>1, SearchIs DEF Total
  <2>3. CASE c \in Closed(s)
    BY <1>1, <2>2, <2>3 DEF InOrder
  <2>4. CASE c = e.cell
    <3>1. Total(s, c) = e.estimate
      BY <1>1, <2>4 DEF Total, Entered
    <3> QED BY <1>6, <2>2, <3>1, AtMostOrder
  <2> QED BY <1>4, <2>3, <2>4
<1>8. ASSUME NEW f \in t.frontier PROVE f.estimate \in Costs /\ AtMost(e.estimate, f.estimate)
  <2>1. f.estimate \in Costs
    BY <1>5, SearchIs
  <2>2. CASE f \in s.frontier
    BY <2>1, <2>2 DEF Best
  <2>3. CASE \E d \in Improved(s, e) : f = NewEntry(s, e, d)
    <3>1. PICK d \in Improved(s, e) : f = NewEntry(s, e, d)
      BY <2>3
    <3>2. f.estimate = Plus(Cost(e, d), Octile(d, s.goal))
      BY <3>1 DEF NewEntry
    <3> QED BY <2>1, <3>2, ImprovedIs, CostIs
  <2> QED BY <1>3, <2>2, <2>3
<1>9. ASSUME NEW c \in Closed(t), NEW f \in t.frontier PROVE AtMost(Total(t, c), f.estimate)
  <2>1. Total(t, c) \in Costs /\ AtMost(Total(t, c), e.estimate)
    BY <1>7
  <2>2. f.estimate \in Costs /\ AtMost(e.estimate, f.estimate)
    BY <1>8
  <2> QED BY <1>6, <2>1, <2>2, AtMostOrder
<1> QED BY <1>9 DEF InOrder, t

LEMMA ExpandedLookedAt ==
  ASSUME NEW s, NEW e, Best(s, e)
  PROVE  LookedAt(Expanded(s, e))
<1> DEFINE t == Expanded(s, e)
<1>1. Rooted(s) /\ LookedAt(s) /\ e \in s.frontier /\ e.cost = s.score[e.cell] /\ e.cell \in DOMAIN s.score
  BY DEF Best, SearchInv, Entered
<1>2. t.ground = s.ground
  BY <1>1, ExpandedFields
<1>3. /\ DOMAIN t.score = DOMAIN s.score \cup Improved(s, e)
      /\ \A d \in Improved(s, e) : t.score[d] = Cost(e, d)
      /\ \A d \in DOMAIN s.score \ Improved(s, e) : t.score[d] = s.score[d]
      /\ \A d \in DOMAIN s.score : AtMost(t.score[d], s.score[d])
  BY ExpandedCells
<1>4. Closed(t) = Closed(s) \cup {e.cell}
  BY ExpandedClosed
<1>5. Rooted(t)
  BY ExpandedRooted
<1> HIDE DEF t
<1>6. ASSUME NEW c \in Closed(t), NEW d \in Neighbours(t.ground, c)
      PROVE  d \in DOMAIN t.score /\ AtMost(t.score[d], Plus(t.score[c], StepCost(c, d)))
  <2>1. c \in DOMAIN s.score /\ c \notin Improved(s, e)
    BY <1>1, <1>4, ImprovedIs DEF Closed
  <2>2. t.score[c] = s.score[c]
    BY <1>3, <2>1
  <2>3. Plus(s.score[c], StepCost(c, d)) \in Costs
    <3>1. s.score[c] \in Costs
      BY <1>1, <2>1, SearchIs
    <3> QED BY <3>1, StepCostAdds
  <2>4. CASE c \in Closed(s)
    <3>1. d \in DOMAIN s.score /\ AtMost(s.score[d], Plus(s.score[c], StepCost(c, d)))
      BY <1>1, <1>2, <2>4 DEF LookedAt
    <3>2. s.score[d] \in Costs
      BY <1>1, <3>1, SearchIs
    <3>3. d \in DOMAIN t.score /\ AtMost(t.score[d], s.score[d])
      BY <1>3, <3>1
    <3>4. t.score[d] \in Costs
      BY <1>5, <3>3, SearchIs
    <3> QED BY <2>2, <2>3, <3>1, <3>2, <3>3, <3>4, AtMostOrder
  <2>5. CASE c = e.cell
    <3>1. d \in Neighbours(s.ground, e.cell)
      BY <1>2, <2>5
    <3>2. Cost(e, d) = Plus(s.score[c], StepCost(c, d))
      BY <2>5, <3>1, CostIs
    <3>3. CASE d \in Improved(s, e)
      BY <1>3, <2>2, <2>3, <3>2, <3>3, AtMostOrder
    <3>4. CASE d \notin Improved(s, e)
      <4>1. d \in DOMAIN s.score /\ ~Less(Cost(e, d), s.score[d])
        BY <3>1, <3>4 DEF Improved, Better, Cost
      <4> QED BY <1>3, <2>2, <3>2, <3>4, <4>1 DEF AtMost
    <3> QED BY <3>3, <3>4
  <2> QED BY <1>4, <2>4, <2>5
<1> QED BY <1>6 DEF LookedAt, t

LEMMA ExpandedCameFrom ==
  ASSUME NEW s, NEW e, Best(s, e)
  PROVE  CameFrom(Expanded(s, e))
<1> DEFINE t == Expanded(s, e)
<1>1. Rooted(s) /\ CameFrom(s) /\ e \in s.frontier /\ e.cell \in DOMAIN s.score
  BY DEF Best, SearchInv, Entered
<1>2. t.ground = s.ground /\ t.start = s.start
  BY <1>1, ExpandedFields
<1>3. /\ DOMAIN t.score = DOMAIN s.score \cup Improved(s, e)
      /\ \A d \in Improved(s, e) : t.score[d] = Cost(e, d) /\ t.from[d] = e.cell
      /\ \A d \in DOMAIN s.score \ Improved(s, e) : t.score[d] = s.score[d] /\ t.from[d] = s.from[d]
  BY ExpandedCells
<1>4. Closed(t) = Closed(s) \cup {e.cell}
  BY ExpandedClosed
<1> HIDE DEF t
<1>5. ASSUME NEW c \in Closed(t) PROVE t.score[c] = s.score[c]
  <2>1. c \in DOMAIN s.score /\ c \notin Improved(s, e)
    BY <1>1, <1>4, ImprovedIs DEF Closed
  <2> QED BY <1>3, <2>1
<1>6. ASSUME NEW d \in DOMAIN t.score, d # t.start
      PROVE  /\ t.from[d] \in Closed(t) /\ d \in Neighbours(t.ground, t.from[d])
             /\ t.score[d] = Plus(t.score[t.from[d]], StepCost(t.from[d], d))
  <2>1. CASE d \in Improved(s, e)
    <3>1. t.score[d] = Cost(e, d) /\ t.from[d] = e.cell /\ e.cell \in Closed(t) /\ t.score[e.cell] = s.score[e.cell]
      BY <1>3, <1>4, <1>5, <2>1
    <3>2. d \in Neighbours(s.ground, e.cell)
      BY <2>1, ImprovedIs
    <3>3. Cost(e, d) = Plus(s.score[e.cell], StepCost(e.cell, d))
      BY <3>2, CostIs
    <3> QED BY <1>2, <3>1, <3>2, <3>3
  <2>2. CASE d \notin Improved(s, e)
    <3>1. d \in DOMAIN s.score /\ d # s.start /\ t.score[d] = s.score[d] /\ t.from[d] = s.from[d]
      BY <1>2, <1>3, <1>6, <2>2
    <3>2. /\ s.from[d] \in Closed(s) /\ d \in Neighbours(s.ground, s.from[d])
          /\ s.score[d] = Plus(s.score[s.from[d]], StepCost(s.from[d], d))
      BY <1>1, <3>1 DEF CameFrom
    <3>3. s.from[d] \in Closed(t) /\ t.score[s.from[d]] = s.score[s.from[d]]
      BY <1>4, <1>5, <3>2
    <3> QED BY <1>2, <3>1, <3>2, <3>3
  <2> QED BY <2>1, <2>2
<1> QED BY <1>6 DEF CameFrom, t

LEMMA ExpandedInv ==
  ASSUME NEW s, NEW e, Best(s, e)
  PROVE  SearchInv(Expanded(s, e))
<1> DEFINE t == Expanded(s, e)
<1>1. Rooted(s) /\ e \in s.frontier /\ s.goal \notin Closed(s) /\ e.cell # s.goal /\ ~s.done
  BY DEF Best, SearchInv
<1>2. t.goal = s.goal /\ t.done = s.done
  BY <1>1, ExpandedFields
<1>3. Closed(t) = Closed(s) \cup {e.cell}
  BY ExpandedClosed
<1>4. Rooted(t) /\ Entered(t) /\ InOrder(t) /\ LookedAt(t) /\ CameFrom(t)
  BY ExpandedRooted, ExpandedEntered, ExpandedInOrder, ExpandedLookedAt, ExpandedCameFrom
<1> HIDE DEF t
<1>5. SearchInv(t)
  BY <1>1, <1>2, <1>3, <1>4 DEF SearchInv, Ended
<1> QED BY <1>5 DEF t

\* Every step of the search keeps the invariant.
LEMMA SearchKept == SearchInv(search) /\ [PathNext]_search => SearchInv(search')
<1> SUFFICES ASSUME SearchInv(search), [PathNext]_search PROVE SearchInv(search')
  OBVIOUS
<1>1. CASE UNCHANGED search
  BY <1>1
<1>2. CASE Exhausted
  <2>1. search \in Searches /\ search.frontier = {} /\ search' = [search EXCEPT !.done = TRUE]
    BY <1>2 DEF Exhausted, SearchInv, Rooted
  <2>2. Ended([search EXCEPT !.done = TRUE])
    BY <2>1 DEF Ended, Searches
  <2> QED BY <2>1, <2>2, EndInv
<1>3. CASE Pop
  <2>1. PICK e \in search.frontier :
          /\ \A other \in search.frontier : ~Less(other.estimate, e.estimate)
          /\ search' = IF Less(search.score[e.cell], e.cost)
                         THEN [search EXCEPT !.frontier = @ \ {e}]
                         ELSE IF e.cell = search.goal
                           THEN [search EXCEPT !.done = TRUE]
                           ELSE Expanded(search, e)
    BY <1>3 DEF Pop
  <2>2. ~search.done /\ search \in Searches
    BY <1>3 DEF Pop, SearchInv, Rooted
  <2>3. CASE Less(search.score[e.cell], e.cost)
    BY <2>1, <2>2, <2>3, StaleInv
  <2>4. CASE ~Less(search.score[e.cell], e.cost)
    <3>1. Rooted(search) /\ e.cell \in DOMAIN search.score /\ AtMost(search.score[e.cell], e.cost)
      BY DEF SearchInv, Entered
    <3>2. search.score[e.cell] \in Costs /\ e.cost \in Costs
      BY <3>1, SearchIs
    <3>3. e.cost = search.score[e.cell]
      BY <2>4, <3>1, <3>2, AtMostOrder DEF AtMost
    <3>4. \A other \in search.frontier : AtMost(e.estimate, other.estimate)
      BY <2>1 DEF AtMost
    <3>5. CASE e.cell = search.goal
      <4>1. search' = [search EXCEPT !.done = TRUE]
        BY <2>1, <2>4, <3>5
      <4>2. Ended([search EXCEPT !.done = TRUE])
        BY <2>2, <3>3, <3>4, <3>5 DEF Ended, Searches
      <4> QED BY <4>1, <4>2, EndInv
    <3>6. CASE e.cell # search.goal
      <4>1. search' = Expanded(search, e)
        BY <2>1, <2>4, <3>6
      <4>2. Best(search, e)
        BY <2>2, <3>3, <3>4, <3>6 DEF Best
      <4> QED BY <4>1, <4>2, ExpandedInv
    <3> QED BY <3>5, <3>6
  <2> QED BY <2>3, <2>4
<1> QED BY <1>1, <1>2, <1>3 DEF PathNext

LEMMA SearchBegun == PathInit => SearchInv(search)
<1> SUFFICES ASSUME PathInit PROVE SearchInv(search)
  OBVIOUS
<1>1. PICK ground \in SUBSET Cells, ends \in Ends :
        {ends[1], ends[2]} \subseteq ground /\ search = Searching(ground, ends[1], ends[2])
  BY DEF PathInit
<1>2. ends[1] \in ground /\ ends[2] \in ground
  BY <1>1
<1> QED BY <1>1, <1>2, SearchingInv

-----------------------------------------------------------------------------
(* No walk is shorter, and the path is a walk. *)

\* What a walk of n steps costs, its cell does too if it was taken from the frontier; if not, a
\* cell of the frontier promises no more than the walk.
LEMMA NoneCheaper ==
  ASSUME NEW s, SearchInv(s), NEW n \in Nat, NEW c \in DOMAIN Reached(s.ground, s.start)[n]
  PROVE  \/ c \in Closed(s) /\ AtMost(s.score[c], Reached(s.ground, s.start)[n][c])
         \/ \E e \in s.frontier : AtMost(e.estimate, Plus(Reached(s.ground, s.start)[n][c], Octile(c, s.goal)))
<1> DEFINE R == Reached(s.ground, s.start)
           Known(m, d) == d \in Closed(s) /\ AtMost(s.score[d], R[m][d])
           Promised(m, d) == \E e \in s.frontier : AtMost(e.estimate, Plus(R[m][d], Octile(d, s.goal)))
           B == {m \in Nat : \A d \in DOMAIN R[m] : Known(m, d) \/ Promised(m, d)}
<1>1. Rooted(s) /\ Entered(s) /\ LookedAt(s) /\ s.start \in s.ground
  BY DEF SearchInv, Rooted
<1>2. s.ground \in SUBSET Cells /\ s.goal \in Cells
  BY <1>1, SearchIs
<1>3. /\ R \in [Nat -> Tables(s.ground)] /\ R[0] = [d \in {s.start} |-> <<0, 0>>]
      /\ \A m \in Nat : R[m + 1] = Farther(s.ground, R[m])
  BY <1>1, <1>2, ReachedIs
<1> HIDE DEF R
<1>4. ASSUME NEW m \in Nat, NEW d \in DOMAIN R[m]
      PROVE  R[m][d] \in Costs /\ d \in Cells /\ Octile(d, s.goal) \in Costs
             /\ Plus(R[m][d], Octile(d, s.goal)) \in Costs
  <2>1. R[m][d] \in Costs /\ d \in Cells
    BY <1>2, <1>3, TableIs
  <2>2. Octile(d, s.goal) \in Costs
    BY <1>2, <2>1, OctileType
  <2> QED BY <2>1, <2>2, PlusType
\* A cell that is reached at its score is taken or is in the frontier.
<1>5. ASSUME NEW m \in Nat, NEW d \in DOMAIN R[m], d \in DOMAIN s.score, AtMost(s.score[d], R[m][d])
      PROVE  Known(m, d) \/ Promised(m, d)
  <2>1. SUFFICES ASSUME d \notin Closed(s) PROVE Promised(m, d)
    BY <1>5
  <2>2. PICK e \in s.frontier : e.cell = d /\ e.cost = s.score[d]
    BY <1>5, <2>1 DEF Closed
  <2>3. e.estimate = Plus(s.score[d], Octile(d, s.goal))
    BY <1>1, <2>2 DEF Entered
  <2>4. s.score[d] \in Costs
    BY <1>1, <1>5, SearchIs
  <2>5. AtMost(e.estimate, Plus(R[m][d], Octile(d, s.goal)))
    BY <1>4, <1>5, <2>3, <2>4, PlusOrder
  <2> QED BY <2>5
<1>6. 0 \in B
  <2>1. ASSUME NEW d \in DOMAIN R[0] PROVE Known(0, d) \/ Promised(0, d)
    <3>1. d \in DOMAIN s.score /\ s.score[d] = R[0][d]
      BY <1>1, <1>3 DEF Rooted
    <3>2. AtMost(s.score[d], R[0][d])
      BY <1>4, <3>1, AtMostOrder
    <3> QED BY <1>5, <3>1, <3>2
  <2> QED BY <2>1
<1>7. ASSUME NEW m \in B PROVE m + 1 \in B
  <2>1. m \in Nat /\ m + 1 \in Nat /\ \A d \in DOMAIN R[m] : Known(m, d) \/ Promised(m, d)
    OBVIOUS
  <2>2. R[m] \in Tables(s.ground) /\ R[m + 1] = Farther(s.ground, R[m])
    BY <1>3, <2>1
  <2>3. ASSUME NEW d \in DOMAIN R[m + 1] PROVE Known(m + 1, d) \/ Promised(m + 1, d)
    <3>1. \/ d \in DOMAIN R[m] /\ R[m + 1][d] = R[m][d]
          \/ \E b \in DOMAIN R[m] : d \in Neighbours(s.ground, b) /\ R[m + 1][d] = Plus(R[m][b], StepCost(b, d))
      BY <1>2, <2>2, FartherDoes
    <3>2. CASE d \in DOMAIN R[m] /\ R[m + 1][d] = R[m][d]
      BY <2>1, <3>2
    <3>3. CASE \E b \in DOMAIN R[m] : d \in Neighbours(s.ground, b) /\ R[m + 1][d] = Plus(R[m][b], StepCost(b, d))
      <4>1. PICK b \in DOMAIN R[m] : d \in Neighbours(s.ground, b) /\ R[m + 1][d] = Plus(R[m][b], StepCost(b, d))
        BY <3>3
      <4> DEFINE step == StepCost(b, d)
      <4>2. /\ R[m][b] \in Costs /\ b \in Cells /\ Octile(b, s.goal) \in Costs /\ step \in Costs
            /\ R[m + 1][d] \in Costs /\ Octile(d, s.goal) \in Costs /\ Plus(R[m + 1][d], Octile(d, s.goal)) \in Costs
        BY <1>4, <2>1, <4>1, StepCostAdds
      <4>3. CASE Known(m, b)
        <5>1. /\ b \in DOMAIN s.score /\ AtMost(s.score[b], R[m][b])
              /\ d \in DOMAIN s.score /\ AtMost(s.score[d], Plus(s.score[b], step))
          BY <1>1, <4>1, <4>3 DEF LookedAt, Closed
        <5>2. s.score[b] \in Costs /\ s.score[d] \in Costs
          BY <1>1, <5>1, SearchIs
        <5> HIDE DEF step
        <5>3. Plus(s.score[b], step) \in Costs
          BY <4>2, <5>2, PlusType
        <5>4. AtMost(Plus(s.score[b], step), R[m + 1][d])
          <6>1. R[m + 1][d] = Plus(R[m][b], step)
            BY <4>1 DEF step
          <6> QED BY <4>2, <5>1, <5>2, <6>1, PlusOrder
        <5>5. AtMost(s.score[d], R[m + 1][d])
          BY <4>2, <5>1, <5>2, <5>3, <5>4, AtMostOrder
        <5> QED BY <1>5, <2>1, <5>1, <5>5
      <4>4. CASE Promised(m, b)
        <5>1. PICK e \in s.frontier : AtMost(e.estimate, Plus(R[m][b], Octile(b, s.goal)))
          BY <4>4
        <5>2. e.estimate \in Costs /\ Plus(R[m][b], Octile(b, s.goal)) \in Costs
          BY <1>1, <1>4, <2>1, <4>1, SearchIs
        <5>3. AtMost(Octile(b, s.goal), Plus(step, Octile(d, s.goal)))
          BY <1>2, <4>1, <4>2, Consistent
        <5> DEFINE h == Octile(b, s.goal)
                   k == Octile(d, s.goal)
                   v == R[m][b]
        <5>4. v \in Costs /\ h \in Costs /\ k \in Costs
          BY <4>2
        <5>5. AtMost(Plus(v, h), Plus(v, Plus(step, k)))
          <6>1. Plus(step, k) \in Costs
            BY <4>2, PlusType
          <6> HIDE DEF h, k, v, step
          <6> QED BY <5>3, <5>4, <6>1, PlusOrder DEF h, k
        <5>6. Plus(R[m + 1][d], k) = Plus(v, Plus(step, k))
          <6>1. R[m + 1][d] = Plus(v, step)
            BY <4>1
          <6>2. step \in Costs
            BY <4>2
          <6> HIDE DEF h, k, v, step
          <6> QED BY <5>4, <6>1, <6>2, PlusOrder
        <5>7. AtMost(e.estimate, Plus(R[m + 1][d], k))
          <6>1. AtMost(Plus(v, h), Plus(R[m + 1][d], k))
            BY <5>5, <5>6
          <6>2. Plus(v, h) \in Costs /\ Plus(R[m + 1][d], k) \in Costs /\ AtMost(e.estimate, Plus(v, h))
            BY <4>2, <5>1, <5>2
          <6> HIDE DEF h, k, v
          <6> QED BY <5>2, <6>1, <6>2, AtMostOrder
        <5> QED BY <5>7
      <4> QED BY <2>1, <4>1, <4>3, <4>4
    <3> QED BY <3>1, <3>2, <3>3
  <2> QED BY <2>1, <2>3
<1>8. B = Nat
  <2> HIDE DEF B
  <2>1. B \in SUBSET Nat
    BY DEF B
  <2> QED BY <1>6, <1>7, <2>1, Induct
<1> QED BY <1>8 DEF R

\* A set of numbers has a first.
LEMMA First ==
  ASSUME NEW S \in SUBSET Nat, S # {}
  PROVE  \E n \in S : \A m \in 0 .. n - 1 : m \notin S
<1> DEFINE B == {n \in Nat : \A m \in 0 .. n : m \notin S}
<1>1. SUFFICES ASSUME \A n \in S : \E m \in 0 .. n - 1 : m \in S PROVE FALSE
  OBVIOUS
<1>2. 0 \in B
  <2>1. \A m \in 0 .. 0 : m = 0
    OBVIOUS
  <2>2. 0 \notin S
    BY <1>1
  <2> QED BY <2>1, <2>2
<1>3. ASSUME NEW n \in B PROVE n + 1 \in B
  <2>1. n \in Nat /\ \A m \in 0 .. n : m \notin S
    OBVIOUS
  <2>2. (n + 1) - 1 = n
    BY <2>1
  <2>3. n + 1 \notin S
    BY <1>1, <2>1, <2>2
  <2>4. \A m \in 0 .. n + 1 : m \in 0 .. n \/ m = n + 1
    BY <2>1
  <2> QED BY <2>1, <2>3, <2>4
<1>4. B = Nat
  <2> HIDE DEF B
  <2>1. B \in SUBSET Nat
    BY DEF B
  <2> QED BY <1>2, <1>3, <2>1, Induct
<1>5. PICK n \in S : TRUE
  OBVIOUS
<1>6. n \in B
  <2> HIDE DEF B
  <2> QED BY <1>4, <1>5
<1>7. n \in 0 .. n
  OBVIOUS
<1> QED BY <1>6, <1>7

\* The cells on the way back.
Back(s, cell) == CHOOSE back : back = [n \in Nat |-> IF n = 0 THEN cell ELSE Before(s, back[n - 1])]

LEMMA BackIs ==
  ASSUME NEW s, SearchInv(s), NEW cell \in DOMAIN s.score
  PROVE  /\ Back(s, cell) \in [Nat -> DOMAIN s.score] /\ Back(s, cell)[0] = cell
         /\ \A n \in Nat : Back(s, cell)[n + 1] = Before(s, Back(s, cell)[n])
<1> DEFINE S == DOMAIN s.score
           g == [c \in S |-> Before(s, c)]
           Is(f) == f = [n \in Nat |-> IF n = 0 THEN cell ELSE Before(s, f[n - 1])]
<1>1. g \in [S -> S]
  BY DEF SearchInv, Rooted, CameFrom, Closed, Before
<1>2. PICK f \in [Nat -> S] : f[0] = cell /\ \A n \in Nat : f[n + 1] = g[f[n]]
  <2>1. cell \in S
    OBVIOUS
  <2> HIDE DEF S, g
  <2> QED BY <1>1, <2>1, Iterated
<1>3. \A n \in Nat : f[n + 1] = Before(s, f[n])
  BY <1>2
<1>4. Is(f)
  <2> HIDE DEF S, g
  <2>1. ASSUME NEW n \in Nat PROVE f[n] = IF n = 0 THEN cell ELSE Before(s, f[n - 1])
    <3>1. CASE n # 0
      <4>1. n - 1 \in Nat /\ (n - 1) + 1 = n
        BY <3>1
      <4>2. f[(n - 1) + 1] = Before(s, f[n - 1])
        BY <1>3, <4>1
      <4> QED BY <3>1, <4>1, <4>2
    <3> QED BY <1>2, <3>1
  <2>2. f = [n \in Nat |-> f[n]]
    BY <1>2
  <2> QED BY <2>1, <2>2
<1>5. Is(Back(s, cell))
  <2>1. Back(s, cell) = CHOOSE h : Is(h)
    BY DEF Back
  <2> HIDE DEF Is
  <2> QED BY <1>4, <2>1
<1> DEFINE h == Back(s, cell)
<1>6. h = [n \in Nat |-> IF n = 0 THEN cell ELSE Before(s, h[n - 1])]
  BY <1>5
<1> HIDE DEF h, Is
<1>7. h[0] = cell
  BY <1>6
<1>8. ASSUME NEW n \in Nat PROVE h[n + 1] = Before(s, h[n])
  <2>1. n + 1 \in Nat /\ n + 1 # 0 /\ (n + 1) - 1 = n
    OBVIOUS
  <2>2. h[n + 1] = Before(s, h[(n + 1) - 1])
    BY <1>6, <2>1
  <2> QED BY <2>1, <2>2
<1>9. h \in [Nat -> S]
  <2> DEFINE B == {n \in Nat : h[n] \in S}
  <2>1. 0 \in B
    BY <1>7
  <2>2. ASSUME NEW n \in B PROVE n + 1 \in B
    <3>1. g[h[n]] \in S /\ g[h[n]] = Before(s, h[n])
      BY <1>1
    <3> QED BY <1>8, <3>1
  <2>3. B = Nat
    <3> HIDE DEF B
    <3>1. B \in SUBSET Nat
      BY DEF B
    <3> QED BY <2>1, <2>2, <3>1, Induct
  <2>4. h = [n \in Nat |-> h[n]]
    BY <1>6
  <2> QED BY <2>3, <2>4
<1> QED BY <1>7, <1>8, <1>9 DEF h

\* One cell back, the score is one step less.
LEMMA BackStep ==
  ASSUME NEW s, SearchInv(s), NEW cell \in DOMAIN s.score, NEW n \in Nat, Back(s, cell)[n] # s.start
  PROVE  LET c == Back(s, cell)[n]
             b == Back(s, cell)[n + 1]
         IN /\ c \in Neighbours(s.ground, b) /\ s.score[c] = Plus(s.score[b], StepCost(b, c))
            /\ Less(s.score[b], s.score[c]) /\ s.score[b] \in Costs /\ s.score[c] \in Costs
<1> DEFINE c == Back(s, cell)[n]
           b == Back(s, cell)[n + 1]
<1>1. c \in DOMAIN s.score /\ b \in DOMAIN s.score /\ b = Before(s, c)
  <2>1. n + 1 \in Nat
    OBVIOUS
  <2>2. /\ Back(s, cell) \in [Nat -> DOMAIN s.score]
        /\ \A m \in Nat : Back(s, cell)[m + 1] = Before(s, Back(s, cell)[m])
    BY BackIs
  <2> DEFINE h == Back(s, cell)
  <2> HIDE DEF h
  <2> QED BY <2>1, <2>2 DEF h
<1>2. c # s.start
  OBVIOUS
<1> HIDE DEF b, c
<1>3. b = s.from[c]
  BY <1>1, <1>2 DEF Before
<1>4. c \in Neighbours(s.ground, b) /\ s.score[c] = Plus(s.score[b], StepCost(b, c))
  BY <1>1, <1>2, <1>3 DEF SearchInv, CameFrom
<1>5. s.score[b] \in Costs /\ s.score[c] \in Costs
  BY <1>1, SearchIs DEF SearchInv
<1>6. Less(s.score[b], s.score[c])
  BY <1>4, <1>5, StepCostAdds
<1> QED BY <1>4, <1>5, <1>6 DEF b, c

\* The way back comes to the start: as long as it does not, the score falls at every cell, so none is
\* met twice, and there are only so many.
LEMMA BackEnds ==
  ASSUME NEW s, SearchInv(s), NEW cell \in DOMAIN s.score
  PROVE  \E n \in 0 .. Cardinality(s.ground) - 1 : Back(s, cell)[n] = s.start
<1> DEFINE N == Cardinality(s.ground)
           f == Back(s, cell)
<1>1. SUFFICES ASSUME \A n \in 0 .. N - 1 : f[n] # s.start PROVE FALSE
  OBVIOUS
<1>2. Rooted(s) /\ s.ground \in SUBSET Cells /\ DOMAIN s.score \subseteq s.ground
  BY SearchIs DEF SearchInv, Rooted
<1>3. N \in Nat /\ IsFiniteSet(s.ground)
  BY <1>2, FiniteGround
<1>4. f \in [Nat -> DOMAIN s.score]
  BY BackIs
<1>5. ASSUME NEW n \in 0 .. N - 1
      PROVE  Less(s.score[f[n + 1]], s.score[f[n]]) /\ s.score[f[n + 1]] \in Costs /\ s.score[f[n]] \in Costs
  <2>1. n \in Nat /\ f[n] # s.start
    BY <1>1, <1>3
  <2> QED BY <2>1, BackStep
<1> HIDE DEF f, N
<1>6. ASSUME NEW x \in 0 .. N, NEW y \in 0 .. N, x < y PROVE f[x] # f[y]
  <2> DEFINE B == {k \in Nat : x + 1 + k <= N => Less(s.score[f[x + 1 + k]], s.score[f[x]])}
  <2>1. x \in 0 .. N - 1 /\ x \in Nat /\ x + 1 + 0 = x + 1
    BY <1>3, <1>6
  <2>2. 0 \in B
    BY <1>5, <2>1
  <2>3. ASSUME NEW k \in B PROVE k + 1 \in B
    <3>1. SUFFICES ASSUME x + 1 + (k + 1) <= N PROVE Less(s.score[f[x + 1 + (k + 1)]], s.score[f[x]])
      OBVIOUS
    <3> DEFINE z == x + 1 + k
    <3>2. z \in 0 .. N - 1 /\ x + 1 + (k + 1) = z + 1 /\ z <= N
      BY <1>3, <2>1, <3>1
    <3>3. Less(s.score[f[z]], s.score[f[x]])
      BY <3>2
    <3> HIDE DEF z, B
    <3>4. Less(s.score[f[z + 1]], s.score[f[z]]) /\ s.score[f[z + 1]] \in Costs /\ s.score[f[z]] \in Costs
      BY <1>5, <3>2
    <3>5. s.score[f[x]] \in Costs
      BY <1>5, <2>1
    <3> QED BY <3>2, <3>3, <3>4, <3>5, LessTransitive
  <2>4. B = Nat
    <3> HIDE DEF B
    <3>1. B \in SUBSET Nat
      BY DEF B
    <3> QED BY <2>2, <2>3, <3>1, Induct
  <2>5. y - x - 1 \in Nat /\ x + 1 + (y - x - 1) = y /\ y <= N
    BY <1>3, <1>6
  <2>6. Less(s.score[f[y]], s.score[f[x]])
    <3>1. y - x - 1 \in B
      <4> HIDE DEF B
      <4> QED BY <2>4, <2>5
    <3> QED BY <2>5, <3>1
  <2>7. s.score[f[x]] \in Costs
    BY <1>5, <2>1
  <2> QED BY <2>6, <2>7, LessTotal
<1> DEFINE S == 0 .. N
           h == [n \in S |-> f[n]]
<1>7. IsFiniteSet(S) /\ Cardinality(S) = N + 1
  BY <1>3, FS_Interval
<1>8. h \in [S -> s.ground]
  BY <1>2, <1>3, <1>4
<1>9. \A x \in S, y \in S : x # y => h[x] # h[y]
  <2>1. \A x \in S, y \in S : x # y => x < y \/ y < x
    BY <1>3
  <2> QED BY <1>6, <2>1
<1>10. N < Cardinality(S)
  <2> HIDE DEF S
  <2> QED BY <1>3, <1>7
<1> HIDE DEF S, h
<1>11. \E x, y \in S : x # y /\ h[x] = h[y]
  BY <1>3, <1>7, <1>8, <1>10, FS_PigeonHole DEF N
<1> QED BY <1>9, <1>11

\* The path is the way back, turned.
LEMMA PathIs ==
  ASSUME NEW s, SearchInv(s), NEW cell \in DOMAIN s.score
  PROVE  \E length \in 0 .. Cardinality(s.ground) - 1 :
           /\ Back(s, cell)[length] = s.start /\ \A m \in 0 .. length - 1 : Back(s, cell)[m] # s.start
           /\ Path(s, cell) = [i \in 1 .. length |-> Back(s, cell)[length - i]]
<1> DEFINE N == Cardinality(s.ground)
           back == Back(s, cell)
           Is(n) == back[n] = s.start /\ \A m \in 0 .. n - 1 : back[m] # s.start
           length == CHOOSE n \in 0 .. N : Is(n)
<1>1. N \in Nat
  <2>1. s.ground \in SUBSET Cells
    BY SearchIs DEF SearchInv
  <2> QED BY <2>1, FiniteGround
<1>2. Path(s, cell) = [i \in 1 .. length |-> back[length - i]]
  BY DEF Path, Back
<1>3. \E n \in 0 .. N - 1 : back[n] = s.start
  BY BackEnds
<1> HIDE DEF N, back
<1>4. \E n \in 0 .. N - 1 : Is(n)
  <2> DEFINE S == {n \in 0 .. N - 1 : back[n] = s.start}
  <2>1. S \in SUBSET Nat /\ S # {}
    BY <1>1, <1>3
  <2>2. PICK n \in S : \A m \in 0 .. n - 1 : m \notin S
    <3> HIDE DEF S
    <3> QED BY <2>1, First
  <2>3. n \in 0 .. N - 1 /\ \A m \in 0 .. n - 1 : m \in 0 .. N - 1
    BY <1>1
  <2> QED BY <2>2, <2>3
<1>5. \A n \in 0 .. N, m \in 0 .. N : Is(n) /\ Is(m) => n = m
  <2>1. \A n \in 0 .. N, m \in 0 .. N : n # m => n \in 0 .. m - 1 \/ m \in 0 .. n - 1
    BY <1>1
  <2> QED BY <2>1
<1>6. \A n \in 0 .. N - 1 : n \in 0 .. N
  BY <1>1
<1>7. length \in 0 .. N - 1 /\ Is(length)
  <2> HIDE DEF Is
  <2>1. length \in 0 .. N /\ Is(length)
    BY <1>4, <1>6
  <2> HIDE DEF length
  <2> QED BY <1>4, <1>5, <1>6, <2>1
<1> HIDE DEF length
<1> QED BY <1>2, <1>7 DEF N, back

\* What the search found is a walk, so the least costs are at most its scores.
LEMMA NoneDearer ==
  ASSUME NEW s, SearchInv(s), NEW cell \in DOMAIN s.score, NEW length \in Nat,
         Back(s, cell)[length] = s.start, \A m \in 0 .. length - 1 : Back(s, cell)[m] # s.start,
         NEW n \in Nat, length <= n
  PROVE  /\ cell \in DOMAIN Reached(s.ground, s.start)[n]
         /\ AtMost(Reached(s.ground, s.start)[n][cell], s.score[cell])
<1> DEFINE R == Reached(s.ground, s.start)
           f == Back(s, cell)
           Found(m, c) == c \in DOMAIN R[m] /\ AtMost(R[m][c], s.score[c])
           B == {m \in Nat : \A j \in 0 .. length : j <= m => Found(m, f[length - j])}
<1>1. Rooted(s) /\ s.start \in s.ground /\ s.score[s.start] = <<0, 0>>
  BY DEF SearchInv, Rooted
<1>2. s.ground \in SUBSET Cells
  BY <1>1, SearchIs
<1>3. /\ R \in [Nat -> Tables(s.ground)] /\ R[0] = [d \in {s.start} |-> <<0, 0>>]
      /\ \A m \in Nat : R[m + 1] = Farther(s.ground, R[m])
  BY <1>1, <1>2, ReachedIs
<1>4. f \in [Nat -> DOMAIN s.score] /\ f[0] = cell
  BY BackIs
<1>5. ASSUME NEW j \in 0 .. length, j < length
      PROVE  LET c == f[length - (j + 1)]
                 b == f[length - j]
             IN /\ c \in Neighbours(s.ground, b) /\ s.score[c] = Plus(s.score[b], StepCost(b, c))
                /\ s.score[b] \in Costs /\ s.score[c] \in Costs
  <2> DEFINE m == length - (j + 1)
  <2>1. m \in Nat /\ m \in 0 .. length - 1 /\ m + 1 = length - j
    BY <1>5
  <2>2. f[m] # s.start
    BY <2>1
  <2> HIDE DEF m
  <2>3. LET c == f[m]
            b == f[m + 1]
        IN /\ c \in Neighbours(s.ground, b) /\ s.score[c] = Plus(s.score[b], StepCost(b, c))
           /\ s.score[b] \in Costs /\ s.score[c] \in Costs
    BY <2>1, <2>2, BackStep
  <2> QED BY <2>1, <2>3 DEF m
<1>6. \A c \in DOMAIN s.score : s.score[c] \in Costs
  BY <1>1, SearchIs
<1>7. f[length] = s.start
  OBVIOUS
<1> HIDE DEF R, f
<1>8. \A m \in Nat : \A c \in DOMAIN R[m] : R[m][c] \in Costs
  BY <1>3, TableIs
<1>9. 0 \in B
  <2>1. \A j \in 0 .. length : j <= 0 => length - j = length
    OBVIOUS
  <2>2. <<0, 0>> \in Costs
    BY DEF Costs
  <2>3. Found(0, s.start)
    BY <1>1, <1>3, <2>2, AtMostOrder
  <2> QED BY <1>7, <2>1, <2>3
<1>10. ASSUME NEW m \in B PROVE m + 1 \in B
  <2>1. m \in Nat /\ m + 1 \in Nat /\ \A j \in 0 .. length : j <= m => Found(m, f[length - j])
    OBVIOUS
  <2>2. R[m] \in Tables(s.ground) /\ R[m + 1] = Farther(s.ground, R[m])
    BY <1>3, <2>1
  <2>3. ASSUME NEW j \in 0 .. length, j <= m + 1 PROVE Found(m + 1, f[length - j])
    <3> DEFINE c == f[length - j]
    <3>1. c \in DOMAIN s.score
      BY <1>4
    <3>2. s.score[c] \in Costs
      BY <1>6, <3>1
    <3>3. CASE j <= m
      <4>1. c \in DOMAIN R[m] /\ AtMost(R[m][c], s.score[c])
        BY <2>1, <3>3
      <4> HIDE DEF c
      <4>2. c \in DOMAIN R[m + 1] /\ AtMost(R[m + 1][c], R[m][c])
        BY <1>2, <2>2, <4>1, FartherDoes
      <4>3. R[m + 1][c] \in Costs /\ R[m][c] \in Costs
        BY <1>8, <2>1, <4>1, <4>2
      <4>4. Found(m + 1, c)
        BY <3>2, <4>1, <4>2, <4>3, AtMostOrder
      <4> QED BY <4>4 DEF c
    <3>4. CASE j > m
      <4>1. j = m + 1 /\ m \in 0 .. length /\ m < length
        BY <2>1, <2>3, <3>4
      <4> DEFINE b == f[length - m]
      <4>2. b \in DOMAIN R[m] /\ AtMost(R[m][b], s.score[b])
        BY <2>1, <4>1
      <4>3. /\ c \in Neighbours(s.ground, b) /\ s.score[c] = Plus(s.score[b], StepCost(b, c))
            /\ s.score[b] \in Costs /\ s.score[c] \in Costs
        BY <1>5, <4>1
      <4> HIDE DEF b, c
      <4> DEFINE step == StepCost(b, c)
      <4>4. c \in DOMAIN R[m + 1] /\ AtMost(R[m + 1][c], Plus(R[m][b], step))
        BY <1>2, <2>2, <4>2, <4>3, FartherDoes
      <4>5. R[m][b] \in Costs /\ R[m + 1][c] \in Costs /\ step \in Costs
        <5>1. R[m][b] \in Costs /\ R[m + 1][c] \in Costs
          BY <1>8, <2>1, <4>2, <4>4
        <5> QED BY <5>1, StepCostAdds
      <4> HIDE DEF step
      <4>6. Plus(R[m][b], step) \in Costs
        BY <4>5, PlusType
      <4>7. AtMost(Plus(R[m][b], step), s.score[c])
        <5>1. s.score[c] = Plus(s.score[b], step)
          BY <4>3 DEF step
        <5> QED BY <4>2, <4>3, <4>5, <5>1, PlusOrder
      <4>8. AtMost(R[m + 1][c], s.score[c])
        BY <4>3, <4>4, <4>5, <4>6, <4>7, AtMostOrder
      <4>9. Found(m + 1, c)
        BY <4>4, <4>8
      <4> QED BY <4>9 DEF c
    <3> QED BY <2>1, <3>3, <3>4
  <2> QED BY <2>1, <2>3
<1>11. B = Nat
  <2> HIDE DEF B
  <2>1. B \in SUBSET Nat
    BY DEF B
  <2> QED BY <1>9, <1>10, <2>1, Induct
<1>12. n \in B /\ length \in 0 .. length /\ length - length = 0
  <2> HIDE DEF B
  <2> QED BY <1>11
<1>13. Found(n, f[0])
  <2>1. \A j \in 0 .. length : j <= n => Found(n, f[length - j])
    BY <1>12
  <2> HIDE DEF Found, B
  <2> QED BY <1>12, <2>1
<1> QED BY <1>4, <1>13 DEF R

\* The straight steps of a walk's first cells, and the diagonal ones.
StepsOf(w, k, cost) == {i \in 2 .. k : StepCost(w[i - 1], w[i]) = cost}

\* A score that grows by the steps of a walk counts them.
LEMMA ScoreCounts ==
  ASSUME NEW score, NEW w, NEW n \in Nat, score[w[1]] = <<0, 0>>,
         \A i \in 2 .. n + 1 : score[w[i]] = Plus(score[w[i - 1]], StepCost(w[i - 1], w[i]))
  PROVE  score[w[n + 1]] = <<Cardinality(StepsOf(w, n + 1, <<1, 0>>)), Cardinality(StepsOf(w, n + 1, <<0, 1>>))>>
<1> DEFINE Straight(k) == StepsOf(w, k, <<1, 0>>)
           Diagonal(k) == StepsOf(w, k, <<0, 1>>)
           Counts(k) == /\ IsFiniteSet(Straight(k)) /\ IsFiniteSet(Diagonal(k))
                        /\ Cardinality(Straight(k)) \in Nat /\ Cardinality(Diagonal(k)) \in Nat
                        /\ score[w[k]] = <<Cardinality(Straight(k)), Cardinality(Diagonal(k))>>
           B == {k \in Nat : k <= n => Counts(k + 1)}
<1>1. 0 \in B
  <2>1. Straight(1) = {} /\ Diagonal(1) = {}
    BY DEF StepsOf
  <2>2. IsFiniteSet({}) /\ Cardinality({}) = 0
    BY FS_EmptySet
  <2> HIDE DEF Straight, Diagonal
  <2>3. Counts(1)
    <3>1. IsFiniteSet(Straight(1)) /\ IsFiniteSet(Diagonal(1)) /\ Cardinality(Straight(1)) = 0 /\ Cardinality(Diagonal(1)) = 0
      BY <2>1, <2>2
    <3>2. score[w[1]] = <<Cardinality(Straight(1)), Cardinality(Diagonal(1))>>
      BY <3>1
    <3>3. 0 \in Nat
      OBVIOUS
    <3> QED BY <3>1, <3>2, <3>3
  <2> HIDE DEF Counts
  <2>4. Counts(0 + 1)
    BY <2>3
  <2> QED BY <2>4
<1>2. ASSUME NEW k \in B PROVE k + 1 \in B
  <2>1. SUFFICES ASSUME k + 1 <= n PROVE Counts((k + 1) + 1)
    OBVIOUS
  <2> DEFINE j == k + 1
  <2>2. j \in Nat /\ j + 1 \in 2 .. n + 1 /\ (j + 1) - 1 = j /\ k \in Nat /\ k <= n
    BY <2>1
  <2>3. Counts(j)
    BY <2>2
  <2>4. score[w[j + 1]] = Plus(score[w[j]], StepCost(w[j], w[j + 1]))
    <3>1. score[w[j + 1]] = Plus(score[w[(j + 1) - 1]], StepCost(w[(j + 1) - 1], w[j + 1]))
      BY <2>2
    <3> QED BY <2>2, <3>1
  <2>5. j + 1 \notin 2 .. j /\ 2 .. j + 1 = (2 .. j) \cup {j + 1}
    BY <2>2
  <2> HIDE DEF j, B
  <2>6. ASSUME NEW cost
        PROVE  /\ StepCost(w[j], w[j + 1]) = cost => StepsOf(w, j + 1, cost) = StepsOf(w, j, cost) \cup {j + 1}
               /\ StepCost(w[j], w[j + 1]) # cost => StepsOf(w, j + 1, cost) = StepsOf(w, j, cost)
               /\ j + 1 \notin StepsOf(w, j, cost)
    BY <2>2, <2>5 DEF StepsOf
  <2>7. /\ IsFiniteSet(Straight(j)) /\ IsFiniteSet(Diagonal(j))
        /\ Cardinality(Straight(j)) \in Nat /\ Cardinality(Diagonal(j)) \in Nat
        /\ score[w[j]] = <<Cardinality(Straight(j)), Cardinality(Diagonal(j))>>
    BY <2>3
  <2>8. <<1, 0>> # <<0, 1>>
    OBVIOUS
  <2>9. CASE StepCost(w[j], w[j + 1]) = <<1, 0>>
    <3>1. Straight(j + 1) = Straight(j) \cup {j + 1} /\ Diagonal(j + 1) = Diagonal(j) /\ j + 1 \notin Straight(j)
      BY <2>6, <2>8, <2>9
    <3> HIDE DEF Straight, Diagonal
    <3>2. IsFiniteSet(Straight(j + 1)) /\ Cardinality(Straight(j + 1)) = Cardinality(Straight(j)) + 1
      BY <2>7, <3>1, FS_AddElement
    <3>3. score[w[j + 1]] = <<Cardinality(Straight(j)) + 1, Cardinality(Diagonal(j)) + 0>>
      BY <2>4, <2>7, <2>9 DEF Plus
    <3>4. Counts(j + 1)
      BY <2>7, <3>1, <3>2, <3>3
    <3> QED BY <3>4 DEF j, Straight, Diagonal
  <2>10. CASE StepCost(w[j], w[j + 1]) = <<0, 1>>
    <3>1. Straight(j + 1) = Straight(j) /\ Diagonal(j + 1) = Diagonal(j) \cup {j + 1} /\ j + 1 \notin Diagonal(j)
      BY <2>6, <2>8, <2>10
    <3> HIDE DEF Straight, Diagonal
    <3>2. IsFiniteSet(Diagonal(j + 1)) /\ Cardinality(Diagonal(j + 1)) = Cardinality(Diagonal(j)) + 1
      BY <2>7, <3>1, FS_AddElement
    <3>3. score[w[j + 1]] = <<Cardinality(Straight(j)) + 0, Cardinality(Diagonal(j)) + 1>>
      BY <2>4, <2>7, <2>10 DEF Plus
    <3>4. Counts(j + 1)
      BY <2>7, <3>1, <3>2, <3>3
    <3> QED BY <3>4 DEF j, Straight, Diagonal
  <2> QED BY <2>9, <2>10 DEF StepCost
<1>3. B = Nat
  <2> HIDE DEF B
  <2>1. B \in SUBSET Nat
    BY DEF B
  <2> QED BY <1>1, <1>2, <2>1, Induct
<1>4. n \in B /\ n <= n
  <2> HIDE DEF B
  <2> QED BY <1>3
<1>5. Counts(n + 1)
  BY <1>4
<1> QED BY <1>5

\* The path is a walk from the start to the cell, of the score's steps.
WalkTo(s, cell, path) ==
  /\ path[Len(path)] = cell
  /\ \A i \in 2 .. Len(path) : path[i] \in Neighbours(s.ground, path[i - 1])
  /\ s.score[cell] = <<Cardinality({i \in 2 .. Len(path) : StepCost(path[i - 1], path[i]) = <<1, 0>>}),
                       Cardinality({i \in 2 .. Len(path) : StepCost(path[i - 1], path[i]) = <<0, 1>>})>>

LEMMA PathWalks ==
  ASSUME NEW s, SearchInv(s), NEW cell \in DOMAIN s.score
  PROVE  WalkTo(s, cell, <<s.start>> \o Path(s, cell))
<1> DEFINE f == Back(s, cell)
           w == <<s.start>> \o Path(s, cell)
<1>1. PICK length \in 0 .. Cardinality(s.ground) - 1 :
        /\ f[length] = s.start /\ \A m \in 0 .. length - 1 : f[m] # s.start
        /\ Path(s, cell) = [i \in 1 .. length |-> f[length - i]]
  BY PathIs
<1>2. f \in [Nat -> DOMAIN s.score] /\ f[0] = cell
  BY BackIs
<1>3. length \in Nat
  OBVIOUS
<1>4. ASSUME NEW m \in 0 .. length - 1
      PROVE  f[m] \in Neighbours(s.ground, f[m + 1])
             /\ s.score[f[m]] = Plus(s.score[f[m + 1]], StepCost(f[m + 1], f[m]))
  <2>1. m \in Nat /\ f[m] # s.start
    BY <1>1
  <2> QED BY <2>1, BackStep
<1>5. s.score[s.start] = <<0, 0>>
  BY DEF SearchInv, Rooted
<1> HIDE DEF f
<1> DEFINE v == [i \in 1 .. length + 1 |-> f[length + 1 - i]]
<1>6. w = v
  <2> DEFINE p == [i \in 1 .. length |-> f[length - i]]
  <2>1. p \in Seq(DOMAIN s.score) /\ Len(p) = length
    <3>1. \A i \in 1 .. length : f[length - i] \in DOMAIN s.score
      BY <1>2, <1>3
    <3> QED BY <1>3, <3>1
  <2>2. <<s.start>> \in Seq(DOMAIN s.score) /\ Len(<<s.start>>) = 1
    <3>1. s.start \in DOMAIN s.score
      BY DEF SearchInv, Rooted
    <3>2. ASSUME NEW S, NEW x \in S PROVE <<x>> \in Seq(S) /\ Len(<<x>>) = 1
      OBVIOUS
    <3> QED BY <3>1, <3>2
  <2> HIDE DEF p
  <2>3. /\ w = <<s.start>> \o p /\ w \in Seq(DOMAIN s.score) /\ Len(w) = 1 + length
        /\ w[1] = s.start /\ \A i \in 1 .. length : w[i + 1] = p[i]
    <3>1. w = <<s.start>> \o p
      BY <1>1 DEF p
    <3>2. /\ (<<s.start>> \o p) \in Seq(DOMAIN s.score) /\ Len(<<s.start>> \o p) = 1 + length
          /\ \A i \in 1 .. 1 + length : (<<s.start>> \o p)[i] = IF i <= 1 THEN <<s.start>>[i] ELSE p[i - 1]
      BY <1>3, <2>1, <2>2, ConcatProperties
    <3>3. 1 \in 1 .. 1 + length /\ <<s.start>>[1] = s.start
      BY <1>3
    <3>4. \A i \in 1 .. length : i + 1 \in 1 .. 1 + length /\ ~(i + 1 <= 1) /\ (i + 1) - 1 = i
      BY <1>3
    <3> HIDE DEF w
    <3> QED BY <3>1, <3>2, <3>3, <3>4
  <2> HIDE DEF w
  <2>4. w = [i \in 1 .. length + 1 |-> w[i]]
    BY <1>3, <2>3
  <2>5. ASSUME NEW i \in 1 .. length + 1 PROVE w[i] = f[length + 1 - i]
    <3>1. CASE i = 1
      <4>1. length + 1 - 1 = length
        BY <1>3
      <4> QED BY <1>1, <2>3, <3>1, <4>1
    <3>2. CASE i # 1
      <4>1. i - 1 \in 1 .. length /\ (i - 1) + 1 = i /\ length - (i - 1) = length + 1 - i
        BY <1>3, <3>2
      <4>2. w[(i - 1) + 1] = p[i - 1]
        BY <2>3, <4>1
      <4>3. p[i - 1] = f[length - (i - 1)]
        BY <4>1 DEF p
      <4> QED BY <4>1, <4>2, <4>3
    <3> QED BY <3>1, <3>2
  <2> QED BY <2>4, <2>5
<1> HIDE DEF w
<1>7. Len(v) = length + 1 /\ v[length + 1] = cell /\ v[1] = s.start
  <2>1. length + 1 \in Nat /\ length + 1 \in 1 .. length + 1 /\ 1 \in 1 .. length + 1
        /\ length + 1 - (length + 1) = 0 /\ length + 1 - 1 = length
    BY <1>3
  <2> QED BY <1>1, <1>2, <2>1
<1>8. ASSUME NEW i \in 2 .. length + 1
      PROVE  /\ v[i] \in Neighbours(s.ground, v[i - 1])
             /\ s.score[v[i]] = Plus(s.score[v[i - 1]], StepCost(v[i - 1], v[i]))
  <2> DEFINE m == length + 1 - i
  <2>1. m \in 0 .. length - 1 /\ m + 1 = length + 1 - (i - 1) /\ i \in 1 .. length + 1 /\ i - 1 \in 1 .. length + 1
    BY <1>3
  <2>2. v[i] = f[m] /\ v[i - 1] = f[m + 1]
    BY <2>1
  <2> HIDE DEF m, v
  <2> QED BY <1>4, <2>1, <2>2
<1> HIDE DEF v
<1>9. s.score[v[length + 1]] = <<Cardinality(StepsOf(v, length + 1, <<1, 0>>)),
                                 Cardinality(StepsOf(v, length + 1, <<0, 1>>))>>
  <2> DEFINE score == s.score
  <2>1. score[v[1]] = <<0, 0>> /\ \A i \in 2 .. length + 1 : score[v[i]] = Plus(score[v[i - 1]], StepCost(v[i - 1], v[i]))
    BY <1>5, <1>7, <1>8
  <2> HIDE DEF score
  <2>2. score[v[length + 1]] = <<Cardinality(StepsOf(v, length + 1, <<1, 0>>)),
                                 Cardinality(StepsOf(v, length + 1, <<0, 1>>))>>
    BY <1>3, <2>1, ScoreCounts
  <2> QED BY <2>2 DEF score
<1>10. WalkTo(s, cell, v)
  <2>1. /\ v[Len(v)] = cell
        /\ \A i \in 2 .. Len(v) : v[i] \in Neighbours(s.ground, v[i - 1])
    BY <1>7, <1>8
  <2>2. s.score[cell] = <<Cardinality({i \in 2 .. Len(v) : StepCost(v[i - 1], v[i]) = <<1, 0>>}),
                         Cardinality({i \in 2 .. Len(v) : StepCost(v[i - 1], v[i]) = <<0, 1>>})>>
    BY <1>7, <1>9 DEF StepsOf
  <2> QED BY <2>1, <2>2 DEF WalkTo
<1> QED BY <1>6, <1>10 DEF w

\* astar returns a shortest path, on a map of any size and whatever cells are walkable, and None only
\* when no walk leads to the goal.
THEOREM PathIsShortest == PathSpec => []PathShortest
<1>1. SearchInv(search) => PathShortest
  <2> SUFFICES ASSUME SearchInv(search), search.done PROVE PathShortest
    BY DEF PathShortest
  <2> DEFINE s == search
             N == Cardinality(s.ground)
             best == Reference(s.ground, s.start)
             R == Reached(s.ground, s.start)
  <2>1. /\ Rooted(s) /\ Entered(s) /\ s.start \in s.ground /\ s.goal \notin Closed(s) /\ Ended(s)
        /\ DOMAIN s.from = DOMAIN s.score
    BY DEF SearchInv, Rooted
  <2>2. s.ground \in SUBSET Cells /\ s.goal \in Cells
    BY <2>1, SearchIs
  <2>3. N - 1 \in Nat /\ best = R[N - 1]
    <3>1. N \in Nat /\ IsFiniteSet(s.ground)
      BY <2>2, FiniteGround
    <3>2. N # 0
      BY <2>1, <3>1, FS_EmptySet
    <3> HIDE DEF N
    <3>3. N - 1 \in Nat
      BY <3>1, <3>2
    <3> QED BY <3>3 DEF Reference, N
  <2>4. R \in [Nat -> Tables(s.ground)]
    BY <2>1, <2>2, ReachedIs
  <2>5. \A c \in DOMAIN best : best[c] \in Costs
    <3>1. best \in Tables(s.ground)
      BY <2>3, <2>4
    <3> HIDE DEF best
    <3> QED BY <3>1, TableIs
  \* The search found no more than there is.
  <2>6. ASSUME s.goal \in DOMAIN s.score
        PROVE  s.goal \in DOMAIN best /\ AtMost(best[s.goal], s.score[s.goal])
    <3>1. PICK length \in 0 .. N - 1 :
            Back(s, s.goal)[length] = s.start /\ \A m \in 0 .. length - 1 : Back(s, s.goal)[m] # s.start
      BY <2>6, PathIs
    <3>2. length \in Nat /\ length <= N - 1
      BY <2>3
    <3> HIDE DEF N
    <3> QED BY <2>3, <2>6, <3>1, <3>2, NoneDearer
  \* It found the goal if there is a way, and at no higher cost.
  <2>7. ASSUME s.goal \in DOMAIN best
        PROVE  s.goal \in DOMAIN s.score /\ AtMost(s.score[s.goal], best[s.goal])
    <3>1. PICK e \in s.frontier : AtMost(e.estimate, Plus(best[s.goal], Octile(s.goal, s.goal)))
      <4> HIDE DEF N
      <4>1. s.goal \in DOMAIN R[N - 1]
        BY <2>3, <2>7
      <4> QED BY <2>1, <2>3, <4>1, NoneCheaper
    <3>2. PICK first \in s.frontier :
            /\ first.cell = s.goal /\ first.cost = s.score[s.goal]
            /\ \A other \in s.frontier : AtMost(first.estimate, other.estimate)
      BY <2>1, <3>1 DEF Ended
    <3>3. s.goal \in DOMAIN s.score /\ first.estimate = Plus(s.score[s.goal], Octile(s.goal, s.goal))
      BY <2>1, <3>2 DEF Entered
    <3>4. Octile(s.goal, s.goal) \in Costs
      BY <2>2, OctileType
    <3>5. s.score[s.goal] \in Costs /\ best[s.goal] \in Costs /\ first.estimate \in Costs /\ e.estimate \in Costs
      BY <2>1, <2>5, <2>7, <3>3, SearchIs
    <3> DEFINE h == Octile(s.goal, s.goal)
               v == s.score[s.goal]
               b == best[s.goal]
    <3>6. AtMost(first.estimate, e.estimate) /\ first.estimate = Plus(v, h) /\ AtMost(e.estimate, Plus(b, h))
      BY <3>1, <3>2, <3>3
    <3>7. v \in Costs /\ b \in Costs /\ h \in Costs
      BY <3>4, <3>5
    <3> HIDE DEF h, v, b
    <3>8. Plus(b, h) \in Costs
      BY <3>7, PlusType
    <3>9. AtMost(Plus(v, h), Plus(b, h))
      BY <3>5, <3>6, <3>8, AtMostOrder
    <3>10. AtMost(v, b)
      BY <3>7, <3>9, PlusOrder
    <3> QED BY <3>3, <3>10 DEF v, b
  <2>8. CASE s.goal \notin DOMAIN best
    BY <2>1, <2>6, <2>8 DEF PathShortest
  <2>9. CASE s.goal \in DOMAIN best
    <3>1. s.goal \in DOMAIN s.score /\ AtMost(s.score[s.goal], best[s.goal]) /\ AtMost(best[s.goal], s.score[s.goal])
      BY <2>6, <2>7, <2>9
    <3>2. s.score[s.goal] \in Costs /\ best[s.goal] \in Costs
      BY <2>1, <2>5, <2>9, <3>1, SearchIs
    <3>3. s.score[s.goal] = best[s.goal]
      BY <3>1, <3>2, AtMostOrder
    <3>4. s.goal \in DOMAIN s.from
      BY <2>1, <3>1
    <3>5. WalkTo(s, s.goal, <<s.start>> \o Path(s, s.goal))
      BY <3>1, PathWalks
    <3> QED BY <2>9, <3>3, <3>4, <3>5 DEF PathShortest, WalkTo
  <2> QED BY <2>8, <2>9
<1>2. SearchInv(search) /\ [PathNext]_search => SearchInv(search)'
  BY SearchKept
<1> QED BY <1>1, <1>2, SearchBegun, PTL DEF PathSpec

=============================================================================
