------------------------------ MODULE Modular -------------------------------
(***************************************************************************)
(* Facts about numbers that the provers do not find by themselves, most of *)
(* them about remainders, for any modulus: the counters and clocks of      *)
(* transport streams wrap.                                                 *)
(***************************************************************************)
EXTENDS Integers, FiniteSets, FiniteSetTheorems, WellFoundedInduction, TLAPS

LEMMA MultipleBelow ==
  ASSUME NEW m \in Nat \ {0}, NEW t \in Int, -m < m * t, m * t < m
  PROVE  t = 0
<1>1. CASE t >= 1
  <2>1. m * t >= m
    BY <1>1, SMT
  <2> QED
    BY <2>1
<1>2. CASE t <= -1
  <2>1. m * t <= -m
    BY <1>2, SMT
  <2> QED
    BY <2>1
<1> QED
  BY <1>1, <1>2

LEMMA Division ==
  ASSUME NEW m \in Nat \ {0}, NEW x \in Int
  PROVE  \E q \in Int : x = m * q + (x % m) /\ x % m \in 0 .. m - 1
<1>1. x % m \in 0 .. m - 1 /\ x \div m \in Int /\ x = m * (x \div m) + (x % m)
  BY SMT
<1> QED
  BY <1>1

(* A remainder is known by the multiple it is a remainder from. *)
LEMMA Remainder ==
  ASSUME NEW m \in Nat \ {0}, NEW q \in Int, NEW r \in 0 .. m - 1
  PROVE  (m * q + r) % m = r
<1> DEFINE x == m * q + r
           z == x % m
<1>1. m * q \in Int /\ x \in Int
  BY SMT
<1>2. PICK b \in Int : x = m * b + (x % m) /\ x % m \in 0 .. m - 1
  BY ONLY <1>1, m \in Nat \ {0}, Division
<1>3. z \in 0 .. m - 1 /\ x = m * b + z
  BY <1>2
<1>4. m * (b - q) = m * b - m * q /\ m * b \in Int
  BY SMT
<1>5. x = m * q + r
  OBVIOUS
<1> HIDE DEF z, x
<1>6. m * (b - q) = r - z
  BY <1>1, <1>3, <1>4, <1>5
<1>7. b - q = 0
  BY <1>3, <1>6, MultipleBelow
<1>8. m * (b - q) = 0
  BY <1>7, SMT
<1>9. z = r
  BY <1>3, <1>6, <1>8
<1> QED
  BY <1>9 DEF z, x

(* Multiples do not count. *)
LEMMA AddMultiple ==
  ASSUME NEW m \in Nat \ {0}, NEW x \in Int, NEW q \in Int
  PROVE  (x + m * q) % m = x % m
<1>1. PICK a \in Int : x = m * a + (x % m) /\ x % m \in 0 .. m - 1
  BY ONLY x \in Int, m \in Nat \ {0}, Division
<1> DEFINE z == x % m
<1>2. z \in 0 .. m - 1 /\ x = m * a + z
  BY <1>1
<1> HIDE DEF z
<1>3. m * (a + q) = m * a + m * q /\ m * a \in Int /\ m * q \in Int /\ a + q \in Int
  BY SMT
<1>4. x + m * q = m * (a + q) + z
  BY <1>2, <1>3
<1>5. (m * (a + q) + z) % m = z
  BY <1>2, <1>3, Remainder
<1> QED
  BY <1>4, <1>5 DEF z

(* It does not matter when the remainder is taken. *)
LEMMA AddRemainder ==
  ASSUME NEW m \in Nat \ {0}, NEW x \in Int, NEW y \in Int
  PROVE  ((x % m) + y) % m = (x + y) % m
<1>1. PICK a \in Int : x = m * a + (x % m) /\ x % m \in 0 .. m - 1
  BY ONLY x \in Int, m \in Nat \ {0}, Division
<1> DEFINE z == x % m
           w == z + y
<1>2. z \in Int /\ x = m * a + z
  BY <1>1
<1>3. m * a \in Int
  BY SMT
<1>4. w \in Int /\ w = z + y
  BY <1>2
<1> HIDE DEF w, z
<1>5. x + y = w + m * a
  BY <1>2, <1>3, <1>4
<1>6. (w + m * a) % m = w % m
  BY <1>4, AddMultiple
<1> QED
  BY <1>5, <1>6 DEF w, z

(* The packet that comes next has the counter that is expected. *)
LEMMA NextIsContinuous ==
  ASSUME NEW m \in Nat \ {0}, NEW x \in Nat
  PROVE  ((x % m) + m + 1 - ((x + 1) % m)) % m = 0
<1>0. x \in Int /\ x + 1 \in Int /\ 0 \in 0 .. m - 1
  OBVIOUS
<1>1. PICK a \in Int : x = m * a + (x % m) /\ x % m \in 0 .. m - 1
  BY ONLY <1>0, m \in Nat \ {0}, Division
<1> DEFINE z == x % m
           w == (x + 1) % m
<1>2. z \in 0 .. m - 1 /\ x = m * a + z
  BY <1>1
<1>3. w = IF z = m - 1 THEN 0 ELSE z + 1
  <2>1. CASE z = m - 1
    <3>1. a + 1 \in Int /\ x + 1 = m * (a + 1) + 0
      <4>1. m * (a + 1) = m * a + m /\ m * a \in Int
        BY SMT
      <4> HIDE DEF z
      <4> QED
        BY <1>2, <2>1, <4>1
    <3>2. (m * (a + 1) + 0) % m = 0
      BY ONLY <1>0, <3>1, m \in Nat \ {0}, Remainder
    <3>3. w = 0
      BY <3>1, <3>2
    <3> QED
      BY <2>1, <3>3
  <2>2. CASE z # m - 1
    <3>1. z + 1 \in 0 .. m - 1 /\ x + 1 = m * a + (z + 1)
      <4>1. m * a \in Int
        BY SMT
      <4> HIDE DEF z
      <4> QED
        BY <1>2, <2>2, <4>1
    <3> HIDE DEF z
    <3>2. (m * a + (z + 1)) % m = z + 1
      BY ONLY <3>1, a \in Int, m \in Nat \ {0}, Remainder
    <3>3. w = z + 1
      BY <3>1, <3>2
    <3> QED
      BY <2>2, <3>3
  <2> QED
    BY <2>1, <2>2
<1> HIDE DEF z, w
<1> DEFINE v == z + m + 1 - w
<1>4. PICK b \in {1, 2} : v = m * b + 0
  <2>1. CASE z = m - 1
    <3>1. v = m * 2 + 0
      BY <1>2, <1>3, <2>1
    <3> QED
      BY <3>1
  <2>2. CASE z # m - 1
    <3>1. v = m * 1 + 0
      BY <1>2, <1>3, <2>2
    <3> QED
      BY <3>1
  <2> QED
    BY <2>1, <2>2
<1>5. b \in Int
  OBVIOUS
<1> HIDE DEF v
<1>6. v % m = 0
  <2>1. (m * b + 0) % m = 0
    BY ONLY <1>0, <1>5, m \in Nat \ {0}, Remainder
  <2> QED
    BY <1>4, <2>1
<1> QED
  BY <1>6 DEF v, z, w

(* A counter that comes right after another is one ahead, but for whole    *)
(* periods of it.                                                          *)
LEMMA CounterAhead ==
  ASSUME NEW m \in Nat \ {0}, m >= 2, NEW x \in Int, NEW y \in Int,
         ((x % m) + m + 1 - (y % m)) % m = 0
  PROVE  (y - x) % m = 1
<1>1. PICK a \in Int : x = m * a + (x % m) /\ x % m \in 0 .. m - 1
  BY ONLY x \in Int, m \in Nat \ {0}, Division
<1>2. PICK b \in Int : y = m * b + (y % m) /\ y % m \in 0 .. m - 1
  BY ONLY y \in Int, m \in Nat \ {0}, Division
<1> DEFINE z == x % m
           w == y % m
           u == z + m + 1 - w
<1>3. z \in Int /\ w \in Int /\ x = m * a + z /\ y = m * b + w
  BY <1>1, <1>2
<1>4. u % m = 0
  OBVIOUS
<1> HIDE DEF z, w
<1>5. u \in Int
  BY <1>3
<1> HIDE DEF u
<1>6. PICK c \in Int : u = m * c + (u % m)
  BY ONLY <1>5, m \in Nat \ {0}, Division
<1>7. z + m + 1 - w = m * c
  BY <1>3, <1>4, <1>6 DEF u
<1>8. m * (b - a - c + 1) = m * b - m * a - m * c + m
  BY SMT
<1>9. m * a \in Int /\ m * b \in Int /\ m * c \in Int /\ b - a - c + 1 \in Int
  BY SMT
<1>10. PICK t \in Int : t = b - a - c + 1
  BY <1>9
<1>11. y - x = m * t + 1
  BY <1>3, <1>7, <1>8, <1>9, <1>10
<1>12. 1 \in 0 .. m - 1
  OBVIOUS
<1>13. (m * t + 1) % m = 1
  BY ONLY <1>12, t \in Int, m \in Nat \ {0}, Remainder
<1> QED
  BY <1>11, <1>13

(* Two counters are equal only whole periods apart. *)
LEMMA SameCounter ==
  ASSUME NEW m \in Nat \ {0}, NEW x \in Int, NEW y \in Int, x % m = y % m
  PROVE  (y - x) % m = 0
<1>1. PICK a \in Int : x = m * a + (x % m) /\ x % m \in 0 .. m - 1
  BY ONLY x \in Int, m \in Nat \ {0}, Division
<1>2. PICK b \in Int : y = m * b + (y % m) /\ y % m \in 0 .. m - 1
  BY ONLY y \in Int, m \in Nat \ {0}, Division
<1> DEFINE z == x % m
<1>3. z \in Int /\ x = m * a + z /\ y = m * b + z
  BY <1>1, <1>2
<1> HIDE DEF z
<1>4. m * (b - a) = m * b - m * a /\ m * a \in Int /\ m * b \in Int
  BY SMT
<1>5. PICK t \in Int : t = b - a
  OBVIOUS
<1>6. PICK r \in Int : r = 0
  OBVIOUS
<1>7. y - x = m * t + r
  BY <1>3, <1>4, <1>5, <1>6
<1>8. r \in 0 .. m - 1
  BY <1>6
<1>9. (m * t + r) % m = r
  BY ONLY <1>8, t \in Int, m \in Nat \ {0}, Remainder
<1> QED
  BY <1>6, <1>7, <1>9

(***************************************************************************)
(* A set of natural numbers has a least member: the sets of the numbers    *)
(* below each of them are finite, and inclusion of finite sets is well     *)
(* founded.                                                                *)
(***************************************************************************)
LEMMA HasLeast ==
  ASSUME NEW S \in SUBSET Nat, S # {}
  PROVE  \E i \in S : \A j \in S : i <= j
<1> DEFINE T == {0 .. i : i \in S}
           R == StrictSubsetOrdering(Nat)
           F == FiniteSubsetsOf(Nat)
<1>1. T \subseteq F
  <2>1. \A i \in Nat : IsFiniteSet(0 .. i) /\ 0 .. i \in SUBSET Nat
    BY FS_Interval
  <2> QED
    BY <2>1 DEF FiniteSubsetsOf
<1>2. T # {}
  OBVIOUS
<1>3. IsWellFoundedOn(R, F)
  BY FS_StrictSubsetOrderingWellFounded
<1>4. \E x \in T : \A y \in T : ~ (<<y, x>> \in R)
  <2> HIDE DEF T, R, F
  <2> QED
    BY <1>1, <1>2, <1>3, WFMin
<1>5. PICK i \in S : \A j \in S : ~ (<<0 .. j, 0 .. i>> \in R)
  BY <1>4
<1>6. ASSUME NEW j \in S, j < i
      PROVE  FALSE
  <2>1. 0 .. j \subseteq 0 .. i /\ 0 .. j # 0 .. i
    BY <1>6
  <2>2. 0 .. j \in SUBSET Nat /\ 0 .. i \in SUBSET Nat
    OBVIOUS
  <2> QED
    BY <1>5, <2>1, <2>2 DEF StrictSubsetOrdering
<1> QED
  <2>1. \A j \in S : ~ (j < i)
    BY <1>6
  <2>2. i \in Int /\ \A j \in S : j \in Int
    OBVIOUS
  <2> QED
    BY <2>1, <2>2

(* One further, a remainder is one more, or zero again. *)
LEMMA NextRemainder ==
  ASSUME NEW m \in Nat \ {0}, NEW y \in Int
  PROVE  /\ y % m \in 0 .. m - 1
         /\ (y + 1) % m = IF y % m = m - 1 THEN 0 ELSE (y % m) + 1
<1>0. 1 \in Int
  OBVIOUS
<1>1. ((y % m) + 1) % m = (y + 1) % m
  BY ONLY <1>0, y \in Int, m \in Nat \ {0}, AddRemainder
<1>2. PICK z \in Int : z = y % m /\ z \in 0 .. m - 1
  BY Division
<1>3. CASE z = m - 1
  <2>1. PICK r \in Int : r = 0 /\ r \in 0 .. m - 1
    OBVIOUS
  <2>2. PICK q \in Int : q = 1
    OBVIOUS
  <2>3. (m * q + r) % m = r
    BY ONLY <2>1, q \in Int, m \in Nat \ {0}, Remainder
  <2>4. m * q = m
    BY <2>2
  <2>5. m * q + r = z + 1
    BY <1>3, <2>1, <2>4
  <2> QED
    BY <1>1, <1>2, <1>3, <2>1, <2>3, <2>5
<1>4. CASE z # m - 1
  <2>1. PICK r \in Int : r = z + 1 /\ r \in 0 .. m - 1
    BY <1>2, <1>4
  <2>2. PICK q \in Int : q = 0
    OBVIOUS
  <2>3. (m * q + r) % m = r
    BY ONLY <2>1, q \in Int, m \in Nat \ {0}, Remainder
  <2>4. m * q = 0
    BY <2>2
  <2>5. m * q + r = z + 1
    BY <2>1, <2>4
  <2> QED
    BY <1>1, <1>2, <1>4, <2>1, <2>3, <2>5
<1> QED
  BY <1>2, <1>3, <1>4

(* Two numbers have the same remainder if, and only if, they are whole     *)
(* periods apart.                                                          *)
LEMMA Congruent ==
  ASSUME NEW m \in Nat \ {0}, NEW x \in Int, NEW y \in Int
  PROVE  x % m = y % m <=> (y - x) % m = 0
<1>1. ASSUME (y - x) % m = 0
      PROVE  x % m = y % m
  <2>1. PICK d \in Int : d = y - x
    OBVIOUS
  <2>2. PICK q \in Int : d = m * q + (d % m)
    BY ONLY d \in Int, m \in Nat \ {0}, Division
  <2>3. d = m * q
    <3>1. m * q \in Int /\ d % m = 0
      BY <1>1, <2>1
    <3> QED
      BY <2>2, <3>1
  <2>4. y = x + m * q
    BY <2>1, <2>3
  <2> QED
    BY <2>4, AddMultiple
<1> QED
  BY <1>1, SameCounter

(* Of n numbers in a row, those with a given remainder.                    *)
LEMMA Visits ==
  ASSUME NEW m \in Nat \ {0}, NEW a \in Int, NEW b \in Int, NEW n \in Nat
  PROVE  LET V == {k \in 1 .. n : a % m = (b + k) % m}
         IN  /\ IsFiniteSet(V) /\ Cardinality(V) \in Nat
             /\ m * Cardinality(V) = n + ((b - a) % m) - ((b + n - a) % m)
<1> DEFINE V(j) == {k \in 1 .. j : a % m = (b + k) % m}
           C(j) == Cardinality(V(j))
           x(j) == (b + j - a) % m
<1>1. \A j \in Nat : IsFiniteSet(V(j)) /\ C(j) \in Nat
  <2> SUFFICES ASSUME NEW j \in Nat
               PROVE  IsFiniteSet(V(j)) /\ C(j) \in Nat
    OBVIOUS
  <2>1. IsFiniteSet(1 .. j) /\ V(j) \in SUBSET (1 .. j)
    BY FS_Interval
  <2> QED
    BY <2>1, FS_Subset, FS_CardinalityType
<1>2. \A j \in Nat : x(j) \in 0 .. m - 1
  <2> SUFFICES ASSUME NEW j \in Nat
               PROVE  x(j) \in 0 .. m - 1
    OBVIOUS
  <2>1. PICK y \in Int : y = b + j - a
    OBVIOUS
  <2>2. y % m \in 0 .. m - 1
    BY NextRemainder
  <2> QED
    BY <2>1, <2>2
<1>3. C(0) = 0
  <2>1. V(0) = {}
    OBVIOUS
  <2> QED
    BY <2>1, FS_EmptySet
<1>4. ASSUME NEW j \in Nat
      PROVE  /\ C(j + 1) = IF x(j) = m - 1 THEN C(j) + 1 ELSE C(j)
             /\ x(j + 1) = IF x(j) = m - 1 THEN 0 ELSE x(j) + 1
  <2>1. PICK y \in Int : y = b + j - a
    OBVIOUS
  <2>2. /\ y % m \in 0 .. m - 1
        /\ (y + 1) % m = IF y % m = m - 1 THEN 0 ELSE (y % m) + 1
    BY NextRemainder
  <2>3. b + (j + 1) - a = y + 1 /\ x(j) = y % m
    BY <2>1
  <2>4. x(j + 1) = (y + 1) % m
    BY <2>3
  <2>5. a % m = (b + (j + 1)) % m <=> x(j) = m - 1
    <3>1. PICK z \in Int : z = b + (j + 1)
      OBVIOUS
    <3>2. a % m = z % m <=> (z - a) % m = 0
      BY ONLY z \in Int, a \in Int, m \in Nat \ {0}, Congruent
    <3>3. z - a = y + 1
      BY <2>1, <3>1
    <3>4. (y + 1) % m = 0 <=> y % m = m - 1
      BY <2>2
    <3> QED
      BY <2>3, <3>1, <3>2, <3>3, <3>4
  <2>6. V(j + 1) = IF x(j) = m - 1 THEN V(j) \cup {j + 1} ELSE V(j)
    <3>1. 1 .. j + 1 = (1 .. j) \cup {j + 1}
      OBVIOUS
    <3> HIDE DEF x
    <3> QED
      BY <2>5, <3>1
  <2>7. j + 1 \notin V(j)
    OBVIOUS
  <2>8. IsFiniteSet(V(j))
    BY <1>1
  <2>9. Cardinality(V(j) \cup {j + 1}) = C(j) + 1
    <3> HIDE DEF V
    <3> QED
      BY <2>7, <2>8, FS_AddElement
  <2> HIDE DEF V, x
  <2> QED
    BY <2>2, <2>3, <2>4, <2>6, <2>9
<1> DEFINE Right(j) == m * C(j) = j + x(0) - x(j)
           Bad == {j \in Nat : ~ Right(j)}
<1> HIDE DEF C, V, x
<1>5. Right(0)
  BY <1>2, <1>3
<1>6. ASSUME NEW j \in Nat, Right(j)
      PROVE  Right(j + 1)
  <2>1. PICK c \in Int : c = C(j)
    BY <1>1
  <2>2. m * (c + 1) = m * c + m /\ m * c \in Int
    OBVIOUS
  <2>3. x(j) \in 0 .. m - 1 /\ x(0) \in 0 .. m - 1
    BY <1>2
  <2> QED
    BY <1>4, <1>6, <2>1, <2>2, <2>3
<1>7. Bad = {}
  <2> SUFFICES ASSUME Bad # {}
               PROVE  FALSE
    OBVIOUS
  <2>1. PICK i \in Bad : \A j \in Bad : i <= j
    BY HasLeast
  <2>2. i \in Nat /\ i # 0
    BY <1>5
  <2>3. i - 1 \in Nat /\ i - 1 \notin Bad
    BY <2>1, <2>2
  <2>4. Right(i - 1)
    BY <2>3
  <2> HIDE DEF Right
  <2>5. Right(i - 1 + 1)
    BY <1>6, <2>3, <2>4
  <2> QED
    BY <2>1, <2>2, <2>5
<1>8. Right(n)
  BY <1>7
<1>9. b + 0 - a = b - a
  OBVIOUS
<1> QED
  BY <1>1, <1>8, <1>9 DEF C, V, x
=============================================================================
