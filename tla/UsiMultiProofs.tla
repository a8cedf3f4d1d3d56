--------------------------- MODULE UsiMultiProofs ---------------------------
(***************************************************************************)
(* Theorems about the cluster player.                                      *)
(***************************************************************************)
EXTENDS PonderPlayer, FiniteSetTheorems, FunctionTheorems, SequenceTheorems,
        WellFoundedInduction, TLAPS

LEMMA LeastNat ==
  ASSUME NEW T, T \subseteq Nat, T # {}
  PROVE  \E x \in T : \A y \in T : x <= y
<1>1. IsWellFoundedOn(OpToRel(<, Nat), Nat)
  BY NatLessThanWellFounded
<1>2. PICK x \in T : \A y \in T : <<y, x>> \notin OpToRel(<, Nat)
  BY <1>1, WFMin
<1>3. \A y \in T : ~(y < x)
  BY <1>2 DEF OpToRel
<1> QED
  BY <1>3

-----------------------------------------------------------------------------
(* The shares. *)

\* The powers of b up to the k-th.
Powers(p, b, k) ==
  /\ p \in [0 .. k -> Nat \ {0}]
  /\ p[0] = 1 /\ \A i \in 1 .. k : p[i] = b * p[i - 1]

LEMMA PowersExist ==
  ASSUME NEW b \in Nat \ {0}, NEW k \in Nat
  PROVE  \E p : Powers(p, b, k)
<1> DEFINE B == {n \in Nat : ~ \E p : Powers(p, b, n)}
<1> SUFFICES ASSUME B # {} PROVE FALSE
  OBVIOUS
<1>1. PICK n \in B : \A m \in B : n <= m
  BY LeastNat
<1>2. Powers([i \in 0 .. 0 |-> 1], b, 0)
  BY DEF Powers
<1>3. n # 0
  BY <1>2
<1>4. PICK m \in Nat : n = m + 1
  <2>1. n - 1 \in Nat /\ n = (n - 1) + 1
    BY <1>3
  <2> QED
    BY <2>1
<1>5. m \notin B
  BY <1>1, <1>4
<1>6. PICK p : Powers(p, b, m)
  BY <1>5
<1> DEFINE q == [i \in 0 .. n |-> IF i = n THEN b * p[m] ELSE p[i]]
<1>7. p[m] \in Nat \ {0} /\ b * p[m] \in Nat \ {0}
  BY <1>6 DEF Powers
<1>8. Powers(q, b, n)
  BY <1>4, <1>6, <1>7 DEF Powers
<1> QED
  BY <1>8

LEMMA PowerType ==
  ASSUME NEW b \in Nat \ {0}, NEW k \in Nat
  PROVE  Power(b, k) \in Nat \ {0}
<1> DEFINE P == CHOOSE p : p = [i \in 0 .. k |-> IF i = 0 THEN 1 ELSE b * p[i - 1]]
<1>1. PICK p : Powers(p, b, k)
  BY PowersExist
<1>2. p = [i \in 0 .. k |-> IF i = 0 THEN 1 ELSE b * p[i - 1]]
  BY <1>1 DEF Powers
<1>3. P = [i \in 0 .. k |-> IF i = 0 THEN 1 ELSE b * P[i - 1]]
  BY <1>2
<1>4. Power(b, k) = P[k]
  BY DEF Power
<1> DEFINE B == {n \in 0 .. k : P[n] \notin Nat \ {0}}
<1> HIDE DEF P
<1> SUFFICES ASSUME B # {} PROVE FALSE
  <2>1. k \in 0 .. k
    OBVIOUS
  <2> QED
    BY <1>4, <2>1
<1>5. PICK n \in B : \A m \in B : n <= m
  <2> B \subseteq Nat
    OBVIOUS
  <2> QED
    BY LeastNat
<1>6. P[0] = 1 /\ \A i \in 1 .. k : P[i] = b * P[i - 1]
  BY <1>3
<1>7. n \in 1 .. k /\ n - 1 \in 0 .. k /\ P[n - 1] \in Nat \ {0}
  BY <1>5, <1>6
<1> QED
  BY <1>5, <1>6, <1>7

LEMMA WeightsType ==
  ASSUME NEW n \in Nat, NEW ply
  PROVE  Weights(n, ply) \in [1 .. n -> Nat \ {0}]
<1> SUFFICES ASSUME NEW i \in 1 .. n
             PROVE  (IF ply = 0 THEN Power(3, i - 1) * Power(4, n - i)
                     ELSE Power(2, n - i)) \in Nat \ {0}
  BY DEF Weights
<1>1. Power(3, i - 1) \in Nat \ {0} /\ Power(4, n - i) \in Nat \ {0}
      /\ Power(2, n - i) \in Nat \ {0}
  <2>1. i - 1 \in Nat /\ n - i \in Nat
    OBVIOUS
  <2> QED
    BY <2>1, PowerType
<1> QED
  BY <1>1

-----------------------------------------------------------------------------
LEMMA SquaresIn ==
  ASSUME NEW n \in Nat, NEW f \in [1 .. n -> Nat]
  PROVE  /\ \A i, q : <<i, q>> \in Squares(f) <=> i \in 1 .. n /\ q \in 1 .. f[i]
         /\ \A s \in Squares(f) : s = <<s[1], s[2]>> /\ s[1] \in 1 .. n /\ s[2] \in 1 .. f[s[1]]
BY DEF Squares

LEMMA SquaresFinite ==
  ASSUME NEW n \in Nat, NEW f \in [1 .. n -> Nat]
  PROVE  IsFiniteSet(Squares(f)) /\ Total(f) \in Nat
<1> DEFINE Row(i) == {i} \X (1 .. f[i])
           G == [i \in 1 .. n |-> Row(i)]
           S == {G[i] : i \in 1 .. n}
<1>1. IsFiniteSet(1 .. n)
  BY FS_Interval
<1>2. IsFiniteSet(S)
  <2>1. G \in Surjection(1 .. n, S)
    BY DEF Surjection
  <2> QED
    BY <1>1, <2>1, FS_Surjection
<1>3. \A i \in 1 .. n : IsFiniteSet(Row(i))
  <2> SUFFICES ASSUME NEW i \in 1 .. n PROVE IsFiniteSet(Row(i))
    OBVIOUS
  <2>1. IsFiniteSet({i})
    BY FS_Singleton
  <2>2. IsFiniteSet(1 .. f[i])
    <3>1. 1 \in Int /\ f[i] \in Int
      OBVIOUS
    <3> QED
      BY <3>1, FS_Interval
  <2> QED
    BY <2>1, <2>2, FS_Product
<1>4. \A T \in S : IsFiniteSet(T)
  BY <1>3
<1>5. Squares(f) = UNION S
  BY DEF Squares
<1> HIDE DEF S
<1>6. IsFiniteSet(Squares(f))
  BY <1>2, <1>4, <1>5, FS_UNION
<1> QED
  BY <1>6, FS_CardinalityType DEF Total

\* A quotient and a remainder are found in one way.
LEMMA EuclidOnce ==
  ASSUME NEW m \in Nat \ {0}, NEW a \in Nat, NEW b \in Nat,
         NEW r \in 0 .. m - 1, NEW s \in 0 .. m - 1,
         a * m + r = b * m + s
  PROVE  a = b /\ r = s
<1>1. ASSUME NEW x \in Nat, NEW y \in Nat, x < y PROVE y * m >= x * m + m
  <2>1. PICK d \in Nat : y = x + 1 + d
    <3>1. y - x - 1 \in Nat /\ y = x + 1 + (y - x - 1)
      BY <1>1
    <3> QED
      BY <3>1
  <2>2. y * m = x * m + m + d * m /\ d * m \in Nat
    BY <2>1
  <2>3. x * m \in Nat /\ y * m \in Nat
    OBVIOUS
  <2> QED
    BY <2>2, <2>3
<1>2. a * m \in Nat /\ b * m \in Nat
  OBVIOUS
<1>3. ~(a < b)
  BY <1>1, <1>2
<1>4. ~(b < a)
  BY <1>1, <1>2
<1> QED
  BY <1>2, <1>3, <1>4

LEMMA Divided ==
  ASSUME NEW m \in Nat \ {0}, NEW z \in Nat
  PROVE  /\ z \div m \in Nat /\ z % m \in 0 .. m - 1
         /\ z = (z \div m) * m + (z % m)
OBVIOUS

LEMMA DividedBelow ==
  ASSUME NEW m \in Nat \ {0}, NEW z \in Nat, NEW w \in Nat, z < w * m
  PROVE  z \div m < w
<1> DEFINE d == z \div m
           r == (z % m)
<1>1. d \in Nat /\ r \in 0 .. m - 1 /\ z = d * m + r
  BY Divided
<1> HIDE DEF d, r
<1> SUFFICES ASSUME d >= w PROVE FALSE
  BY <1>1 DEF d
<1>2. PICK x \in Nat : d = w + x
  <2>1. d - w \in Nat /\ d = w + (d - w)
    BY <1>1
  <2> QED
    BY <2>1
<1>3. d * m = w * m + x * m /\ x * m \in Nat /\ w * m \in Nat
  BY <1>2
<1> QED
  BY <1>1, <1>3

LEMMA UpTo ==
  ASSUME NEW k \in Nat
  PROVE  IsFiniteSet(1 .. k) /\ Cardinality(1 .. k) = k
<1>1. 1 \in Int /\ k \in Int
  OBVIOUS
<1>2. IsFiniteSet(1 .. k)
  BY <1>1, FS_Interval
<1>3. Cardinality(1 .. k) = IF 1 > k THEN 0 ELSE k - 1 + 1
  BY <1>1, FS_Interval
<1> QED
  BY <1>2, <1>3

\* Rows of T units below a product, and back.
LEMMA UnitBelow ==
  ASSUME NEW T \in Nat \ {0}, NEW w \in Nat, NEW d \in Nat, d = w \div T,
         NEW q \in Nat, q \in 1 .. d, NEW r \in 1 .. T
  PROVE  (q - 1) * T + (r - 1) \in Nat /\ (q - 1) * T + (r - 1) < w
<1>1. w = d * T + (w % T) /\ w % T \in 0 .. T - 1
  BY Divided
<1>2. PICK y \in Nat, x \in Nat : q - 1 = y /\ d = y + 1 + x
  <2>1. q - 1 \in Nat /\ d - q \in Nat /\ d = (q - 1) + 1 + (d - q)
    OBVIOUS
  <2> QED
    BY <2>1
<1>3. d * T = y * T + T + x * T /\ x * T \in Nat /\ y * T \in Nat
  BY <1>2
<1>4. PICK k \in Nat : k = w % T
  BY <1>1
<1>5. PICK c \in Nat : c = y * T
  BY <1>3
<1>6. c + (r - 1) \in Nat /\ c + (r - 1) < w
  <2>1. w >= c + T
    BY <1>1, <1>3, <1>4, <1>5
  <2> QED
    BY <2>1
<1> QED
  BY <1>2, <1>5, <1>6

LEMMA SplitUp ==
  ASSUME NEW m \in Nat \ {0}, NEW z \in Nat, NEW w \in Nat, z < w * m
  PROVE  (z \div m) + 1 \in 1 .. w /\ (z % m) + 1 \in 1 .. m
<1>1. z \div m \in Nat /\ z \div m < w /\ z % m \in 0 .. m - 1
  BY Divided, DividedBelow
<1>2. PICK d \in Nat, k \in 0 .. m - 1 : d = z \div m /\ k = z % m
  BY <1>1
<1>3. d + 1 \in 1 .. w /\ k + 1 \in 1 .. m
  BY <1>1, <1>2
<1> QED
  BY <1>2, <1>3

LEMMA SplitOnce ==
  ASSUME NEW m \in Nat \ {0}, NEW y \in Nat, NEW z \in Nat,
         (y \div m) + 1 = (z \div m) + 1, (y % m) + 1 = (z % m) + 1
  PROVE  y = z
<1>1. /\ y \div m \in Nat /\ y % m \in 0 .. m - 1 /\ y = (y \div m) * m + (y % m)
      /\ z \div m \in Nat /\ z % m \in 0 .. m - 1 /\ z = (z \div m) * m + (z % m)
  BY Divided
<1>2. PICK d \in Nat, k \in Nat : d = y \div m /\ k = y % m
  BY <1>1
<1>3. PICK c \in Nat, l \in Nat : c = z \div m /\ l = z % m
  BY <1>1
<1>4. c = d /\ k = l
  BY <1>2, <1>3
<1> QED
  BY <1>1, <1>2, <1>3, <1>4

\* The floors of the weights do not sum up to more than what there is to share: a
\* square of the floors times a unit of the sum is a square of the weights times m.
LEMMA FloorsFit ==
  ASSUME NEW n \in Nat \ {0}, NEW s \in [1 .. n -> Nat \ {0}], NEW m \in Nat,
         NEW f \in [1 .. n -> Nat],
         \A i \in 1 .. n : f[i] = (s[i] * m) \div Total(s)
  PROVE  Total(f) <= m
<1> DEFINE T == Total(s)
<1>1. T \in Nat \ {0}
  <2>1. IsFiniteSet(Squares(s)) /\ T \in Nat
    BY SquaresFinite
  <2>2. <<1, 1>> \in Squares(s)
    BY SquaresIn
  <2>3. T # 0
    BY <2>1, <2>2, FS_EmptySet DEF Total
  <2> QED
    BY <2>1, <2>3
<1> HIDE DEF T
<1>2. \A i \in 1 .. n : f[i] = (s[i] * m) \div T
  BY DEF T
<1>3. IsFiniteSet(Squares(f)) /\ Total(f) \in Nat /\ IsFiniteSet(Squares(s))
  BY SquaresFinite
<1>4. CASE m = 0
  <2>1. \A i \in 1 .. n : f[i] = 0
    BY <1>1, <1>2, <1>4
  <2>2. Squares(f) = {}
    <3> SUFFICES ASSUME NEW a \in Squares(f) PROVE FALSE
      OBVIOUS
    <3>1. a[1] \in 1 .. n /\ a[2] \in 1 .. f[a[1]]
      BY SquaresIn
    <3> QED
      BY <2>1, <3>1
  <2> QED
    BY <1>4, <2>2, FS_EmptySet DEF Total
<1>5. CASE m # 0
  <2> DEFINE A == Squares(f) \X (1 .. T)
             B == Squares(s) \X (1 .. m)
             z(q, r) == (q - 1) * T + (r - 1)
             h(i, q, r) == <<<<i, (z(q, r) \div m) + 1>>, (z(q, r) % m) + 1>>
             g == [a \in A |-> h(a[1][1], a[1][2], a[2])]
  <2>1. ASSUME NEW a \in A
        PROVE  \E i \in 1 .. n, q \in Nat, r \in 1 .. T :
                 a = <<<<i, q>>, r>> /\ q \in 1 .. f[i] /\ g[a] = h(i, q, r)
    <3>1. PICK s0 \in Squares(f), r \in 1 .. T : a = <<s0, r>>
      OBVIOUS
    <3>2. s0 = <<s0[1], s0[2]>> /\ s0[1] \in 1 .. n /\ s0[2] \in 1 .. f[s0[1]]
      BY SquaresIn
    <3>3. s0[2] \in Nat
      BY <3>2
    <3>4. a[1] = s0 /\ a[2] = r
      BY <3>1
    <3> HIDE DEF A, h
    <3>5. g[a] = h(s0[1], s0[2], r)
      BY <3>4
    <3> QED
      BY <3>1, <3>2, <3>3, <3>5
  <2>2. ASSUME NEW i \in 1 .. n, NEW q \in Nat, NEW r \in 1 .. T, q \in 1 .. f[i]
        PROVE  z(q, r) \in Nat /\ z(q, r) < s[i] * m
    <3>1. PICK w \in Nat : w = s[i] * m
      OBVIOUS
    <3>2. f[i] \in Nat /\ f[i] = w \div T
      BY <1>2, <3>1
    <3> QED
      BY <1>1, <2>2, <3>1, <3>2, UnitBelow
  <2>3. g \in [A -> B]
    <3> SUFFICES ASSUME NEW a \in A PROVE g[a] \in B
      OBVIOUS
    <3> HIDE DEF A, B, g, h, z
    <3>1. PICK i \in 1 .. n, q \in Nat, r \in 1 .. T :
            q \in 1 .. f[i] /\ g[a] = h(i, q, r)
      BY <2>1
    <3>2. z(q, r) \in Nat /\ z(q, r) < s[i] * m /\ m \in Nat \ {0} /\ s[i] \in Nat
      BY <1>5, <2>2, <3>1
    <3>4. (z(q, r) \div m) + 1 \in 1 .. s[i] /\ (z(q, r) % m) + 1 \in 1 .. m
      BY <3>2, SplitUp
    <3>5. PICK c, d : c = (z(q, r) \div m) + 1 /\ d = (z(q, r) % m) + 1
      OBVIOUS
    <3>6. <<i, c>> \in Squares(s) /\ d \in 1 .. m
      BY <3>4, <3>5, SquaresIn
    <3>7. g[a] = <<<<i, c>>, d>>
      BY <3>1, <3>5 DEF h
    <3>8. <<<<i, c>>, d>> \in Squares(s) \X (1 .. m)
      BY <3>6, Zenon
    <3> QED
      BY <3>7, <3>8 DEF B
  <2>4. ASSUME NEW a \in A, NEW b \in A, g[a] = g[b] PROVE a = b
    <3>1. PICK i \in 1 .. n, q \in Nat, r \in 1 .. T :
            a = <<<<i, q>>, r>> /\ q \in 1 .. f[i] /\ g[a] = h(i, q, r)
      BY <2>1
    <3>2. PICK j \in 1 .. n, u \in Nat, v \in 1 .. T :
            b = <<<<j, u>>, v>> /\ u \in 1 .. f[j] /\ g[b] = h(j, u, v)
      BY <2>1
    <3>3. z(q, r) \in Nat /\ z(u, v) \in Nat /\ m \in Nat \ {0}
      BY <1>5, <2>2, <3>1, <3>2
    <3>4. h(i, q, r) = h(j, u, v)
      BY <2>4, <3>1, <3>2
    <3>5. z(q, r) = z(u, v) /\ i = j
      <4> HIDE DEF z
      <4>1. /\ i = j /\ (z(q, r) \div m) + 1 = (z(u, v) \div m) + 1
            /\ (z(q, r) % m) + 1 = (z(u, v) % m) + 1
        BY <3>4
      <4> QED
        BY <3>3, <4>1, SplitOnce
    <3>6. q - 1 \in Nat /\ u - 1 \in Nat /\ r - 1 \in 0 .. T - 1 /\ v - 1 \in 0 .. T - 1
      BY <1>1, <3>1, <3>2
    <3>7. q - 1 = u - 1 /\ r - 1 = v - 1
      <4>1. (q - 1) * T + (r - 1) = (u - 1) * T + (v - 1)
        BY <3>5
      <4>2. PICK x \in Nat, y \in Nat, k \in 0 .. T - 1, l \in 0 .. T - 1 :
              x = q - 1 /\ y = u - 1 /\ k = r - 1 /\ l = v - 1
        BY <3>6
      <4>3. x * T + k = y * T + l
        BY <4>1, <4>2
      <4>4. x = y /\ k = l
        BY <1>1, <4>3, EuclidOnce
      <4> QED
        BY <4>2, <4>4
    <3>8. q = u /\ r = v
      BY <3>7
    <3> QED
      BY <3>1, <3>2, <3>5, <3>8
  <2>5. g \in Injection(A, B)
    BY <2>3, <2>4 DEF Injection, IsInjective
  <2>6. /\ IsFiniteSet(1 .. T) /\ Cardinality(1 .. T) = T
        /\ IsFiniteSet(1 .. m) /\ Cardinality(1 .. m) = m
    BY <1>1, <1>5, UpTo
  <2>7. /\ Cardinality(A) = Total(f) * T
        /\ IsFiniteSet(B) /\ Cardinality(B) = T * m
    <3>1. Cardinality(Squares(f)) = Total(f) /\ Cardinality(Squares(s)) = T
      BY DEF Total, T
    <3>2. Cardinality(A) = Cardinality(Squares(f)) * Cardinality(1 .. T)
      BY <1>3, <2>6, FS_Product
    <3>3. IsFiniteSet(B) /\ Cardinality(B) = Cardinality(Squares(s)) * Cardinality(1 .. m)
      BY <1>3, <2>6, FS_Product
    <3> QED
      BY <2>6, <3>1, <3>2, <3>3
  <2>8. Total(f) * T <= T * m
    <3> HIDE DEF A, B, g
    <3> QED
      BY <2>5, <2>7, FS_Injection
  <2>9. ASSUME Total(f) > m PROVE FALSE
    <3>1. PICK t \in Nat, x \in Nat : t = Total(f) /\ t = m + 1 + x
      <4>1. Total(f) - m - 1 \in Nat /\ Total(f) = m + 1 + (Total(f) - m - 1)
        BY <1>3, <2>9
      <4> QED
        BY <1>3, <4>1
    <3>2. t * T = m * T + T + x * T /\ x * T \in Nat /\ m * T \in Nat /\ T * m = m * T
      BY <1>1, <3>1
    <3>3. t * T <= T * m
      BY <2>8, <3>1
    <3> QED
      BY <1>1, <3>2, <3>3
  <2> QED
    BY <1>3, <2>9
<1> QED
  BY <1>4, <1>5

-----------------------------------------------------------------------------
\* Those among the first c in an order.
LEMMA FirstOnes ==
  ASSUME NEW n \in Nat, NEW r \in [1 .. n -> Int], NEW c \in Nat,
         NEW a \in [1 .. n -> SUBSET (1 .. n)],
         \A i, k \in 1 .. n : k \in a[i] <=> r[k] > r[i] \/ (r[k] = r[i] /\ k < i),
         NEW E \in SUBSET (1 .. n),
         \A i \in 1 .. n : i \in E <=> Cardinality(a[i]) < c
  PROVE  IsFiniteSet(E) /\ Cardinality(E) <= c
<1>1. \A i \in 1 .. n : IsFiniteSet(a[i]) /\ Cardinality(a[i]) \in Nat
  <2> SUFFICES ASSUME NEW i \in 1 .. n
               PROVE  IsFiniteSet(a[i]) /\ Cardinality(a[i]) \in Nat
    OBVIOUS
  <2>1. a[i] \in SUBSET (1 .. n)
    OBVIOUS
  <2>2. IsFiniteSet(a[i])
    BY <2>1, UpTo, FS_Subset
  <2> QED
    BY <2>2, FS_CardinalityType
<1>2. ASSUME NEW i \in 1 .. n, NEW k \in 1 .. n, k \in a[i]
      PROVE  Cardinality(a[k]) < Cardinality(a[i])
  <2>0. /\ r[k] > r[i] \/ (r[k] = r[i] /\ k < i)
        /\ r[k] \in Int /\ r[i] \in Int
    BY <1>2
  <2>1. a[k] \subseteq a[i] /\ k \notin a[k]
    <3>1. ASSUME NEW x \in a[k] PROVE x \in a[i]
      <4>1. x \in 1 .. n /\ r[x] \in Int
        OBVIOUS
      <4>2. r[x] > r[k] \/ (r[x] = r[k] /\ x < k)
        BY <4>1
      <4>3. r[x] > r[i] \/ (r[x] = r[i] /\ x < i)
        BY <2>0, <4>1, <4>2
      <4> QED
        BY <4>1, <4>3
    <3>2. k \notin a[k]
      <4>1. ~(r[k] > r[k]) /\ ~(k < k)
        BY <2>0
      <4> QED
        BY <4>1
    <3> QED
      BY <3>1, <3>2
  <2>2. a[k] \cup {k} \in SUBSET a[i]
    BY <1>2, <2>1
  <2>3. Cardinality(a[k] \cup {k}) = Cardinality(a[k]) + 1
    BY <1>1, <2>1, FS_AddElement
  <2>4. Cardinality(a[k] \cup {k}) <= Cardinality(a[i])
    BY <1>1, <2>2, FS_Subset
  <2> QED
    BY <1>1, <2>3, <2>4
<1>3. \A i, k \in 1 .. n : i # k => k \in a[i] \/ i \in a[k]
  <2> SUFFICES ASSUME NEW i \in 1 .. n, NEW k \in 1 .. n, i # k
               PROVE  k \in a[i] \/ i \in a[k]
    OBVIOUS
  <2>1. r[i] \in Int /\ r[k] \in Int
    OBVIOUS
  <2>2. \/ r[k] > r[i] \/ (r[k] = r[i] /\ k < i)
        \/ r[i] > r[k] \/ (r[i] = r[k] /\ i < k)
    BY <2>1
  <2> QED
    BY <2>2
<1>4. IsFiniteSet(E) /\ Cardinality(E) \in Nat
  <2>1. E \in SUBSET (1 .. n)
    OBVIOUS
  <2> QED
    BY <2>1, UpTo, FS_Subset, FS_CardinalityType
<1> DEFINE g == [i \in E |-> Cardinality(a[i]) + 1]
<1>5. g \in [E -> 1 .. c]
  BY <1>1
<1>6. ASSUME NEW i \in E, NEW k \in E, g[i] = g[k] PROVE i = k
  <2>1. Cardinality(a[i]) + 1 = Cardinality(a[k]) + 1
    BY <1>6
  <2>2. Cardinality(a[i]) = Cardinality(a[k])
    BY <1>1, <2>1
  <2> QED
    BY <1>1, <1>2, <1>3, <2>2
<1>7. g \in Injection(E, 1 .. c)
  BY <1>5, <1>6 DEF Injection, IsInjective
<1>8. IsFiniteSet(1 .. c) /\ Cardinality(1 .. c) = c
  BY UpTo
<1> HIDE DEF g
<1>9. Cardinality(E) <= Cardinality(1 .. c)
  BY <1>7, <1>8, FS_Injection
<1> QED
  BY <1>4, <1>8, <1>9

LEMMA OneMore ==
  ASSUME NEW n \in Nat, NEW f \in [1 .. n -> Nat], NEW E \in SUBSET (1 .. n),
         NEW d \in [1 .. n -> Nat],
         \A i \in E : d[i] = f[i] + 1, \A i \in (1 .. n) \ E : d[i] = f[i]
  PROVE  Total(d) = Total(f) + Cardinality(E)
<1> DEFINE g == [i \in E |-> <<i, f[i] + 1>>]
           X == {g[i] : i \in E}
<1>2. IsFiniteSet(E)
  BY UpTo, FS_Subset
<1>3. IsFiniteSet(X) /\ Cardinality(X) = Cardinality(E)
  <2>1. g \in Bijection(E, X)
    BY DEF Bijection, Injection, Surjection, IsInjective
  <2> QED
    BY <1>2, <2>1, FS_Bijection DEF ExistsBijection
<1>4. Squares(f) \cap X = {}
  <2> SUFFICES ASSUME NEW i \in E, <<i, f[i] + 1>> \in Squares(f) PROVE FALSE
    OBVIOUS
  <2>1. f[i] + 1 \in 1 .. f[i] /\ f[i] \in Nat
    BY SquaresIn
  <2> QED
    BY <2>1
<1>5. Squares(d) = Squares(f) \cup X
  <2>1. ASSUME NEW x \in Squares(d) PROVE x \in Squares(f) \cup X
    <3>1. PICK i \in 1 .. n, q \in Nat : x = <<i, q>> /\ q \in 1 .. d[i]
      <4>1. x = <<x[1], x[2]>> /\ x[1] \in 1 .. n /\ x[2] \in 1 .. d[x[1]]
        BY <2>1, SquaresIn
      <4> QED
        BY <4>1
    <3>2. CASE q \in 1 .. f[i]
      BY <3>1, <3>2, SquaresIn
    <3>3. CASE q \notin 1 .. f[i]
      <4>1. f[i] \in Nat
        OBVIOUS
      <4>2. i \in E /\ q = f[i] + 1
        BY <3>1, <3>3, <4>1
      <4> QED
        BY <3>1, <4>2
    <3> QED
      BY <3>2, <3>3
  <2>2. ASSUME NEW x \in Squares(f) PROVE x \in Squares(d)
    <3>1. x = <<x[1], x[2]>> /\ x[1] \in 1 .. n /\ x[2] \in 1 .. f[x[1]]
      BY <2>2, SquaresIn
    <3>2. f[x[1]] \in Nat
      BY <3>1
    <3>3. x[2] \in 1 .. d[x[1]]
      BY <3>1, <3>2, SMTT(30)
    <3> QED
      BY <3>1, <3>3, SquaresIn
  <2>3. ASSUME NEW i \in E PROVE <<i, f[i] + 1>> \in Squares(d)
    <3>1. f[i] \in Nat /\ i \in 1 .. n
      OBVIOUS
    <3>2. f[i] + 1 \in 1 .. d[i]
      BY <2>3, <3>1
    <3> QED
      BY <3>1, <3>2, SquaresIn
  <2> QED
    BY <2>1, <2>2, <2>3
<1> HIDE DEF X
<1>6. IsFiniteSet(Squares(f)) /\ Cardinality(Squares(f)) \in Nat
  BY SquaresFinite, FS_CardinalityType
<1>7. Cardinality(Squares(d)) = Cardinality(Squares(f)) + Cardinality(X)
                                  - Cardinality(Squares(f) \cap X)
  BY <1>3, <1>5, <1>6, FS_Union
<1>8. Cardinality(Squares(f) \cap X) = 0 /\ Cardinality(X) \in Nat
  BY <1>3, <1>4, FS_EmptySet, FS_CardinalityType
<1> QED
  BY <1>3, <1>6, <1>7, <1>8 DEF Total

\* What UsiArray.dist hands out is what there is at most, which the assertion in
\* it states (usiArray.rb:13).
LEMMA DistFits ==
  ASSUME NEW n \in Nat \ {0}, NEW s \in [1 .. n -> Nat \ {0}], NEW m \in Nat
  PROVE  Dist(s, m) \in [1 .. n -> Nat] /\ Total(Dist(s, m)) <= m
<1> DEFINE f == [i \in 1 .. n |-> (s[i] * m) \div Total(s)]
           r == [i \in 1 .. n |-> (s[i] * m) % Total(s)]
           a == [i \in 1 .. n |-> {k \in 1 .. n : r[k] > r[i] \/ (r[k] = r[i] /\ k < i)}]
           c == m - Total(f)
           E == {i \in 1 .. n : Cardinality(a[i]) < c}
           d == [i \in 1 .. n |-> f[i] + (IF i \in E THEN 1 ELSE 0)]
<1>1. Total(s) \in Nat \ {0}
  <2>1. IsFiniteSet(Squares(s)) /\ Total(s) \in Nat
    BY SquaresFinite
  <2>2. <<1, 1>> \in Squares(s)
    BY SquaresIn
  <2> QED
    BY <2>1, <2>2, FS_EmptySet DEF Total
<1>2. \A i \in 1 .. n : s[i] * m \in Nat
  OBVIOUS
<1>3. f \in [1 .. n -> Nat] /\ r \in [1 .. n -> Nat]
  <2> SUFFICES ASSUME NEW i \in 1 .. n
               PROVE  (s[i] * m) \div Total(s) \in Nat /\ (s[i] * m) % Total(s) \in Nat
    OBVIOUS
  <2>1. PICK w \in Nat : w = s[i] * m
    BY <1>2
  <2>2. w \div Total(s) \in Nat /\ w % Total(s) \in 0 .. Total(s) - 1
    BY <1>1, Divided
  <2> QED
    BY <1>1, <2>1, <2>2
<1>4. Total(f) <= m /\ Total(f) \in Nat
  <2>1. \A i \in 1 .. n : f[i] = (s[i] * m) \div Total(s)
    OBVIOUS
  <2> HIDE DEF f
  <2> QED
    BY <1>3, <2>1, FloorsFit, SquaresFinite
<1>5. Dist(s, m) = d
  <2>1. DOMAIN s = 1 .. n
    OBVIOUS
  <2> QED
    BY <2>1 DEF Dist
<1> HIDE DEF f, r
<1>6. c \in Nat
  BY <1>4
<1>7. IsFiniteSet(E) /\ Cardinality(E) <= c
  <2>1. r \in [1 .. n -> Int]
    BY <1>3
  <2>2. a \in [1 .. n -> SUBSET (1 .. n)]
        /\ \A i, k \in 1 .. n : k \in a[i] <=> r[k] > r[i] \/ (r[k] = r[i] /\ k < i)
    OBVIOUS
  <2>3. E \in SUBSET (1 .. n) /\ \A i \in 1 .. n : i \in E <=> Cardinality(a[i]) < c
    OBVIOUS
  <2> HIDE DEF a, c, E
  <2> QED
    BY <1>6, <2>1, <2>2, <2>3, FirstOnes
<1>8. d \in [1 .. n -> Nat] /\ Total(d) = Total(f) + Cardinality(E)
  <2>1. E \in SUBSET (1 .. n)
    OBVIOUS
  <2>2. /\ d \in [1 .. n -> Nat]
        /\ \A i \in E : d[i] = f[i] + 1
        /\ \A i \in (1 .. n) \ E : d[i] = f[i]
    <3> HIDE DEF E
    <3> QED
      BY <1>3, <2>1
  <2> HIDE DEF E, a, c, d
  <2>3. n \in Nat /\ f \in [1 .. n -> Nat]
    BY <1>3
  <2>4. Total(d) = Total(f) + Cardinality(E)
    BY <2>1, <2>2, <2>3, OneMore, ZenonT(60)
  <2> QED
    BY <2>2, <2>4
<1>9. Cardinality(E) \in Nat
  BY <1>7, FS_CardinalityType
<1>10. c = m - Total(f)
  OBVIOUS
<1> HIDE DEF d, E, a, c
<1> QED
  BY <1>4, <1>5, <1>7, <1>8, <1>9, <1>10

-----------------------------------------------------------------------------
\* The squares dealt before the square <<i, p>>, row by row from below.
Before(share, i, p) == {s \in Squares(share) : s[2] < p \/ (s[2] = p /\ s[1] < i)}
At(share, i, p) == 2 + Cardinality(Before(share, i, p))

LEMMA DealtInTurn ==
  ASSUME NEW n \in Nat, NEW share \in [1 .. n -> Nat],
         NEW i \in 1 .. n, NEW p \in 1 .. share[i]
  PROVE  /\ At(share, i, p) \in 2 .. Total(share) + 1
         /\ \A k \in 1 .. n : \A q \in 1 .. share[k] :
              q < p \/ (q = p /\ k < i) => At(share, k, q) < At(share, i, p)
<1> DEFINE S == Squares(share)
<1>1. IsFiniteSet(S) /\ Cardinality(S) \in Nat /\ Total(share) = Cardinality(S)
  BY SquaresFinite DEF Total
<1>2. p \in Nat /\ share[i] \in Nat
  OBVIOUS
<1>3. \A k, q : IsFiniteSet(Before(share, k, q)) /\ Cardinality(Before(share, k, q)) \in Nat
  <2> SUFFICES ASSUME NEW k, NEW q
               PROVE  IsFiniteSet(Before(share, k, q))
                      /\ Cardinality(Before(share, k, q)) \in Nat
    OBVIOUS
  <2>1. Before(share, k, q) \in SUBSET S
    BY DEF Before
  <2> HIDE DEF S
  <2>2. IsFiniteSet(Before(share, k, q))
    BY <1>1, <2>1, FS_Subset
  <2> QED
    BY <2>2, FS_CardinalityType
<1>4. \A s \in S : s = <<s[1], s[2]>> /\ s[1] \in 1 .. n /\ s[2] \in Nat
                   /\ s[2] \in 1 .. share[s[1]]
  <2> SUFFICES ASSUME NEW s \in S
               PROVE  s = <<s[1], s[2]>> /\ s[1] \in 1 .. n /\ s[2] \in Nat
                      /\ s[2] \in 1 .. share[s[1]]
    OBVIOUS
  <2>1. s = <<s[1], s[2]>> /\ s[1] \in 1 .. n /\ s[2] \in 1 .. share[s[1]]
    BY SquaresIn
  <2>2. share[s[1]] \in Nat
    BY <2>1
  <2> QED
    BY <2>1, <2>2
<1>5. <<i, p>> \in S /\ <<i, p>> \notin Before(share, i, p)
  <2>1. <<i, p>> \in S
    BY SquaresIn
  <2>2. ~(p < p) /\ ~(i < i)
    BY <1>2
  <2> QED
    BY <2>1, <2>2 DEF Before
<1>6. Cardinality(Before(share, i, p)) < Cardinality(S)
  <2>1. Before(share, i, p) \cup {<<i, p>>} \in SUBSET S
    BY <1>5 DEF Before
  <2> HIDE DEF S
  <2>2. Cardinality(Before(share, i, p) \cup {<<i, p>>})
          = Cardinality(Before(share, i, p)) + 1
    BY <1>3, <1>5, FS_AddElement
  <2>3. Cardinality(Before(share, i, p) \cup {<<i, p>>}) <= Cardinality(S)
    BY <1>1, <2>1, FS_Subset
  <2> QED
    BY <1>1, <1>3, <2>2, <2>3
<1>7. ASSUME NEW k \in 1 .. n, NEW q \in 1 .. share[k], q < p \/ (q = p /\ k < i)
      PROVE  Cardinality(Before(share, k, q)) < Cardinality(Before(share, i, p))
  <2>1. <<k, q>> \in S /\ share[k] \in Nat
    BY SquaresIn
  <2>2. q \in Nat
    BY <2>1
  <2>3. <<k, q>> \notin Before(share, k, q) /\ <<k, q>> \in Before(share, i, p)
    <3>1. ~(q < q) /\ ~(k < k)
      BY <2>2
    <3> QED
      BY <1>7, <2>1, <3>1 DEF Before
  <2>4. ASSUME NEW s \in Before(share, k, q) PROVE s \in Before(share, i, p)
    <3>1. s \in S /\ (s[2] < q \/ (s[2] = q /\ s[1] < k))
      BY DEF Before
    <3>2. s[2] \in Nat /\ s[1] \in Nat
      BY <1>4, <3>1
    <3>3. s[2] < p \/ (s[2] = p /\ s[1] < i)
      BY <1>2, <1>7, <2>2, <3>1, <3>2, SMTT(30)
    <3> QED
      BY <3>1, <3>3 DEF Before
  <2>5. Before(share, k, q) \cup {<<k, q>>} \in SUBSET Before(share, i, p)
    BY <2>3, <2>4
  <2>6. Cardinality(Before(share, k, q) \cup {<<k, q>>})
          = Cardinality(Before(share, k, q)) + 1
    BY <1>3, <2>3, FS_AddElement
  <2>7. Cardinality(Before(share, k, q) \cup {<<k, q>>})
          <= Cardinality(Before(share, i, p))
    BY <1>3, <2>5, FS_Subset
  <2> QED
    BY <1>3, <2>6, <2>7
<1>8. At(share, i, p) \in 2 .. Total(share) + 1
  BY <1>1, <1>3, <1>6 DEF At
<1>9. ASSUME NEW k \in 1 .. n, NEW q \in 1 .. share[k], q < p \/ (q = p /\ k < i)
      PROVE  At(share, k, q) < At(share, i, p)
  BY <1>3, <1>7, <1>9, SMTT(30) DEF At
<1> QED
  BY <1>8, <1>9

LEMMA DealtIs ==
  ASSUME NEW usis, NEW share, NEW i
  PROVE  Dealt(usis, share, i) = [p \in 1 .. share[i] |-> usis[At(share, i, p)]]
BY DEF Dealt, At, Before

-----------------------------------------------------------------------------
(* The tree of objects: who works for whom, on which stubs.                *)

Waiting == {"forcedwait", "count", "collect"}
Idle == {"free", "new", "done", "leaf"}
Pcs == Idle \cup Waiting \cup {"book", "genmoves", "presearch", "await", "mated", "forced",
                               "timeless", "probability", "split"}
External == {Client, Finish}
Results == {"exact", "update", "stopped"}

NodeRec ==
  [pc : Pcs, usis : Seq(Engine), ply : Nat, pos : Seq(Nat), sink : Queue, late : BOOLEAN,
   stopped : BOOLEAN, stubs : SUBSET Engine, kids : SUBSET Node,
   await : SUBSET {"search", "mate"}, keys : Nat, count : Nat, stops : Nat,
   bounds : Seq(Val \cup {-1}), maxval : Val \cup {-1}]
MsgRec == [type : MsgType, pos : Seq(Nat), own : BOOLEAN, val : Val, n : Nat]
JobRec == [kind : JobKind, pos : Seq(Nat), own : BOOLEAN]
StubRec == [searching : BOOLEAN, stopped : BOOLEAN, sink : Queue, jobs : Seq(JobRec)]

Types ==
  /\ node \in [Node -> NodeRec] /\ box \in [Queue -> Seq(MsgRec)] /\ eng \in [Engine -> StubRec]
  /\ raised \in BOOLEAN /\ root \in Node \cup {0} /\ asked \in BOOLEAN

Open(e) == eng[e].jobs # <<>>
Kind(e) == eng[e].jobs[1].kind

\* What reports to a queue: processes, and threads of other objects.
Busy(q) == {e \in Engine : Open(e) /\ eng[e].sink = q}
Kin(q) == {o \in Live : node[o].sink = q}

\* The ends a queue is still to tell of: reports that come, and those that are there.
Load(q) == Cardinality(Busy(q)) + Cardinality(Kin(q)) + Cardinality(StoppedAt(q))

\* The stubs an object may still use.
Members(o) == ToSet(node[o].usis)
Team(o) == CASE node[o].pc = "forcedwait" -> {}
             [] node[o].pc \in {"count", "collect"} -> {node[o].usis[1]}
             [] OTHER -> Members(o)

Says(q, T) == \A i \in DOMAIN box[q] : box[q][i].type \in T
Tells(q, T) == \E i \in DOMAIN box[q] : box[q][i].type \in T

OnlyOnce(q, T) == \A i, k \in DOMAIN box[q] :
  box[q][i].type \in T /\ box[q][k].type \in T => i = k

\* A queue that is told results: of searches, and of objects.
Reported(q) == Says(q, Results) /\ \A e \in Busy(q) : Kind(e) = "search"

\* The jobs of a stub.
OneJob == \A e \in Engine :
  /\ Len(eng[e].jobs) <= 1
  /\ eng[e].searching => Open(e) /\ Kind(e) \in {"search", "mate"}

\* Who listens to a queue.
Sinks ==
  /\ \A e \in Engine : Open(e) => eng[e].sink \in External \cup Live
  /\ \A o \in Live : \/ node[o].sink \in External
                     \/ /\ node[o].sink \in Live /\ node[node[o].sink].pc \in Waiting
                        /\ node[node[o].sink].ply < node[o].ply

Squads == \A o \in Live :
  /\ IsInjective(node[o].usis) /\ Len(node[o].usis) >= 1
  /\ node[o].pc \notin {"book", "genmoves"} => Len(node[o].usis) >= 2

Apart == \A o, p \in Live : o # p => Team(o) \cap Team(p) = {}

OwnJobs == \A o \in Live : \A e \in Team(o) : Open(e) => eng[e].sink = o

Quiet(o) == Busy(o) = {} /\ box[o] = <<>>

\* One answer of the first stub, of a kind K, that comes or is there.
OneAnswer(o, K, T) ==
  \/ Busy(o) = {node[o].usis[1]} /\ Kind(node[o].usis[1]) = K /\ box[o] = <<>>
  \/ Busy(o) = {} /\ Len(box[o]) = 1 /\ box[o][1].type \in T

InBook(o) ==
  \/ Busy(o) = {node[o].usis[1]} /\ Kind(node[o].usis[1]) = "book" /\ box[o] = <<>>
  \/ /\ Busy(o) = {} /\ Len(box[o]) = 2
     /\ box[o][1].type = "exact" /\ box[o][2].type = "stopped"

Awaits(o) ==
  LET e == node[o].usis[1]
      f == node[o].usis[2]
  IN  /\ Busy(o) \subseteq {e, f}
      /\ Says(o, {"exact", "stopped", "mate", "nomate"})
      /\ e \in Busy(o) => Kind(e) = "search" /\ ~Tells(o, {"exact", "stopped"})
      /\ f \in Busy(o) => Kind(f) = "mate" /\ ~Tells(o, {"mate", "nomate"})
      /\ "search" \in node[o].await <=> e \in Busy(o) \/ Tells(o, {"stopped"})
      /\ "mate" \in node[o].await <=> f \in Busy(o) \/ Tells(o, {"mate", "nomate"})
      /\ \A i \in DOMAIN box[o] : box[o][i].type = "exact" =>
           i + 1 \in DOMAIN box[o] /\ box[o][i + 1].type = "stopped"
      /\ OnlyOnce(o, {"stopped"}) /\ OnlyOnce(o, {"mate", "nomate"})

Mated(o) ==
  /\ Busy(o) \subseteq {node[o].usis[1]} /\ Reported(o) /\ Load(o) = 1

Stage(o) ==
  LET pc == node[o].pc
  IN  /\ pc = "book" => InBook(o)
      /\ pc = "genmoves" => OneAnswer(o, "genmoves", {"moves"})
      /\ pc = "probability" => OneAnswer(o, "probability", {"moves"})
      /\ pc \in {"presearch", "forced", "timeless", "split"} => Quiet(o)
      /\ pc = "await" => Awaits(o)
      /\ pc = "mated" => Mated(o)
      /\ pc \in Waiting => Reported(o)
      /\ pc = "forcedwait" => Load(o) = 1
      /\ pc = "count" => Load(o) = Cardinality(node[o].kids) + Cardinality(node[o].stubs)
      /\ pc = "collect" => node[o].stops + Load(o) = node[o].count

Stages == (\A o \in Live : Stage(o)) /\ \A q \in External : Reported(q)

Tree == OneJob /\ Sinks /\ Squads /\ Apart /\ OwnJobs /\ Stages

ClientInv ==
  /\ Load(Client) = 1 /\ Load(Finish) = 0
  /\ \A i \in StoppedAt(Client) : i = Len(box[Client])
-----------------------------------------------------------------------------
(* Queues.                                                                 *)
LEMMA Sizes ==
  /\ N \in Nat \ {0} /\ Nodes \in Nat \ {0} /\ Top \in Nat \ {0} /\ MaxKeys \in Nat
  /\ Val = 0 .. Top /\ 0 \in Val /\ Top \in Val /\ \A v \in Val : Top - v \in Val
  /\ IsFiniteSet(Node) /\ IsFiniteSet(Engine)
  /\ Node \subseteq Queue /\ External \subseteq Queue /\ External \cap Node = {}
<1>1. IsFiniteSet(Node) /\ IsFiniteSet(Engine)
  BY SizesAssumption, UpTo DEF Node, Engine
<1> QED
  BY <1>1, SizesAssumption DEF Val, Node, Queue, External, Client, Finish

Stops(s) == {i \in DOMAIN s : s[i].type = "stopped"}

LEMMA StopsFinite ==
  ASSUME NEW S, NEW s \in Seq(S)
  PROVE  IsFiniteSet(Stops(s)) /\ Cardinality(Stops(s)) \in Nat
<1>1. Len(s) \in Nat /\ DOMAIN s = 1 .. Len(s)
  OBVIOUS
<1>2. Stops(s) \in SUBSET (1 .. Len(s))
  BY <1>1 DEF Stops
<1> QED
  BY <1>1, <1>2, UpTo, FS_Subset, FS_CardinalityType

\* Reports that are no end leave the ends as they are, an end adds one.
LEMMA StopsPushed ==
  ASSUME NEW s \in Seq(MsgRec), NEW t \in Seq(MsgRec)
  PROVE  /\ s \o t \in Seq(MsgRec) /\ Len(s \o t) = Len(s) + Len(t)
         /\ \A T : (\A i \in DOMAIN (s \o t) : (s \o t)[i].type \in T)
                     <=> (\A i \in DOMAIN s : s[i].type \in T) /\ \A i \in DOMAIN t : t[i].type \in T
         /\ Stops(t) = {} => Stops(s \o t) = Stops(s)
         /\ Len(t) >= 1 /\ Stops(t) = {Len(t)} =>
              /\ Stops(s \o t) = Stops(s) \cup {Len(s) + Len(t)}
              /\ Cardinality(Stops(s \o t)) = Cardinality(Stops(s)) + 1
<1>1. /\ Len(s) \in Nat /\ DOMAIN s = 1 .. Len(s) /\ Len(t) \in Nat /\ DOMAIN t = 1 .. Len(t)
      /\ s \o t \in Seq(MsgRec) /\ Len(s \o t) = Len(s) + Len(t)
      /\ DOMAIN (s \o t) = 1 .. Len(s) + Len(t)
  OBVIOUS
<1>2. \A i \in DOMAIN s : i \in DOMAIN (s \o t) /\ (s \o t)[i] = s[i]
  BY <1>1
<1>3. \A i \in DOMAIN t : Len(s) + i \in DOMAIN (s \o t) /\ (s \o t)[Len(s) + i] = t[i]
  BY <1>1
<1>4. ASSUME NEW i \in DOMAIN (s \o t)
      PROVE  \/ i \in DOMAIN s
             \/ \E k \in DOMAIN t : i = Len(s) + k
  <2>1. CASE i <= Len(s)
    BY <1>1, <2>1
  <2>2. CASE i > Len(s)
    <3>1. i - Len(s) \in DOMAIN t /\ i = Len(s) + (i - Len(s))
      BY <1>1, <2>2
    <3> QED
      BY <3>1
  <2> QED
    BY <1>1, <2>1, <2>2
<1>5. ASSUME NEW T
      PROVE  (\A i \in DOMAIN (s \o t) : (s \o t)[i].type \in T)
               <=> (\A i \in DOMAIN s : s[i].type \in T) /\ \A i \in DOMAIN t : t[i].type \in T
  BY <1>2, <1>3, <1>4
<1>6. ASSUME Stops(t) = {} PROVE Stops(s \o t) = Stops(s)
  BY <1>2, <1>3, <1>4, <1>6 DEF Stops
<1>7. ASSUME Len(t) >= 1, Stops(t) = {Len(t)}
      PROVE  /\ Stops(s \o t) = Stops(s) \cup {Len(s) + Len(t)}
             /\ Cardinality(Stops(s \o t)) = Cardinality(Stops(s)) + 1
  <2>1. Stops(s \o t) = Stops(s) \cup {Len(s) + Len(t)}
    <3>1. Len(t) \in DOMAIN t
      BY <1>1, <1>7
    <3>2. ASSUME NEW i \in Stops(s \o t) PROVE i \in Stops(s) \cup {Len(s) + Len(t)}
    <4>1. i \in DOMAIN (s \o t) /\ (s \o t)[i].type = "stopped"
      BY <3>2 DEF Stops
    <4>2. CASE i \in DOMAIN s
      BY <1>2, <4>1, <4>2 DEF Stops
    <4>3. ASSUME NEW k \in DOMAIN t, i = Len(s) + k
          PROVE  i \in Stops(s) \cup {Len(s) + Len(t)}
      <5>1. t[k].type = "stopped"
        BY <1>3, <4>1, <4>3
      <5>2. k \in Stops(t)
        BY <5>1 DEF Stops
      <5> QED
        BY <1>7, <4>3, <5>2
    <4> QED
      BY <1>4, <4>1, <4>2, <4>3
    <3>3. ASSUME NEW i \in Stops(s) PROVE i \in Stops(s \o t)
      BY <1>2 DEF Stops
    <3>4. Len(s) + Len(t) \in Stops(s \o t)
      BY <1>3, <1>7, <3>1 DEF Stops
    <3> QED
      BY <3>2, <3>3, <3>4
  <2>2. Len(s) + Len(t) \notin Stops(s)
    BY <1>1, <1>7 DEF Stops
  <2> QED
    BY <2>1, <2>2, StopsFinite, FS_AddElement
<1> QED
  BY <1>1, <1>5, <1>6, <1>7

LEMMA StopsTaken ==
  ASSUME NEW s \in Seq(MsgRec), s # <<>>
  PROVE  /\ Tail(s) \in Seq(MsgRec) /\ Len(Tail(s)) = Len(s) - 1
         /\ 1 \in DOMAIN s /\ s[1] \in MsgRec /\ Head(s) = s[1]
         /\ \A i \in DOMAIN Tail(s) : i + 1 \in DOMAIN s /\ Tail(s)[i] = s[i + 1]
         /\ \A i \in DOMAIN s : i # 1 => i - 1 \in DOMAIN Tail(s) /\ Tail(s)[i - 1] = s[i]
         /\ s[1].type # "stopped" => Cardinality(Stops(Tail(s))) = Cardinality(Stops(s))
         /\ s[1].type = "stopped" =>
              1 \in Stops(s) /\ Cardinality(Stops(Tail(s))) = Cardinality(Stops(s)) - 1
<1>1. /\ Tail(s) \in Seq(MsgRec) /\ Len(Tail(s)) = Len(s) - 1
      /\ Len(s) \in Nat /\ DOMAIN s = 1 .. Len(s) /\ Len(s) >= 1
      /\ DOMAIN Tail(s) = 1 .. Len(s) - 1
      /\ Head(s) = s[1] /\ s[1] \in MsgRec
  OBVIOUS
<1>2. \A i \in DOMAIN Tail(s) : i + 1 \in DOMAIN s /\ Tail(s)[i] = s[i + 1]
  BY <1>1
<1>3. \A i \in DOMAIN s : i # 1 => i - 1 \in DOMAIN Tail(s) /\ Tail(s)[i - 1] = s[i]
  <2> SUFFICES ASSUME NEW i \in DOMAIN s, i # 1
               PROVE  i - 1 \in DOMAIN Tail(s) /\ Tail(s)[i - 1] = s[i]
    OBVIOUS
  <2>1. i - 1 \in DOMAIN Tail(s) /\ (i - 1) + 1 = i
    BY <1>1
  <2> QED
    BY <1>2, <2>1
<1> DEFINE g == [i \in Stops(Tail(s)) |-> i + 1]
<1>4. g \in Bijection(Stops(Tail(s)), Stops(s) \ {1})
  <2>1. \A i \in Stops(Tail(s)) : i \in Nat /\ i # 0 /\ i + 1 \in Stops(s) \ {1}
    BY <1>1, <1>2 DEF Stops
  <2>2. \A i \in Stops(s) \ {1} : i - 1 \in Stops(Tail(s)) /\ i = (i - 1) + 1
    BY <1>1, <1>3 DEF Stops
  <2> QED
    BY <2>1, <2>2 DEF Bijection, Injection, Surjection, IsInjective
<1>5. IsFiniteSet(Stops(s)) /\ Cardinality(Stops(s)) \in Nat
      /\ IsFiniteSet(Stops(Tail(s)))
  BY <1>1, StopsFinite
<1>6. Cardinality(Stops(Tail(s))) = Cardinality(Stops(s) \ {1})
  <2> HIDE DEF g
  <2> QED
    BY <1>4, <1>5, FS_Bijection DEF ExistsBijection
<1>7. Cardinality(Stops(s) \ {1}) = IF 1 \in Stops(s) THEN Cardinality(Stops(s)) - 1
                                    ELSE Cardinality(Stops(s))
  BY <1>5, FS_RemoveElement
<1>8. 1 \in Stops(s) <=> s[1].type = "stopped"
  BY <1>1 DEF Stops
<1> QED
  BY <1>1, <1>2, <1>3, <1>6, <1>7, <1>8

\* What wait_stopped reads.
LEMMA FirstIsFirst ==
  ASSUME Types, NEW q \in Queue, CanFinish(q)
  PROVE  /\ FirstStopped(q) \in StoppedAt(q) /\ FirstStopped(q) \in 1 .. Len(box[q])
         /\ \A k \in StoppedAt(q) : FirstStopped(q) <= k
         /\ WaitStopped(q) \in Seq(MsgRec)
         /\ FirstStopped(q) = 1 => WaitStopped(q) = <<>>
         /\ FirstStopped(q) # 1 =>
              WaitStopped(q) = <<box[q][FirstStopped(q) - 1]>>
              /\ FirstStopped(q) - 1 \in DOMAIN box[q]
         /\ AfterStopped(q) \in Seq(MsgRec)
<1>1. box[q] \in Seq(MsgRec) /\ Len(box[q]) \in Nat /\ DOMAIN box[q] = 1 .. Len(box[q])
  BY DEF Types
<1>2. StoppedAt(q) \subseteq Nat /\ StoppedAt(q) # {} /\ StoppedAt(q) \subseteq 1 .. Len(box[q])
  BY <1>1 DEF StoppedAt, CanFinish
<1>3. \E i \in StoppedAt(q) : \A k \in StoppedAt(q) : i <= k
  BY <1>2, LeastNat
<1>4. /\ FirstStopped(q) \in StoppedAt(q)
      /\ \A k \in StoppedAt(q) : FirstStopped(q) <= k
  BY <1>3 DEF FirstStopped
<1>5. PICK f \in 1 .. Len(box[q]) : f = FirstStopped(q)
  BY <1>2, <1>4
<1>6. f # 1 => f - 1 \in DOMAIN box[q]
  BY <1>1
<1>7. /\ WaitStopped(q) \in Seq(MsgRec)
      /\ f = 1 => WaitStopped(q) = <<>>
      /\ f # 1 => WaitStopped(q) = <<box[q][f - 1]>>
  BY <1>1, <1>5, <1>6 DEF WaitStopped
<1>8. AfterStopped(q) \in Seq(MsgRec)
  BY <1>1, <1>5 DEF AfterStopped
<1> QED
  BY <1>4, <1>5, <1>6, <1>7, <1>8

-----------------------------------------------------------------------------
(* The load of a queue, and what leaves it alone.                          *)
LEMMA LoadType ==
  ASSUME Types, NEW q \in Queue
  PROVE  /\ IsFiniteSet(Busy(q)) /\ IsFiniteSet(Kin(q)) /\ IsFiniteSet(StoppedAt(q))
         /\ Cardinality(Busy(q)) \in Nat /\ Cardinality(Kin(q)) \in Nat
         /\ Cardinality(StoppedAt(q)) \in Nat /\ Load(q) \in Nat
         /\ StoppedAt(q) = Stops(box[q])
         /\ Cardinality(Busy(q)) = 0 <=> Busy(q) = {}
         /\ Cardinality(Kin(q)) = 0 <=> Kin(q) = {}
         /\ Cardinality(StoppedAt(q)) = 0 <=> StoppedAt(q) = {}
<1>1. IsFiniteSet(Busy(q)) /\ IsFiniteSet(Kin(q))
  <2>1. Busy(q) \in SUBSET Engine /\ Kin(q) \in SUBSET Node
    BY DEF Busy, Kin, Live
  <2> QED
    BY <2>1, Sizes, FS_Subset
<1>2. StoppedAt(q) = Stops(box[q])
  BY DEF StoppedAt, Stops
<1>3. IsFiniteSet(StoppedAt(q))
  BY <1>2, StopsFinite DEF Types
<1>4. /\ Cardinality(Busy(q)) \in Nat /\ Cardinality(Kin(q)) \in Nat
      /\ Cardinality(StoppedAt(q)) \in Nat
  BY <1>1, <1>3, FS_CardinalityType
<1> QED
  BY <1>1, <1>2, <1>3, <1>4, FS_EmptySet DEF Load

\* The fields of an object that say where its thread is.
Alike(p) ==
  /\ node'[p].pc = node[p].pc /\ node'[p].usis = node[p].usis /\ node'[p].ply = node[p].ply
  /\ node'[p].sink = node[p].sink /\ node'[p].await = node[p].await
  /\ node'[p].count = node[p].count /\ node'[p].stops = node[p].stops
  /\ node[p].pc = "count" => node'[p].kids = node[p].kids /\ node'[p].stubs = node[p].stubs

SameBusy(q) == Busy(q)' = Busy(q) /\ \A e \in Busy(q) : Kind(e)' = Kind(e)

LEMMA TeamKept ==
  ASSUME NEW p, Alike(p)
  PROVE  Team(p)' = Team(p) /\ Members(p)' = Members(p)
BY DEF Alike, Team, Members

LEMMA StageKept ==
  ASSUME NEW p, Alike(p), SameBusy(p), box'[p] = box[p], Load(p)' = Load(p), Stage(p)
  PROVE  Stage(p)'
<1>1. InBook(p) => InBook(p)'
  BY DEF Alike, SameBusy, InBook
<1>2. ASSUME NEW K, NEW T, OneAnswer(p, K, T) PROVE OneAnswer(p, K, T)'
  BY <1>2 DEF Alike, SameBusy, OneAnswer
<1>3. Quiet(p) => Quiet(p)'
  BY DEF SameBusy, Quiet
<1>4. Awaits(p) => Awaits(p)'
  BY DEF Alike, SameBusy, Awaits, Says, Tells, OnlyOnce
<1>5. Reported(p) => Reported(p)'
  BY DEF SameBusy, Reported, Says
<1>6. Mated(p) => Mated(p)'
  BY <1>5 DEF Alike, SameBusy, Mated
<1>7. node'[p].pc = node[p].pc
  BY DEF Alike
<1>8. OneAnswer(p, "genmoves", {"moves"}) => OneAnswer(p, "genmoves", {"moves"})'
  BY <1>2
<1>9. OneAnswer(p, "probability", {"moves"}) => OneAnswer(p, "probability", {"moves"})'
  BY <1>2
<1> HIDE DEF InBook, OneAnswer, Quiet, Awaits, Mated, Reported, Load
<1> QED
  BY <1>1, <1>3, <1>4, <1>5, <1>6, <1>7, <1>8, <1>9 DEF Stage, Alike

LEMMA StageFed ==
  ASSUME NEW p, Alike(p), node[p].pc \in Waiting, Load(p)' = Load(p), Reported(p)', Stage(p)
  PROVE  Stage(p)'
<1> HIDE DEF Reported, Load
<1> QED
  BY DEF Stage, Alike, Waiting

\* What a thread or a reader puts on a queue: results, the end last or not at all.
News(ms) == \A i \in DOMAIN ms : ms[i].type \in Results \ {"stopped"}
Farewell(ms) ==
  /\ Len(ms) >= 1 /\ Stops(ms) = {Len(ms)}
  /\ \A i \in DOMAIN ms : ms[i].type \in Results

\* Nothing comes after an end.
EndsLast(q) == \A i \in StoppedAt(q) : i = Len(box[q])

LEMMA Told ==
  ASSUME Types, NEW s \in Queue, NEW ms \in Seq(MsgRec), box'[s] = box[s] \o ms
  PROVE  /\ News(ms) => /\ Says(s, Results) => Says(s, Results)'
                        /\ StoppedAt(s)' = StoppedAt(s)
         /\ Farewell(ms) => /\ Says(s, Results) => Says(s, Results)'
                            /\ Cardinality(StoppedAt(s)') = Cardinality(StoppedAt(s)) + 1
                            /\ StoppedAt(s) = {} => EndsLast(s)'
<1>1. box[s] \in Seq(MsgRec)
  BY DEF Types
<1>2. StoppedAt(s) = Stops(box[s]) /\ StoppedAt(s)' = Stops(box[s] \o ms)
  BY DEF StoppedAt, Stops
<1>3. Says(s, Results)' <=> \A i \in DOMAIN (box[s] \o ms) : (box[s] \o ms)[i].type \in Results
  BY DEF Says
<1>4. Says(s, Results)' <=> (Says(s, Results) /\ \A i \in DOMAIN ms : ms[i].type \in Results)
  BY <1>1, <1>3, StopsPushed DEF Says
<1>5. ASSUME News(ms) PROVE (Says(s, Results) => Says(s, Results)') /\ StoppedAt(s)' = StoppedAt(s)
  <2>1. Stops(ms) = {}
    BY <1>5 DEF News, Stops, Results
  <2> QED
    BY <1>1, <1>2, <1>4, <1>5, <2>1, StopsPushed DEF News
<1>6. ASSUME Farewell(ms)
      PROVE  /\ Says(s, Results) => Says(s, Results)'
             /\ Cardinality(StoppedAt(s)') = Cardinality(StoppedAt(s)) + 1
             /\ StoppedAt(s) = {} => EndsLast(s)'
  <2>1. /\ StoppedAt(s)' = StoppedAt(s) \cup {Len(box[s]) + Len(ms)}
        /\ Cardinality(StoppedAt(s)') = Cardinality(StoppedAt(s)) + 1
        /\ Len(box'[s]) = Len(box[s]) + Len(ms)
    <3>1. PICK b \in Seq(MsgRec) : b = box[s]
      BY <1>1
    <3>2. Len(ms) >= 1 /\ Stops(ms) = {Len(ms)}
      BY <1>6 DEF Farewell
    <3>3. /\ Stops(b \o ms) = Stops(b) \cup {Len(b) + Len(ms)}
          /\ Cardinality(Stops(b \o ms)) = Cardinality(Stops(b)) + 1
          /\ Len(b \o ms) = Len(b) + Len(ms)
      BY <3>2, StopsPushed, ZenonT(60)
    <3> QED
      BY <1>2, <3>1, <3>3
  <2> QED
    BY <1>4, <1>6, <2>1 DEF Farewell, EndsLast
<1> QED
  BY <1>5, <1>6

-----------------------------------------------------------------------------
(* The steps of the tree by their shape. A thread goes on: it may give a job to    *)
(* the stubs of its team, and tell its client news.                                *)
Mails(o, ms) ==
  /\ box'[node[o].sink] = box[node[o].sink] \o ms
  /\ \A q \in Queue \ {o, node[o].sink} : box'[q] = box[q]

\* The stub e but for @stopped.
AlikeStub(e) ==
  /\ eng'[e].jobs = eng[e].jobs /\ eng'[e].sink = eng[e].sink
  /\ eng'[e].searching = eng[e].searching

\* A stub that works for o, if at all.
WorksFor(e, o) ==
  /\ Len(eng'[e].jobs) <= 1 /\ (Open(e)' => eng'[e].sink = o)
  /\ eng'[e].searching => Open(e)' /\ Kind(e)' \in {"search", "mate"}

\* What a queue that another object reads keeps.
Loads(q) == Load(q)' = Load(q) /\ (Load(q) <= 1 /\ EndsLast(q) => EndsLast(q)')

LEMMA SinkApart ==
  ASSUME Sinks, Types, NEW o \in Live
  PROVE  /\ node[o].sink # o /\ node[o].sink \in Queue /\ o \in Node /\ o \in Queue
         /\ node[o].sink \notin External =>
              node[o].sink \in Live /\ node[node[o].sink].pc \in Waiting
         /\ o \in Kin(node[o].sink)
<1>1. o \in Node /\ node[o].ply \in Nat /\ node[o].sink \in Queue /\ o \notin External
  BY Sizes DEF Types, NodeRec, Live
<1> QED
  BY <1>1, Sizes DEF Sinks, Kin, Live

LEMMA LiveTypes ==
  ASSUME Types, NEW o \in Live
  PROVE  /\ o \in Node /\ o \in Queue /\ node[o].pc \in Pcs /\ node[o].pc \notin Idle
         /\ node[o].usis \in Seq(Engine)
         /\ node[o].ply \in Nat /\ Members(o) \subseteq Engine
         /\ (Len(node[o].usis) >= 1 => Team(o) \subseteq Members(o) /\ node[o].usis[1] \in Members(o))
         /\ box[o] \in Seq(MsgRec)
<1>1. /\ o \in Node /\ o \in Queue /\ node[o].pc \in Pcs /\ node[o].pc \notin Idle
      /\ node[o].usis \in Seq(Engine) /\ node[o].ply \in Nat /\ box[o] \in Seq(MsgRec)
  BY Sizes DEF Types, NodeRec, Live, Idle
<1>2. \A i \in DOMAIN node[o].usis : node[o].usis[i] \in Engine
  BY <1>1
<1>3. Members(o) \subseteq Engine
  BY <1>2 DEF Members, ToSet
<1>4. ASSUME Len(node[o].usis) >= 1
      PROVE  Team(o) \subseteq Members(o) /\ node[o].usis[1] \in Members(o)
  <2>1. 1 \in DOMAIN node[o].usis
    BY <1>1, <1>4
  <2>2. node[o].usis[1] \in Members(o)
    BY <2>1 DEF Members, ToSet
  <2> QED
    BY <2>2 DEF Team
<1> QED
  BY <1>1, <1>3, <1>4

LEMMA LocalStep ==
  ASSUME Types, Tree, Types', NEW o \in Live,
         \A p \in Node \ {o} : Alike(p),
         node'[o].pc \notin Idle, node'[o].usis = node[o].usis,
         node'[o].ply = node[o].ply, node'[o].sink = node[o].sink,
         node[o].pc \in Waiting => node'[o].pc \in Waiting,
         node'[o].pc \notin {"book", "genmoves"} => Len(node[o].usis) >= 2,
         Team(o)' \subseteq Team(o),
         \A e \in Engine \ Team(o) : AlikeStub(e),
         \A e \in Team(o) : WorksFor(e, o),
         NEW ms \in Seq(MsgRec), News(ms), Mails(o, ms),
         Stage(o)'
  PROVE  Tree' /\ \A q \in Queue \ {o} : Loads(q)
<1> DEFINE s == node[o].sink
<1>0. s # o /\ s \in Queue /\ o \in Node /\ (s \notin External => s \in Live /\ node[s].pc \in Waiting)
      /\ o \in Kin(s)
  BY SinkApart DEF Tree
<1>1. Live' = Live
  BY <1>0 DEF Live, Alike, Idle
<1>2. \A p \in Node : node'[p].sink = node[p].sink /\ node'[p].ply = node[p].ply
                      /\ node'[p].usis = node[p].usis
  BY DEF Alike
<1>3. \A e \in Team(o) : Open(e) => eng[e].sink = o
  BY DEF Tree, OwnJobs
<1>4. Team(o) \subseteq Engine
  BY LiveTypes DEF Tree, Squads
<1>5. ASSUME NEW q \in Queue, q # o PROVE SameBusy(q)
  <2>1. \A e \in Engine : e \in Busy(q)' <=> e \in Busy(q)
    BY <1>3, <1>5 DEF Busy, Open, AlikeStub, WorksFor
  <2>2. Busy(q)' = Busy(q)
    BY <2>1 DEF Busy
  <2>3. \A e \in Busy(q) : e \notin Team(o)
    BY <1>3, <1>5 DEF Busy
  <2> QED
    BY <2>2, <2>3 DEF SameBusy, Busy, Kind, AlikeStub
<1>6. \A q : Kin(q)' = Kin(q)
  BY <1>1, <1>2 DEF Kin, Live
<1>7. /\ StoppedAt(s)' = StoppedAt(s) /\ (Says(s, Results) => Says(s, Results)')
  BY <1>0, Told DEF Mails
<1>8. ASSUME NEW q \in Queue, q # o, q # s PROVE box'[q] = box[q]
  BY <1>8 DEF Mails
<1>9. ASSUME NEW q \in Queue, q # o PROVE Loads(q)
  <2>1. StoppedAt(q)' = StoppedAt(q)
    BY <1>7, <1>8, <1>9 DEF StoppedAt
  <2>2. Load(q)' = Load(q)
    BY <1>5, <1>6, <1>9, <2>1 DEF Load, SameBusy
  <2>3. ASSUME Load(q) <= 1, EndsLast(q) PROVE EndsLast(q)'
    <3>1. CASE q = s
      <4>1. Kin(q) # {}
        BY <1>0, <3>1
      <4>2. Cardinality(StoppedAt(q)) = 0
        BY <2>3, <4>1, LoadType DEF Load
      <4>3. StoppedAt(q) = {}
        BY <4>2, LoadType
      <4> QED
        BY <2>1, <4>3 DEF EndsLast
    <3>2. CASE q # s
      BY <1>8, <1>9, <2>1, <2>3, <3>2 DEF EndsLast
    <3> QED
      BY <3>1, <3>2
  <2> QED
    BY <2>2, <2>3 DEF Loads
<1>10. OneJob'
  BY DEF Tree, OneJob, AlikeStub, WorksFor, Open, Kind
<1>11. Sinks'
  <2>1. ASSUME NEW e \in Engine, Open(e)' PROVE eng'[e].sink \in External \cup Live'
    BY <1>1, <2>1 DEF Tree, Sinks, AlikeStub, WorksFor, Open
  <2>2. ASSUME NEW p \in Live
        PROVE  \/ node'[p].sink \in External
               \/ /\ node'[p].sink \in Live' /\ node'[node'[p].sink].pc \in Waiting
                  /\ node'[node'[p].sink].ply < node'[p].ply
    <3>1. p \in Node
      BY DEF Live
    <3>2. CASE node[p].sink \in External
      BY <1>2, <3>1, <3>2
    <3>3. CASE node[p].sink \notin External
      <4>1. PICK t : t = node[p].sink
        OBVIOUS
      <4>2. t \in Live /\ node[t].pc \in Waiting /\ node[t].ply < node[p].ply /\ t \in Node
        BY <3>3, <4>1 DEF Tree, Sinks, Live
      <4>3. node'[t].pc \in Waiting
        BY <4>2 DEF Alike
      <4> QED
        BY <1>1, <1>2, <3>1, <4>1, <4>2, <4>3
    <3> QED
      BY <3>2, <3>3
  <2> QED
    BY <1>1, <2>1, <2>2 DEF Sinks
<1>12. \A p \in Live : p # o => node'[p].pc = node[p].pc /\ Team(p)' = Team(p)
  BY TeamKept DEF Alike, Live
<1>13. Squads'
  BY <1>1, <1>2, <1>12 DEF Tree, Squads, Live
<1>14. Apart'
  BY <1>1, <1>12 DEF Tree, Apart
<1>15. OwnJobs'
  <2>1. ASSUME NEW p \in Live, NEW e \in Team(p)', Open(e)' PROVE eng'[e].sink = p
    <3>1. CASE p = o
      BY <2>1, <3>1 DEF WorksFor
    <3>2. CASE p # o
      <4>1. e \in Team(p) /\ e \notin Team(o)
        BY <1>12, <2>1, <3>2 DEF Tree, Apart
      <4>2. e \in Engine
        BY <4>1, LiveTypes DEF Tree, Squads
      <4> QED
        BY <2>1, <4>1, <4>2 DEF Tree, OwnJobs, AlikeStub, Open
    <3> QED
      BY <3>1, <3>2
  <2> QED
    BY <1>1, <2>1 DEF OwnJobs
<1>16. \A q \in Queue : q # o /\ Reported(q) => Reported(q)'
  <2> SUFFICES ASSUME NEW q \in Queue, q # o, Reported(q) PROVE Reported(q)'
    OBVIOUS
  <2>1. Says(q, Results)'
    BY <1>7, <1>8 DEF Reported, Says
  <2> QED
    BY <1>5, <2>1 DEF Reported, SameBusy
<1>17. Stages'
  <2>1. ASSUME NEW p \in Live PROVE Stage(p)'
    <3>1. CASE p = o
      BY <3>1
    <3>2. CASE p # o
      <4>1. Alike(p) /\ SameBusy(p) /\ Load(p)' = Load(p) /\ Stage(p) /\ p \in Queue
        BY <1>5, <1>9, <3>2, LiveTypes DEF Tree, Stages, Loads
      <4>2. CASE p = s
        <5>1. node[p].pc \in Waiting /\ Reported(p)
          <6>1. p \notin External
            BY LiveTypes, Sizes
          <6> QED
            BY <1>0, <4>1, <4>2, <6>1 DEF Stage
        <5> QED
          BY <1>16, <3>2, <4>1, <5>1, StageFed
      <4>3. CASE p # s
        BY <1>8, <3>2, <4>1, <4>3, StageKept
      <4> QED
        BY <4>2, <4>3
    <3> QED
      BY <3>1, <3>2
  <2>2. \A q \in External : Reported(q)'
    <3>1. o \notin External
      BY <1>0, Sizes
    <3> QED
      BY <1>16, <3>1, Sizes DEF Tree, Stages
  <2> QED
    BY <1>1, <2>1, <2>2 DEF Stages
<1> QED
  BY <1>9, <1>10, <1>11, <1>13, <1>14, <1>15, <1>17 DEF Tree

\* A thread ends: it tells its client so, or hands its search over to a stub.
LEMMA LeaveStep ==
  ASSUME Types, Tree, Types', NEW o \in Live,
         \A p \in Node \ {o} : Alike(p), node'[o].pc \in Idle,
         Busy(o) = {}, Kin(o) = {},
         NEW H \in SUBSET Team(o), \A e \in Engine \ H : AlikeStub(e),
         \A e \in H : WorksFor(e, node[o].sink) /\ Open(e)' /\ Kind(e)' = "search",
         NEW ms \in Seq(MsgRec), Mails(o, ms),
         \/ H = {} /\ Farewell(ms)
         \/ (\E e \in H : H = {e}) /\ ms = <<>>
  PROVE  Tree' /\ \A q \in Queue \ {o} : Loads(q)
<1>s. PICK s : s = node[o].sink
  OBVIOUS
<1>0. s # o /\ s \in Queue /\ o \in Node /\ (s \notin External => s \in Live /\ node[s].pc \in Waiting)
      /\ o \in Kin(s) /\ o \in Queue
  BY <1>s, SinkApart DEF Tree
<1>m. box'[s] = box[s] \o ms /\ \A q \in Queue \ {o, s} : box'[q] = box[q]
  BY <1>s DEF Mails
<1>h. \A e \in H : WorksFor(e, s) /\ Open(e)' /\ Kind(e)' = "search"
  BY <1>s
<1>1. Live' = Live \ {o}
  BY <1>0 DEF Live, Alike, Idle
<1>2. \A p \in Live : p # o => node'[p].sink = node[p].sink /\ node'[p].ply = node[p].ply
                               /\ node'[p].usis = node[p].usis /\ node'[p].pc = node[p].pc
                               /\ Team(p)' = Team(p) /\ Alike(p) /\ p \in Node
  BY TeamKept DEF Alike, Live
<1>3. Team(o) \subseteq Engine
  BY LiveTypes DEF Tree, Squads
<1>4. \A e \in Team(o) : ~Open(e)
  BY <1>3, Sizes DEF Tree, OwnJobs, Busy
<1>5. \A p \in Live : node[p].sink # o
  BY DEF Kin
<1>6. \A e \in Engine : Open(e) => eng[e].sink # o
  BY DEF Busy
<1>7. H \subseteq Engine
  BY <1>3
<1>8. ASSUME NEW q \in Queue, q # s PROVE SameBusy(q)
  <2>1. \A e \in Engine : e \in Busy(q)' <=> e \in Busy(q)
    BY <1>4, <1>8, <1>h DEF Busy, Open, AlikeStub, WorksFor
  <2>2. Busy(q)' = Busy(q)
    BY <2>1 DEF Busy
  <2>3. \A e \in Busy(q) : e \notin H
    BY <1>4 DEF Busy
  <2> QED
    BY <2>2, <2>3 DEF SameBusy, Busy, Kind, AlikeStub
<1>9. Busy(s)' = Busy(s) \cup H /\ Busy(s) \cap H = {}
      /\ \A e \in Busy(s) : Kind(e)' = Kind(e)
  <2>1. \A e \in Engine : e \in Busy(s)' <=> e \in Busy(s) \/ e \in H
    BY <1>4, <1>0, <1>h DEF Busy, Open, AlikeStub, WorksFor
  <2>2. \A e \in Busy(s) : e \notin H /\ e \in Engine
    BY <1>4 DEF Busy
  <2>3. \A e \in Busy(s)' : e \in Engine
    BY DEF Busy
  <2>4. \A e \in Busy(s) : Kind(e)' = Kind(e)
    BY <2>2 DEF Kind, AlikeStub
  <2> QED
    BY <1>7, <2>1, <2>2, <2>3, <2>4
<1>10. \A q : q # s => Kin(q)' = Kin(q)
  BY <1>s, <1>1, <1>2 DEF Kin
<1>11. Kin(s)' = Kin(s) \ {o}
  BY <1>s, <1>1, <1>2 DEF Kin
<1>12. ASSUME NEW q \in Queue, q # o, q # s PROVE box'[q] = box[q]
  BY <1>m, <1>12
<1>13. ASSUME NEW q \in Queue, q # o, q # s PROVE Loads(q)
  <2>1. box'[q] = box[q]
    BY <1>12, <1>13
  <2>2. StoppedAt(q)' = StoppedAt(q)
    BY <2>1 DEF StoppedAt
  <2> QED
    BY <1>8, <1>10, <1>13, <2>1, <2>2 DEF Loads, Load, SameBusy, EndsLast
<1>14. /\ Cardinality(Kin(s)') = Cardinality(Kin(s)) - 1
       /\ Cardinality(Kin(s)) \in Nat /\ Cardinality(Busy(s)) \in Nat
       /\ Cardinality(StoppedAt(s)) \in Nat
       /\ Cardinality(Kin(s)) # 0
       /\ (Cardinality(StoppedAt(s)) = 0 => StoppedAt(s) = {})
  <2>1. IsFiniteSet(Kin(s)) /\ Cardinality(Kin(s) \ {o}) = Cardinality(Kin(s)) - 1
    BY <1>0, LoadType, FS_RemoveElement
  <2> QED
    BY <1>0, <1>11, <2>1, LoadType
<1>15. ASSUME Load(s) <= 1 PROVE StoppedAt(s) = {}
  BY <1>14, <1>15 DEF Load
<1>16. Loads(s) /\ (Says(s, Results) => Says(s, Results)')
  <2>1. CASE H = {} /\ Farewell(ms)
    <3>1. /\ Cardinality(StoppedAt(s)') = Cardinality(StoppedAt(s)) + 1
          /\ StoppedAt(s) = {} => EndsLast(s)'
          /\ Says(s, Results) => Says(s, Results)'
      BY <1>0, <1>m, <2>1, Told
    <3>2. Busy(s)' = Busy(s)
      BY <1>9, <2>1
    <3> QED
      BY <1>14, <1>15, <3>1, <3>2 DEF Loads, Load
  <2>2. CASE (\E e \in H : H = {e}) /\ ms = <<>>
    <3>1. PICK e \in H : H = {e}
      BY <2>2
    <3>2. e \notin Busy(s) /\ Busy(s)' = Busy(s) \cup {e}
      BY <1>9, <3>1
    <3>3. Cardinality(Busy(s)') = Cardinality(Busy(s)) + 1
      BY <1>0, <3>2, LoadType, FS_AddElement
    <3>4. box'[s] = box[s]
      BY <1>0, <1>m, <2>2 DEF Types
    <3>5. StoppedAt(s)' = StoppedAt(s)
      BY <3>4 DEF StoppedAt
    <3> QED
      BY <1>14, <3>3, <3>4, <3>5 DEF Loads, Load, EndsLast, Says
  <2> QED
    BY <2>1, <2>2
<1>17. \A q \in Queue \ {o} : Loads(q)
  BY <1>13, <1>16
<1>18. OneJob'
  BY <1>7, <1>h DEF Tree, OneJob, AlikeStub, WorksFor, Open, Kind
<1>19. Sinks'
  <2>1. ASSUME NEW e \in Engine, Open(e)' PROVE eng'[e].sink \in External \cup Live'
    <3>1. CASE e \in H
      BY <1>0, <1>1, <1>h, <2>1, <3>1 DEF WorksFor
    <3>2. CASE e \notin H
      BY <1>1, <1>6, <2>1, <3>2 DEF Tree, Sinks, AlikeStub, Open
    <3> QED
      BY <3>1, <3>2
  <2>2. ASSUME NEW p \in Live, p # o
        PROVE  \/ node'[p].sink \in External
               \/ /\ node'[p].sink \in Live' /\ node'[node'[p].sink].pc \in Waiting
                  /\ node'[node'[p].sink].ply < node'[p].ply
    <3>1. node'[p].sink = node[p].sink /\ node'[p].ply = node[p].ply
      BY <1>2, <2>2
    <3>2. CASE node[p].sink \in External
      BY <3>1, <3>2
    <3>3. CASE node[p].sink \notin External
      <4>1. PICK t : t = node[p].sink
        OBVIOUS
      <4>2. t \in Live /\ t # o /\ node[t].pc \in Waiting /\ node[t].ply < node[p].ply
        BY <1>5, <3>3, <4>1 DEF Tree, Sinks
      <4>3. node'[t].pc \in Waiting /\ node'[t].ply = node[t].ply
        BY <1>2, <4>2
      <4> QED
        BY <1>1, <3>1, <4>1, <4>2, <4>3
    <3> QED
      BY <3>2, <3>3
  <2> QED
    BY <1>1, <2>1, <2>2 DEF Sinks
<1>20. Squads'
  BY <1>1, <1>2 DEF Tree, Squads
<1>21. Apart'
  BY <1>1, <1>2 DEF Tree, Apart
<1>22. OwnJobs'
  <2>1. ASSUME NEW p \in Live, p # o, NEW e \in Team(p)', Open(e)' PROVE eng'[e].sink = p
    <3>1. e \in Team(p) /\ e \notin Team(o)
      BY <1>2, <2>1 DEF Tree, Apart
    <3>2. e \in Engine
      BY <3>1, LiveTypes DEF Tree, Squads
    <3> QED
      BY <2>1, <3>1, <3>2 DEF Tree, OwnJobs, AlikeStub, Open
  <2> QED
    BY <1>1, <2>1 DEF OwnJobs
<1>23. \A q \in Queue : q # o /\ Reported(q) => Reported(q)'
  <2> SUFFICES ASSUME NEW q \in Queue, q # o, Reported(q) PROVE Reported(q)'
    OBVIOUS
  <2>1. Says(q, Results)'
    BY <1>12, <1>16 DEF Reported, Says
  <2>2. CASE q = s
    BY <1>9, <1>h, <2>1, <2>2 DEF Reported
  <2>3. CASE q # s
    BY <1>8, <2>1, <2>3 DEF Reported, SameBusy
  <2> QED
    BY <2>2, <2>3
<1>24. Stages'
  <2>1. ASSUME NEW p \in Live, p # o PROVE Stage(p)'
    <3>1. Alike(p) /\ Load(p)' = Load(p) /\ Stage(p) /\ p \in Queue
      BY <1>2, <1>17, <2>1, LiveTypes DEF Tree, Stages, Loads
    <3>2. CASE p = s
      <4>1. node[p].pc \in Waiting /\ Reported(p)
        <5>1. p \notin External
          BY LiveTypes, Sizes
        <5> QED
          BY <1>0, <3>1, <3>2, <5>1 DEF Stage
      <4> QED
        BY <1>23, <2>1, <3>1, <4>1, StageFed
    <3>3. CASE p # s
      BY <1>8, <1>12, <2>1, <3>1, <3>3, StageKept
    <3> QED
      BY <3>2, <3>3
  <2>2. \A q \in External : Reported(q)'
    <3>1. o \notin External
      BY <1>0, Sizes
    <3> QED
      BY <1>23, <3>1, Sizes DEF Tree, Stages
  <2> QED
    BY <1>1, <2>1, <2>2 DEF Stages
<1> QED
  BY <1>17, <1>18, <1>19, <1>20, <1>21, <1>22, <1>24 DEF Tree

\* A thread makes objects F for its team's stubs; H are the stubs that search at once.
Young(k, o) ==
  /\ node'[k].pc \in {"presearch", "timeless"} /\ node'[k].sink = o
  /\ node'[k].ply > node[o].ply
  /\ IsInjective(node'[k].usis) /\ Len(node'[k].usis) >= 2
  /\ box'[k] = <<>>

\* What a thread o does that becomes the parent of the objects K: F are the objects it
\* makes, H the stubs it uses.
Forks(o, F, K, H) ==
  /\ o \in Live /\ node[o].pc \notin Waiting
  /\ Busy(o) = {} /\ Kin(o) = {} /\ box[o] = <<>>
  /\ node[o].pc \notin {"book", "genmoves"}
  /\ F \subseteq Node /\ F \cap Live = {} /\ \A e \in Engine : Open(e) => eng[e].sink \notin F
  /\ \A p \in Node \ (F \cup {o}) : Alike(p)
  /\ node'[o].usis = node[o].usis /\ node'[o].ply = node[o].ply /\ node'[o].sink = node[o].sink
  /\ node'[o].pc \in {"forcedwait", "count"}
  /\ K \subseteq F /\ \A k \in F : k \in K <=> node'[k].pc \notin Idle
  /\ \A k \in K : Young(k, o) /\ Members(k)' \subseteq Members(o)
  /\ H \subseteq Members(o) /\ \A e \in Engine \ H : AlikeStub(e)
  /\ \A e \in H : WorksFor(e, o) /\ Open(e)' /\ Kind(e)' = "search"
  /\ Team(o)' \subseteq Members(o)
  /\ \A k \in K : Members(k)' \cap H = {} /\ Members(k)' \cap Team(o)' = {}
  /\ \A k, l \in K : k # l => Members(k)' \cap Members(l)' = {}
  /\ \A q \in Queue \ F : box'[q] = box[q]
  /\ (node'[o].pc = "forcedwait" => Cardinality(H) + Cardinality(K) = 1)
  /\ (node'[o].pc = "count" =>
        Cardinality(H) + Cardinality(K) = Cardinality(node'[o].kids) + Cardinality(node'[o].stubs))

LEMMA ForkStep ==
  ASSUME Types, Tree, Types', NEW o, NEW F, NEW K, NEW H, Forks(o, F, K, H)
  PROVE  Tree' /\ \A q \in External : Loads(q)
<1> SUFFICES ASSUME o \in Live, node[o].pc \notin Waiting,
                    Busy(o) = {}, Kin(o) = {}, box[o] = <<>>,
                    node[o].pc \notin {"book", "genmoves"},
                    F \subseteq Node, F \cap Live = {},
                    \A e \in Engine : Open(e) => eng[e].sink \notin F,
                    \A p \in Node \ (F \cup {o}) : Alike(p),
                    node'[o].usis = node[o].usis, node'[o].ply = node[o].ply,
                    node'[o].sink = node[o].sink, node'[o].pc \in {"forcedwait", "count"},
                    K \subseteq F, \A k \in F : k \in K <=> node'[k].pc \notin Idle,
                    \A k \in K : Young(k, o) /\ Members(k)' \subseteq Members(o),
                    H \subseteq Members(o), \A e \in Engine \ H : AlikeStub(e),
                    \A e \in H : WorksFor(e, o) /\ Open(e)' /\ Kind(e)' = "search",
                    Team(o)' \subseteq Members(o),
                    \A k \in K : Members(k)' \cap H = {} /\ Members(k)' \cap Team(o)' = {},
                    \A k, l \in K : k # l => Members(k)' \cap Members(l)' = {},
                    \A q \in Queue \ F : box'[q] = box[q],
                    node'[o].pc = "forcedwait" => Cardinality(H) + Cardinality(K) = 1,
                    node'[o].pc = "count" =>
                      Cardinality(H) + Cardinality(K)
                        = Cardinality(node'[o].kids) + Cardinality(node'[o].stubs)
             PROVE  Tree' /\ \A q \in External : Loads(q)
  BY DEF Forks
<1>1. o \in Node /\ o \in Queue /\ o \notin F /\ o \notin External /\ F \cap External = {}
      /\ K \subseteq F /\ F \subseteq Queue /\ node[o].ply \in Nat
  BY LiveTypes, Sizes
<1>2. Team(o) = Members(o) /\ Members(o) \subseteq Engine
  <2>1. Members(o) \subseteq Engine
    BY LiveTypes
  <2> QED
    BY <2>1 DEF Team, Waiting
<1>3. \A e \in Members(o) : ~Open(e)
  BY <1>2 DEF Tree, OwnJobs, Busy
<1>4. Live' = Live \cup K
  <2>1. ASSUME NEW p \in Node PROVE p \in Live' <=> p \in Live \/ p \in K
    <3>1. CASE p = o
      BY <3>1 DEF Live
    <3>2. CASE p \in F
      BY <1>1, <3>2 DEF Live, Idle
    <3>3. CASE p \notin F /\ p # o
      BY <1>1, <3>3 DEF Live, Alike
    <3> QED
      BY <3>1, <3>2, <3>3
  <2>2. Live' \subseteq Node /\ Live \subseteq Node
    BY DEF Live
  <2> QED
    BY <1>1, <2>1, <2>2
<1>5. \A p \in Live : p # o => /\ Alike(p) /\ p \in Node /\ p \notin F /\ p \in Queue
                               /\ Team(p)' = Team(p) /\ node'[p].sink = node[p].sink
                               /\ node'[p].ply = node[p].ply /\ node'[p].usis = node[p].usis
                               /\ node'[p].pc = node[p].pc
  BY TeamKept, LiveTypes DEF Alike, Live
<1>6. \A p \in Live : node[p].sink # o
  BY DEF Kin
<1>7. \A p \in Live : node[p].sink \notin F
  BY <1>1 DEF Tree, Sinks
<1>8. ASSUME NEW q \in Queue, q # o PROVE SameBusy(q)
  <2>1. \A e \in Engine : e \in Busy(q)' <=> e \in Busy(q)
    BY <1>3, <1>8 DEF Busy, Open, AlikeStub, WorksFor
  <2>2. Busy(q)' = Busy(q)
    BY <2>1 DEF Busy
  <2>3. \A e \in Busy(q) : e \notin H
    BY <1>3 DEF Busy
  <2> QED
    BY <2>2, <2>3 DEF SameBusy, Busy, Kind, AlikeStub
<1>9. Busy(o)' = H
  <2>1. \A e \in Engine : e \in Busy(o)' <=> e \in H
    BY <1>3 DEF Busy, Open, AlikeStub, WorksFor
  <2>2. Busy(o)' \subseteq Engine
    BY DEF Busy
  <2> QED
    BY <1>2, <2>1, <2>2
<1>10. Kin(o)' = K
  <2>1. node[o].sink # o
    BY <1>6
  <2>2. \A p \in Live \cup K : node'[p].sink = o <=> p \in K
    BY <1>1, <1>5, <1>6, <2>1 DEF Young
  <2> QED
    BY <1>4, <2>2 DEF Kin
<1>11. ASSUME NEW q \in Queue, q # o PROVE Kin(q)' = Kin(q)
  <2>1. \A p \in Live \cup K : node'[p].sink = q <=> (p \in Live /\ node[p].sink = q)
    BY <1>1, <1>5, <1>11 DEF Young
  <2> QED
    BY <1>4, <2>1 DEF Kin
<1>12. ASSUME NEW q \in Queue, q # o, q \notin F
       PROVE  box'[q] = box[q] /\ Load(q)' = Load(q) /\ Loads(q)
  <2>1. box'[q] = box[q]
    BY <1>12
  <2>2. StoppedAt(q)' = StoppedAt(q)
    BY <2>1 DEF StoppedAt
  <2>3. Load(q)' = Load(q)
    BY <1>8, <1>11, <1>12, <2>2 DEF Load, SameBusy
  <2> QED
    BY <2>1, <2>2, <2>3 DEF Loads, EndsLast
<1>13. Load(o)' = Cardinality(H) + Cardinality(K) /\ box'[o] = <<>>
  <2>1. box'[o] = <<>>
    BY <1>1
  <2>2. StoppedAt(o)' = {}
    BY <2>1 DEF StoppedAt
  <2>3. IsFiniteSet(K) /\ IsFiniteSet(H)
    <3>1. K \in SUBSET Node /\ H \in SUBSET Engine
      BY <1>1, <1>2
    <3> QED
      BY <3>1, Sizes, FS_Subset
  <2>4. Cardinality(K) \in Nat /\ Cardinality(H) \in Nat
    BY <2>3, FS_CardinalityType
  <2> QED
    BY <1>9, <1>10, <2>1, <2>2, <2>4, FS_EmptySet DEF Load
<1>14. OneJob'
  BY <1>2 DEF Tree, OneJob, AlikeStub, WorksFor, Open, Kind
<1>15. Sinks'
  <2>1. ASSUME NEW e \in Engine, Open(e)' PROVE eng'[e].sink \in External \cup Live'
    BY <1>4, <2>1 DEF Tree, Sinks, AlikeStub, WorksFor, Open
  <2>2. ASSUME NEW p \in Live'
        PROVE  \/ node'[p].sink \in External
               \/ /\ node'[p].sink \in Live' /\ node'[node'[p].sink].pc \in Waiting
                  /\ node'[node'[p].sink].ply < node'[p].ply
    <3>1. CASE p \in K
      BY <1>4, <3>1 DEF Young, Waiting
    <3>2. CASE p \in Live
      <4>1. node'[p].sink = node[p].sink /\ node'[p].ply = node[p].ply
        BY <1>5, <3>2
      <4>2. CASE node[p].sink \in External
        BY <4>1, <4>2
      <4>3. CASE node[p].sink \notin External
        <5>1. PICK t : t = node[p].sink
          OBVIOUS
        <5>2. t \in Live /\ t # o /\ node[t].pc \in Waiting /\ node[t].ply < node[p].ply
          BY <1>6, <3>2, <4>3, <5>1 DEF Tree, Sinks
        <5>3. node'[t].pc \in Waiting /\ node'[t].ply = node[t].ply
          BY <1>5, <5>2
        <5> QED
          BY <1>4, <4>1, <5>1, <5>2, <5>3
      <4> QED
        BY <4>2, <4>3
    <3> QED
      BY <1>4, <2>2, <3>1, <3>2
  <2> QED
    BY <2>1, <2>2 DEF Sinks
<1>16. Squads'
  <2>1. \A p \in Live : /\ IsInjective(node'[p].usis) /\ Len(node'[p].usis) >= 1
                        /\ node'[p].pc \notin {"book", "genmoves"} => Len(node'[p].usis) >= 2
    BY <1>5 DEF Tree, Squads
  <2>2. \A p \in K : IsInjective(node'[p].usis) /\ Len(node'[p].usis) >= 2
    BY DEF Young
  <2>3. \A p \in K : Len(node'[p].usis) >= 1
    <3> SUFFICES ASSUME NEW p \in K PROVE Len(node'[p].usis) >= 1
      OBVIOUS
    <3>1. node'[p].usis \in Seq(Engine)
      BY <1>1 DEF Types, NodeRec
    <3> QED
      BY <2>2, <3>1
  <2> QED
    BY <1>4, <2>1, <2>2, <2>3 DEF Squads
<1>17. \A k \in K : Team(k)' = Members(k)' /\ Members(k)' \subseteq Members(o)
  BY DEF Team, Members, Young
<1>18. \A p \in Live : p # o => Team(p)' \cap Members(o) = {}
  BY <1>2, <1>5 DEF Tree, Apart
<1>19. Apart'
  <2>1. \A p, r \in Live : p # r => Team(p)' \cap Team(r)' = {}
    BY <1>5, <1>18 DEF Tree, Apart
  <2>2. \A p \in Live, k \in K : Team(p)' \cap Team(k)' = {}
    BY <1>17, <1>18
  <2>3. \A k, l \in K : k # l => Team(k)' \cap Team(l)' = {}
    BY <1>17
  <2> QED
    BY <1>4, <2>1, <2>2, <2>3 DEF Apart
<1>20. OwnJobs'
  <2>1. ASSUME NEW p \in Live', NEW e \in Team(p)', Open(e)' PROVE eng'[e].sink = p
    <3>1. CASE p \in K
      <4>1. e \in Members(o) /\ e \notin H
        BY <1>17, <2>1, <3>1
      <4> QED
        BY <1>2, <1>3, <2>1, <4>1 DEF AlikeStub, Open
    <3>2. CASE p = o
      <4>1. e \in Members(o)
        BY <2>1, <3>2
      <4> QED
        BY <1>2, <1>3, <2>1, <3>2, <4>1 DEF AlikeStub, Open, WorksFor
    <3>3. CASE p \in Live /\ p # o
      <4>1. e \in Team(p) /\ e \notin Members(o)
        BY <1>5, <1>18, <2>1, <3>3
      <4>2. e \in Engine
        BY <3>3, <4>1, LiveTypes DEF Tree, Squads
      <4> QED
        BY <2>1, <3>3, <4>1, <4>2 DEF Tree, OwnJobs, AlikeStub, Open
    <3> QED
      BY <1>4, <2>1, <3>1, <3>2, <3>3
  <2> QED
    BY <2>1 DEF OwnJobs
<1>21. Stages'
  <2>1. ASSUME NEW p \in Live, p # o PROVE Stage(p)'
    <3>1. Alike(p) /\ Load(p)' = Load(p) /\ Stage(p) /\ SameBusy(p) /\ box'[p] = box[p]
      BY <1>5, <1>8, <1>12, <2>1 DEF Tree, Stages
    <3> QED
      BY <3>1, StageKept
  <2>2. Reported(o)'
    BY <1>9, <1>13 DEF Reported, Says
  <2>3. Stage(o)'
    <3> HIDE DEF Reported, Load
    <3> QED
      BY <1>13, <2>2 DEF Stage, Waiting
  <2>4. ASSUME NEW k \in K PROVE Stage(k)'
    <3>1. Busy(k)' = {}
      <4>1. k \in F /\ k # o /\ k \in Queue
        BY <1>1
      <4>2. Busy(k) = {}
        BY <4>1 DEF Busy
      <4> QED
        BY <1>8, <4>1, <4>2 DEF SameBusy
    <3>2. Quiet(k)'
      BY <3>1 DEF Quiet, Young
    <3> QED
      BY <3>2 DEF Stage, Young, Waiting
  <2>5. \A q \in External : Reported(q)'
    <3> SUFFICES ASSUME NEW q \in External PROVE Reported(q)'
      OBVIOUS
    <3>1. q \in Queue /\ q # o /\ q \notin F /\ Reported(q)
      BY <1>1, Sizes DEF Tree, Stages
    <3> QED
      BY <1>8, <1>12, <3>1 DEF Reported, Says, SameBusy
  <2> QED
    BY <1>4, <2>1, <2>3, <2>4, <2>5 DEF Stages
<1> QED
  BY <1>1, <1>12, <1>14, <1>15, <1>16, <1>19, <1>20, <1>21, Sizes DEF Tree

\* Threads stay where they are: a stop, or a client that reads its queue.
LEMMA QuietStep ==
  ASSUME Types, Tree, Types',
         \A p \in Live : Alike(p), \A p \in Node \ Live : node'[p].pc \in Idle,
         \A e \in Engine : AlikeStub(e),
         \A q \in Queue \ External : box'[q] = box[q],
         \A q \in External : Says(q, Results)'
  PROVE  /\ Tree' /\ Live' = Live
         /\ \A q \in Queue : Busy(q)' = Busy(q) /\ Kin(q)' = Kin(q)
         /\ \A q \in Queue : box'[q] = box[q] => Loads(q)
<1>1. Live' = Live
  BY DEF Live, Alike, Idle
<1>2. \A p \in Live : /\ p \in Node /\ p \in Queue /\ p \notin External
                      /\ node'[p].pc = node[p].pc /\ node'[p].sink = node[p].sink
                      /\ node'[p].usis = node[p].usis /\ node'[p].ply = node[p].ply
                      /\ Team(p)' = Team(p)
  BY TeamKept, Sizes DEF Alike, Live
<1>3. ASSUME NEW q \in Queue PROVE SameBusy(q) /\ Kin(q)' = Kin(q)
  <2>1. Busy(q)' = Busy(q)
    BY DEF Busy, Open, AlikeStub
  <2>2. \A e \in Busy(q) : Kind(e)' = Kind(e)
    BY DEF Busy, Kind, AlikeStub
  <2>3. Kin(q)' = Kin(q)
    BY <1>1, <1>2 DEF Kin
  <2> QED
    BY <2>1, <2>2, <2>3 DEF SameBusy
<1>4. ASSUME NEW q \in Queue, box'[q] = box[q] PROVE Loads(q)
  <2>1. StoppedAt(q)' = StoppedAt(q)
    BY <1>4 DEF StoppedAt
  <2> QED
    BY <1>3, <1>4, <2>1 DEF Loads, Load, SameBusy, EndsLast
<1>5. OneJob'
  BY DEF Tree, OneJob, AlikeStub, Open, Kind
<1>6. Sinks'
  <2>1. \A e \in Engine : Open(e)' => eng'[e].sink \in External \cup Live'
    BY <1>1 DEF Tree, Sinks, AlikeStub, Open
  <2>2. ASSUME NEW p \in Live
        PROVE  \/ node'[p].sink \in External
               \/ /\ node'[p].sink \in Live' /\ node'[node'[p].sink].pc \in Waiting
                  /\ node'[node'[p].sink].ply < node'[p].ply
    <3>1. PICK t : t = node[p].sink
      OBVIOUS
    <3>2. t \notin External => t \in Live /\ node[t].pc \in Waiting /\ node[t].ply < node[p].ply
      BY <3>1 DEF Tree, Sinks
    <3> QED
      BY <1>1, <1>2, <3>1, <3>2
  <2> QED
    BY <1>1, <2>1, <2>2 DEF Sinks
<1>7. Squads' /\ Apart'
  BY <1>1, <1>2 DEF Tree, Squads, Apart
<1>8. OwnJobs'
  <2>1. \A p \in Live : Team(p) \subseteq Engine
    BY LiveTypes DEF Tree, Squads
  <2> QED
    BY <1>1, <1>2, <2>1 DEF Tree, OwnJobs, AlikeStub, Open
<1>9. Stages'
  <2>1. ASSUME NEW p \in Live PROVE Stage(p)'
    BY <1>2, <1>3, <1>4, StageKept DEF Tree, Stages, Loads
  <2>2. \A q \in External : Reported(q)'
    BY <1>3, Sizes DEF Tree, Stages, Reported, SameBusy
  <2> QED
    BY <1>1, <2>1, <2>2 DEF Stages
<1> QED
  BY <1>1, <1>3, <1>4, <1>5, <1>6, <1>7, <1>8, <1>9 DEF Tree, SameBusy

\* What a process answers.
LEMMA AnswerIs ==
  ASSUME NEW j \in JobRec, NEW m \in Answers(j)
  PROVE  /\ m \in Seq(MsgRec)
         /\ j.kind = "search" =>
              \E v \in Val : m = <<Msg("exact", j.pos, j.own, v, 1), Stopped>>
         /\ j.kind = "book" =>
              \E n \in {0, 1} : m = <<Msg("exact", j.pos, FALSE, 0, n), Stopped>>
         /\ j.kind = "mate" =>
              \E type \in {"mate", "nomate"} : m = <<Msg(type, j.pos, FALSE, Top, 0)>>
         /\ j.kind \in {"genmoves", "probability"} =>
              \E n \in 0 .. MaxKeys : m = <<Msg("moves", j.pos, FALSE, 0, n)>>
<1>1. j.kind \in JobKind /\ j.pos \in Seq(Nat) /\ j.own \in BOOLEAN
  BY DEF JobRec
<1>2. \A type \in MsgType, pos \in Seq(Nat), own \in BOOLEAN, v \in Val, n \in Nat :
        Msg(type, pos, own, v, n) \in MsgRec
  BY DEF Msg, MsgRec
<1>3. Stopped \in MsgRec
  BY Sizes DEF Stopped, Msg, MsgRec, MsgType
<1>8. \A a \in MsgRec : <<a>> \in Seq(MsgRec) /\ <<a, Stopped>> \in Seq(MsgRec)
  BY <1>3
<1>4. CASE j.kind = "search"
  <2>1. PICK v \in Val : m = <<Msg("exact", j.pos, j.own, v, 1), Stopped>>
    BY <1>4 DEF Answers, Bestmove
  <2>2. Msg("exact", j.pos, j.own, v, 1) \in MsgRec
    BY <1>1, <1>2 DEF MsgType
  <2> QED
    BY <1>3, <1>4, <2>1, <2>2
<1>5. CASE j.kind = "book"
  <2>1. PICK n \in {0, 1} : m = <<Msg("exact", j.pos, FALSE, 0, n), Stopped>>
    BY <1>5 DEF Answers, Bestmove
  <2>2. Msg("exact", j.pos, FALSE, 0, n) \in MsgRec
    BY <1>1, <1>2, Sizes DEF MsgType
  <2>4. m \in Seq(MsgRec)
    BY <1>8, <2>1, <2>2, Zenon
  <2>5. \E k \in {0, 1} : m = <<Msg("exact", j.pos, FALSE, 0, k), Stopped>>
    BY <2>1, Zenon
  <2>6. j.kind # "search" /\ j.kind # "mate" /\ j.kind \notin {"genmoves", "probability"}
    BY <1>5
  <2> QED
    BY <2>4, <2>5, <2>6, Zenon
<1>6. CASE j.kind = "mate"
  <2>1. PICK type \in {"mate", "nomate"} : m = <<Msg(type, j.pos, FALSE, Top, 0)>>
    BY <1>6 DEF Answers, Checkmate
  <2>2. Msg(type, j.pos, FALSE, Top, 0) \in MsgRec
    BY <1>1, <1>2, Sizes DEF MsgType
  <2>4. m \in Seq(MsgRec)
    BY <1>8, <2>1, <2>2, Zenon
  <2>5. \E k \in {"mate", "nomate"} : m = <<Msg(k, j.pos, FALSE, Top, 0)>>
    BY <2>1, Zenon
  <2>6. j.kind # "search" /\ j.kind # "book" /\ j.kind \notin {"genmoves", "probability"}
    BY <1>6
  <2> QED
    BY <2>4, <2>5, <2>6, Zenon
<1>7. CASE j.kind \in {"genmoves", "probability"}
  <2>1. PICK n \in 0 .. MaxKeys : m = <<Msg("moves", j.pos, FALSE, 0, n)>>
    BY <1>7 DEF Answers, Genmove
  <2>3. n \in Nat /\ 0 \in Val /\ "moves" \in MsgType
    BY Sizes DEF MsgType
  <2>2. Msg("moves", j.pos, FALSE, 0, n) \in MsgRec
    BY <1>1, <1>2, <2>3
  <2>4. m \in Seq(MsgRec)
    BY <1>8, <2>1, <2>2, Zenon
  <2>5. \E k \in 0 .. MaxKeys : m = <<Msg("moves", j.pos, FALSE, 0, k)>>
    BY <2>1, Zenon
  <2>6. j.kind # "search" /\ j.kind # "book" /\ j.kind # "mate"
    BY <1>7
  <2> QED
    BY <2>4, <2>5, <2>6, Zenon
<1> QED
  BY <1>1, <1>4, <1>5, <1>6, <1>7 DEF JobKind

\* An answer moves from a stub to the queue.
LEMMA ReaderIs ==
  ASSUME Types, OneJob, NEW e \in Engine, ReaderStep(e)
  PROVE  /\ Open(e) /\ eng[e].sink \in Queue /\ ~Open(e)' /\ eng'[e].searching = FALSE
         /\ eng[e].jobs[1] \in JobRec /\ Kind(e) \in JobKind
         /\ eng' \in [Engine -> StubRec] /\ \A d \in Engine : d # e => eng'[d] = eng[d]
         /\ node' = node /\ root' = root /\ asked' = asked /\ raised' = raised
         /\ box' \in [Queue -> Seq(MsgRec)]
         /\ \A q \in Queue : q # eng[e].sink => box'[q] = box[q]
         /\ \E m \in Answers(eng[e].jobs[1]) : box'[eng[e].sink] = box[eng[e].sink] \o m
<1>1. eng[e] \in StubRec /\ eng[e].jobs \in Seq(JobRec) /\ eng[e].jobs # <<>>
      /\ eng[e].sink \in Queue /\ Open(e)
  BY DEF Types, StubRec, ReaderStep, Reader, Open
<1>w. PICK w \in Seq(JobRec) : w = eng[e].jobs
  BY <1>1
<1>2. w # <<>> /\ Len(w) <= 1
  BY <1>1, <1>w DEF OneJob
<1>3. Tail(eng[e].jobs) = <<>> /\ Head(eng[e].jobs) = eng[e].jobs[1] /\ eng[e].jobs[1] \in JobRec
  <2>4. Len(w) \in Nat \ {0}
    BY <1>2, EmptySeq, Zenon
  <2>6. PICK n \in Nat \ {0} : n = Len(w)
    BY <2>4
  <2>7. n <= 1
    BY <1>2, <2>6
  <2>5. Len(w) = 1
    BY <2>6, <2>7
  <2>2. Len(w) = 1 /\ Head(w) = w[1] /\ w[1] \in JobRec
    BY <2>5
  <2>3. Tail(w) \in Seq(JobRec) /\ Len(Tail(w)) = 0
    BY <1>2, <2>2
  <2>1. Len(w) = 1 /\ Tail(w) = <<>> /\ Head(w) = w[1] /\ w[1] \in JobRec
    BY <2>2, <2>3, EmptySeq, Zenon
  <2> QED
    BY <1>w, <2>1
<1>4. PICK j : j = Head(eng[e].jobs)
  OBVIOUS
<1>5. PICK m \in Answers(j) : box' = [box EXCEPT ![eng[e].sink] = @ \o m]
  BY <1>4 DEF ReaderStep, Reader
<1>6. eng' = [eng EXCEPT ![e].jobs = Tail(@),
                         ![e].searching = @ /\ j.kind \in {"genmoves", "probability"}]
  BY <1>4 DEF ReaderStep, Reader
<1>7. eng[e].searching \in BOOLEAN /\ (eng[e].searching => j.kind \in {"search", "mate"})
  BY <1>1, <1>3, <1>4 DEF OneJob, StubRec, Kind
<1>8. eng'[e].jobs = <<>> /\ eng'[e].searching = FALSE /\ eng'[e] \in StubRec
  <2>1. (eng[e].searching /\ j.kind \in {"genmoves", "probability"}) = FALSE
    BY <1>7
  <2>2. eng'[e] = [eng[e] EXCEPT !.jobs = Tail(eng[e].jobs),
                     !.searching = eng[e].searching /\ j.kind \in {"genmoves", "probability"}]
    BY <1>6 DEF Types
  <2>3. eng'[e] = [eng[e] EXCEPT !.jobs = <<>>, !.searching = FALSE]
    BY <1>3, <2>1, <2>2
  <2>4. PICK r \in StubRec : r = eng[e]
    BY <1>1
  <2>5. <<>> \in Seq(JobRec)
    OBVIOUS
  <2>6. /\ [r EXCEPT !.jobs = <<>>, !.searching = FALSE].jobs = <<>>
        /\ [r EXCEPT !.jobs = <<>>, !.searching = FALSE].searching = FALSE
        /\ [r EXCEPT !.jobs = <<>>, !.searching = FALSE] \in StubRec
    BY <2>5 DEF StubRec
  <2> QED
    BY <2>3, <2>4, <2>6
<1>9. \A d \in Engine : d # e => eng'[d] = eng[d]
  BY <1>6 DEF Types
<1>10. eng' \in [Engine -> StubRec]
  BY <1>6, <1>8, <1>9 DEF Types
<1>11. m \in Seq(MsgRec)
  BY <1>3, <1>4, <1>5, AnswerIs
<1>12. /\ box' \in [Queue -> Seq(MsgRec)] /\ box'[eng[e].sink] = box[eng[e].sink] \o m
       /\ \A q \in Queue : q # eng[e].sink => box'[q] = box[q]
  BY <1>1, <1>5, <1>11 DEF Types
<1>13. node' = node /\ root' = root /\ asked' = asked /\ raised' = raised
  BY DEF ReaderStep, Reader
<1>14. ~Open(e)' /\ Kind(e) \in JobKind
  BY <1>3, <1>8 DEF Open, Kind, JobRec
<1> QED
  BY <1>1, <1>3, <1>4, <1>5, <1>8, <1>9, <1>10, <1>12, <1>13, <1>14

\* The messages of an answer, by their types.
LEMMA AnswerTypes ==
  ASSUME NEW j \in JobRec, NEW m \in Answers(j)
  PROVE  /\ m \in Seq(MsgRec)
         /\ j.kind = "search" => Farewell(m)
         /\ j.kind \in {"search", "book"} =>
              Len(m) = 2 /\ m[1].type = "exact" /\ m[2].type = "stopped"
         /\ j.kind = "mate" => Len(m) = 1 /\ m[1].type \in {"mate", "nomate"}
         /\ j.kind \in {"genmoves", "probability"} => Len(m) = 1 /\ m[1].type = "moves"
<1>1. m \in Seq(MsgRec)
  BY AnswerIs
<1>3. Stopped.type = "stopped"
  BY DEF Stopped, Msg
<1>4. \A a, b : Len(<<a, b>>) = 2 /\ <<a, b>>[1] = a /\ <<a, b>>[2] = b
                /\ Len(<<a>>) = 1 /\ <<a>>[1] = a
  OBVIOUS
<1>5. ASSUME j.kind \in {"search", "book"}
      PROVE  Len(m) = 2 /\ m[1].type = "exact" /\ m[2].type = "stopped"
  <2>1. \E a : m = <<a, Stopped>> /\ a.type = "exact"
    <3>1. CASE j.kind = "search"
      <4>1. PICK v \in Val : m = <<Msg("exact", j.pos, j.own, v, 1), Stopped>>
        BY <3>1, AnswerIs
      <4>2. PICK a : a = Msg("exact", j.pos, j.own, v, 1)
        OBVIOUS
      <4>3. m = <<a, Stopped>>
        BY <4>1, <4>2, Zenon
      <4>4. a.type = "exact"
        BY <4>2 DEF Msg
      <4> QED
        BY <4>3, <4>4, Zenon
    <3>2. CASE j.kind = "book"
      <4>1. PICK n \in {0, 1} : m = <<Msg("exact", j.pos, FALSE, 0, n), Stopped>>
        BY <3>2, AnswerIs
      <4>2. PICK a : a = Msg("exact", j.pos, FALSE, 0, n)
        OBVIOUS
      <4>3. m = <<a, Stopped>>
        BY <4>1, <4>2, Zenon
      <4>4. a.type = "exact"
        BY <4>2 DEF Msg
      <4> QED
        BY <4>3, <4>4, Zenon
    <3> QED
      BY <1>5, <3>1, <3>2
  <2>2. PICK a : m = <<a, Stopped>> /\ a.type = "exact"
    BY <2>1
  <2> QED
    BY <1>3, <1>4, <2>2, Zenon
<1>6. ASSUME j.kind = "mate" PROVE Len(m) = 1 /\ m[1].type \in {"mate", "nomate"}
  <2>1. PICK t \in {"mate", "nomate"} : m = <<Msg(t, j.pos, FALSE, Top, 0)>>
    BY <1>6, AnswerIs
  <2>2. PICK a : a = Msg(t, j.pos, FALSE, Top, 0)
    OBVIOUS
  <2>3. m = <<a>>
    BY <2>1, <2>2, Zenon
  <2>4. a.type = t
    BY <2>2 DEF Msg
  <2> QED
    BY <1>4, <2>3, <2>4, Zenon
<1>7. ASSUME j.kind \in {"genmoves", "probability"} PROVE Len(m) = 1 /\ m[1].type = "moves"
  <2>1. PICK n \in 0 .. MaxKeys : m = <<Msg("moves", j.pos, FALSE, 0, n)>>
    BY <1>7, AnswerIs
  <2>2. PICK a : a = Msg("moves", j.pos, FALSE, 0, n)
    OBVIOUS
  <2>3. m = <<a>>
    BY <2>1, <2>2, Zenon
  <2>4. a.type = "moves"
    BY <2>2 DEF Msg
  <2> QED
    BY <1>4, <2>3, <2>4, Zenon
<1>8. ASSUME j.kind = "search" PROVE Farewell(m)
  <2>1. Len(m) = 2 /\ m[1].type = "exact" /\ m[2].type = "stopped" /\ DOMAIN m = {1, 2}
    BY <1>1, <1>5, <1>8
  <2> QED
    BY <2>1 DEF Farewell, Stops, Results
<1> QED
  BY <1>1, <1>5, <1>6, <1>7, <1>8

\* The presearch hears from its two stubs in either order.
LEMMA AwaitsMore ==
  ASSUME Types, Tree, NEW o \in Live, node[o].pc = "await", Awaits(o),
         NEW e \in Busy(o), node'[o] = node[o],
         Busy(o)' = Busy(o) \ {e}, \A d \in Busy(o) \ {e} : Kind(d)' = Kind(d),
         NEW m \in Seq(MsgRec), box'[o] = box[o] \o m,
         Kind(e) = "search" => Len(m) = 2 /\ m[1].type = "exact" /\ m[2].type = "stopped",
         Kind(e) = "mate" => Len(m) = 1 /\ m[1].type \in {"mate", "nomate"}
  PROVE  Awaits(o)'
<1>1. PICK a, b : a = node[o].usis[1] /\ b = node[o].usis[2]
  OBVIOUS
<1>2. a # b
  <2>1. Len(node[o].usis) >= 2 /\ IsInjective(node[o].usis) /\ node[o].usis \in Seq(Engine)
    BY LiveTypes DEF Tree, Squads
  <2>2. 1 \in DOMAIN node[o].usis /\ 2 \in DOMAIN node[o].usis /\ 1 # 2
    BY <2>1
  <2> QED
    BY <1>1, <2>1, <2>2 DEF IsInjective
<1>3. box[o] \in Seq(MsgRec)
  BY LiveTypes
<1>4. PICK s \in Seq(MsgRec) : s = box[o]
  BY <1>3
<1>5. PICK n \in Nat : n = Len(s) /\ DOMAIN s = 1 .. n
  BY <1>4
<1>6. box'[o] = s \o m
  BY <1>4
<1>7. \A i \in 1 .. n : (s \o m)[i] = s[i]
  BY <1>5
<1>10. /\ DOMAIN (s \o m) = 1 .. (n + Len(m)) /\ Len(m) \in Nat /\ DOMAIN m = 1 .. Len(m)
       /\ \A i \in DOMAIN m : (s \o m)[n + i] = m[i]
  BY <1>5
<1>8. ASSUME Kind(e) = "search" PROVE Awaits(o)'
  <2>1. Len(m) = 2 /\ m[1].type = "exact" /\ m[2].type = "stopped"
    BY <1>8
  <2>2. DOMAIN (s \o m) = 1 .. (n + 2) /\ (s \o m)[n + 1] = m[1] /\ (s \o m)[n + 2] = m[2]
    BY <1>10, <2>1
  <2>3. e = a /\ Busy(o)' = Busy(o) \ {a}
    BY <1>1, <1>8 DEF Awaits
  <2>4. \A i \in 1 .. n : s[i].type \in {"mate", "nomate"}
    <3>1. Says(o, {"exact", "stopped", "mate", "nomate"}) /\ ~Tells(o, {"exact", "stopped"})
      BY <1>1, <2>3 DEF Awaits
    <3> QED
      BY <1>4, <1>5, <3>1 DEF Says, Tells
  <2>5. \A i \in 1 .. (n + 2) : i \in 1 .. n \/ i = n + 1 \/ i = n + 2
    BY <1>5
  <2>6. \A i \in 1 .. (n + 2) :
          /\ (i \in 1 .. n => (s \o m)[i].type \in {"mate", "nomate"})
          /\ (i = n + 1 => (s \o m)[i].type = "exact")
          /\ (i = n + 2 => (s \o m)[i].type = "stopped")
    BY <1>7, <2>1, <2>2, <2>4
  <2>7. n + 1 \in 1 .. (n + 2) /\ n + 2 \in 1 .. (n + 2) /\ n + 1 \notin 1 .. n /\ n + 2 \notin 1 .. n
        /\ n + 1 # n + 2 /\ (n + 1) + 1 = n + 2
    BY <1>5
  <2>8. Tells(o, {"stopped"})' /\ Says(o, {"exact", "stopped", "mate", "nomate"})'
        /\ OnlyOnce(o, {"stopped"})'
        /\ \A i \in DOMAIN box'[o] : box'[o][i].type = "exact" =>
             i + 1 \in DOMAIN box'[o] /\ box'[o][i + 1].type = "stopped"
    <3>1. PICK t : t = s \o m
      OBVIOUS
    <3>2. DOMAIN t = 1 .. (n + 2) /\ box'[o] = t
      BY <1>6, <2>2, <3>1
    <3>3. \A i \in 1 .. (n + 2) :
            /\ (i \in 1 .. n => t[i].type \in {"mate", "nomate"})
            /\ (i = n + 1 => t[i].type = "exact")
            /\ (i = n + 2 => t[i].type = "stopped")
      BY <2>6, <3>1
    <3>4. ASSUME NEW i \in 1 .. (n + 2), t[i].type = "exact"
          PROVE  i + 1 \in 1 .. (n + 2) /\ t[i + 1].type = "stopped"
      <4>1. i = n + 1
        BY <2>5, <3>3, <3>4
      <4> QED
        BY <2>7, <3>3, <4>1
    <3>5. \A i \in 1 .. (n + 2) : /\ t[i].type \in {"exact", "stopped", "mate", "nomate"}
                                  /\ t[i].type = "stopped" => i = n + 2
      BY <2>5, <3>3
    <3>6. t[n + 2].type \in {"stopped"}
      BY <2>7, <3>3
    <3>7. Tells(o, {"stopped"})'
      BY <2>7, <3>2, <3>6 DEF Tells
    <3>8. Says(o, {"exact", "stopped", "mate", "nomate"})'
      BY <3>2, <3>5 DEF Says
    <3>9. OnlyOnce(o, {"stopped"})'
      BY <3>2, <3>5 DEF OnlyOnce
    <3>10. \A i \in DOMAIN t : t[i].type = "exact" => i + 1 \in DOMAIN t /\ t[i + 1].type = "stopped"
      BY <3>2, <3>4, Zenon
    <3> QED
      BY <3>2, <3>7, <3>8, <3>9, <3>10, Zenon
  <2>9. Tells(o, {"mate", "nomate"})' <=> Tells(o, {"mate", "nomate"})
    BY <1>4, <1>5, <1>6, <1>7, <2>2, <2>4, <2>5, <2>6, <2>7, SMTT(30) DEF Tells
  <2>10. OnlyOnce(o, {"mate", "nomate"})'
    <3>1. \A i \in 1 .. n + 2 : (s \o m)[i].type \in {"mate", "nomate"} => i \in 1 .. n
      BY <2>5, <2>6
    <3>2. \A i, k \in 1 .. n : s[i].type \in {"mate", "nomate"} /\ s[k].type \in {"mate", "nomate"} => i = k
      BY <1>4, <1>5 DEF Awaits, OnlyOnce
    <3>3. ASSUME NEW i \in 1 .. n + 2, NEW k \in 1 .. n + 2,
                 (s \o m)[i].type \in {"mate", "nomate"}, (s \o m)[k].type \in {"mate", "nomate"}
          PROVE  i = k
      <4>1. i \in 1 .. n /\ k \in 1 .. n
        BY <3>1, <3>3
      <4> QED
        BY <1>7, <3>2, <3>3, <4>1
    <3> QED
      BY <1>6, <2>2, <3>3 DEF OnlyOnce
  <2>11. b \in Busy(o)' <=> b \in Busy(o)
    BY <1>2, <2>3
  <2>12. /\ Busy(o) \subseteq {a, b} /\ (b \in Busy(o) => Kind(b) = "mate" /\ ~Tells(o, {"mate", "nomate"}))
         /\ "search" \in node[o].await
         /\ ("mate" \in node[o].await <=> b \in Busy(o) \/ Tells(o, {"mate", "nomate"}))
    BY <1>1, <2>3 DEF Awaits
  <2> QED
    BY <1>1, <2>3, <2>8, <2>9, <2>10, <2>11, <2>12 DEF Awaits
<1>9. ASSUME Kind(e) # "search" PROVE Awaits(o)'
  <2>1. e = b /\ Kind(e) = "mate" /\ Busy(o)' = Busy(o) \ {b}
    BY <1>1, <1>9 DEF Awaits
  <2>2. Len(m) = 1 /\ m[1].type \in {"mate", "nomate"}
    BY <2>1
  <2>3. DOMAIN (s \o m) = 1 .. (n + 1) /\ (s \o m)[n + 1] = m[1]
    BY <1>10, <2>2
  <2>4. \A i \in 1 .. n : s[i].type \in {"exact", "stopped"}
    BY <1>1, <1>4, <1>5, <2>1 DEF Awaits, Says, Tells
  <2>5. \A i \in 1 .. (n + 1) : i \in 1 .. n \/ i = n + 1
    BY <1>5
  <2>6. \A i \in 1 .. (n + 1) :
          /\ (i \in 1 .. n => (s \o m)[i].type \in {"exact", "stopped"} /\ (s \o m)[i] = s[i])
          /\ (i = n + 1 => (s \o m)[i].type \in {"mate", "nomate"})
    BY <1>7, <2>2, <2>3, <2>4
  <2>7. n + 1 \in 1 .. (n + 1) /\ n + 1 \notin 1 .. n /\ \A i \in 1 .. n : i \in 1 .. (n + 1)
    BY <1>5
  <2>8. Tells(o, {"mate", "nomate"})' /\ Says(o, {"exact", "stopped", "mate", "nomate"})'
        /\ OnlyOnce(o, {"mate", "nomate"})'
    BY <1>6, <2>3, <2>5, <2>6, <2>7 DEF Tells, Says, OnlyOnce
  <2>9. (Tells(o, {"stopped"})' <=> Tells(o, {"stopped"}))
        /\ (Tells(o, {"exact", "stopped"})' <=> Tells(o, {"exact", "stopped"}))
    BY <1>4, <1>5, <1>6, <2>3, <2>5, <2>6, <2>7, SMTT(30) DEF Tells
  <2>10. OnlyOnce(o, {"stopped"})'
         /\ \A i \in DOMAIN box'[o] : box'[o][i].type = "exact" =>
              i + 1 \in DOMAIN box'[o] /\ box'[o][i + 1].type = "stopped"
    <3>1. \A i \in 1 .. n + 1 : (s \o m)[i].type \in {"exact", "stopped"} => i \in 1 .. n
      BY <2>5, <2>6
    <3>2. \A i, k \in 1 .. n : s[i].type \in {"stopped"} /\ s[k].type \in {"stopped"} => i = k
      BY <1>4, <1>5 DEF Awaits, OnlyOnce
    <3>3. \A i \in 1 .. n : s[i].type = "exact" => i + 1 \in 1 .. n /\ s[i + 1].type = "stopped"
      BY <1>4, <1>5 DEF Awaits
    <3>6. ASSUME NEW i \in 1 .. n + 1, NEW k \in 1 .. n + 1,
                 (s \o m)[i].type \in {"stopped"}, (s \o m)[k].type \in {"stopped"}
          PROVE  i = k
      <4>1. i \in 1 .. n /\ k \in 1 .. n
        BY <3>1, <3>6
      <4> QED
        BY <1>7, <3>2, <3>6, <4>1
    <3>4. OnlyOnce(o, {"stopped"})'
      BY <1>6, <2>3, <3>6 DEF OnlyOnce
    <3>5. ASSUME NEW i \in 1 .. (n + 1), (s \o m)[i].type = "exact"
          PROVE  i + 1 \in 1 .. (n + 1) /\ (s \o m)[i + 1].type = "stopped"
      <4>1. i \in 1 .. n /\ s[i].type = "exact"
        BY <2>6, <3>1, <3>5
      <4>2. i + 1 \in 1 .. n /\ s[i + 1].type = "stopped"
        BY <3>3, <4>1
      <4> QED
        BY <1>7, <2>7, <4>2
    <3> QED
      BY <1>6, <2>3, <3>4, <3>5
  <2>11. a \in Busy(o)' <=> a \in Busy(o)
    BY <1>2, <2>1
  <2>12. /\ Busy(o) \subseteq {a, b}
         /\ (a \in Busy(o) => Kind(a) = "search" /\ ~Tells(o, {"exact", "stopped"}))
         /\ ("search" \in node[o].await <=> a \in Busy(o) \/ Tells(o, {"stopped"}))
         /\ "mate" \in node[o].await
    BY <1>1, <2>1 DEF Awaits
  <2> QED
    BY <1>1, <1>2, <2>1, <2>8, <2>9, <2>10, <2>11, <2>12 DEF Awaits
<1> QED
  BY <1>8, <1>9

LEMMA ReaderTree ==
  ASSUME Types, Tree, Types', NEW e \in Engine, ReaderStep(e)
  PROVE  /\ Tree' /\ Live' = Live /\ \A q \in External : Loads(q)
         /\ eng[e].sink \in External \cup Live
<1>1. /\ Open(e) /\ eng[e].sink \in Queue /\ ~Open(e)' /\ eng'[e].searching = FALSE
      /\ eng[e].jobs[1] \in JobRec
      /\ \A d \in Engine : d # e => eng'[d] = eng[d]
      /\ node' = node
      /\ \A q \in Queue : q # eng[e].sink => box'[q] = box[q]
  BY ReaderIs DEF Tree
<1>2. PICK q \in Queue : q = eng[e].sink
  BY <1>1
<1>3. PICK m \in Answers(eng[e].jobs[1]) : box'[q] = box[q] \o m
  BY <1>2, ReaderIs DEF Tree
<1>4. /\ m \in Seq(MsgRec)
      /\ Kind(e) = "search" => Farewell(m)
      /\ Kind(e) \in {"search", "book"} => Len(m) = 2 /\ m[1].type = "exact" /\ m[2].type = "stopped"
      /\ Kind(e) = "mate" => Len(m) = 1 /\ m[1].type \in {"mate", "nomate"}
      /\ Kind(e) \in {"genmoves", "probability"} => Len(m) = 1 /\ m[1].type = "moves"
  BY <1>1, AnswerTypes DEF Kind
<1>5. Live' = Live /\ \A p \in Node : Alike(p)
  BY <1>1 DEF Live, Alike
<1>6. \A p \in Live : p \in Node /\ p \in Queue /\ p \notin External /\ Team(p)' = Team(p)
  BY <1>5, TeamKept, Sizes DEF Live
<1>7. /\ e \in Busy(q) /\ Busy(q)' = Busy(q) \ {e}
      /\ \A d \in Busy(q) \ {e} : Kind(d)' = Kind(d)
  <2>1. e \in Busy(q)
    BY <1>1, <1>2 DEF Busy
  <2>2. \A d \in Engine : d \in Busy(q)' <=> d \in Busy(q) /\ d # e
    BY <1>1 DEF Busy, Open
  <2>3. Busy(q)' = Busy(q) \ {e}
    BY <2>2 DEF Busy
  <2>4. \A d \in Busy(q) \ {e} : Kind(d)' = Kind(d)
    BY <1>1 DEF Busy, Kind
  <2> QED
    BY <2>1, <2>3, <2>4
<1>8. ASSUME NEW r \in Queue, r # q PROVE SameBusy(r)
  <2>1. \A d \in Engine : d \in Busy(r)' <=> d \in Busy(r)
    BY <1>1, <1>2, <1>8 DEF Busy, Open
  <2>2. Busy(r)' = Busy(r)
    BY <2>1 DEF Busy
  <2>3. \A d \in Busy(r) : d # e /\ d \in Engine
    BY <1>2, <1>8 DEF Busy
  <2> QED
    BY <1>1, <2>2, <2>3 DEF SameBusy, Kind
<1>9. \A r \in Queue : Kin(r)' = Kin(r)
  BY <1>1, <1>5 DEF Kin
<1>10. ASSUME NEW r \in Queue, r # q PROVE Loads(r) /\ box'[r] = box[r]
  <2>1. box'[r] = box[r]
    BY <1>1, <1>2, <1>10
  <2>2. StoppedAt(r)' = StoppedAt(r)
    BY <2>1 DEF StoppedAt
  <2> QED
    BY <1>8, <1>9, <1>10, <2>1, <2>2 DEF Loads, Load, SameBusy, EndsLast
<1>11. ASSUME Kind(e) = "search" PROVE Loads(q)
  <2>1. /\ Cardinality(StoppedAt(q)') = Cardinality(StoppedAt(q)) + 1
        /\ StoppedAt(q) = {} => EndsLast(q)'
    BY <1>3, <1>4, <1>11, Told
  <2>2. Cardinality(Busy(q)') = Cardinality(Busy(q)) - 1
    <3>1. IsFiniteSet(Busy(q))
      BY LoadType
    <3> QED
      BY <1>7, <3>1, FS_RemoveElement
  <2>3. /\ Cardinality(Busy(q)) \in Nat /\ Cardinality(Busy(q)) # 0
        /\ Cardinality(Kin(q)) \in Nat /\ Cardinality(StoppedAt(q)) \in Nat
        /\ (Cardinality(StoppedAt(q)) = 0 => StoppedAt(q) = {})
    BY <1>7, LoadType
  <2>4. Load(q)' = Load(q)
    BY <1>9, <2>1, <2>2, <2>3 DEF Load
  <2>5. Load(q) <= 1 => StoppedAt(q) = {}
    BY <2>3 DEF Load
  <2> QED
    BY <2>1, <2>4, <2>5 DEF Loads
<1>12. ASSUME Reported(q) PROVE Reported(q)' /\ Loads(q)
  <2>1. Kind(e) = "search"
    BY <1>7, <1>12 DEF Reported
  <2>2. Says(q, Results)'
    BY <1>3, <1>4, <1>12, <2>1, Told DEF Reported
  <2> QED
    BY <1>7, <1>11, <1>12, <2>1, <2>2 DEF Reported
<1>13. q \in External \cup Live
  BY <1>1, <1>2 DEF Tree, Sinks
<1>14. OneJob'
  <2>1. Len(eng'[e].jobs) <= 1
    <3>1. eng'[e].jobs = <<>> /\ Len(<<>>) = 0
      BY <1>1 DEF Open
    <3> QED
      BY <3>1
  <2>2. ASSUME NEW d \in Engine, d # e
        PROVE  Len(eng'[d].jobs) <= 1
               /\ (eng'[d].searching => Open(d)' /\ Kind(d)' \in {"search", "mate"})
    BY <1>1, <2>2 DEF Tree, OneJob, Open, Kind
  <2> QED
    BY <1>1, <2>1, <2>2 DEF OneJob
<1>15. Sinks'
  BY <1>1, <1>5 DEF Tree, Sinks, Open
<1>16. Squads' /\ Apart'
  BY <1>1, <1>5, <1>6 DEF Tree, Squads, Apart
<1>17. OwnJobs'
  <2>1. ASSUME NEW p \in Live, NEW d \in Team(p), Open(d)' PROVE eng'[d].sink = p
    <3>1. d # e /\ d \in Engine
      BY <1>1, <2>1, LiveTypes DEF Tree, Squads
    <3> QED
      BY <1>1, <2>1, <3>1 DEF Tree, OwnJobs, Open
  <2> QED
    BY <1>5, <1>6, <2>1 DEF OwnJobs
<1>18. \A r \in External : Reported(r)' /\ Loads(r)
  <2> SUFFICES ASSUME NEW r \in External PROVE Reported(r)' /\ Loads(r)
    OBVIOUS
  <2>1. r \in Queue /\ Reported(r)
    BY Sizes DEF Tree, Stages
  <2>2. CASE r = q
    BY <1>12, <2>1, <2>2
  <2>3. CASE r # q
    BY <1>8, <1>10, <2>1, <2>3 DEF Reported, SameBusy, Says
  <2> QED
    BY <2>2, <2>3
<1>19. ASSUME NEW p \in Live PROVE Stage(p)'
  <2>1. Stage(p) /\ Alike(p) /\ p \in Queue /\ p \in Node /\ node'[p] = node[p]
    BY <1>1, <1>5, <1>6 DEF Tree, Stages
  <2>2. CASE p # q
    BY <1>8, <1>10, <2>1, <2>2, StageKept DEF Loads
  <2>3. CASE p = q
    <3>1. node[p].pc \in Pcs \ Idle
      BY LiveTypes
    <3>2. CASE node[p].pc \in Waiting
      <4>1. Reported(p)' /\ Load(p)' = Load(p)
        BY <1>12, <2>1, <2>3, <3>2 DEF Stage, Loads
      <4> QED
        BY <2>1, <3>2, <4>1, StageFed
    <3>3. CASE node[p].pc = "mated"
      <4>1. Mated(p)
        BY <2>1, <3>3 DEF Stage
      <4>2. Reported(p)' /\ Load(p)' = Load(p)
        BY <1>12, <2>3, <4>1 DEF Mated, Loads
      <4>3. Mated(p)'
        <5>1. Busy(p)' \subseteq {node'[p].usis[1]} /\ Load(p)' = 1
          BY <1>7, <2>1, <2>3, <4>1, <4>2 DEF Mated
        <5> QED
          BY <4>2, <5>1 DEF Mated
      <4> QED
        BY <2>1, <3>3, <4>3 DEF Stage, Waiting
    <3>4. CASE node[p].pc = "await"
      <4>1. Awaits(p)
        BY <2>1, <3>4 DEF Stage
      <4>2. Awaits(p)'
        BY <1>3, <1>4, <1>7, <2>1, <2>3, <3>4, <4>1, AwaitsMore
      <4> QED
        BY <2>1, <3>4, <4>2 DEF Stage, Waiting
    <3>5. CASE node[p].pc = "book"
      <4>1. InBook(p)
        BY <2>1, <3>5 DEF Stage
      <4>2. Busy(p) = {e} /\ Kind(e) = "book" /\ box[p] = <<>>
        BY <1>7, <2>3, <4>1 DEF InBook
      <4>3. box'[p] = m /\ Busy(p)' = {}
        BY <1>3, <1>4, <1>7, <2>3, <4>2
      <4>4. InBook(p)'
        BY <1>4, <4>2, <4>3 DEF InBook
      <4> QED
        BY <2>1, <3>5, <4>4 DEF Stage, Waiting
    <3>6. CASE node[p].pc \in {"genmoves", "probability"}
      <4>1. OneAnswer(p, node[p].pc, {"moves"})
        BY <2>1, <3>6 DEF Stage
      <4>2. Busy(p) = {e} /\ Kind(e) = node[p].pc /\ box[p] = <<>>
        BY <1>7, <2>3, <4>1 DEF OneAnswer
      <4>3. box'[p] = m /\ Busy(p)' = {}
        BY <1>3, <1>4, <1>7, <2>3, <4>2
      <4>4. \A K : OneAnswer(p, K, {"moves"})'
        BY <1>4, <3>6, <4>2, <4>3 DEF OneAnswer
      <4> QED
        BY <2>1, <3>6, <4>4 DEF Stage, Waiting
    <3>7. CASE node[p].pc \in {"presearch", "forced", "timeless", "split"}
      BY <1>7, <2>1, <2>3, <3>7 DEF Stage, Quiet
    <3> QED
      BY <3>1, <3>2, <3>3, <3>4, <3>5, <3>6, <3>7 DEF Pcs, Idle
  <2> QED
    BY <2>2, <2>3
<1>20. Stages'
  BY <1>5, <1>18, <1>19 DEF Stages
<1> QED
  BY <1>2, <1>5, <1>13, <1>14, <1>15, <1>16, <1>17, <1>18, <1>20 DEF Tree

-----------------------------------------------------------------------------
(* The steps of a thread.                                                  *)

LEMMA NoKin ==
  ASSUME Sinks, NEW o \in Live, node[o].pc \notin Waiting
  PROVE  Kin(o) = {}
<1>1. o \notin External
  BY Sizes DEF Live
<1>2. \A p \in Live : node[p].sink # o
  BY <1>1 DEF Sinks
<1> QED
  BY <1>2 DEF Kin

LEMMA DoneType ==
  ASSUME NEW M \in NodeRec
  PROVE  Done(M) \in NodeRec /\ Done(M).pc = "done"
<1>1. /\ "done" \in Pcs /\ Client \in Queue /\ <<>> \in Seq(Engine) /\ <<>> \in Seq(Val \cup {-1})
      /\ M.pos \in Seq(Nat) /\ M.stopped \in BOOLEAN /\ M.stubs \in SUBSET Engine
      /\ M.kids \in SUBSET Node /\ -1 \in Val \cup {-1} /\ {} \in SUBSET {"search", "mate"}
  BY Sizes DEF NodeRec, Pcs, Idle, External
<1> QED
  BY <1>1 DEF Done, FreeNode, NodeRec

LEMMA MsgIs ==
  ASSUME NEW t \in MsgType, NEW pos \in Seq(Nat), NEW own \in BOOLEAN, NEW v \in Val, NEW n \in Nat
  PROVE  Msg(t, pos, own, v, n) \in MsgRec /\ Msg(t, pos, own, v, n).type = t
BY DEF Msg, MsgRec

LEMMA ReportsAre ==
  ASSUME Types, NEW o \in Node, NEW v \in Val
  PROVE  /\ \E x \in MsgRec : x = Report(o, "exact", v) /\ x.type = "exact"
         /\ \E x \in MsgRec : x = Report(o, "update", v) /\ x.type = "update"
<1>1. PICK pos \in Seq(Nat) : pos = node[o].pos
  BY DEF Types, NodeRec
<1>2. ASSUME NEW t \in {"exact", "update"}
      PROVE  Report(o, t, v) \in MsgRec /\ Report(o, t, v).type = t
  <2>1. t \in MsgType
    BY DEF MsgType
  <2>2. PICK x : x = Msg(t, pos, FALSE, v, 0)
    OBVIOUS
  <2>3. x \in MsgRec /\ x.type = t
    BY <2>1, <2>2 DEF Msg, MsgRec
  <2>4. Report(o, t, v) = x
    BY <1>1, <2>2, Zenon DEF Report
  <2> QED
    BY <2>3, <2>4
<1> QED
  BY <1>2, Zenon

LEMMA StoppedType == Stopped \in MsgRec /\ Stopped.type = "stopped"
BY Sizes DEF Stopped, Msg, MsgRec, MsgType

LEMMA Farewells ==
  /\ <<Stopped>> \in Seq(MsgRec) /\ Farewell(<<Stopped>>)
  /\ \A x \in MsgRec : x.type = "exact" =>
       <<x, Stopped>> \in Seq(MsgRec) /\ Farewell(<<x, Stopped>>)
<1>1. PICK z \in MsgRec : z = Stopped /\ z.type = "stopped"
  BY StoppedType
<1>2. <<z>> \in Seq(MsgRec) /\ Farewell(<<z>>)
  BY <1>1 DEF Farewell, Stops, Results
<1>3. ASSUME NEW x \in MsgRec, x.type = "exact"
      PROVE  <<x, z>> \in Seq(MsgRec) /\ Farewell(<<x, z>>)
  <2>1. DOMAIN <<x, z>> = {1, 2} /\ Len(<<x, z>>) = 2 /\ <<x, z>>[1] = x /\ <<x, z>>[2] = z
        /\ <<x, z>> \in Seq(MsgRec)
    BY <1>1
  <2> QED
    BY <1>1, <1>3, <2>1 DEF Farewell, Stops, Results
<1> QED
  BY <1>1, <1>2, <1>3, Zenon

LEMMA NewsIs ==
  /\ <<>> \in Seq(MsgRec) /\ News(<<>>)
  /\ \A x \in MsgRec : x.type \in {"exact", "update"} => <<x>> \in Seq(MsgRec) /\ News(<<x>>)
BY DEF News, Results

\* What a push makes of the queues.
LEMMA Pushed ==
  ASSUME Types, Sinks, NEW o \in Live, NEW ms \in Seq(MsgRec), NEW b \in Seq(MsgRec),
         box' = [Push(box, o, ms) EXCEPT ![o] = b]
  PROVE  Mails(o, ms) /\ box'[o] = b /\ box' \in [Queue -> Seq(MsgRec)]
<1>1. node[o].sink \in Queue /\ node[o].sink # o /\ o \in Queue
  BY SinkApart
<1>2. box \in [Queue -> Seq(MsgRec)]
  BY DEF Types
<1>3. box[node[o].sink] \o ms \in Seq(MsgRec)
  BY <1>1, <1>2
<1> QED
  BY <1>1, <1>2, <1>3 DEF Push, Mails

LEMMA NotPushed ==
  ASSUME Types, Sinks, NEW o \in Live, NEW b \in Seq(MsgRec), box' = [box EXCEPT ![o] = b]
  PROVE  Mails(o, <<>>) /\ box'[o] = b /\ box' \in [Queue -> Seq(MsgRec)]
<1>1. node[o].sink \in Queue /\ node[o].sink # o /\ o \in Queue
  BY SinkApart
<1>2. box \in [Queue -> Seq(MsgRec)]
  BY DEF Types
<1>3. box[node[o].sink] \o <<>> = box[node[o].sink]
  BY <1>1, <1>2
<1> QED
  BY <1>1, <1>2, <1>3 DEF Mails

LEMMA Ended ==
  ASSUME Types, Tree, NEW o \in Live, Busy(o) = {}, Kin(o) = {},
         NEW ms \in Seq(MsgRec), Farewell(ms), EndWith(o, ms),
         eng' = eng, raised' \in BOOLEAN, root' = root, asked' = asked
  PROVE  Types' /\ Tree' /\ \A q \in External : Loads(q)
<1>1. o \in Node /\ o \in Queue /\ o \notin External /\ <<>> \in Seq(MsgRec)
  BY LiveTypes, Sizes
<1>2. Done(node[o]) \in NodeRec /\ Done(node[o]).pc = "done"
  BY <1>1, DoneType DEF Types
<1>3. node' \in [Node -> NodeRec] /\ node'[o].pc = "done"
      /\ \A p \in Node \ {o} : node'[p] = node[p]
  BY <1>1, <1>2 DEF EndWith, Types
<1>4. Mails(o, ms) /\ box' \in [Queue -> Seq(MsgRec)]
  BY <1>1, Pushed DEF EndWith, Tree
<1>5. Types'
  BY <1>3, <1>4 DEF Types
<1>6. \A p \in Node \ {o} : Alike(p)
  BY <1>3 DEF Alike
<1>7. \A e \in Engine : AlikeStub(e)
  BY DEF AlikeStub
<1>8. Tree' /\ \A q \in Queue \ {o} : Loads(q)
  <2>1. node'[o].pc \in Idle
    BY <1>3 DEF Idle
  <2>2. {} \in SUBSET Team(o)
    OBVIOUS
  <2> HIDE DEF Loads, Farewell, Mails, Alike, AlikeStub
  <2> QED
    BY <1>4, <1>5, <1>6, <1>7, <2>1, <2>2, LeaveStep
<1> QED
  BY <1>1, <1>5, <1>8, Sizes

\* A step after which everything is as it should be.
Fine == Types' /\ Tree' /\ \A q \in External : Loads(q)

LEMMA LastEnd ==
  ASSUME Types, NEW o \in Queue, CanFinish(o), Load(o) = 1
  PROVE  Busy(o) = {} /\ Kin(o) = {} /\ Cardinality(StoppedAt(o)) = 1
BY LoadType DEF Load, CanFinish

LEMMA NoLoad ==
  ASSUME Types, NEW o \in Queue, Load(o) = 0
  PROVE  Busy(o) = {} /\ Kin(o) = {} /\ StoppedAt(o) = {}
BY LoadType DEF Load

\* A job for a stub that has none.
LEMMA Sent ==
  ASSUME Types, OneJob, NEW e \in Engine, ~Open(e),
         NEW kind \in JobKind, NEW pos \in Seq(Nat), NEW q \in Queue,
         \/ eng'[e] = Ask(eng[e], kind, pos, q)
         \/ /\ kind \in {"search", "mate"}
            /\ \E own \in BOOLEAN : eng'[e] = Go(eng[e], kind, pos, own, q)
  PROVE  /\ eng'[e] \in StubRec /\ WorksFor(e, q) /\ Open(e)' /\ Kind(e)' = kind
         /\ eng'[e].sink = q /\ ~Refuses(e)
<1>1. PICK r \in StubRec : r = eng[e]
  BY DEF Types
<1>2. r.jobs = <<>> /\ r.searching = FALSE
  BY <1>1 DEF Open, OneJob, StubRec
<1>3. \A j \in JobRec : Append(r.jobs, j) = <<j>> /\ <<j>> \in Seq(JobRec)
                        /\ <<j>> # <<>> /\ Len(<<j>>) = 1 /\ <<j>>[1] = j
  BY <1>2
<1>4. ASSUME NEW own2 \in BOOLEAN
      PROVE  Job(kind, pos, own2) \in JobRec /\ Job(kind, pos, own2).kind = kind
  BY DEF Job, JobRec
<1>5. ASSUME NEW j \in JobRec, j.kind = kind,
             \/ eng'[e] = [r EXCEPT !.sink = q, !.jobs = Append(@, j)]
             \/ /\ kind \in {"search", "mate"}
                /\ eng'[e] = [searching |-> TRUE, stopped |-> FALSE, sink |-> q,
                              jobs |-> Append(r.jobs, j)]
      PROVE  /\ eng'[e] \in StubRec /\ WorksFor(e, q) /\ Open(e)' /\ Kind(e)' = kind
             /\ eng'[e].sink = q
  <2>1. PICK js \in Seq(JobRec) : js = Append(r.jobs, j) /\ js # <<>> /\ Len(js) = 1 /\ js[1] = j
    BY <1>3
  <2>2. /\ eng'[e] \in StubRec /\ eng'[e].jobs = js /\ eng'[e].sink = q
        /\ eng'[e].searching => kind \in {"search", "mate"}
    <3>1. CASE eng'[e] = [r EXCEPT !.sink = q, !.jobs = Append(@, j)]
      <4>1. eng'[e] = [r EXCEPT !.sink = q, !.jobs = js]
        BY <2>1, <3>1
      <4> QED
        BY <1>2, <4>1 DEF StubRec
    <3>2. CASE /\ kind \in {"search", "mate"}
               /\ eng'[e] = [searching |-> TRUE, stopped |-> FALSE, sink |-> q,
                             jobs |-> Append(r.jobs, j)]
      <4>1. eng'[e] = [searching |-> TRUE, stopped |-> FALSE, sink |-> q, jobs |-> js]
        BY <2>1, <3>2
      <4> QED
        BY <3>2, <4>1 DEF StubRec
    <3> QED
      BY <1>5, <3>1, <3>2
  <2> QED
    BY <1>5, <2>1, <2>2 DEF WorksFor, Open, Kind
<1>6. CASE eng'[e] = Ask(eng[e], kind, pos, q)
  <2>1. PICK j \in JobRec : j = Job(kind, pos, FALSE) /\ j.kind = kind
    BY <1>4
  <2>2. eng'[e] = [r EXCEPT !.sink = q, !.jobs = Append(@, j)]
    BY <1>1, <1>6, <2>1 DEF Ask
  <2> QED
    BY <1>1, <1>2, <1>5, <2>1, <2>2 DEF Refuses
<1>7. CASE /\ kind \in {"search", "mate"}
           /\ \E own \in BOOLEAN : eng'[e] = Go(eng[e], kind, pos, own, q)
  <2>3. PICK own \in BOOLEAN : eng'[e] = Go(eng[e], kind, pos, own, q)
    BY <1>7
  <2>1. PICK j \in JobRec : j = Job(kind, pos, own) /\ j.kind = kind
    BY <1>4
  <2>2. eng'[e] = [searching |-> TRUE, stopped |-> FALSE, sink |-> q, jobs |-> Append(r.jobs, j)]
    BY <1>1, <2>1, <2>3 DEF Go
  <2> QED
    BY <1>1, <1>2, <1>5, <1>7, <2>1, <2>2 DEF Refuses
<1> QED
  BY <1>6, <1>7

\* The first two stubs of a thread.
LEMMA FirstStubs ==
  ASSUME Types, Tree, NEW o \in Live
  PROVE  /\ Head(node[o].usis) = node[o].usis[1] /\ node[o].usis[1] \in Engine
         /\ Len(node[o].usis) \in Nat /\ Len(node[o].usis) >= 1
         /\ node[o].usis[1] \in Members(o) /\ Members(o) \subseteq Engine
         /\ node[o].pc \notin Waiting => Team(o) = Members(o)
         /\ node[o].pc \notin {"book", "genmoves"} =>
              /\ Len(node[o].usis) >= 2
              /\ node[o].usis[2] \in Members(o) /\ node[o].usis[1] # node[o].usis[2]
         /\ \A e \in Team(o) : Open(e) => e \in Busy(o)
<1>1. PICK u \in Seq(Engine) : u = node[o].usis
  BY LiveTypes
<1>2. Len(u) \in Nat /\ Len(u) >= 1 /\ IsInjective(u)
      /\ (node[o].pc \notin {"book", "genmoves"} => Len(u) >= 2)
  BY <1>1 DEF Tree, Squads
<1>3. Head(u) = u[1] /\ u[1] \in Engine /\ 1 \in DOMAIN u
  BY <1>2
<1>4. Members(o) \subseteq Engine /\ u[1] \in Members(o)
  BY <1>1, <1>2, LiveTypes
<1>5. ASSUME node[o].pc \notin {"book", "genmoves"} PROVE u[2] \in Members(o) /\ u[1] # u[2]
  <2>1. 2 \in DOMAIN u /\ 1 # 2
    BY <1>2, <1>5
  <2> QED
    BY <1>1, <1>2, <1>3, <2>1 DEF Members, ToSet, IsInjective
<1>6. node[o].pc \notin Waiting => Team(o) = Members(o)
  BY DEF Team, Waiting
<1>7. \A e \in Team(o) : Open(e) => e \in Busy(o)
  BY <1>4, LiveTypes DEF Tree, Squads, OwnJobs, Busy
<1> QED
  BY <1>1, <1>2, <1>3, <1>4, <1>5, <1>6, <1>7

LEMMA InBookFinished ==
  ASSUME Types, NEW o \in Live, InBook(o), CanFinish(o)
  PROVE  /\ Busy(o) = {} /\ FirstStopped(o) = 2 /\ ~Unexpected(o)
         /\ WaitStopped(o) = <<box[o][1]>> /\ box[o][1] \in MsgRec /\ AfterStopped(o) = <<>>
<1>1. o \in Queue /\ box[o] \in Seq(MsgRec)
  BY LiveTypes
<1>2. box[o] # <<>>
  BY DEF CanFinish, StoppedAt
<1>3. /\ Busy(o) = {} /\ Len(box[o]) = 2 /\ box[o][1].type = "exact" /\ box[o][2].type = "stopped"
  BY <1>2 DEF InBook
<1>4. FirstStopped(o) \in StoppedAt(o) /\ FirstStopped(o) \in 1 .. Len(box[o])
      /\ (FirstStopped(o) # 1 => WaitStopped(o) = <<box[o][FirstStopped(o) - 1]>>)
  BY <1>1, FirstIsFirst
<1>5. FirstStopped(o) = 2
  <2>1. FirstStopped(o) \in 1 .. 2 /\ box[o][FirstStopped(o)].type = "stopped"
    BY <1>3, <1>4 DEF StoppedAt
  <2> QED
    BY <1>3, <2>1
<1>6. WaitStopped(o) = <<box[o][1]>> /\ box[o][1] \in MsgRec
  BY <1>1, <1>3, <1>4, <1>5
<1>7. ~Unexpected(o)
  BY <1>3, <1>5 DEF Unexpected
<1>8. AfterStopped(o) = <<>>
  BY <1>1, <1>3, <1>5 DEF AfterStopped
<1> QED
  BY <1>3, <1>5, <1>6, <1>7, <1>8

LEMMA Onward ==
  ASSUME Types, Tree, NEW o \in Live, NEW r \in NodeRec, node' = [node EXCEPT ![o] = r],
         r.pc \notin Idle, r.usis = node[o].usis, r.ply = node[o].ply, r.sink = node[o].sink,
         node[o].pc \in Waiting => r.pc \in Waiting,
         r.pc \notin {"book", "genmoves"} => Len(node[o].usis) >= 2,
         r.pc \notin Waiting \/ node[o].pc \in {"count", "collect"},
         r.pc \in Waiting => r.pc \in {"count", "collect"},
         eng' \in [Engine -> StubRec],
         \A e \in Engine \ Team(o) : eng'[e] = eng[e],
         \A e \in Team(o) : WorksFor(e, o),
         NEW ms \in Seq(MsgRec), News(ms), Mails(o, ms), box' \in [Queue -> Seq(MsgRec)],
         raised' \in BOOLEAN, root' = root, asked' = asked,
         Stage(o)'
  PROVE  Fine
<1>1. o \in Node /\ o \notin External
  BY LiveTypes, Sizes
<1>2. node' \in [Node -> NodeRec] /\ node'[o] = r /\ \A p \in Node \ {o} : node'[p] = node[p]
  BY <1>1 DEF Types
<1>3. Types'
  BY <1>2 DEF Types
<1>4. \A p \in Node \ {o} : Alike(p)
  BY <1>2 DEF Alike
<1>5. \A e \in Engine \ Team(o) : AlikeStub(e)
  BY DEF AlikeStub
<1>6. Team(o)' \subseteq Team(o)
  <2>1. Team(o)' = IF r.pc \in Waiting THEN {r.usis[1]} ELSE Members(o)
    <3>1. CASE r.pc \in Waiting
      BY <1>2, <3>1 DEF Team
    <3>2. CASE r.pc \notin Waiting
      BY <1>2, <3>2 DEF Team, Members, Waiting
    <3> QED
      BY <3>1, <3>2
  <2>2. CASE r.pc \in Waiting
    BY <2>1, <2>2 DEF Team, Waiting
  <2>3. CASE r.pc \notin Waiting
    BY <2>1, <2>3, FirstStubs
  <2> QED
    BY <2>2, <2>3
<1>7. Tree' /\ \A q \in Queue \ {o} : Loads(q)
  <2> HIDE DEF Loads, News, Mails, Alike, AlikeStub, Idle, WorksFor, Stage, Team
  <2> QED
    BY <1>2, <1>3, <1>4, <1>5, <1>6, LocalStep
<1> QED
  BY <1>1, <1>3, <1>7, Sizes DEF Fine

LEMMA EndedFine ==
  ASSUME Types, Tree, NEW o \in Live, Busy(o) = {}, Kin(o) = {},
         NEW ms \in Seq(MsgRec), Farewell(ms), EndWith(o, ms),
         eng' = eng, raised' \in BOOLEAN, root' = root, asked' = asked
  PROVE  Fine
BY Ended DEF Fine

\* A thread that asks its first stub a question.
LEMMA AsksFirst ==
  ASSUME Types, Tree, NEW o \in Live, node[o].pc \notin Waiting, Busy(o) = {},
         NEW kind \in JobKind, NEW pos \in Seq(Nat),
         eng' = [eng EXCEPT ![node[o].usis[1]] = Ask(@, kind, pos, o)],
         node'[o].usis = node[o].usis, box'[o] = <<>>
  PROVE  /\ eng' \in [Engine -> StubRec] /\ \A e \in Engine \ Team(o) : eng'[e] = eng[e]
         /\ \A e \in Team(o) : WorksFor(e, o)
         /\ \A T : OneAnswer(o, kind, T)'
<1>1. PICK f \in Engine : f = node[o].usis[1]
  BY FirstStubs
<1>2. f \in Team(o) /\ Team(o) \subseteq Engine /\ ~Open(f) /\ \A e \in Team(o) : ~Open(e)
  BY <1>1, FirstStubs
<1>3. eng'[f] = Ask(eng[f], kind, pos, o) /\ \A e \in Engine \ {f} : eng'[e] = eng[e]
  BY <1>1 DEF Types
<1>4. o \in Queue
  BY LiveTypes
<1>5. eng'[f] \in StubRec /\ WorksFor(f, o) /\ Open(f)' /\ Kind(f)' = kind /\ eng'[f].sink = o
  BY <1>2, <1>3, <1>4, Sent DEF Tree
<1>6. eng' \in [Engine -> StubRec]
  BY <1>1, <1>3, <1>5 DEF Types
<1>7. \A e \in Team(o) : WorksFor(e, o)
  <2> SUFFICES ASSUME NEW e \in Team(o), e # f PROVE WorksFor(e, o)
    BY <1>5
  <2> QED
    BY <1>2, <1>3 DEF WorksFor, Tree, OneJob, Open, Kind
<1>8. Busy(o)' = {f}
  <2>1. \A e \in Engine : e \in Busy(o)' <=> e = f
    BY <1>3, <1>5 DEF Busy, Open
  <2> QED
    BY <2>1 DEF Busy
<1>9. \A T : OneAnswer(o, kind, T)'
  BY <1>1, <1>5, <1>8 DEF OneAnswer
<1> QED
  BY <1>2, <1>3, <1>6, <1>7, <1>9

LEMMA BookStep ==
  ASSUME Types, Tree, NEW o \in Node, BookAnswered(o)
  PROVE  Fine
<1>1. node[o].pc = "book" /\ CanFinish(o) /\ raised' = Unexpected(o) /\ root' = root /\ asked' = asked
  BY DEF BookAnswered
<1>2. o \in Live
  BY <1>1 DEF Live
<1>3. InBook(o)
  BY <1>1, <1>2 DEF Tree, Stages, Stage
<1>4. /\ Busy(o) = {} /\ ~Unexpected(o)
      /\ WaitStopped(o) = <<box[o][1]>> /\ box[o][1] \in MsgRec /\ AfterStopped(o) = <<>>
  BY <1>1, <1>2, <1>3, InBookFinished
<1>5. Kin(o) = {} /\ raised' = FALSE
  BY <1>1, <1>2, <1>4, NoKin DEF Tree, Waiting
<1>6. PICK x \in MsgRec : x = box[o][1] /\ Head(WaitStopped(o)) = x
  BY <1>4
<1>7. CASE x.n = 1
  <2>1. PICK y \in MsgRec : y = Msg("exact", x.pos, FALSE, 0, 1) /\ y.type = "exact"
    <3>1. x.pos \in Seq(Nat) /\ "exact" \in MsgType
      BY DEF MsgRec, MsgType
    <3>2. Msg("exact", x.pos, FALSE, 0, 1) \in MsgRec /\ Msg("exact", x.pos, FALSE, 0, 1).type = "exact"
      BY <3>1, Sizes DEF Msg, MsgRec
    <3> QED
      BY <3>2
  <2>2. <<y, Stopped>> \in Seq(MsgRec) /\ Farewell(<<y, Stopped>>)
    BY <2>1, Farewells
  <2>3. EndWith(o, <<y, Stopped>>) /\ eng' = eng
    BY <1>6, <1>7, <2>1 DEF BookAnswered, EndWith
  <2> QED
    BY <1>1, <1>2, <1>4, <1>5, <2>2, <2>3, EndedFine
<1>8. CASE x.n # 1
  <2>1. /\ box' = [box EXCEPT ![o] = <<>>] /\ node' = [node EXCEPT ![o].pc = "genmoves"]
        /\ eng' = [eng EXCEPT ![Head(node[o].usis)] = Ask(@, "genmoves", node[o].pos, o)]
    BY <1>4, <1>6, <1>8 DEF BookAnswered
  <2>2. PICK r \in NodeRec : /\ r = [node[o] EXCEPT !.pc = "genmoves"] /\ r.pc = "genmoves"
                             /\ r.usis = node[o].usis /\ r.ply = node[o].ply
                             /\ r.sink = node[o].sink
    <3>1. PICK M \in NodeRec : M = node[o]
      BY DEF Types
    <3>2. [M EXCEPT !.pc = "genmoves"] \in NodeRec
      BY DEF NodeRec, Pcs
    <3> QED
      BY <3>1, <3>2 DEF NodeRec
  <2>3. node' = [node EXCEPT ![o] = r] /\ node'[o] = r
    BY <2>1, <2>2 DEF Types
  <2>4. PICK ms \in Seq(MsgRec) : /\ Mails(o, ms) /\ News(ms) /\ box'[o] = <<>>
                                  /\ box' \in [Queue -> Seq(MsgRec)]
    BY <1>2, <2>1, NotPushed, NewsIs DEF Tree
  <2>5. node[o].pos \in Seq(Nat) /\ "genmoves" \in JobKind /\ Head(node[o].usis) = node[o].usis[1]
    BY <1>2, FirstStubs DEF Types, NodeRec, JobKind
  <2>6. /\ eng' \in [Engine -> StubRec] /\ \A e \in Engine \ Team(o) : eng'[e] = eng[e]
        /\ \A e \in Team(o) : WorksFor(e, o)
        /\ OneAnswer(o, "genmoves", {"moves"})'
    BY <1>1, <1>2, <1>4, <2>1, <2>2, <2>3, <2>4, <2>5, AsksFirst DEF Waiting
  <2>7. Stage(o)'
    BY <2>2, <2>3, <2>6 DEF Stage, Waiting
  <2>8. /\ r.pc \notin Idle /\ raised' \in BOOLEAN
        /\ node[o].pc \in Waiting => r.pc \in Waiting
        /\ r.pc \notin {"book", "genmoves"} => Len(node[o].usis) >= 2
        /\ r.pc \notin Waiting \/ node[o].pc \in {"count", "collect"}
        /\ r.pc \in Waiting => r.pc \in {"count", "collect"}
    BY <1>1, <1>5, <2>2 DEF Idle, Waiting
  <2> HIDE DEF Idle, Waiting, News, Mails, WorksFor, Stage, Team
  <2> QED
    BY <1>1, <1>2, <1>5, <2>2, <2>3, <2>4, <2>6, <2>7, <2>8, Onward
<1> QED
  BY <1>7, <1>8

LEMMA SearchedType ==
  ASSUME NEW M \in NodeRec, NEW late \in BOOLEAN
  PROVE  /\ Len(M.usis) = 1 => /\ Searched(M, late) = SingleNode(M) /\ Searched(M, late) \in NodeRec
                               /\ Searched(M, late).pc = "leaf"
         /\ Len(M.usis) # 1 => /\ Searched(M, late) \in NodeRec
                               /\ Searched(M, late).pc \in {"presearch", "timeless"}
                               /\ Searched(M, late).pc \notin Idle
                               /\ Searched(M, late).pc \notin Waiting
         /\ Searched(M, late).usis = M.usis /\ Searched(M, late).ply = M.ply
         /\ Searched(M, late).sink = M.sink /\ Searched(M, late).stopped = M.stopped
         /\ Searched(M, late).pos = M.pos /\ Searched(M, late).kids = M.kids
         /\ Searched(M, late).maxval = M.maxval
<1>1. CASE Len(M.usis) = 1
  <2>1. M.usis \in Seq(Engine) /\ Head(M.usis) \in Engine
    BY <1>1 DEF NodeRec
  <2>2. SingleNode(M) \in NodeRec
    BY <2>1 DEF SingleNode, NodeRec, Pcs, Idle
  <2> QED
    BY <1>1, <2>2 DEF Searched, SingleNode, NodeRec
<1>2. CASE Len(M.usis) # 1
  <2>1. Searched(M, late) = [M EXCEPT !.pc = IF late THEN "timeless" ELSE "presearch", !.late = late]
    BY <1>2 DEF Searched
  <2>2. PICK pc \in {"presearch", "timeless"} : pc = IF late THEN "timeless" ELSE "presearch"
    OBVIOUS
  <2>3. pc \in Pcs /\ pc \notin Idle /\ pc \notin Waiting
    BY <2>2 DEF Pcs, Idle, Waiting
  <2>4. Searched(M, late) = [M EXCEPT !.pc = pc, !.late = late]
    BY <2>1, <2>2, Zenon
  <2> HIDE DEF Pcs, Idle, Waiting
  <2>5. [M EXCEPT !.pc = pc, !.late = late] \in NodeRec
    BY <2>3 DEF NodeRec
  <2> QED
    BY <1>2, <2>2, <2>3, <2>4, <2>5 DEF NodeRec
<1> QED
  BY <1>1, <1>2

\* A search that is left to the first stub.
LEMMA HandedOver ==
  ASSUME Types, Tree, NEW o \in Live, node[o].pc \notin Waiting, Busy(o) = {},
         node' = [node EXCEPT ![o] = SingleNode(node[o])],
         NEW g, eng' = [eng EXCEPT ![Head(node[o].usis)] = g],
         \E own \in BOOLEAN :
           g = Go(eng[Head(node[o].usis)], "search", node[o].pos, own, node[o].sink),
         NEW b \in Seq(MsgRec), box' = [box EXCEPT ![o] = b],
         raised' \in BOOLEAN, root' = root, asked' = asked
  PROVE  Fine
<1>1. o \in Node /\ o \notin External /\ Kin(o) = {}
  BY LiveTypes, NoKin, Sizes DEF Tree
<1>2. PICK f \in Engine : /\ f = node[o].usis[1] /\ Head(node[o].usis) = f
                          /\ f \in Team(o) /\ ~Open(f)
  BY FirstStubs
<1>3. PICK q \in Queue : q = node[o].sink
  BY <1>1, SinkApart DEF Tree
<1>4. /\ \E own \in BOOLEAN : eng'[f] = Go(eng[f], "search", node[o].pos, own, q)
      /\ eng'[f] = g /\ \A e \in Engine \ {f} : eng'[e] = eng[e]
  BY <1>2, <1>3 DEF Types
<1>5. node[o].pos \in Seq(Nat) /\ "search" \in JobKind
  BY <1>1 DEF Types, NodeRec, JobKind
<1>6. eng'[f] \in StubRec /\ WorksFor(f, q) /\ Open(f)' /\ Kind(f)' = "search"
  <2>1. PICK pos \in Seq(Nat) : pos = node[o].pos
    BY <1>5
  <2>2. PICK kind \in JobKind : kind = "search" /\ kind \in {"search", "mate"}
    BY <1>5
  <2>3. \E own \in BOOLEAN : eng'[f] = Go(eng[f], kind, pos, own, q)
    BY <1>4, <2>1, <2>2, Zenon
  <2>4. OneJob
    BY DEF Tree
  <2> QED
    BY SMTT(30), <1>2, <2>2, <2>3, <2>4, Sent
<1>7. SingleNode(node[o]) \in NodeRec /\ SingleNode(node[o]).pc = "leaf"
  <2>1. PICK M \in NodeRec : M = node[o]
    BY <1>1 DEF Types
  <2>2. Head(M.usis) \in Engine
    BY <1>2, <2>1
  <2>3. SingleNode(M) \in NodeRec /\ SingleNode(M).pc = "leaf"
    BY <2>2 DEF SingleNode, NodeRec, Pcs, Idle
  <2> QED
    BY <2>1, <2>3
<1>8. /\ node' \in [Node -> NodeRec] /\ node'[o].pc \in Idle
      /\ \A p \in Node \ {o} : Alike(p)
  BY <1>1, <1>7 DEF Types, Alike, Idle
<1>9. PICK ms \in Seq(MsgRec) : ms = <<>> /\ Mails(o, ms) /\ box' \in [Queue -> Seq(MsgRec)]
  BY NotPushed, NewsIs DEF Tree
<1>10. Types'
  <2>1. eng' \in [Engine -> StubRec]
    BY <1>2, <1>4, <1>6 DEF Types
  <2> QED
    BY <1>8, <1>9, <2>1 DEF Types
<1>11. PICK H \in SUBSET Team(o) : H = {f}
  BY <1>2
<1>12. /\ \A e \in Engine \ H : AlikeStub(e)
       /\ \A e \in H : WorksFor(e, node[o].sink) /\ Open(e)' /\ Kind(e)' = "search"
  BY <1>3, <1>4, <1>6, <1>11 DEF AlikeStub
<1>13. (\E e \in H : H = {e}) /\ ms = <<>>
  BY <1>9, <1>11
<1>14. Tree' /\ \A q1 \in Queue \ {o} : Loads(q1)
  <2> HIDE DEF Loads, Mails, Alike, AlikeStub, WorksFor, Open, Kind, Idle, Farewell
  <2> QED
    BY <1>1, <1>8, <1>9, <1>10, <1>12, <1>13, LeaveStep
<1> QED
  BY <1>1, <1>10, <1>14, Sizes DEF Fine

LEMMA GenmovesStep ==
  ASSUME Types, Tree, NEW o \in Node, GenmovesAnswered(o)
  PROVE  Fine
<1>1. node[o].pc = "genmoves" /\ box[o] # <<>> /\ root' = root /\ asked' = asked
  BY DEF GenmovesAnswered
<1>2. o \in Live
  BY <1>1 DEF Live
<1>3. OneAnswer(o, "genmoves", {"moves"})
  BY <1>1, <1>2 DEF Tree, Stages, Stage
<1>4. Busy(o) = {} /\ Len(box[o]) = 1 /\ Kin(o) = {} /\ node[o].pc \notin Waiting
  BY <1>1, <1>2, <1>3, NoKin DEF OneAnswer, Tree, Waiting
<1>5. raised \in BOOLEAN /\ (\A e \in Engine : Refuses(e) \in BOOLEAN)
      /\ node[o].usis[1] \in Engine /\ Head(node[o].usis) = node[o].usis[1]
  BY <1>2, FirstStubs DEF Types, StubRec, Refuses
<1>6. PICK M \in NodeRec : M = node[o]
  BY DEF Types
<1>7. CASE Head(box[o]).n = 1
  <2>1. PICK x \in MsgRec : x = Report(o, "exact", 0) /\ x.type = "exact"
    <3>1. 0 \in Val
      BY Sizes
    <3> QED
      BY <3>1, ReportsAre, Zenon
  <2>2. <<x, Stopped>> \in Seq(MsgRec) /\ Farewell(<<x, Stopped>>)
    BY <2>1, Farewells
  <2>3. EndWith(o, <<x, Stopped>>) /\ eng' = eng /\ raised' = raised
    BY <1>7, <2>1 DEF GenmovesAnswered, EndWith
  <2> QED
    BY <1>1, <1>2, <1>4, <1>5, <2>2, <2>3, EndedFine
<1>8. ASSUME Head(box[o]).n # 1 PROVE Fine
  <2>1. PICK b \in Seq(MsgRec) : b = <<>> /\ box' = [box EXCEPT ![o] = b]
    <3>1. box[o] \in Seq(MsgRec) /\ o \in Queue
      BY <1>2, LiveTypes
    <3>2. Tail(box[o]) \in Seq(MsgRec) /\ Len(Tail(box[o])) = 0
      BY <1>1, <1>4, <3>1, StopsTaken
    <3>3. Tail(box[o]) = <<>>
      BY <3>2, EmptySeq, Zenon
    <3>4. box' = [box EXCEPT ![o] = Tail(@)]
      BY <1>8 DEF GenmovesAnswered
    <3> QED
      BY <3>1, <3>2, <3>3, <3>4 DEF Types
  <2>2. PICK late \in BOOLEAN : node' = [node EXCEPT ![o] = Searched(M, late)]
    BY <1>6, <1>8 DEF GenmovesAnswered
  <2>3. CASE Len(M.usis) = 1
    <3>1. node' = [node EXCEPT ![o] = SingleNode(node[o])]
      BY <1>6, <2>2, <2>3, SearchedType
    <3>2. PICK h : h = Head(node[o].usis)
      OBVIOUS
    <3>3. PICK g : g = Search(eng[h], node[o].pos, FALSE, node[o].sink)
      OBVIOUS
    <3>4. eng' = [eng EXCEPT ![h] = g] /\ raised' \in BOOLEAN
      BY <1>5, <1>6, <1>8, <2>3, <3>2, <3>3 DEF GenmovesAnswered
    <3>5. \E own \in BOOLEAN : g = Go(eng[h], "search", node[o].pos, own, node[o].sink)
      BY <3>3, Zenon DEF Search
    <3> QED
      BY <1>1, <1>2, <1>4, <2>1, <3>1, <3>2, <3>4, <3>5, HandedOver
  <2>4. CASE Len(M.usis) # 1
    <3>1. eng' = eng /\ raised' \in BOOLEAN
      BY <1>5, <1>6, <1>8, <2>4 DEF GenmovesAnswered
    <3>2. PICK r \in NodeRec : /\ r = Searched(M, late) /\ r.pc \in {"presearch", "timeless"}
                               /\ r.usis = M.usis /\ r.ply = M.ply /\ r.sink = M.sink
      BY <2>4, SearchedType
    <3>3. node' = [node EXCEPT ![o] = r] /\ node'[o] = r
      BY <2>2, <3>2 DEF Types
    <3>4. PICK ms \in Seq(MsgRec) : /\ Mails(o, ms) /\ News(ms) /\ box'[o] = <<>>
                                    /\ box' \in [Queue -> Seq(MsgRec)]
      BY <1>2, <2>1, NotPushed, NewsIs DEF Tree
    <3>5. /\ eng' \in [Engine -> StubRec] /\ \A e \in Engine \ Team(o) : eng'[e] = eng[e]
          /\ \A e \in Team(o) : WorksFor(e, o)
      <4>1. Team(o) \subseteq Engine /\ \A e \in Team(o) : ~Open(e)
        BY <1>2, <1>4, FirstStubs
      <4> QED
        BY <3>1, <4>1 DEF Types, WorksFor, Tree, OneJob, Open, Kind
    <3>6. Stage(o)'
      <4>1. Busy(o)' = {}
        BY <1>4, <3>1 DEF Busy, Open
      <4> QED
        BY <3>2, <3>3, <3>4, <4>1 DEF Stage, Quiet, Waiting
    <3>7. /\ r.pc \notin Idle
          /\ node[o].pc \in Waiting => r.pc \in Waiting
          /\ r.pc \notin {"book", "genmoves"} => Len(node[o].usis) >= 2
          /\ r.pc \notin Waiting \/ node[o].pc \in {"count", "collect"}
          /\ r.pc \in Waiting => r.pc \in {"count", "collect"}
      <4>2. PICK n \in Nat : n = Len(node[o].usis)
        BY <1>2, FirstStubs
      <4>3. n # 1
        BY <1>6, <2>4, <4>2, Zenon
      <4>4. n >= 1
        BY <1>2, <4>2, FirstStubs
      <4>5. n >= 2
        BY <4>3, <4>4
      <4>1. Len(node[o].usis) >= 2
        BY <4>2, <4>5, Zenon
      <4> QED
        BY <1>1, <3>2, <4>1 DEF Idle, Waiting
    <3> HIDE DEF Idle, Waiting, News, Mails, WorksFor, Stage, Team
    <3> QED
      BY <1>1, <1>2, <1>6, <3>1, <3>2, <3>3, <3>4, <3>5, <3>6, <3>7, Onward
  <2> QED
    BY <2>3, <2>4
<1> QED
  BY <1>7, <1>8

\* The presearch takes a message.
LEMMA AwaitsLess ==
  ASSUME Types, Tree, NEW o \in Live, node[o].pc = "await", Awaits(o), box[o] # <<>>,
         SameBusy(o), box'[o] = Tail(box[o]), node'[o].usis = node[o].usis,
         \/ box[o][1].type = "exact" /\ node'[o].await = node[o].await
         \/ box[o][1].type = "stopped" /\ node'[o].await = node[o].await \ {"search"}
         \/ box[o][1].type = "nomate" /\ node'[o].await = node[o].await \ {"mate"}
  PROVE  Awaits(o)'
<1>1. PICK a, b : a = node[o].usis[1] /\ b = node[o].usis[2]
  OBVIOUS
<1>2. PICK s \in Seq(MsgRec) : s = box[o] /\ s # <<>>
  BY LiveTypes
<1>3. PICK t \in Seq(MsgRec) : t = Tail(s) /\ box'[o] = t
  BY <1>2, StopsTaken
<1>4. /\ \A i \in DOMAIN t : i + 1 \in DOMAIN s /\ t[i] = s[i + 1]
      /\ \A i \in DOMAIN s : i # 1 => i - 1 \in DOMAIN t /\ t[i - 1] = s[i]
      /\ 1 \in DOMAIN s /\ DOMAIN s \subseteq Nat /\ DOMAIN t \subseteq Nat \ {0}
  BY <1>2, <1>3, StopsTaken
<1>5. \A T : Tells(o, T)' <=> \E i \in DOMAIN s : i # 1 /\ s[i].type \in T
  <2> SUFFICES ASSUME NEW T
               PROVE  (\E i \in DOMAIN t : t[i].type \in T)
                        <=> \E i \in DOMAIN s : i # 1 /\ s[i].type \in T
    BY <1>3 DEF Tells
  <2>1. ASSUME NEW i \in DOMAIN t, t[i].type \in T
        PROVE  \E k \in DOMAIN s : k # 1 /\ s[k].type \in T
    <3>1. i \in Nat \ {0} /\ i + 1 \in DOMAIN s /\ s[i + 1].type \in T
      BY <1>4, <2>1
    <3> QED
      BY <3>1
  <2>2. ASSUME NEW i \in DOMAIN s, i # 1, s[i].type \in T
        PROVE  \E k \in DOMAIN t : t[k].type \in T
    BY <1>4, <2>2
  <2> QED
    BY <2>1, <2>2
<1>6. \A T : Tells(o, T) <=> \E i \in DOMAIN s : s[i].type \in T
  BY <1>2 DEF Tells
<1>7. \A T : OnlyOnce(o, T) => OnlyOnce(o, T)'
  <2> SUFFICES ASSUME NEW T, OnlyOnce(o, T), NEW i \in DOMAIN t, NEW k \in DOMAIN t,
                      t[i].type \in T, t[k].type \in T
               PROVE  i = k
    BY <1>3 DEF OnlyOnce
  <2>1. i + 1 = k + 1
    BY <1>2, <1>4 DEF OnlyOnce
  <2> QED
    BY <1>4, <2>1, SMTT(30)
<1>8. Says(o, {"exact", "stopped", "mate", "nomate"})'
  BY <1>2, <1>3, <1>4 DEF Awaits, Says
<1>9. \A i \in DOMAIN box'[o] : box'[o][i].type = "exact" =>
        i + 1 \in DOMAIN box'[o] /\ box'[o][i + 1].type = "stopped"
  <2> SUFFICES ASSUME NEW i \in DOMAIN t, t[i].type = "exact"
               PROVE  i + 1 \in DOMAIN t /\ t[i + 1].type = "stopped"
    BY <1>3
  <2>1. i + 1 \in DOMAIN s /\ s[i + 1].type = "exact" /\ i \in Nat \ {0}
    BY <1>4
  <2>2. (i + 1) + 1 \in DOMAIN s /\ s[(i + 1) + 1].type = "stopped"
    BY <1>2, <2>1 DEF Awaits
  <2>3. (i + 1) + 1 # 1 /\ ((i + 1) + 1) - 1 = i + 1
    BY <2>1
  <2> QED
    BY <1>4, <2>2, <2>3
<1>10. /\ OnlyOnce(o, {"stopped"})' /\ OnlyOnce(o, {"mate", "nomate"})'
       /\ Busy(o)' = Busy(o) /\ Busy(o) \subseteq {a, b} /\ \A e \in Busy(o) : Kind(e)' = Kind(e)
       /\ a = node'[o].usis[1] /\ b = node'[o].usis[2]
  BY <1>1, <1>7 DEF Awaits, SameBusy
<1>11. /\ (a \in Busy(o) => Kind(a) = "search" /\ ~Tells(o, {"exact", "stopped"}))
       /\ (b \in Busy(o) => Kind(b) = "mate" /\ ~Tells(o, {"mate", "nomate"}))
       /\ ("search" \in node[o].await <=> a \in Busy(o) \/ Tells(o, {"stopped"}))
       /\ ("mate" \in node[o].await <=> b \in Busy(o) \/ Tells(o, {"mate", "nomate"}))
       /\ OnlyOnce(o, {"stopped"}) /\ OnlyOnce(o, {"mate", "nomate"})
  BY <1>1 DEF Awaits
<1>12. /\ (a \in Busy(o)' => Kind(a)' = "search" /\ ~Tells(o, {"exact", "stopped"})')
       /\ (b \in Busy(o)' => Kind(b)' = "mate" /\ ~Tells(o, {"mate", "nomate"})')
  BY <1>5, <1>6, <1>10, <1>11
<1>13. \A i, k \in DOMAIN s : s[i].type = "stopped" /\ s[k].type = "stopped" => i = k
  BY <1>2, <1>11 DEF OnlyOnce
<1>14. \A i, k \in DOMAIN s :
         s[i].type \in {"mate", "nomate"} /\ s[k].type \in {"mate", "nomate"} => i = k
  BY <1>2, <1>11 DEF OnlyOnce
<1>15. "search" \in node'[o].await <=> a \in Busy(o)' \/ Tells(o, {"stopped"})'
  <2>1. CASE s[1].type = "stopped"
    <3>1. ASSUME Tells(o, {"stopped"})' PROVE FALSE
      <4>1. PICK i \in DOMAIN s : i # 1 /\ s[i].type \in {"stopped"}
        BY <1>5, <3>1
      <4> QED
        BY <1>4, <1>13, <2>1, <4>1
    <3>2. 1 \in DOMAIN s /\ s[1].type \in {"exact", "stopped"}
      BY <1>4, <2>1
    <3>3. Tells(o, {"exact", "stopped"})
      BY <1>6, <3>2
    <3>4. a \notin Busy(o)'
      BY <1>10, <1>11, <3>3
    <3>5. "search" \notin node'[o].await
      BY <1>2, <2>1
    <3> QED
      BY <3>1, <3>4, <3>5
  <2>2. CASE s[1].type # "stopped"
    <3>1. Tells(o, {"stopped"})' <=> Tells(o, {"stopped"})
      BY <1>4, <1>5, <1>6, <2>2
    <3>2. "search" \in node'[o].await <=> "search" \in node[o].await
      BY <1>2, <2>2
    <3> QED
      BY <1>10, <1>11, <3>1, <3>2
  <2> QED
    BY <2>1, <2>2
<1>16. "mate" \in node'[o].await <=> b \in Busy(o)' \/ Tells(o, {"mate", "nomate"})'
  <2>1. CASE s[1].type = "nomate"
    <3>1. ~Tells(o, {"mate", "nomate"})' /\ Tells(o, {"mate", "nomate"})
      BY <1>4, <1>5, <1>6, <1>14, <2>1
    <3> QED
      BY <1>2, <1>10, <1>11, <2>1, <3>1
  <2>2. CASE s[1].type # "nomate"
    <3>0. s[1].type \notin {"mate", "nomate"}
      BY <1>2, <2>2
    <3>1. Tells(o, {"mate", "nomate"})' <=> Tells(o, {"mate", "nomate"})
      BY <1>4, <1>5, <1>6, <3>0
    <3>2. "mate" \in node'[o].await <=> "mate" \in node[o].await
      BY <1>2, <2>2
    <3> QED
      BY <1>10, <1>11, <3>1, <3>2
  <2> QED
    BY <2>1, <2>2
<1> QED
  BY <1>8, <1>9, <1>10, <1>12, <1>15, <1>16 DEF Awaits

\* The load of an object in its presearch, once the mate is known.
LEMMA AwaitsLoad ==
  ASSUME Types, Tree, NEW o \in Live, node[o].pc = "await", Awaits(o), box[o] # <<>>,
         box[o][1].type = "mate"
  PROVE  /\ Busy(o) \subseteq {node[o].usis[1]} /\ \A e \in Busy(o) : Kind(e) = "search"
         /\ "search" \notin node[o].await => Busy(o) = {}
         /\ "search" \in node[o].await => Load(o) = 1
         /\ \A i \in DOMAIN box[o] : i # 1 => box[o][i].type \in Results
<1>1. PICK a, b : a = node[o].usis[1] /\ b = node[o].usis[2]
  OBVIOUS
<1>2. PICK s \in Seq(MsgRec) : s = box[o] /\ s # <<>> /\ 1 \in DOMAIN s
  BY LiveTypes, StopsTaken
<1>3. Tells(o, {"mate", "nomate"})
  BY <1>2 DEF Tells
<1>4. Busy(o) \subseteq {a} /\ (a \in Busy(o) => Kind(a) = "search" /\ ~Tells(o, {"exact", "stopped"}))
  BY <1>1, <1>3 DEF Awaits
<1>5. \A i \in DOMAIN s : i # 1 => s[i].type \in {"exact", "stopped"}
  <2>1. \A i \in DOMAIN s : s[i].type \in {"exact", "stopped", "mate", "nomate"}
    BY <1>2 DEF Awaits, Says
  <2>2. \A i \in DOMAIN s : s[i].type \in {"mate", "nomate"} => i = 1
    BY <1>2 DEF Awaits, OnlyOnce
  <2> QED
    BY <2>1, <2>2
<1>6. "search" \notin node[o].await => Busy(o) = {}
  BY <1>1, <1>4 DEF Awaits
<1>7. ASSUME "search" \in node[o].await PROVE Load(o) = 1
  <2>1. o \in Queue /\ Kin(o) = {}
    BY LiveTypes, NoKin DEF Tree, Waiting
  <2>0. Cardinality({}) = 0 /\ \A x : Cardinality({x}) = 1
    BY FS_EmptySet, FS_Singleton, Zenon
  <2>4. Cardinality(Kin(o)) = 0
    BY <2>0, <2>1
  <2>2. CASE a \in Busy(o)
    <3>1. Busy(o) = {a} /\ StoppedAt(o) = {}
      BY <1>4, <2>2 DEF Tells, StoppedAt
    <3>2. Cardinality(Busy(o)) = 1 /\ Cardinality(StoppedAt(o)) = 0
      BY <2>0, <3>1
    <3> QED
      BY <2>4, <3>2 DEF Load
  <2>3. CASE a \notin Busy(o)
    <3>1. Busy(o) = {} /\ Tells(o, {"stopped"}) /\ OnlyOnce(o, {"stopped"})
      BY <1>1, <1>4, <1>7, <2>3 DEF Awaits
    <3>2. PICK i \in DOMAIN box[o] : box[o][i].type = "stopped"
      BY <3>1 DEF Tells
    <3>3. StoppedAt(o) = {i}
      BY <3>1, <3>2 DEF StoppedAt, OnlyOnce
    <3>4. Cardinality(Busy(o)) = 0 /\ Cardinality(StoppedAt(o)) = 1
      BY <2>0, <3>1, <3>3
    <3> QED
      BY <2>4, <3>4 DEF Load
  <2> QED
    BY <2>2, <2>3
<1> QED
  BY <1>1, <1>2, <1>4, <1>5, <1>6, <1>7 DEF Results

\* Stubs that are left alone.
LEMMA StubsKept ==
  ASSUME Types, Tree, NEW o \in Live, \A e \in Engine : AlikeStub(e)
  PROVE  /\ \A e \in Team(o) : WorksFor(e, o)
         /\ \A q : SameBusy(q)
<1>1. \A e \in Team(o) : e \in Engine /\ (Open(e) => eng[e].sink = o)
  <2>1. Team(o) \subseteq Members(o) /\ Members(o) \subseteq Engine
    BY LiveTypes, FirstStubs
  <2> QED
    BY <2>1 DEF Tree, OwnJobs
<1>2. \A e \in Engine : Len(eng[e].jobs) <= 1 /\ (eng[e].searching => Open(e) /\ Kind(e) \in {"search", "mate"})
  BY DEF Tree, OneJob
<1>3. \A e \in Engine : Open(e)' = Open(e) /\ Kind(e)' = Kind(e) /\ eng'[e].sink = eng[e].sink
                        /\ eng'[e].searching = eng[e].searching /\ eng'[e].jobs = eng[e].jobs
  BY DEF AlikeStub, Open, Kind
<1>4. \A e \in Team(o) : WorksFor(e, o)
  <2> SUFFICES ASSUME NEW e \in Team(o) PROVE WorksFor(e, o)
    OBVIOUS
  <2>1. e \in Engine
    BY <1>1
  <2>2. /\ Len(eng'[e].jobs) <= 1 /\ (Open(e)' => eng'[e].sink = o)
        /\ (eng'[e].searching => Open(e)' /\ Kind(e)' \in {"search", "mate"})
    BY <1>1, <1>2, <1>3, <2>1
  <2> QED
    BY <2>2 DEF WorksFor
<1>5. \A q : SameBusy(q)
  BY <1>3 DEF SameBusy, Busy
<1> QED
  BY <1>4, <1>5

LEMMA PresearchStep ==
  ASSUME Types, Tree, NEW o \in Node, Presearch(o)
  PROVE  Fine
<1>1. node[o].pc = "presearch" /\ root' = root /\ asked' = asked
  BY DEF Presearch
<1>2. o \in Live
  BY <1>1 DEF Live
<1>3. Busy(o) = {} /\ box[o] = <<>> /\ Kin(o) = {} /\ node[o].pc \notin Waiting
  BY <1>1, <1>2, NoKin DEF Tree, Stages, Stage, Quiet, Waiting
<1>4. PICK e \in Engine, f \in Engine :
        /\ e = node[o].usis[1] /\ f = node[o].usis[2] /\ e # f
        /\ e \in Team(o) /\ f \in Team(o) /\ ~Open(e) /\ ~Open(f)
        /\ Len(node[o].usis) >= 2
  <2>1. /\ node[o].usis[1] \in Engine /\ Members(o) \subseteq Engine
        /\ node[o].usis[1] \in Members(o) /\ Team(o) = Members(o)
        /\ Len(node[o].usis) >= 2
        /\ node[o].usis[2] \in Members(o) /\ node[o].usis[1] # node[o].usis[2]
        /\ \A e \in Team(o) : Open(e) => e \in Busy(o)
    BY <1>1, <1>2, <1>3, FirstStubs
  <2> QED
    BY <1>3, <2>1
<1>5. raised \in BOOLEAN /\ (\A d \in Engine : Refuses(d) \in BOOLEAN)
  BY DEF Types, StubRec, Refuses
<1>6. CASE node[o].stopped
  <2>1. EndWith(o, <<Stopped>>) /\ eng' = eng /\ raised' = raised
    BY <1>6 DEF Presearch
  <2>2. PICK ms \in Seq(MsgRec) : ms = <<Stopped>> /\ Farewell(ms)
    BY Farewells, Zenon
  <2>3. EndWith(o, ms)
    BY <2>1, <2>2
  <2> QED
    BY <1>1, <1>2, <1>3, <1>5, <2>1, <2>2, <2>3, EndedFine
<1>7. CASE ~node[o].stopped
  <2>1. /\ node' = [node EXCEPT ![o].pc = "await", ![o].stubs = {e, f},
                                ![o].await = {"search", "mate"}]
        /\ box' = box /\ raised' = (Refuses(e) \/ Refuses(f))
    BY <1>4, <1>7 DEF Presearch
  <2>2. PICK r \in NodeRec : /\ r = [node[o] EXCEPT !.pc = "await", !.stubs = {e, f},
                                                    !.await = {"search", "mate"}]
                             /\ r.pc = "await" /\ r.usis = node[o].usis /\ r.ply = node[o].ply
                             /\ r.sink = node[o].sink /\ r.await = {"search", "mate"}
    <3>1. PICK M \in NodeRec : M = node[o]
      BY DEF Types
    <3>2. [M EXCEPT !.pc = "await", !.stubs = {e, f}, !.await = {"search", "mate"}] \in NodeRec
      BY <1>4 DEF NodeRec, Pcs
    <3> QED
      BY <3>1, <3>2 DEF NodeRec
  <2>3. node' = [node EXCEPT ![o] = r] /\ node'[o] = r
    BY <2>1, <2>2 DEF Types
  <2>4. PICK pos \in Seq(Nat) : pos = node[o].pos
    BY DEF Types, NodeRec
  <2>5. PICK g, h : g = Search(eng[e], pos, FALSE, o) /\ h = CheckmateSearch(eng[f], pos, o)
    OBVIOUS
  <2>6. eng' = [eng EXCEPT ![e] = g, ![f] = h]
    <3>1. eng' = [eng EXCEPT ![e] = Search(@, pos, FALSE, o), ![f] = CheckmateSearch(@, pos, o)]
      BY <1>4, <1>7, <2>4, Zenon DEF Presearch
    <3>2. eng' = [eng EXCEPT ![e] = g, ![f] = CheckmateSearch(eng[f], pos, o)]
      BY <1>4, <2>5, <3>1, Zenon
    <3> QED
      BY <2>5, <3>2, Zenon
  <2>7. eng'[e] = g /\ eng'[f] = h /\ \A d \in Engine \ {e, f} : eng'[d] = eng[d]
    BY <1>4, <2>6 DEF Types
  <2>8. PICK S \in JobKind, T \in JobKind : S = "search" /\ T = "mate"
    BY DEF JobKind
  <2>9. /\ \E own \in BOOLEAN : eng'[e] = Go(eng[e], S, pos, own, o)
        /\ \E own \in BOOLEAN : eng'[f] = Go(eng[f], T, pos, own, o)
    <3>1. /\ \E own \in BOOLEAN : g = Go(eng[e], S, pos, own, o)
          /\ \E own \in BOOLEAN : h = Go(eng[f], T, pos, own, o)
      BY <2>5, <2>8, Zenon DEF Search, CheckmateSearch
    <3> QED
      BY <2>7, <3>1
  <2>10. o \in Queue /\ OneJob /\ S \in {"search", "mate"} /\ T \in {"search", "mate"}
    BY <1>2, <2>8, LiveTypes DEF Tree
  <2>11. /\ eng'[e] \in StubRec /\ WorksFor(e, o) /\ Open(e)' /\ Kind(e)' = S
         /\ eng'[e].sink = o /\ ~Refuses(e)
    BY <1>4, <2>9, <2>10, Sent
  <2>12. /\ eng'[f] \in StubRec /\ WorksFor(f, o) /\ Open(f)' /\ Kind(f)' = T
         /\ eng'[f].sink = o /\ ~Refuses(f)
    BY <1>4, <2>9, <2>10, Sent
  <2>13. /\ eng' \in [Engine -> StubRec] /\ \A d \in Engine \ Team(o) : eng'[d] = eng[d]
    BY <1>4, <2>6, <2>7, <2>11, <2>12 DEF Types
  <2>14. \A d \in Team(o) : WorksFor(d, o)
    <3> SUFFICES ASSUME NEW d \in Team(o), d # e, d # f PROVE WorksFor(d, o)
      BY <2>11, <2>12
    <3>1. d \in Engine /\ ~Open(d)
      BY <1>2, <1>3, FirstStubs
    <3> QED
      BY <2>7, <3>1 DEF WorksFor, Tree, OneJob, Open, Kind
  <2>15. Busy(o)' = {e, f}
    <3>1. \A d \in Engine : d \in Busy(o)' <=> d \in {e, f}
      <4> SUFFICES ASSUME NEW d \in Engine PROVE d \in Busy(o)' <=> d \in {e, f}
        OBVIOUS
      <4>1. CASE d \in {e, f}
        BY <2>11, <2>12, <4>1 DEF Busy
      <4>2. CASE d \notin {e, f}
        <5>1. eng'[d] = eng[d] /\ d \notin Busy(o)
          BY <1>3, <2>7, <4>2
        <5> QED
          BY <4>2, <5>1 DEF Busy, Open
      <4> QED
        BY <4>1, <4>2
    <3>2. Busy(o)' \subseteq Engine
      BY DEF Busy
    <3> QED
      BY <1>4, <3>1, <3>2
  <2>16. Awaits(o)'
    <3>1. /\ node'[o].usis[1] = e /\ node'[o].usis[2] = f /\ box'[o] = <<>>
          /\ node'[o].await = {"search", "mate"}
      BY <1>3, <1>4, <2>1, <2>2, <2>3
    <3>2. Kind(e)' = "search" /\ Kind(f)' = "mate" /\ e \in Busy(o)' /\ f \in Busy(o)'
          /\ Busy(o)' \subseteq {e, f}
      BY <2>8, <2>11, <2>12, <2>15
    <3>3. \A U : Says(o, U)' /\ ~Tells(o, U)' /\ OnlyOnce(o, U)'
      BY <3>1 DEF Says, Tells, OnlyOnce
    <3>4. \A i \in DOMAIN box'[o] : FALSE
      BY <3>1
    <3> QED
      BY <3>1, <3>2, <3>3, <3>4 DEF Awaits
  <2>17. Stage(o)'
    BY <2>2, <2>3, <2>16 DEF Stage, Waiting
  <2>18. PICK ms \in Seq(MsgRec) : Mails(o, ms) /\ News(ms) /\ box' \in [Queue -> Seq(MsgRec)]
    <3>1. box[o] \in Seq(MsgRec) /\ box' = [box EXCEPT ![o] = box[o]]
      BY <1>2, <2>1, LiveTypes DEF Types
    <3> QED
      BY <1>2, <3>1, NotPushed, NewsIs DEF Tree
  <2>19. raised' \in BOOLEAN
    BY <1>5, <2>1
  <2>20. /\ r.pc \notin Idle
         /\ node[o].pc \in Waiting => r.pc \in Waiting
         /\ r.pc \notin {"book", "genmoves"} => Len(node[o].usis) >= 2
         /\ r.pc \notin Waiting \/ node[o].pc \in {"count", "collect"}
         /\ r.pc \in Waiting => r.pc \in {"count", "collect"}
    BY <1>1, <1>4, <2>2 DEF Idle, Waiting
  <2> HIDE DEF Idle, Waiting, News, Mails, WorksFor, Stage, Team
  <2> QED
    BY <1>1, <1>2, <2>2, <2>3, <2>13, <2>14, <2>17, <2>18, <2>19, <2>20, Onward
<1> QED
  BY <1>6, <1>7

\* An object in its presearch that only changes what it awaits.
LEMMA AwaitsOn ==
  ASSUME Types, Tree, NEW o \in Live, node[o].pc = "await", box[o] # <<>>,
         NEW r \in NodeRec, node' = [node EXCEPT ![o] = r],
         r.pc = "await", r.usis = node[o].usis, r.ply = node[o].ply, r.sink = node[o].sink,
         \/ box[o][1].type = "exact" /\ r.await = node[o].await
         \/ box[o][1].type = "stopped" /\ r.await = node[o].await \ {"search"}
         \/ box[o][1].type = "nomate" /\ r.await = node[o].await \ {"mate"},
         box' = [box EXCEPT ![o] = Tail(@)],
         eng' = eng, raised' = raised, root' = root, asked' = asked
  PROVE  Fine
<1>1. Awaits(o)
  BY DEF Tree, Stages, Stage
<1>2. o \in Node /\ o \in Queue /\ box[o] \in Seq(MsgRec) /\ Tail(box[o]) \in Seq(MsgRec)
  BY LiveTypes, StopsTaken
<1>3. \A e \in Engine : AlikeStub(e)
  BY DEF AlikeStub
<1>4. (\A e \in Team(o) : WorksFor(e, o)) /\ SameBusy(o)
  BY <1>3, StubsKept
<1>5. node'[o] = r /\ box'[o] = Tail(box[o]) /\ box' = [box EXCEPT ![o] = Tail(box[o])]
  BY <1>2 DEF Types
<1>6. node'[o].usis = node[o].usis
  BY <1>5
<1>7. \/ box[o][1].type = "exact" /\ node'[o].await = node[o].await
      \/ box[o][1].type = "stopped" /\ node'[o].await = node[o].await \ {"search"}
      \/ box[o][1].type = "nomate" /\ node'[o].await = node[o].await \ {"mate"}
  BY <1>5
<1>8. Awaits(o)'
  <2> HIDE DEF Awaits, SameBusy
  <2> QED
    BY <1>1, <1>4, <1>5, <1>6, <1>7, AwaitsLess
<1>9. Stage(o)'
  BY <1>5, <1>8 DEF Stage, Waiting
<1>10. PICK ms \in Seq(MsgRec) : Mails(o, ms) /\ News(ms) /\ box' \in [Queue -> Seq(MsgRec)]
  BY <1>2, <1>5, NotPushed, NewsIs DEF Tree
<1>11. /\ eng' \in [Engine -> StubRec] /\ raised' \in BOOLEAN
       /\ \A e \in Engine \ Team(o) : eng'[e] = eng[e]
  BY DEF Types
<1>12. /\ r.pc \notin Idle /\ Len(node[o].usis) >= 2
       /\ node[o].pc \in Waiting => r.pc \in Waiting
       /\ r.pc \notin {"book", "genmoves"} => Len(node[o].usis) >= 2
       /\ r.pc \notin Waiting \/ node[o].pc \in {"count", "collect"}
       /\ r.pc \in Waiting => r.pc \in {"count", "collect"}
  BY FirstStubs DEF Idle, Waiting
<1> HIDE DEF Idle, Waiting, News, Mails, WorksFor, Stage, Team
<1> QED
  BY <1>4, <1>9, <1>10, <1>11, <1>12, Onward

LEMMA TakeMate ==
  ASSUME Types, Tree, NEW o \in Live, node[o].pc = "await", box[o] # <<>>,
         box[o][1].type = "mate", "search" \in node[o].await,
         NEW r \in NodeRec, node' = [node EXCEPT ![o] = r],
         r.pc = "mated", r.usis = node[o].usis, r.ply = node[o].ply, r.sink = node[o].sink,
         NEW x \in MsgRec, x.type = "exact",
         box' = [Push(box, o, <<x>>) EXCEPT ![o] = Tail(@)],
         eng' = StopStubs(eng, {node[o].usis[1]}), raised' = raised, root' = root, asked' = asked
  PROVE  Fine
<1>1. Awaits(o)
  BY DEF Tree, Stages, Stage
<1>2. o \in Node /\ o \in Queue /\ box[o] \in Seq(MsgRec) /\ Tail(box[o]) \in Seq(MsgRec)
      /\ node[o].sink \in Queue /\ node[o].sink # o
  BY LiveTypes, SinkApart, StopsTaken DEF Tree
<1>3. /\ eng' \in [Engine -> StubRec] /\ \A e \in Engine : AlikeStub(e)
      /\ \A e \in Engine \ Team(o) : eng'[e] = eng[e]
  <2>1. PICK f \in Engine : f = node[o].usis[1] /\ f \in Team(o)
    BY FirstStubs DEF Waiting
  <2>2. \A e \in Engine : eng'[e] = [eng[e] EXCEPT !.stopped = @ \/ e \in {f}]
    BY <2>1 DEF StopStubs
  <2>3. \A e \in Engine : /\ eng'[e] \in StubRec /\ eng'[e].jobs = eng[e].jobs
                          /\ eng'[e].sink = eng[e].sink /\ eng'[e].searching = eng[e].searching
                          /\ (e # f => eng'[e] = eng[e])
    <3> SUFFICES ASSUME NEW e \in Engine
                 PROVE  /\ eng'[e] \in StubRec /\ eng'[e].jobs = eng[e].jobs
                        /\ eng'[e].sink = eng[e].sink /\ eng'[e].searching = eng[e].searching
                        /\ (e # f => eng'[e] = eng[e])
      OBVIOUS
    <3>1. PICK s \in StubRec : s = eng[e]
      BY DEF Types
    <3>2. eng'[e] = [s EXCEPT !.stopped = @ \/ e \in {f}]
      BY <2>2, <3>1
    <3>3. s.stopped \in BOOLEAN
      BY DEF StubRec
    <3>4. PICK b \in BOOLEAN : b = (s.stopped \/ e \in {f}) /\ (e # f => b = s.stopped)
      BY <3>3, Zenon
    <3>5. eng'[e] = [s EXCEPT !.stopped = b]
      BY <3>2, <3>4, Zenon
    <3>6. [s EXCEPT !.stopped = b] \in StubRec /\ [s EXCEPT !.stopped = s.stopped] = s
      BY DEF StubRec
    <3> QED
      BY <3>1, <3>4, <3>5, <3>6 DEF StubRec
  <2>4. eng' \in [Engine -> StubRec]
    BY <2>3 DEF StopStubs
  <2> QED
    BY <2>1, <2>3, <2>4 DEF AlikeStub
<1>4. (\A e \in Team(o) : WorksFor(e, o)) /\ SameBusy(o)
  BY <1>3, StubsKept
<1>5. node'[o] = r
  BY <1>2 DEF Types
<1>6. PICK b \in Seq(MsgRec) : b = Tail(box[o])
  BY <1>2
<1>7. PICK ms \in Seq(MsgRec) : ms = <<x>> /\ News(ms)
  BY NewsIs
<1>8. box' = [Push(box, o, ms) EXCEPT ![o] = b]
  <2>1. Push(box, o, ms)[o] = box[o]
    BY <1>2 DEF Push, Types
  <2>2. box' = [Push(box, o, ms) EXCEPT ![o] = Tail(Push(box, o, ms)[o])]
    BY <1>7, Zenon
  <2> QED
    BY <1>6, <2>1, <2>2
<1>9. Mails(o, ms) /\ box'[o] = b /\ box' \in [Queue -> Seq(MsgRec)]
  BY <1>8, Pushed DEF Tree
<1>10. /\ Busy(o) \subseteq {node[o].usis[1]} /\ (\A e \in Busy(o) : Kind(e) = "search")
       /\ Load(o) = 1
       /\ \A i \in DOMAIN box[o] : i # 1 => box[o][i].type \in Results
  BY <1>1, AwaitsLoad
<1>11. Kin(o) = {} /\ Kin(o)' = {}
  <2>1. Kin(o) = {}
    BY NoKin DEF Tree, Waiting
  <2>2. ASSUME NEW p \in Kin(o)' PROVE FALSE
    <3>1. p \in Node /\ p \in Live' /\ node'[p].sink = o
      BY <2>2 DEF Kin, Live
    <3>2. p # o
      BY <1>2, <1>5, <3>1
    <3>3. node'[p] = node[p]
      BY <3>1, <3>2 DEF Types
    <3> QED
      BY <2>1, <3>1, <3>3 DEF Kin, Live
  <2> QED
    BY <2>1, <2>2
<1>12. Cardinality(StoppedAt(o)') = Cardinality(StoppedAt(o))
  <2>1. Cardinality(Stops(Tail(box[o]))) = Cardinality(Stops(box[o]))
    BY <1>2, StopsTaken
  <2>2. StoppedAt(o)' = Stops(b) /\ StoppedAt(o) = Stops(box[o])
    BY <1>9 DEF StoppedAt, Stops
  <2> QED
    BY <1>6, <2>1, <2>2
<1>13. Load(o)' = 1 /\ Busy(o)' = Busy(o)
  BY <1>4, <1>10, <1>11, <1>12 DEF Load, SameBusy
<1>14. Reported(o)'
  <2>1. \A i \in DOMAIN b : b[i].type \in Results
    BY <1>2, <1>6, <1>10, StopsTaken
  <2> QED
    BY <1>4, <1>9, <1>10, <2>1 DEF Reported, Says, SameBusy
<1>15. Stage(o)'
  <2>1. Mated(o)'
    BY <1>5, <1>10, <1>13, <1>14 DEF Mated
  <2> QED
    BY <1>5, <2>1 DEF Stage, Waiting
<1>16. raised' \in BOOLEAN
  BY DEF Types
<1>17. /\ r.pc \notin Idle
       /\ node[o].pc \in Waiting => r.pc \in Waiting
       /\ r.pc \notin {"book", "genmoves"} => Len(node[o].usis) >= 2
       /\ r.pc \notin Waiting \/ node[o].pc \in {"count", "collect"}
       /\ r.pc \in Waiting => r.pc \in {"count", "collect"}
  BY FirstStubs DEF Idle, Waiting
<1> HIDE DEF Idle, Waiting, News, Mails, WorksFor, Stage, Team
<1> QED
  BY <1>3, <1>4, <1>7, <1>9, <1>15, <1>16, <1>17, Onward

LEMMA TakeStep ==
  ASSUME Types, Tree, NEW o \in Node, PresearchTake(o)
  PROVE  Fine
<1>1. node[o].pc = "await" /\ box[o] # <<>> /\ raised' = raised /\ root' = root /\ asked' = asked
  BY DEF PresearchTake
<1>2. o \in Live
  BY <1>1 DEF Live
<1>3. PICK M \in NodeRec : M = node[o]
  BY DEF Types
<1>4. box[o] \in Seq(MsgRec) /\ Head(box[o]) = box[o][1] /\ o \in Queue
  BY <1>1, <1>2, LiveTypes, StopsTaken
<1>5. Awaits(o) /\ raised \in BOOLEAN
  BY <1>1, <1>2 DEF Types, Tree, Stages, Stage
<1>6. PICK x \in MsgRec : x = Report(o, "exact", Top) /\ x.type = "exact"
  <2>1. Top \in Val
    BY Sizes
  <2> QED
    BY <2>1, ReportsAre, Zenon
<1>7. CASE box[o][1].type = "exact"
  <2>1. box' = [box EXCEPT ![o] = Tail(@)] /\ node' = node /\ eng' = eng
    BY <1>4, <1>7 DEF PresearchTake
  <2>2. node' = [node EXCEPT ![o] = M]
    BY <1>3, <2>1 DEF Types
  <2> QED
    BY <1>1, <1>2, <1>3, <1>7, <2>1, <2>2, AwaitsOn
<1>8. CASE box[o][1].type = "stopped"
  <2>1. /\ box' = [box EXCEPT ![o] = Tail(@)] /\ eng' = eng
        /\ node' = [node EXCEPT ![o].await = @ \ {"search"}, ![o].stubs = @ \ {M.usis[1]}]
    BY <1>3, <1>4, <1>8 DEF PresearchTake
  <2>2. PICK r \in NodeRec :
          /\ r = [M EXCEPT !.await = M.await \ {"search"}, !.stubs = M.stubs \ {M.usis[1]}]
          /\ r.pc = M.pc /\ r.usis = M.usis /\ r.ply = M.ply /\ r.sink = M.sink
          /\ r.await = M.await \ {"search"}
    <3>1. [M EXCEPT !.await = M.await \ {"search"}, !.stubs = M.stubs \ {M.usis[1]}] \in NodeRec
      BY DEF NodeRec
    <3> QED
      BY <3>1 DEF NodeRec
  <2>3. node' = [node EXCEPT ![o] = r]
    BY <1>3, <2>1, <2>2 DEF Types, NodeRec
  <2>4. /\ r.pc = "await" /\ r.usis = node[o].usis /\ r.ply = node[o].ply /\ r.sink = node[o].sink
        /\ r.await = node[o].await \ {"search"}
    BY <1>1, <1>3, <2>2
  <2> QED
    BY <1>1, <1>2, <1>8, <2>1, <2>3, <2>4, AwaitsOn
<1>9. CASE box[o][1].type = "nomate"
  <2>1. /\ box' = [box EXCEPT ![o] = Tail(@)] /\ eng' = eng
        /\ node' = [node EXCEPT ![o].await = @ \ {"mate"}, ![o].stubs = @ \ {M.usis[2]}]
    BY <1>3, <1>4, <1>9 DEF PresearchTake
  <2>2. PICK r \in NodeRec :
          /\ r = [M EXCEPT !.await = M.await \ {"mate"}, !.stubs = M.stubs \ {M.usis[2]}]
          /\ r.pc = M.pc /\ r.usis = M.usis /\ r.ply = M.ply /\ r.sink = M.sink
          /\ r.await = M.await \ {"mate"}
    <3>1. [M EXCEPT !.await = M.await \ {"mate"}, !.stubs = M.stubs \ {M.usis[2]}] \in NodeRec
      BY DEF NodeRec
    <3> QED
      BY <3>1 DEF NodeRec
  <2>3. node' = [node EXCEPT ![o] = r]
    BY <1>3, <2>1, <2>2 DEF Types, NodeRec
  <2>4. /\ r.pc = "await" /\ r.usis = node[o].usis /\ r.ply = node[o].ply /\ r.sink = node[o].sink
        /\ r.await = node[o].await \ {"mate"}
    BY <1>1, <1>3, <2>2
  <2> QED
    BY <1>1, <1>2, <1>9, <2>1, <2>3, <2>4, AwaitsOn
<1>10. CASE box[o][1].type = "mate" /\ "search" \in node[o].await
  <2>1. /\ box' = [Push(box, o, <<x>>) EXCEPT ![o] = Tail(@)]
        /\ eng' = StopStubs(eng, {node[o].usis[1]})
        /\ node' = [node EXCEPT ![o].pc = "mated", ![o].stubs = @ \ {M.usis[2]}]
    BY <1>3, <1>4, <1>6, <1>10 DEF PresearchTake
  <2>2. PICK r \in NodeRec :
          /\ r = [M EXCEPT !.pc = "mated", !.stubs = M.stubs \ {M.usis[2]}]
          /\ r.pc = "mated" /\ r.usis = M.usis /\ r.ply = M.ply /\ r.sink = M.sink
    <3>1. [M EXCEPT !.pc = "mated", !.stubs = M.stubs \ {M.usis[2]}] \in NodeRec
      BY DEF NodeRec, Pcs
    <3> QED
      BY <3>1 DEF NodeRec
  <2>3. node' = [node EXCEPT ![o] = r]
    BY <1>3, <2>1, <2>2 DEF Types, NodeRec
  <2>4. r.pc = "mated" /\ r.usis = node[o].usis /\ r.ply = node[o].ply /\ r.sink = node[o].sink
    BY <1>3, <2>2
  <2> QED
    BY <1>1, <1>2, <1>6, <1>10, <2>1, <2>3, <2>4, TakeMate
<1>11. CASE box[o][1].type = "mate" /\ "search" \notin node[o].await
  <2>1. EndWith(o, <<x, Stopped>>) /\ eng' = eng
    BY <1>4, <1>6, <1>11 DEF PresearchTake
  <2>2. PICK ms \in Seq(MsgRec) : ms = <<x, Stopped>> /\ Farewell(ms)
    BY <1>6, Farewells, Zenon
  <2>3. EndWith(o, ms)
    BY <2>1, <2>2
  <2>4. Busy(o) = {} /\ Kin(o) = {}
    BY <1>1, <1>2, <1>5, <1>11, AwaitsLoad, NoKin DEF Tree, Waiting
  <2> QED
    BY <1>1, <1>2, <1>5, <2>1, <2>2, <2>3, <2>4, EndedFine
<1>12. \/ box[o][1].type \in {"exact", "stopped", "nomate"}
       \/ box[o][1].type = "mate"
  BY <1>4 DEF PresearchTake
<1> QED
  BY <1>7, <1>8, <1>9, <1>10, <1>11, <1>12

\* A step of a thread that leaves the stubs alone.
LEMMA Stays ==
  ASSUME Types, Tree, NEW o \in Live, NEW r \in NodeRec, node' = [node EXCEPT ![o] = r],
         r.pc \notin Idle, r.usis = node[o].usis, r.ply = node[o].ply, r.sink = node[o].sink,
         node[o].pc \notin {"book", "genmoves"},
         node[o].pc \in Waiting => r.pc \in Waiting,
         r.pc \notin Waiting \/ node[o].pc \in {"count", "collect"},
         r.pc \in Waiting => r.pc \in {"count", "collect"},
         eng' = eng,
         NEW ms \in Seq(MsgRec), News(ms), Mails(o, ms), box' \in [Queue -> Seq(MsgRec)],
         raised' \in BOOLEAN, root' = root, asked' = asked,
         Stage(o)'
  PROVE  Fine
<1>1. \A e \in Engine : AlikeStub(e)
  BY DEF AlikeStub
<1>2. \A e \in Team(o) : WorksFor(e, o)
  BY <1>1, StubsKept
<1>3. /\ eng' \in [Engine -> StubRec] /\ \A e \in Engine \ Team(o) : eng'[e] = eng[e]
      /\ r.pc \notin {"book", "genmoves"} => Len(node[o].usis) >= 2
  BY FirstStubs DEF Types
<1> HIDE DEF Idle, Waiting, News, Mails, WorksFor, Stage, Team
<1> QED
  BY <1>2, <1>3, Onward

LEMMA SameBusyKept ==
  ASSUME eng' = eng
  PROVE  \A q : SameBusy(q)
BY DEF SameBusy, Busy, Open, Kind

LEMMA MateStoppedStep ==
  ASSUME Types, Tree, NEW o \in Node, MateStopped(o)
  PROVE  Fine
<1>1. /\ node[o].pc = "mated" /\ CanFinish(o) /\ raised' = Unexpected(o)
      /\ EndWith(o, <<Stopped>>) /\ eng' = eng /\ root' = root /\ asked' = asked
  BY DEF MateStopped
<1>2. o \in Live /\ o \in Queue
  BY <1>1, Sizes DEF Live
<1>3. Load(o) = 1
  BY <1>1, <1>2 DEF Tree, Stages, Stage, Mated
<1>4. Busy(o) = {} /\ Kin(o) = {}
  BY <1>1, <1>2, <1>3, LastEnd
<1>5. raised' \in BOOLEAN
  BY <1>1, Zenon DEF Unexpected
<1>6. PICK ms \in Seq(MsgRec) : ms = <<Stopped>> /\ Farewell(ms)
  BY Farewells, Zenon
<1>7. EndWith(o, ms)
  BY <1>1, <1>6
<1> QED
  BY <1>1, <1>2, <1>4, <1>5, <1>6, <1>7, EndedFine

LEMMA AwaitsNothing ==
  ASSUME Types, Tree, NEW o \in Live, node[o].pc = "await", node[o].await = {}
  PROVE  Busy(o) = {} /\ box[o] = <<>> /\ Kin(o) = {}
<1>1. Awaits(o)
  BY DEF Tree, Stages, Stage
<1>2. /\ Busy(o) = {} /\ ~Tells(o, {"stopped"}) /\ ~Tells(o, {"mate", "nomate"})
      /\ Says(o, {"exact", "stopped", "mate", "nomate"})
      /\ \A i \in DOMAIN box[o] : box[o][i].type = "exact" =>
            i + 1 \in DOMAIN box[o] /\ box[o][i + 1].type = "stopped"
  BY <1>1 DEF Awaits
<1>3. box[o] \in Seq(MsgRec)
  BY LiveTypes
<1>4. \A i \in DOMAIN box[o] : FALSE
  <2> SUFFICES ASSUME NEW i \in DOMAIN box[o] PROVE FALSE
    OBVIOUS
  <2>1. box[o][i].type \in {"exact", "stopped", "mate", "nomate"}
    BY <1>2 DEF Says
  <2>2. box[o][i].type \notin {"stopped", "mate", "nomate"}
    BY <1>2 DEF Tells
  <2>3. i + 1 \in DOMAIN box[o] /\ box[o][i + 1].type \in {"stopped"}
    BY <1>2, <2>1, <2>2
  <2> QED
    BY <1>2, <2>3, Zenon DEF Tells
<1>5. box[o] = <<>>
  <2>0. PICK s \in Seq(MsgRec) : s = box[o]
    BY <1>3
  <2>4. PICK n \in Nat : n = Len(s) /\ DOMAIN s = 1 .. n
    OBVIOUS
  <2>1. n = Len(box[o]) /\ DOMAIN box[o] = 1 .. n
    BY <2>0, <2>4
  <2>2. n = 0
    BY <1>4, <2>1
  <2>3. Len(box[o]) = 0
    BY <2>1, <2>2, Zenon
  <2> QED
    BY <1>3, <2>3, EmptySeq, Zenon
<1> QED
  BY <1>2, <1>5, NoKin DEF Tree, Waiting

LEMMA PresearchEndStep ==
  ASSUME Types, Tree, NEW o \in Node, PresearchEnd(o)
  PROVE  Fine
<1>1. /\ node[o].pc = "await" /\ node[o].await = {} /\ eng' = eng /\ raised' = raised
      /\ root' = root /\ asked' = asked
  BY DEF PresearchEnd
<1>2. o \in Live
  BY <1>1 DEF Live
<1>3. Busy(o) = {} /\ box[o] = <<>> /\ Kin(o) = {} /\ raised' \in BOOLEAN
  BY <1>1, <1>2, AwaitsNothing DEF Types
<1>4. CASE node[o].stopped
  <2>1. EndWith(o, <<Stopped>>)
    BY <1>4 DEF PresearchEnd
  <2>2. PICK ms \in Seq(MsgRec) : ms = <<Stopped>> /\ Farewell(ms)
    BY Farewells, Zenon
  <2>3. EndWith(o, ms)
    BY <2>1, <2>2
  <2> QED
    BY <1>1, <1>2, <1>3, <2>2, <2>3, EndedFine
<1>5. CASE ~node[o].stopped
  <2>1. PICK M \in NodeRec : M = node[o]
    BY DEF Types
  <2>2. PICK r \in NodeRec : /\ node' = [node EXCEPT ![o] = r] /\ r.pc \in {"split", "forced"}
                             /\ r.usis = node[o].usis /\ r.ply = node[o].ply
                             /\ r.sink = node[o].sink
    <3>1. CASE \E n \in 0 .. MaxKeys : node' = [node EXCEPT ![o].pc = "split", ![o].keys = n]
      <4>1. PICK n \in 0 .. MaxKeys : node' = [node EXCEPT ![o].pc = "split", ![o].keys = n]
        BY <3>1
      <4>2. n \in Nat
        BY Sizes
      <4>3. [M EXCEPT !.pc = "split", !.keys = n] \in NodeRec
        BY <4>2 DEF NodeRec, Pcs
      <4>4. node' = [node EXCEPT ![o] = [M EXCEPT !.pc = "split", !.keys = n]]
        BY <2>1, <4>1 DEF Types
      <4> QED
        BY <2>1, <4>3, <4>4 DEF NodeRec
    <3>2. CASE node' = [node EXCEPT ![o].pc = "forced"]
      <4>3. [M EXCEPT !.pc = "forced"] \in NodeRec
        BY DEF NodeRec, Pcs
      <4>4. node' = [node EXCEPT ![o] = [M EXCEPT !.pc = "forced"]]
        BY <2>1, <3>2 DEF Types
      <4> QED
        BY <2>1, <4>3, <4>4 DEF NodeRec
    <3> QED
      BY <1>5, <3>1, <3>2 DEF PresearchEnd
  <2>3. box' = box /\ node'[o] = r
    BY <1>5, <2>2 DEF PresearchEnd, Types
  <2>4. PICK ms \in Seq(MsgRec) : Mails(o, ms) /\ News(ms) /\ box' \in [Queue -> Seq(MsgRec)]
    <3>1. box[o] \in Seq(MsgRec) /\ box' = [box EXCEPT ![o] = box[o]]
      BY <1>2, <2>3, LiveTypes DEF Types
    <3> QED
      BY <1>2, <3>1, NotPushed, NewsIs DEF Tree
  <2>5. Stage(o)'
    <3>1. Busy(o)' = {} /\ box'[o] = <<>>
      BY <1>1, <1>3, <2>3, SameBusyKept DEF SameBusy
    <3> QED
      BY <2>2, <2>3, <3>1 DEF Stage, Quiet, Waiting
  <2>6. /\ r.pc \notin Idle /\ node[o].pc \notin {"book", "genmoves"}
        /\ node[o].pc \in Waiting => r.pc \in Waiting
        /\ r.pc \notin Waiting \/ node[o].pc \in {"count", "collect"}
        /\ r.pc \in Waiting => r.pc \in {"count", "collect"}
    BY <1>1, <2>2 DEF Idle, Waiting
  <2> HIDE DEF Idle, Waiting, News, Mails, Stage
  <2> QED
    BY <1>1, <1>2, <1>3, <2>2, <2>4, <2>5, <2>6, Stays
<1> QED
  BY <1>4, <1>5

LEMMA TimelessStep ==
  ASSUME Types, Tree, NEW o \in Node, Timeless(o)
  PROVE  Fine
<1>1. /\ node[o].pc = "timeless" /\ box' = box /\ raised' = raised /\ root' = root /\ asked' = asked
      /\ eng' = [eng EXCEPT ![Head(node[o].usis)] = Ask(@, "probability", node[o].pos, o)]
      /\ node' = [node EXCEPT ![o].pc = "probability"]
  BY DEF Timeless
<1>2. o \in Live
  BY <1>1 DEF Live
<1>3. Busy(o) = {} /\ box[o] = <<>> /\ node[o].pc \notin Waiting /\ raised' \in BOOLEAN
  BY <1>1, <1>2 DEF Types, Tree, Stages, Stage, Quiet, Waiting
<1>4. PICK r \in NodeRec : /\ r = [node[o] EXCEPT !.pc = "probability"] /\ r.pc = "probability"
                           /\ r.usis = node[o].usis /\ r.ply = node[o].ply
                           /\ r.sink = node[o].sink
  <2>1. PICK M \in NodeRec : M = node[o]
    BY DEF Types
  <2>2. [M EXCEPT !.pc = "probability"] \in NodeRec
    BY DEF NodeRec, Pcs
  <2> QED
    BY <2>1, <2>2 DEF NodeRec
<1>5. node' = [node EXCEPT ![o] = r] /\ node'[o] = r
  BY <1>1, <1>4 DEF Types
<1>6. PICK ms \in Seq(MsgRec) : Mails(o, ms) /\ News(ms) /\ box' \in [Queue -> Seq(MsgRec)]
  <2>1. box[o] \in Seq(MsgRec) /\ box' = [box EXCEPT ![o] = box[o]]
    BY <1>1, <1>2, LiveTypes DEF Types
  <2> QED
    BY <1>2, <2>1, NotPushed, NewsIs DEF Tree
<1>7. node[o].pos \in Seq(Nat) /\ "probability" \in JobKind /\ Head(node[o].usis) = node[o].usis[1]
  BY <1>2, FirstStubs DEF Types, NodeRec, JobKind
<1>8. /\ eng' \in [Engine -> StubRec] /\ \A e \in Engine \ Team(o) : eng'[e] = eng[e]
      /\ \A e \in Team(o) : WorksFor(e, o)
      /\ OneAnswer(o, "probability", {"moves"})'
  <2>1. /\ eng' = [eng EXCEPT ![node[o].usis[1]] = Ask(@, "probability", node[o].pos, o)]
        /\ node'[o].usis = node[o].usis /\ box'[o] = <<>>
    BY <1>1, <1>3, <1>4, <1>5, <1>7
  <2> QED
    BY <1>2, <1>3, <1>7, <2>1, AsksFirst
<1>9. Stage(o)'
  BY <1>4, <1>5, <1>8 DEF Stage, Waiting
<1>10. /\ r.pc \notin Idle
       /\ node[o].pc \in Waiting => r.pc \in Waiting
       /\ r.pc \notin {"book", "genmoves"} => Len(node[o].usis) >= 2
       /\ r.pc \notin Waiting \/ node[o].pc \in {"count", "collect"}
       /\ r.pc \in Waiting => r.pc \in {"count", "collect"}
  BY <1>1, <1>2, <1>4, FirstStubs DEF Idle, Waiting
<1> HIDE DEF Idle, Waiting, News, Mails, WorksFor, Stage, Team
<1> QED
  BY <1>1, <1>2, <1>3, <1>4, <1>5, <1>6, <1>8, <1>9, <1>10, Onward

LEMMA ProbabilityStep ==
  ASSUME Types, Tree, NEW o \in Node, ProbabilityAnswered(o)
  PROVE  Fine
<1>1. /\ node[o].pc = "probability" /\ box[o] # <<>> /\ eng' = eng /\ raised' = raised
      /\ root' = root /\ asked' = asked /\ box' = [box EXCEPT ![o] = Tail(@)]
      /\ node' = [node EXCEPT ![o].pc = "split", ![o].keys = Head(box[o]).n]
  BY DEF ProbabilityAnswered
<1>2. o \in Live
  BY <1>1 DEF Live
<1>3. OneAnswer(o, "probability", {"moves"}) /\ raised' \in BOOLEAN
  BY <1>1, <1>2 DEF Types, Tree, Stages, Stage
<1>4. Busy(o) = {} /\ Len(box[o]) = 1 /\ box[o] \in Seq(MsgRec) /\ o \in Queue
  BY <1>1, <1>2, <1>3, LiveTypes DEF OneAnswer
<1>5. Tail(box[o]) \in Seq(MsgRec) /\ Len(Tail(box[o])) = 0 /\ Head(box[o]) \in MsgRec
  BY <1>1, <1>4, StopsTaken
<1>6. PICK b \in Seq(MsgRec) : b = <<>> /\ box' = [box EXCEPT ![o] = b]
  <2>1. Tail(box[o]) = <<>>
    BY <1>5, EmptySeq, Zenon
  <2> QED
    BY <1>1, <1>4, <1>5, <2>1 DEF Types
<1>7. PICK n \in Nat : n = Head(box[o]).n
  BY <1>5 DEF MsgRec
<1>8. PICK r \in NodeRec : /\ node' = [node EXCEPT ![o] = r] /\ r.pc = "split"
                           /\ r.usis = node[o].usis /\ r.ply = node[o].ply
                           /\ r.sink = node[o].sink
  <2>1. PICK M \in NodeRec : M = node[o]
    BY DEF Types
  <2>2. [M EXCEPT !.pc = "split", !.keys = n] \in NodeRec
    BY DEF NodeRec, Pcs
  <2>3. node' = [node EXCEPT ![o] = [M EXCEPT !.pc = "split", !.keys = n]]
    BY <1>1, <1>7, <2>1 DEF Types
  <2> QED
    BY <2>1, <2>2, <2>3 DEF NodeRec
<1>9. PICK ms \in Seq(MsgRec) : /\ Mails(o, ms) /\ News(ms) /\ box'[o] = <<>>
                                /\ box' \in [Queue -> Seq(MsgRec)]
  BY <1>2, <1>6, NotPushed, NewsIs DEF Tree
<1>10. node'[o] = r
  BY <1>8 DEF Types
<1>11. Stage(o)'
  <2>1. Busy(o)' = {}
    BY <1>1, <1>4, SameBusyKept DEF SameBusy
  <2> QED
    BY <1>8, <1>9, <1>10, <2>1 DEF Stage, Quiet, Waiting
<1>12. /\ r.pc \notin Idle /\ node[o].pc \notin {"book", "genmoves"}
       /\ node[o].pc \in Waiting => r.pc \in Waiting
       /\ r.pc \notin Waiting \/ node[o].pc \in {"count", "collect"}
       /\ r.pc \in Waiting => r.pc \in {"count", "collect"}
  BY <1>1, <1>8 DEF Idle, Waiting
<1> HIDE DEF Idle, Waiting, News, Mails, Stage
<1> QED
  BY <1>1, <1>2, <1>3, <1>8, <1>9, <1>11, <1>12, Stays

LEMMA CollectEndStep ==
  ASSUME Types, Tree, NEW o \in Node, CollectEnd(o)
  PROVE  Fine
<1>1. /\ node[o].pc = "collect" /\ node[o].stops >= node[o].count
      /\ EndWith(o, <<Stopped>>) /\ eng' = eng /\ raised' = raised
      /\ root' = root /\ asked' = asked
  BY DEF CollectEnd
<1>2. o \in Live /\ o \in Queue
  BY <1>1, Sizes DEF Live
<1>3. node[o].stops + Load(o) = node[o].count
  BY <1>1, <1>2 DEF Tree, Stages, Stage
<1>4. node[o].stops \in Nat /\ node[o].count \in Nat /\ Load(o) \in Nat /\ raised' \in BOOLEAN
  BY <1>1, <1>2, LoadType DEF Types, NodeRec
<1>5. Busy(o) = {} /\ Kin(o) = {}
  BY <1>1, <1>2, <1>3, <1>4, NoLoad
<1>6. PICK ms \in Seq(MsgRec) : ms = <<Stopped>> /\ Farewell(ms)
  BY Farewells, Zenon
<1>7. EndWith(o, ms)
  BY <1>1, <1>6
<1> QED
  BY <1>1, <1>2, <1>4, <1>5, <1>6, <1>7, EndedFine

\* Who lives is not changed by a thread that goes on.
LEMMA SameKin ==
  ASSUME Types, NEW o \in Live, NEW r, node' = [node EXCEPT ![o] = r],
         r.pc \notin Idle, r.sink = node[o].sink
  PROVE  Live' = Live /\ \A q : Kin(q)' = Kin(q)
<1>1. o \in Node /\ node'[o] = r /\ \A p \in Node \ {o} : node'[p] = node[p]
  BY DEF Live, Types
<1>2. node[o].pc \notin Idle
  BY DEF Live, Idle
<1>3. \A p \in Node : (node'[p].pc \in Idle <=> node[p].pc \in Idle) /\ node'[p].sink = node[p].sink
  BY <1>1, <1>2
<1>4. Live' = Live
  BY <1>3 DEF Live, Idle
<1> QED
  BY <1>3, <1>4 DEF Kin, Live

LEMMA SplitNothingStep ==
  ASSUME Types, Tree, NEW o \in Node, SplitNothing(o)
  PROVE  Fine
<1>1. node[o].pc = "split" /\ root' = root /\ asked' = asked
  BY DEF SplitNothing
<1>2. o \in Live
  BY <1>1 DEF Live
<1>3. Busy(o) = {} /\ box[o] = <<>> /\ Kin(o) = {} /\ node[o].pc \notin Waiting
  BY <1>1, <1>2, NoKin DEF Tree, Stages, Stage, Quiet, Waiting
<1>4. raised \in BOOLEAN /\ (\A d \in Engine : Refuses(d) \in BOOLEAN)
      /\ Head(node[o].usis) \in Engine
  BY <1>2, FirstStubs DEF Types, StubRec, Refuses
<1>5. CASE node[o].stopped
  <2>1. EndWith(o, <<Stopped>>) /\ eng' = eng /\ raised' = raised
    BY <1>5 DEF SplitNothing
  <2>2. PICK ms \in Seq(MsgRec) : ms = <<Stopped>> /\ Farewell(ms)
    BY Farewells, Zenon
  <2>3. EndWith(o, ms)
    BY <2>1, <2>2
  <2> QED
    BY <1>1, <1>2, <1>3, <1>4, <2>1, <2>2, <2>3, EndedFine
<1>6. CASE ~node[o].stopped
  <2>1. PICK h : h = Head(node[o].usis)
    OBVIOUS
  <2>2. PICK g : g = Search(eng[h], node[o].pos, FALSE, node[o].sink)
    OBVIOUS
  <2>3. /\ node' = [node EXCEPT ![o] = SingleNode(node[o])] /\ box' = box
        /\ eng' = [eng EXCEPT ![h] = g] /\ raised' = Refuses(h)
    BY <1>6, <2>1, <2>2 DEF SplitNothing
  <2>4. \E own \in BOOLEAN : g = Go(eng[h], "search", node[o].pos, own, node[o].sink)
    BY <2>2, Zenon DEF Search
  <2>5. PICK b \in Seq(MsgRec) : box' = [box EXCEPT ![o] = b]
    <3>1. box[o] \in Seq(MsgRec) /\ box' = [box EXCEPT ![o] = box[o]]
      BY <1>2, <2>3, LiveTypes DEF Types
    <3> QED
      BY <3>1
  <2>6. raised' \in BOOLEAN
    BY <1>4, <2>1, <2>3
  <2> QED
    BY <1>1, <1>2, <1>3, <2>1, <2>3, <2>4, <2>5, <2>6, HandedOver
<1> QED
  BY <1>5, <1>6

LEMMA ForcedStoppedStep ==
  ASSUME Types, Tree, NEW o \in Node, ForcedStopped(o)
  PROVE  Fine
<1>1. /\ node[o].pc = "forcedwait" /\ CanFinish(o)
      /\ eng' = eng /\ root' = root /\ asked' = asked
  BY DEF ForcedStopped
<1>2. o \in Live /\ o \in Queue
  BY <1>1, Sizes DEF Live
<1>3. Load(o) = 1
  BY <1>1, <1>2 DEF Tree, Stages, Stage
<1>4. Busy(o) = {} /\ Kin(o) = {}
  BY <1>1, <1>2, <1>3, LastEnd
<1>5. Unexpected(o) \in BOOLEAN
  BY Zenon DEF Unexpected
<1>6. CASE node[o].stopped
  <2>1. EndWith(o, <<Stopped>>) /\ raised' = Unexpected(o)
    BY <1>6 DEF ForcedStopped
  <2>2. PICK ms \in Seq(MsgRec) : ms = <<Stopped>> /\ Farewell(ms)
    BY Farewells, Zenon
  <2>3. EndWith(o, ms) /\ raised' \in BOOLEAN
    BY <1>5, <2>1, <2>2
  <2> QED
    BY <1>1, <1>2, <1>4, <2>2, <2>3, EndedFine
<1>7. CASE ~node[o].stopped /\ WaitStopped(o) = <<>>
  <2>1. node' = node /\ box' = box /\ raised' = TRUE
    BY <1>7 DEF ForcedStopped
  <2>2. Types'
    BY <1>1, <2>1 DEF Types
  <2>3. /\ \A p \in Live : Alike(p)
        /\ \A p \in Node \ Live : node'[p].pc \in Idle
        /\ \A e \in Engine : AlikeStub(e)
        /\ \A q \in Queue : box'[q] = box[q]
    BY <1>1, <2>1 DEF Alike, Live, Idle, AlikeStub
  <2>4. \A q \in External : Says(q, Results)'
    BY <2>1, Sizes DEF Tree, Stages, Reported, Says
  <2>5. Tree' /\ \A q \in Queue : Loads(q)
    <3>1. \A q \in Queue \ External : box'[q] = box[q]
      BY <2>3
    <3> HIDE DEF Alike, AlikeStub, Loads, Says, Live, Idle
    <3> QED
      BY <2>2, <2>3, <2>4, <3>1, QuietStep
  <2> QED
    BY <2>2, <2>5, Sizes DEF Fine
<1>8. CASE ~node[o].stopped /\ WaitStopped(o) # <<>>
  <2>1. PICK v \in Val : v = Top - Head(WaitStopped(o)).val
    <3>1. WaitStopped(o) \in Seq(MsgRec)
      BY <1>1, <1>2, FirstIsFirst
    <3>2. Head(WaitStopped(o)) \in MsgRec
      BY <1>8, <3>1
    <3>3. Head(WaitStopped(o)).val \in Val
      BY <3>2 DEF MsgRec
    <3> QED
      BY <3>3, Sizes
  <2>2. EndWith(o, <<Report(o, "exact", v), Stopped>>) /\ raised' = Unexpected(o)
    BY <1>8, <2>1 DEF ForcedStopped
  <2>3. PICK x \in MsgRec : x = Report(o, "exact", v) /\ x.type = "exact"
    BY ReportsAre, Zenon
  <2>4. PICK ms \in Seq(MsgRec) : ms = <<x, Stopped>> /\ Farewell(ms)
    BY <2>3, Farewells, Zenon
  <2>5. EndWith(o, ms) /\ raised' \in BOOLEAN
    BY <1>5, <2>2, <2>3, <2>4
  <2> QED
    BY <1>1, <1>2, <1>4, <2>4, <2>5, EndedFine
<1> QED
  BY <1>6, <1>7, <1>8

\* The load of an object that takes a message.
LEMMA TakenLoad ==
  ASSUME Types, NEW o \in Live, Kin(o)' = Kin(o),
         SameBusy(o), Reported(o), box[o] # <<>>, box'[o] = Tail(box[o])
  PROVE  /\ Reported(o)'
         /\ box[o][1].type = "stopped" => Load(o) = Load(o)' + 1 /\ Load(o)' \in Nat
         /\ box[o][1].type # "stopped" => Load(o)' = Load(o)
<1>1. Kin(o)' = Kin(o) /\ Busy(o)' = Busy(o)
  BY DEF SameBusy
<1>2. o \in Queue /\ box[o] \in Seq(MsgRec)
  BY LiveTypes
<1>3. PICK s \in Seq(MsgRec), t \in Seq(MsgRec) : s = box[o] /\ t = Tail(s) /\ t = box'[o] /\ s # <<>>
  BY <1>2, StopsTaken
<1>4. StoppedAt(o) = Stops(s) /\ StoppedAt(o)' = Stops(t)
  BY <1>3 DEF StoppedAt, Stops
<1>5. /\ s[1].type # "stopped" => Cardinality(Stops(t)) = Cardinality(Stops(s))
      /\ s[1].type = "stopped" =>
           1 \in Stops(s) /\ Cardinality(Stops(t)) = Cardinality(Stops(s)) - 1
  BY <1>3, StopsTaken
<1>6. /\ Cardinality(Busy(o)) \in Nat /\ Cardinality(Kin(o)) \in Nat
      /\ Cardinality(Stops(s)) \in Nat /\ Cardinality(Stops(t)) \in Nat
  BY <1>2, LoadType, StopsFinite
<1>7. Reported(o)'
  <2>1. \A i \in DOMAIN t : t[i].type \in Results
    <3> SUFFICES ASSUME NEW i \in DOMAIN t PROVE t[i].type \in Results
      OBVIOUS
    <3>1. i + 1 \in DOMAIN s /\ t[i] = s[i + 1]
      BY <1>3, StopsTaken
    <3> QED
      BY <1>3, <3>1 DEF Reported, Says
  <2> QED
    BY <1>3, <2>1 DEF Reported, Says, SameBusy
<1>8. /\ Load(o) = Cardinality(Busy(o)) + Cardinality(Kin(o)) + Cardinality(Stops(s))
      /\ Load(o)' = Cardinality(Busy(o)) + Cardinality(Kin(o)) + Cardinality(Stops(t))
  BY <1>1, <1>4 DEF Load
<1> QED
  BY <1>3, <1>5, <1>6, <1>7, <1>8

LEMMA CollectStoppedStep ==
  ASSUME Types, Tree, NEW o \in Node, CollectStopped(o)
  PROVE  Fine
<1>1. /\ node[o].pc = "collect" /\ box[o] # <<>> /\ Head(box[o]).type = "stopped"
      /\ box' = [box EXCEPT ![o] = Tail(@)] /\ node' = [node EXCEPT ![o].stops = @ + 1]
      /\ eng' = eng /\ raised' = raised /\ root' = root /\ asked' = asked
  BY DEF CollectStopped
<1>2. o \in Live
  BY <1>1 DEF Live
<1>3. /\ box[o] \in Seq(MsgRec) /\ Tail(box[o]) \in Seq(MsgRec) /\ o \in Queue
      /\ Head(box[o]) = box[o][1] /\ raised' \in BOOLEAN
  BY <1>1, <1>2, LiveTypes, StopsTaken DEF Types
<1>4. PICK r \in NodeRec : /\ node' = [node EXCEPT ![o] = r] /\ r.pc = "collect"
                           /\ r.usis = node[o].usis /\ r.ply = node[o].ply
                           /\ r.sink = node[o].sink /\ r.count = node[o].count
                           /\ r.stops = node[o].stops + 1
  <2>1. PICK M \in NodeRec : M = node[o]
    BY DEF Types
  <2>0. PICK k \in Nat : k = M.stops + 1
    BY DEF NodeRec
  <2>2. [M EXCEPT !.stops = k] \in NodeRec
    BY DEF NodeRec
  <2>3. node' = [node EXCEPT ![o] = [M EXCEPT !.stops = k]]
    BY <1>1, <2>0, <2>1 DEF Types
  <2> QED
    BY <1>1, <2>0, <2>1, <2>2, <2>3 DEF NodeRec
<1>5. PICK b \in Seq(MsgRec) : b = Tail(box[o]) /\ box' = [box EXCEPT ![o] = b]
  BY <1>1, <1>3 DEF Types
<1>6. PICK ms \in Seq(MsgRec) : /\ Mails(o, ms) /\ News(ms) /\ box'[o] = b
                                /\ box' \in [Queue -> Seq(MsgRec)]
  BY <1>2, <1>5, NotPushed, NewsIs DEF Tree
<1>7. r.pc \notin Idle /\ node'[o] = r
  BY <1>4 DEF Idle, Types
<1>8. Reported(o) /\ node[o].stops + Load(o) = node[o].count
  BY <1>1, <1>2 DEF Tree, Stages, Stage, Waiting
<1>9. Reported(o)' /\ Load(o) = Load(o)' + 1 /\ Load(o)' \in Nat
  <2>1. Kin(o)' = Kin(o) /\ SameBusy(o)
    BY <1>1, <1>2, <1>4, <1>7, SameKin, SameBusyKept
  <2> QED
    BY <1>1, <1>2, <1>3, <1>5, <1>6, <1>8, <2>1, TakenLoad
<1>10. node[o].stops \in Nat /\ node[o].count \in Nat
  BY DEF Types, NodeRec
<1>11. node'[o].stops + Load(o)' = node'[o].count
  <2>1. PICK k \in Nat, c \in Nat, x \in Nat :
          k = node[o].stops /\ c = node[o].count /\ x = Load(o)'
    BY <1>9, <1>10
  <2>2. k + (x + 1) = c
    BY <1>8, <1>9, <2>1
  <2>3. (k + 1) + x = c
    BY <2>2
  <2>4. node'[o].stops = k + 1 /\ node'[o].count = c
    BY <1>4, <1>7, <2>1
  <2> QED
    BY <2>1, <2>3, <2>4
<1>12. Stage(o)'
  BY <1>4, <1>7, <1>9, <1>11 DEF Stage, Waiting
<1>13. /\ node[o].pc \notin {"book", "genmoves"}
       /\ node[o].pc \in Waiting => r.pc \in Waiting
       /\ r.pc \notin Waiting \/ node[o].pc \in {"count", "collect"}
       /\ r.pc \in Waiting => r.pc \in {"count", "collect"}
  BY <1>1, <1>4 DEF Waiting
<1> HIDE DEF Idle, Waiting, News, Mails, Stage
<1> QED
  BY <1>1, <1>2, <1>3, <1>4, <1>6, <1>7, <1>12, <1>13, Stays

LEMMA CountStep ==
  ASSUME Types, Tree, NEW o \in Node, Count(o)
  PROVE  Fine
<1> DEFINE n == Cardinality(node[o].kids) + Cardinality(node[o].stubs)
<1>1. /\ node[o].pc = "count"
      /\ node' = [node EXCEPT ![o].pc = "collect", ![o].count = n, ![o].stops = 0,
                              ![o].bounds = [i \in 1 .. n |-> -1], ![o].maxval = -1]
      /\ eng' = eng /\ box' = box /\ raised' = raised /\ root' = root /\ asked' = asked
  BY DEF Count
<1>2. PICK k : k = n
  OBVIOUS
<1>3. o \in Live
  BY <1>1 DEF Live
<1>4. Load(o) = k /\ Reported(o)
  BY <1>1, <1>2, <1>3 DEF Tree, Stages, Stage, Waiting
<1>5. Load(o) \in Nat /\ o \in Queue /\ raised' \in BOOLEAN
  BY <1>1, <1>3, LiveTypes, LoadType DEF Types
<1>6. PICK r \in NodeRec : /\ node' = [node EXCEPT ![o] = r] /\ r.pc = "collect"
                           /\ r.usis = node[o].usis /\ r.ply = node[o].ply
                           /\ r.sink = node[o].sink /\ r.count = k /\ r.stops = 0
  <2>1. PICK M \in NodeRec : M = node[o]
    BY DEF Types
  <2>7. PICK S : S = Val \cup {-1}
    OBVIOUS
  <2>2. S = Val \cup {-1} /\ -1 \in S
    BY <2>7, Zenon
  <2>3. PICK bs \in Seq(S) : bs = [i \in 1 .. k |-> -1]
    <3>1. PICK x \in S : x = -1
      BY <2>2, Zenon
    <3>2. k \in Nat
      BY <1>4, <1>5
    <3>3. [i \in 1 .. k |-> x] \in Seq(S)
      BY <3>2
    <3> QED
      BY <3>1, <3>3, Zenon
  <2>4. PICK r : r = [M EXCEPT !.pc = "collect", !.count = k, !.stops = 0, !.bounds = bs, !.maxval = -1]
    OBVIOUS
  <2>5. r \in NodeRec /\ r.pc = "collect" /\ r.usis = M.usis /\ r.ply = M.ply
        /\ r.sink = M.sink /\ r.count = k /\ r.stops = 0
    BY <1>4, <1>5, <2>2, <2>4 DEF NodeRec, Pcs, Waiting
  <2>6. node' = [node EXCEPT ![o] = r]
    BY <1>1, <1>2, <2>1, <2>3, <2>4 DEF Types
  <2> QED
    BY <2>1, <2>5, <2>6
<1>7. r.pc \notin Idle /\ node'[o] = r
  BY <1>6 DEF Idle, Types
<1>8. PICK ms \in Seq(MsgRec) : /\ Mails(o, ms) /\ News(ms) /\ box' \in [Queue -> Seq(MsgRec)]
  <2>1. box[o] \in Seq(MsgRec) /\ box' = [box EXCEPT ![o] = box[o]]
    BY <1>1, <1>3, LiveTypes DEF Types
  <2> QED
    BY <1>3, <2>1, NotPushed, NewsIs DEF Tree
<1>9. Reported(o)' /\ Load(o)' = Load(o)
  <2>1. Kin(o)' = Kin(o) /\ SameBusy(o)
    BY <1>1, <1>3, <1>6, <1>7, SameKin, SameBusyKept
  <2> QED
    BY <1>1, <1>4, <2>1 DEF Load, Reported, Says, SameBusy, StoppedAt
<1>10. Stage(o)'
  BY <1>4, <1>5, <1>6, <1>7, <1>9 DEF Stage, Waiting
<1>11. /\ node[o].pc \notin {"book", "genmoves"}
       /\ node[o].pc \in Waiting => r.pc \in Waiting
       /\ r.pc \notin Waiting \/ node[o].pc \in {"count", "collect"}
       /\ r.pc \in Waiting => r.pc \in {"count", "collect"}
  BY <1>1, <1>6 DEF Waiting
<1> HIDE DEF Idle, Waiting, News, Mails, Stage
<1> QED
  BY <1>1, <1>3, <1>5, <1>6, <1>7, <1>8, <1>10, <1>11, Stays

-----------------------------------------------------------------------------
(* Stops. *)

LEMMA StoppedNodes ==
  ASSUME NEW n \in [Node -> NodeRec], NEW S
  PROVE  /\ StopNodes(n, S) \in [Node -> NodeRec]
         /\ \A p \in Node :
              /\ StopNodes(n, S)[p].pc = n[p].pc /\ StopNodes(n, S)[p].usis = n[p].usis
              /\ StopNodes(n, S)[p].ply = n[p].ply /\ StopNodes(n, S)[p].sink = n[p].sink
              /\ StopNodes(n, S)[p].await = n[p].await /\ StopNodes(n, S)[p].count = n[p].count
              /\ StopNodes(n, S)[p].stops = n[p].stops
         /\ \A p \in Node : p \notin Reach(n, S) => StopNodes(n, S)[p] = n[p]
<1>1. \A p \in Node :
        /\ p \in Reach(n, S) =>
             StopNodes(n, S)[p] = [n[p] EXCEPT !.stopped = TRUE, !.stubs = {}, !.kids = {}]
        /\ p \notin Reach(n, S) => StopNodes(n, S)[p] = n[p]
  BY DEF StopNodes
<1>2. ASSUME NEW p \in Node
      PROVE  /\ StopNodes(n, S)[p] \in NodeRec
             /\ StopNodes(n, S)[p].pc = n[p].pc /\ StopNodes(n, S)[p].usis = n[p].usis
             /\ StopNodes(n, S)[p].ply = n[p].ply /\ StopNodes(n, S)[p].sink = n[p].sink
             /\ StopNodes(n, S)[p].await = n[p].await /\ StopNodes(n, S)[p].count = n[p].count
             /\ StopNodes(n, S)[p].stops = n[p].stops
  <2>1. PICK M \in NodeRec : M = n[p]
    OBVIOUS
  <2>2. CASE p \in Reach(n, S)
    <3>1. StopNodes(n, S)[p] = [M EXCEPT !.stopped = TRUE, !.stubs = {}, !.kids = {}]
      BY <1>1, <2>1, <2>2
    <3>2. PICK b \in BOOLEAN : b = TRUE
      OBVIOUS
    <3>3. StopNodes(n, S)[p] = [M EXCEPT !.stopped = b, !.stubs = {}, !.kids = {}]
      BY <3>1, <3>2, Zenon
    <3>4. [M EXCEPT !.stopped = b, !.stubs = {}, !.kids = {}] \in NodeRec
      BY DEF NodeRec
    <3> QED
      BY <2>1, <3>3, <3>4 DEF NodeRec
  <2>3. CASE p \notin Reach(n, S)
    BY <1>1, <2>3
  <2> QED
    BY <2>2, <2>3
<1>3. StopNodes(n, S) \in [Node -> NodeRec]
  BY <1>2 DEF StopNodes
<1> QED
  BY <1>1, <1>2, <1>3

LEMMA StoppedStubs ==
  ASSUME Types, NEW S, eng' = StopStubs(eng, S)
  PROVE  eng' \in [Engine -> StubRec] /\ \A e \in Engine : AlikeStub(e)
<1>1. \A e \in Engine : eng'[e] = [eng[e] EXCEPT !.stopped = @ \/ e \in S]
  BY DEF StopStubs
<1>2. ASSUME NEW e \in Engine
      PROVE  /\ eng'[e] \in StubRec /\ eng'[e].jobs = eng[e].jobs
             /\ eng'[e].sink = eng[e].sink /\ eng'[e].searching = eng[e].searching
  <2>1. PICK s \in StubRec : s = eng[e]
    BY DEF Types
  <2>2. eng'[e] = [s EXCEPT !.stopped = @ \/ e \in S]
    BY <1>1, <2>1
  <2>3. PICK b \in BOOLEAN : b = (s.stopped \/ e \in S)
    BY Zenon
  <2>4. eng'[e] = [s EXCEPT !.stopped = b]
    BY <2>2, <2>3, Zenon
  <2>5. [s EXCEPT !.stopped = b] \in StubRec
    BY DEF StubRec
  <2> QED
    BY <2>1, <2>4, <2>5 DEF StubRec
<1>3. eng' \in [Engine -> StubRec]
  BY <1>2 DEF StopStubs
<1> QED
  BY <1>2, <1>3 DEF AlikeStub

LEMMA NotedType ==
  ASSUME NEW M \in NodeRec, NEW m \in MsgRec
  PROVE  /\ Noted(M, m) \in NodeRec
         /\ Noted(M, m).pc = M.pc /\ Noted(M, m).usis = M.usis /\ Noted(M, m).ply = M.ply
         /\ Noted(M, m).sink = M.sink /\ Noted(M, m).await = M.await
         /\ Noted(M, m).count = M.count /\ Noted(M, m).stops = M.stops
<1>1. PICK v \in Val : v = ValueAt(m)
  BY Sizes DEF ValueAt, MsgRec
<1>2. PICK S : S = Val \cup {-1}
  OBVIOUS
<1>3. Val \subseteq S /\ M.maxval \in S /\ M.bounds \in Seq(S)
  BY <1>2 DEF NodeRec
<1>4. PICK w \in S : w = IF m.type = "exact" /\ M.maxval < v THEN v ELSE M.maxval
  BY <1>3
<1>5. PICK bs \in Seq(S) : bs = [M.bounds EXCEPT ![Searcher(M, m)] = v]
  <2>1. PICK f \in Seq(S) : f = M.bounds
    BY <1>3
  <2>2. PICK k : k = Searcher(M, m)
    OBVIOUS
  <2>3. [f EXCEPT ![k] = v] \in Seq(S)
    <3>1. CASE k \in 1 .. Len(f)
      BY <1>3, <3>1, ExceptSeq
    <3>2. CASE k \notin 1 .. Len(f)
      <4>1. [f EXCEPT ![k] = v] = f
        BY <3>2
      <4> QED
        BY <4>1
    <3> QED
      BY <3>1, <3>2
  <2> QED
    BY <2>1, <2>2, <2>3, Zenon
<1>6. Noted(M, m) = [M EXCEPT !.bounds = bs, !.maxval = w]
  BY <1>1, <1>4, <1>5 DEF Noted
<1>7. [M EXCEPT !.bounds = bs, !.maxval = w] \in NodeRec
  BY <1>2 DEF NodeRec
<1> QED
  BY <1>6, <1>7 DEF NodeRec

\* What the exclusion of such a stop says of one step.
LEMMA Outside ==
  ASSUME [~StopsBetween]_vars PROVE ~StopsBetween
BY DEF StopsBetween, vars

LEMMA ClientStopStep ==
  ASSUME Types, Tree, ~StopsBetween, ClientStop
  PROVE  Fine
<1>1. /\ node' = StopNodes(node, {root}) /\ eng' = StopStubs(eng, StubsOf(node, {root}))
      /\ box' = box /\ raised' = raised /\ root' = root /\ asked' = TRUE
  BY DEF ClientStop
<1>2. node \in [Node -> NodeRec]
  BY DEF Types
<1>3. eng' \in [Engine -> StubRec] /\ \A e \in Engine : AlikeStub(e)
  BY <1>1, StoppedStubs
<1>4. Types'
  BY <1>1, <1>2, <1>3, StoppedNodes DEF Types
<1>5. \A p \in Node : Alike(p)
  <2> SUFFICES ASSUME NEW p \in Node PROVE Alike(p)
    OBVIOUS
  <2>1. node'[p].pc = node[p].pc
    BY <1>1, <1>2, StoppedNodes
  <2>2. node[p].pc = "count" => node'[p] = node[p]
    BY <2>1 DEF StopsBetween
  <2> QED
    BY <1>1, <1>2, <2>2, StoppedNodes DEF Alike
<1>6. (\A p \in Live : Alike(p)) /\ \A p \in Node \ Live : node'[p].pc \in Idle
  BY <1>5 DEF Live, Alike, Idle
<1>7. (\A q \in Queue : box'[q] = box[q]) /\ \A q \in External : Says(q, Results)'
  BY <1>1 DEF Tree, Stages, Reported, Says
<1>8. Tree' /\ \A q \in Queue : Loads(q)
  <2>1. \A q \in Queue \ External : box'[q] = box[q]
    BY <1>7
  <2> HIDE DEF Alike, AlikeStub, Loads, Says, Live, Idle
  <2> QED
    BY <1>3, <1>4, <1>6, <1>7, <2>1, QuietStep
<1> QED
  BY <1>4, <1>8, Sizes DEF Fine

LEMMA CollectStep ==
  ASSUME Types, Tree, ~StopsBetween, NEW o \in Node, Collect(o)
  PROVE  Fine
<1>1. /\ node[o].pc = "collect" /\ box[o] # <<>> /\ Head(box[o]).type # "stopped"
      /\ raised' = raised /\ root' = root /\ asked' = asked
  BY DEF Collect
<1>2. o \in Live
  BY <1>1 DEF Live
<1>3. /\ box[o] \in Seq(MsgRec) /\ Tail(box[o]) \in Seq(MsgRec) /\ o \in Queue
      /\ Head(box[o]) = box[o][1] /\ raised' \in BOOLEAN /\ Head(box[o]) \in MsgRec
  BY <1>1, <1>2, LiveTypes, StopsTaken DEF Types
<1>4. PICK M \in NodeRec, m \in MsgRec : M = node[o] /\ m = Head(box[o])
  BY <1>3 DEF Types
<1>5. PICK A \in NodeRec :
        /\ A = Noted(M, m) /\ A.pc = M.pc /\ A.usis = M.usis /\ A.ply = M.ply
        /\ A.sink = M.sink /\ A.await = M.await /\ A.count = M.count /\ A.stops = M.stops
  BY NotedType
<1>6. PICK n \in [Node -> NodeRec] :
        /\ n = [node EXCEPT ![o] = A] /\ n[o] = A /\ \A p \in Node \ {o} : n[p] = node[p]
  <2>1. PICK f \in [Node -> NodeRec] : f = node
    BY DEF Types
  <2>2. [f EXCEPT ![o] = A] \in [Node -> NodeRec]
    OBVIOUS
  <2>3. [f EXCEPT ![o] = A][o] = A /\ \A p \in Node \ {o} : [f EXCEPT ![o] = A][p] = f[p]
    OBVIOUS
  <2> QED
    BY <2>1, <2>2, <2>3
<1>7. PICK b \in Seq(MsgRec) : b = Tail(box[o])
  BY <1>3
<1>8. Reported(o) /\ node[o].stops + Load(o) = node[o].count
  BY <1>1, <1>2 DEF Tree, Stages, Stage, Waiting
<1>9. node[o].sink # o /\ node[o].sink \in Queue
  BY <1>2, SinkApart DEF Tree
<1>10. CASE ~IsFinal(A.maxval, A.bounds)
  <2>1. /\ box' = [(IF A.maxval > M.maxval
                    THEN Push(box, o, <<Report(o, "update", A.maxval)>>) ELSE box)
                     EXCEPT ![o] = Tail(@)]
        /\ node' = [node EXCEPT ![o] = A] /\ eng' = eng
    BY <1>4, <1>5, <1>10 DEF Collect
  <2>2. PICK ms \in Seq(MsgRec) : /\ Mails(o, ms) /\ News(ms) /\ box'[o] = b
                                  /\ box' \in [Queue -> Seq(MsgRec)]
    <3>1. CASE A.maxval > M.maxval
      <4>1. A.maxval \in Val
        <5>1. A.maxval \in Val \cup {-1} /\ M.maxval \in Val \cup {-1}
          BY DEF NodeRec
        <5>2. M.maxval \in Int /\ M.maxval >= -1
          BY <5>1, Sizes
        <5>3. A.maxval # -1
          BY <3>1, <5>2
        <5> QED
          BY <5>1, <5>3
      <4>2. PICK x \in MsgRec : x = Report(o, "update", A.maxval) /\ x.type = "update"
        BY <4>1, ReportsAre, Zenon
      <4>3. PICK ms \in Seq(MsgRec) : ms = <<x>> /\ News(ms)
        BY <4>2, NewsIs
      <4>4. box' = [Push(box, o, ms) EXCEPT ![o] = b]
        <5>1. Push(box, o, ms)[o] = box[o]
          BY <1>3, <1>9 DEF Push, Types
        <5>2. box' = [Push(box, o, ms) EXCEPT ![o] = Tail(Push(box, o, ms)[o])]
          BY <2>1, <3>1, <4>2, <4>3
        <5> QED
          BY <1>7, <5>1, <5>2
      <4> QED
        BY <1>2, <4>3, <4>4, Pushed DEF Tree
    <3>2. CASE ~(A.maxval > M.maxval)
      <4>1. box' = [box EXCEPT ![o] = b]
        BY <1>3, <1>7, <2>1, <3>2 DEF Types
      <4> QED
        BY <1>2, <4>1, NotPushed, NewsIs DEF Tree
    <3> QED
      BY <3>1, <3>2
  <2>3. A.pc \notin Idle /\ node'[o] = A
    BY <1>1, <1>4, <1>5, <1>6, <2>1 DEF Idle
  <2>4. Kin(o)' = Kin(o) /\ SameBusy(o)
    BY <1>2, <1>4, <1>5, <2>1, <2>3, SameKin, SameBusyKept
  <2>5. Reported(o)' /\ Load(o)' = Load(o)
    BY <1>1, <1>2, <1>3, <1>7, <1>8, <2>2, <2>4, TakenLoad
  <2>6. Stage(o)'
    BY <1>1, <1>4, <1>5, <1>8, <2>3, <2>5 DEF Stage, Waiting
  <2>7. /\ node[o].pc \notin {"book", "genmoves"}
        /\ node[o].pc \in Waiting => A.pc \in Waiting
        /\ A.pc \notin Waiting \/ node[o].pc \in {"count", "collect"}
        /\ A.pc \in Waiting => A.pc \in {"count", "collect"}
    BY <1>1, <1>4, <1>5 DEF Waiting
  <2>8. A.usis = node[o].usis /\ A.ply = node[o].ply /\ A.sink = node[o].sink
    BY <1>4, <1>5
  <2> HIDE DEF Idle, Waiting, News, Mails, Stage
  <2> QED
    BY <1>1, <1>2, <1>3, <2>1, <2>2, <2>3, <2>6, <2>7, <2>8, Stays
<1>11. CASE IsFinal(A.maxval, A.bounds)
  <2>1. /\ box' = [Push(box, o, <<Report(o, "exact", A.maxval)>>) EXCEPT ![o] = Tail(@)]
        /\ node' = StopNodes(n, {o}) /\ eng' = StopStubs(eng, StubsOf(n, {o}))
    BY <1>4, <1>5, <1>6, <1>11 DEF Collect
  <2>2. PICK ms \in Seq(MsgRec) : /\ Mails(o, ms) /\ News(ms) /\ box'[o] = b
                                  /\ box' \in [Queue -> Seq(MsgRec)]
    <3>1. A.maxval \in Val
      BY <1>11, Sizes DEF NodeRec, IsFinal
    <3>2. PICK x \in MsgRec : x = Report(o, "exact", A.maxval) /\ x.type = "exact"
      BY <3>1, ReportsAre, Zenon
    <3>3. PICK ms \in Seq(MsgRec) : ms = <<x>> /\ News(ms)
      BY <3>2, NewsIs
    <3>4. box' = [Push(box, o, ms) EXCEPT ![o] = b]
      <4>1. Push(box, o, ms)[o] = box[o]
        BY <1>3, <1>9 DEF Push, Types
      <4>2. box' = [Push(box, o, ms) EXCEPT ![o] = Tail(Push(box, o, ms)[o])]
        BY <2>1, <3>2, <3>3, Zenon
      <4> QED
        BY <1>7, <4>1, <4>2
    <3> QED
      BY <1>2, <3>3, <3>4, Pushed DEF Tree
  <2>3. eng' \in [Engine -> StubRec] /\ \A e \in Engine : AlikeStub(e)
    BY <2>1, StoppedStubs
  <2>4. /\ node' \in [Node -> NodeRec]
        /\ \A p \in Node :
             /\ node'[p].pc = n[p].pc /\ node'[p].usis = n[p].usis
             /\ node'[p].ply = n[p].ply /\ node'[p].sink = n[p].sink
             /\ node'[p].await = n[p].await /\ node'[p].count = n[p].count
             /\ node'[p].stops = n[p].stops
             /\ n[p].pc = "count" => node'[p] = n[p]
    <3>3. ASSUME NEW p \in Node, n[p].pc = "count" PROVE node'[p] = n[p]
      <4>1. p # o /\ n[p] = node[p]
        BY <1>1, <1>4, <1>5, <1>6, <3>3
      <4>2. node'[p].pc = "count"
        BY <2>1, <3>3, StoppedNodes
      <4> QED
        BY <3>3, <4>1, <4>2 DEF StopsBetween
    <3>4. /\ node' \in [Node -> NodeRec]
          /\ \A p \in Node :
               /\ node'[p].pc = n[p].pc /\ node'[p].usis = n[p].usis
               /\ node'[p].ply = n[p].ply /\ node'[p].sink = n[p].sink
               /\ node'[p].await = n[p].await /\ node'[p].count = n[p].count
               /\ node'[p].stops = n[p].stops
      BY <2>1, StoppedNodes
    <3> QED
      BY <3>3, <3>4
  <2>5. Types'
    BY <1>1, <1>3, <2>2, <2>3, <2>4 DEF Types
  <2>6. \A p \in Node : /\ node'[p].pc = node[p].pc /\ node'[p].usis = node[p].usis
                        /\ node'[p].ply = node[p].ply /\ node'[p].sink = node[p].sink
                        /\ node'[p].await = node[p].await /\ node'[p].count = node[p].count
                        /\ node'[p].stops = node[p].stops
    <3> SUFFICES ASSUME NEW p \in Node
                 PROVE  /\ node'[p].pc = node[p].pc /\ node'[p].usis = node[p].usis
                        /\ node'[p].ply = node[p].ply /\ node'[p].sink = node[p].sink
                        /\ node'[p].await = node[p].await /\ node'[p].count = node[p].count
                        /\ node'[p].stops = node[p].stops
      OBVIOUS
    <3>1. CASE p = o
      BY <1>4, <1>5, <1>6, <2>4, <3>1
    <3>2. CASE p # o
      BY <1>6, <2>4, <3>2
    <3> QED
      BY <3>1, <3>2
  <2>7. \A p \in Node \ {o} : Alike(p)
    BY <1>6, <2>4, <2>6 DEF Alike
  <2>8. Kin(o)' = Kin(o) /\ SameBusy(o)
    <3>1. Live' = Live
      BY <2>6 DEF Live
    <3> QED
      BY <1>2, <2>3, <2>6, <3>1, StubsKept DEF Kin, Live
  <2>9. Reported(o)' /\ Load(o)' = Load(o)
    BY <1>1, <1>2, <1>3, <1>7, <1>8, <2>2, <2>8, TakenLoad
  <2>10. Stage(o)'
    BY <1>1, <1>8, <2>6, <2>9 DEF Stage, Waiting
  <2>11. \A e \in Team(o) : WorksFor(e, o)
    BY <1>2, <2>3, StubsKept
  <2>12. Team(o)' \subseteq Team(o)
    BY <1>1, <2>6 DEF Team
  <2>13. /\ node'[o].pc \notin Idle
         /\ node[o].pc \in Waiting => node'[o].pc \in Waiting
         /\ node'[o].pc \notin {"book", "genmoves"} => Len(node[o].usis) >= 2
         /\ node'[o].usis = node[o].usis /\ node'[o].ply = node[o].ply
         /\ node'[o].sink = node[o].sink
    BY <1>1, <1>2, <2>6, FirstStubs DEF Idle, Waiting
  <2>14. \A e \in Engine \ Team(o) : AlikeStub(e)
    BY <2>3
  <2>15. Tree' /\ \A q \in Queue \ {o} : Loads(q)
    <3> HIDE DEF Alike, AlikeStub, Loads, WorksFor, Mails, News, Stage, Team, Idle, Waiting
    <3> QED
      BY <1>2, <2>2, <2>5, <2>7, <2>10, <2>11, <2>12, <2>13, <2>14, LocalStep
  <2>16. o \notin External
    BY Sizes
  <2> QED
    BY <2>5, <2>15, <2>16, Sizes, SMTT(30) DEF Fine
<1> QED
  BY <1>10, <1>11

-----------------------------------------------------------------------------
(* New objects. *)

LEMMA NewType ==
  ASSUME NEW usis \in Seq(Engine), NEW pos \in Seq(Nat), NEW ply \in Nat, NEW q \in Queue,
         NEW late \in BOOLEAN
  PROVE  /\ New(usis, pos, ply, q, late) \in NodeRec
         /\ New(usis, pos, ply, q, late).usis = usis /\ New(usis, pos, ply, q, late).pos = pos
         /\ New(usis, pos, ply, q, late).ply = ply /\ New(usis, pos, ply, q, late).sink = q
         /\ New(usis, pos, ply, q, late).late = late
         /\ New(usis, pos, ply, q, late).pc = "new"
<1>1. PICK M \in NodeRec : M = FreeNode
  <2>1. FreeNode \in NodeRec
    BY Sizes DEF FreeNode, NodeRec, Pcs, Idle, External
  <2> QED
    BY <2>1
<1>2. PICK r : r = [M EXCEPT !.pc = "new", !.usis = usis, !.pos = pos, !.ply = ply, !.sink = q,
                             !.late = late]
  OBVIOUS
<1>3. /\ r \in NodeRec /\ r.usis = usis /\ r.pos = pos /\ r.ply = ply /\ r.sink = q
      /\ r.late = late /\ r.pc = "new"
  BY <1>2 DEF NodeRec, Pcs, Idle
<1>4. New(usis, pos, ply, q, late) = r
  BY <1>1, <1>2, Zenon DEF New
<1> QED
  BY <1>3, <1>4

LEMMA UnusedIs ==
  /\ Unused \subseteq Node /\ IsFiniteSet(Unused) /\ Unused \cap Live = {}
  /\ \A e \in Engine : Open(e) => eng[e].sink \notin Unused
<1>1. Live \subseteq Reach(node, Live)
  BY DEF Live, Reach
<1>2. Unused \subseteq Node /\ Unused \cap Reach(node, Live) = {}
      /\ \A e \in Engine : Open(e) => eng[e].sink \notin Unused
  BY DEF Unused, InUse, Open
<1>3. IsFiniteSet(Unused)
  BY <1>2, Sizes, FS_Subset
<1> QED
  BY <1>1, <1>2, <1>3

LEMMA ForcedStep ==
  ASSUME Types, Tree, NEW o \in Node, Forced(o)
  PROVE  Fine
<1>1. node[o].pc = "forced" /\ eng' = eng /\ raised' = raised /\ root' = root /\ asked' = asked
  BY DEF Forced
<1>2. o \in Live
  BY <1>1 DEF Live
<1>3. /\ Busy(o) = {} /\ box[o] = <<>> /\ Kin(o) = {} /\ node[o].pc \notin Waiting
      /\ raised' \in BOOLEAN
  BY <1>1, <1>2, NoKin DEF Types, Tree, Stages, Stage, Quiet, Waiting
<1>4. CASE node[o].ply = 0
  <2>1. EndWith(o, <<Report(o, "exact", 0), Stopped>>)
    BY <1>4 DEF Forced
  <2>2. PICK x \in MsgRec : x = Report(o, "exact", 0) /\ x.type = "exact"
    <3>1. 0 \in Val
      BY Sizes
    <3> QED
      BY <3>1, ReportsAre, Zenon
  <2>3. PICK ms \in Seq(MsgRec) : ms = <<x, Stopped>> /\ Farewell(ms)
    BY <2>2, Farewells, Zenon
  <2>4. EndWith(o, ms)
    BY <2>1, <2>2, <2>3
  <2> QED
    BY <1>1, <1>2, <1>3, <2>3, <2>4, EndedFine
<1>5. CASE node[o].ply # 0
  <2>1. PICK M \in NodeRec : M = node[o]
    BY DEF Types
  <2>2. PICK c : c = Fresh
    OBVIOUS
  <2>3. c \in Unused
    <3>1. Room(1)
      BY <1>5 DEF Forced
    <3>2. Unused # {}
      <4>1. Cardinality(Unused) >= 1
        BY <3>1, UnusedIs, FS_CardinalityType DEF Room
      <4>2. Unused = {} => Cardinality(Unused) = 0
        BY FS_EmptySet, Zenon
      <4> QED
        BY <4>1, <4>2
    <3> QED
      BY <2>2, <3>2 DEF Fresh
  <2>4. c \in Node /\ c \notin Live /\ c # o /\ c \in Queue /\ o \in Queue
        /\ \A e \in Engine : Open(e) => eng[e].sink # c
    BY <1>2, <2>3, UnusedIs, Sizes
  <2>a. PICK late \in BOOLEAN :
          node' = [node EXCEPT ![o].pc = "forcedwait", ![o].kids = {c}, ![o].stubs = {},
                     ![c] = Searched(New(M.usis, Append(M.pos, 1), M.ply + 1, o, late), late)]
    BY <1>5, <2>1, <2>2 DEF Forced
  <2>b. PICK kid : kid = New(M.usis, Append(M.pos, 1), M.ply + 1, o, late)
    OBVIOUS
  <2>5. /\ kid = New(M.usis, Append(M.pos, 1), M.ply + 1, o, late)
        /\ node' = [node EXCEPT ![o].pc = "forcedwait", ![o].kids = {c},
                                ![o].stubs = {}, ![c] = Searched(kid, late)]
    BY <2>a, <2>b
  <2>6. box' = [box EXCEPT ![c] = <<>>]
    BY <1>5, <2>2 DEF Forced
  <2>7. kid \in NodeRec /\ kid.usis = M.usis /\ kid.ply = M.ply + 1 /\ kid.sink = o
    <3>1. M.usis \in Seq(Engine) /\ M.pos \in Seq(Nat) /\ M.ply \in Nat
      BY DEF NodeRec
    <3>2. PICK usis \in Seq(Engine), p \in Seq(Nat), l \in Nat :
            usis = M.usis /\ p = M.pos /\ l = M.ply
      BY <3>1, Zenon
    <3>3. PICK pos \in Seq(Nat) : pos = Append(p, 1)
      <4>1. Append(p, 1) \in Seq(Nat)
        OBVIOUS
      <4> QED
        BY <4>1, Zenon
    <3>4. PICK ply \in Nat : ply = l + 1
      OBVIOUS
    <3>5. kid = New(usis, pos, ply, o, late)
      BY <2>5, <3>2, <3>3, <3>4, Zenon
    <3>6. kid \in NodeRec /\ kid.usis = usis /\ kid.ply = ply /\ kid.sink = o
      BY <2>4, <3>5, NewType
    <3> QED
      BY <3>2, <3>4, <3>6
  <2>8. Len(M.usis) >= 2 /\ IsInjective(M.usis)
    BY <1>1, <1>2, <2>1 DEF Tree, Squads
  <2> HIDE DEF Fine
  <2>9. PICK s \in NodeRec : /\ s = Searched(kid, late) /\ s.pc \in {"presearch", "timeless"}
                             /\ s.usis = M.usis /\ s.ply = M.ply + 1 /\ s.sink = o
    <3>0. PICK k \in Nat : k = Len(M.usis)
      <4>1. M.usis \in Seq(Engine)
        BY DEF NodeRec
      <4>2. Len(M.usis) \in Nat
        BY <4>1
      <4> QED
        BY <4>2, Zenon
    <3>1. k >= 2
      BY <2>8, <3>0, Zenon
    <3>2. k # 1
      BY <3>1
    <3>3. Len(kid.usis) # 1
      BY <2>7, <3>0, <3>2, Zenon
    <3> QED
      BY <2>7, <3>3, SearchedType
  <2>10. PICK r \in NodeRec : /\ r = [M EXCEPT !.pc = "forcedwait", !.kids = {c}, !.stubs = {}]
                              /\ r.pc = "forcedwait" /\ r.usis = M.usis /\ r.ply = M.ply
                              /\ r.sink = M.sink
    <3>1. [M EXCEPT !.pc = "forcedwait", !.kids = {c}, !.stubs = {}] \in NodeRec
      BY <2>4 DEF NodeRec, Pcs, Waiting
    <3> QED
      BY <3>1 DEF NodeRec
  <2>11. node' = [node EXCEPT ![o] = r, ![c] = s]
    BY <2>1, <2>4, <2>5, <2>9, <2>10 DEF Types
  <2>12. /\ node' \in [Node -> NodeRec] /\ node'[o] = r /\ node'[c] = s
         /\ \A p \in Node \ {o, c} : node'[p] = node[p]
    BY <2>4, <2>11 DEF Types
  <2>13. box' \in [Queue -> Seq(MsgRec)] /\ box'[c] = <<>> /\ \A q \in Queue \ {c} : box'[q] = box[q]
    BY <2>4, <2>6 DEF Types
  <2>14. Types'
    BY <1>1, <1>3, <2>12, <2>13 DEF Types
  <2>15. PICK F \in SUBSET Node : F = {c}
    BY <2>4
  <2>16. /\ F \cap Live = {} /\ \A e \in Engine : Open(e) => eng[e].sink \notin F
    BY <2>4, <2>15
  <2>17. \A p \in Node \ (F \cup {o}) : Alike(p)
    BY <2>12, <2>15 DEF Alike
  <2>18. F \in SUBSET F /\ \A k \in F : k \in F <=> node'[k].pc \notin Idle
    BY <2>9, <2>12, <2>15 DEF Idle
  <2>19. \A k \in F : Young(k, o) /\ Members(k)' \subseteq Members(o)
    <3>4. PICK k \in Nat : k = M.ply
      BY DEF NodeRec
    <3>1. node'[c].ply > node[o].ply
      BY <2>1, <2>9, <2>12, <3>4
    <3>2. Members(c)' = Members(o)
      BY <2>1, <2>9, <2>12 DEF Members
    <3>3. Young(c, o)
      BY <2>8, <2>9, <2>12, <2>13, <3>1 DEF Young
    <3> QED
      BY <2>15, <3>2, <3>3
  <2>20. PICK H \in SUBSET Members(o) : H = {}
    OBVIOUS
  <2>21. /\ \A e \in Engine \ H : AlikeStub(e)
         /\ \A e \in H : WorksFor(e, o) /\ Open(e)' /\ Kind(e)' = "search"
    BY <1>1, <2>20 DEF AlikeStub
  <2>22. Team(o)' = {}
    BY <2>10, <2>12 DEF Team
  <2>23. /\ Team(o)' \subseteq Members(o)
         /\ \A k \in F : Members(k)' \cap H = {} /\ Members(k)' \cap Team(o)' = {}
         /\ \A k, l \in F : k # l => Members(k)' \cap Members(l)' = {}
    BY <2>15, <2>20, <2>22
  <2>24. \A q \in Queue \ F : box'[q] = box[q]
    BY <2>13, <2>15
  <2>25. Cardinality(H) + Cardinality(F) = 1
    <3>1. Cardinality({}) = 0 /\ Cardinality({c}) = 1
      BY FS_EmptySet, FS_Singleton, Zenon
    <3> QED
      BY <2>15, <2>20, <3>1
  <2>26. /\ node'[o].usis = node[o].usis /\ node'[o].ply = node[o].ply
         /\ node'[o].sink = node[o].sink /\ node'[o].pc \in {"forcedwait", "count"}
         /\ node[o].pc \notin {"book", "genmoves"} /\ node'[o].pc # "count"
    BY <1>1, <2>1, <2>10, <2>12
  <2>27. Forks(o, F, F, H)
    BY <1>2, <1>3, <2>15, <2>16, <2>17, <2>18, <2>19, <2>21, <2>23, <2>24, <2>25, <2>26 DEF Forks
  <2>28. Tree' /\ \A q \in External : Loads(q)
    BY <2>14, <2>27, ForkStep
  <2> QED
    BY <2>14, <2>28 DEF Fine
<1> QED
  BY <1>4, <1>5

-----------------------------------------------------------------------------
(* The objects for the best moves. *)

LEMMA RoomFor ==
  ASSUME NEW S, NEW T, IsFiniteSet(S), IsFiniteSet(T), Cardinality(S) <= Cardinality(T)
  PROVE  \E f \in [S -> T] : IsInjective(f)
<1>1. PICK s \in Nat : s = Cardinality(S) /\ ExistsBijection(1 .. s, S)
  BY FS_CardinalityType, Zenon
<1>2. PICK t \in Nat : t = Cardinality(T) /\ ExistsBijection(1 .. t, T)
  BY FS_CardinalityType, Zenon
<1>3. ExistsInjection(S, 1 .. s)
  BY <1>1, Fun_ExistsBijEquiv, Zenon
<1>4. ExistsInjection(1 .. t, T)
  BY <1>2, Fun_ExistsBijEquiv, Zenon
<1>5. ExistsInjection(1 .. s, 1 .. t)
  BY <1>1, <1>2, Fun_NatInjLeq, Zenon
<1>6. ExistsInjection(S, 1 .. t)
  BY <1>3, <1>5, Fun_ExistsInjTransitive, Zenon
<1>7. ExistsInjection(S, T)
  BY <1>4, <1>6, Fun_ExistsInjTransitive, Zenon
<1> QED
  BY <1>7 DEF ExistsInjection, Injection

\* x is the record of an object for stubs of o that does not use the first one.
Kid(x, o) ==
  /\ x \in NodeRec /\ x.sink = o /\ x.ply = node[o].ply + 1
  /\ Len(x.usis) >= 1 /\ IsInjective(x.usis)
  /\ ToSet(x.usis) \subseteq Members(o) \ {node[o].usis[1]}

\* No stub is given to two of the children, nor is the first one.
LEMMA KidsAre ==
  ASSUME Types, Tree, NEW o \in Live, node[o].pc = "split", node[o].keys > 0
  PROVE  /\ IsFiniteSet(DOMAIN Children(o))
         /\ \A i \in DOMAIN Children(o) : Kid(Children(o)[i], o)
         /\ \A i, k \in DOMAIN Children(o) : i # k =>
              ToSet(Children(o)[i].usis) \cap ToSet(Children(o)[k].usis) = {}
<1>1. PICK M \in NodeRec : M = node[o]
  BY LiveTypes DEF Types
<1>2. PICK u \in Seq(Engine), n \in Nat \ {0}, y \in Nat, ps \in Seq(Nat), late \in BOOLEAN :
        u = M.usis /\ n = M.keys /\ y = M.ply /\ ps = M.pos /\ late = M.late
  <2>1. /\ M.usis \in Seq(Engine) /\ M.keys \in Nat /\ M.ply \in Nat /\ M.pos \in Seq(Nat)
        /\ M.late \in BOOLEAN
    BY DEF NodeRec
  <2>2. M.keys \in Nat \ {0}
    BY <1>1, <2>1
  <2> QED
    BY <2>1, <2>2, Zenon
<1>0. n \in Nat
  BY <1>2
<1>3. Len(u) \in Nat /\ Len(u) >= 2 /\ IsInjective(u)
  <2>1. Len(M.usis) >= 2 /\ IsInjective(M.usis)
    BY <1>1 DEF Tree, Squads
  <2>2. Len(u) \in Nat
    BY <1>2
  <2> QED
    BY <1>2, <2>1, <2>2, Zenon
<1>4. PICK l \in Nat : l = Len(u)
  BY <1>3, Zenon
<1>5. PICK m \in Nat : m = l - 1
  <2>1. l >= 2
    BY <1>3, <1>4, Zenon
  <2> QED
    BY <2>1
<1>6. PICK w \in [1 .. n -> Nat \ {0}] : w = Weights(n, y)
  <2>1. n \in Nat
    BY <1>2
  <2>2. Weights(n, y) \in [1 .. n -> Nat \ {0}]
    BY <2>1, WeightsType
  <2> QED
    BY <2>2, Zenon
<1>7. PICK share \in [1 .. n -> Nat] : share = Dist(w, m) /\ Total(share) <= m
  BY DistFits, Zenon
<1>8. PICK t \in Nat : t = Total(share) /\ t <= m
  BY <1>7, <1>2, SquaresFinite, Zenon
<1>9. PICK C \in SUBSET (1 .. n) : C = Chosen(share) /\ IsFiniteSet(C)
  <2>1. Chosen(share) \in SUBSET (1 .. n)
    BY DEF Chosen
  <2>2. IsFiniteSet(1 .. n)
    BY UpTo
  <2> QED
    BY <2>1, <2>2, FS_Subset, Zenon
<1>10. PICK kids : kids = Children(o)
  OBVIOUS
<1>11. kids = [i \in C |-> New(Dealt(u, share, i), Append(ps, Place(C, i)), y + 1, o, late)]
  BY <1>1, <1>2, <1>4, <1>5, <1>6, <1>7, <1>9, <1>10, Zenon DEF Children
<1>12. DOMAIN kids = C
  BY <1>11
<1>13. \A i \in C : share[i] \in Nat /\ share[i] >= 1 /\ i \in 1 .. n
  BY <1>9 DEF Chosen
<1>14. ASSUME NEW i \in C, NEW p \in 1 .. share[i]
       PROVE  At(share, i, p) \in 2 .. l
  <2>1. At(share, i, p) \in 2 .. t + 1
    BY <1>2, <1>8, <1>13, DealtInTurn, Zenon
  <2> QED
    BY <1>5, <1>8, <2>1
<1>18. ASSUME NEW i \in C, NEW p \in 1 .. share[i], NEW k \in C, NEW q \in 1 .. share[k],
              At(share, i, p) = At(share, k, q)
       PROVE  i = k /\ p = q
  <2>1. i \in 1 .. n /\ k \in 1 .. n
    BY <1>13
  <2>2. /\ At(share, i, p) \in 2 .. l /\ At(share, k, q) \in 2 .. l
        /\ p \in Nat /\ q \in Nat
    BY <1>13, <1>14
  <2>3. q < p \/ (q = p /\ k < i) => At(share, k, q) < At(share, i, p)
    BY <1>0, <2>1, DealtInTurn, Zenon
  <2>4. p < q \/ (p = q /\ i < k) => At(share, i, p) < At(share, k, q)
    BY <1>0, <2>1, DealtInTurn, Zenon
  <2>9. 2 .. l \subseteq Nat
    OBVIOUS
  <2>8. At(share, i, p) \in Nat /\ At(share, k, q) \in Nat
    BY <2>2, <2>9, Zenon
  <2>5. PICK a \in Nat, b \in Nat : a = At(share, i, p) /\ b = At(share, k, q)
    BY <2>8, Zenon
  <2>6. a = b /\ (q < p \/ (q = p /\ k < i) => b < a) /\ (p < q \/ (p = q /\ i < k) => a < b)
    BY <1>18, <2>3, <2>4, <2>5, Zenon
  <2>7. ~(q < p \/ (q = p /\ k < i)) /\ ~(p < q \/ (p = q /\ i < k))
    BY <2>6
  <2> QED
    BY <2>1, <2>2, <2>7, SMTT(30)
<1>15. \A a, b \in 2 .. l : u[a] \in Members(o) /\ u[a] # u[1] /\ (u[a] = u[b] => a = b)
  <2>1. DOMAIN u = 1 .. l /\ \A a \in 1 .. l : u[a] \in Engine
    BY <1>4
  <2>2. 2 .. l \subseteq 1 .. l /\ \A a \in 2 .. l : a # 1 /\ 1 \in 1 .. l
    OBVIOUS
  <2>3. \A a, b \in DOMAIN u : u[a] = u[b] => a = b
    BY <1>3 DEF IsInjective
  <2>4. Members(o) = {u[a] : a \in DOMAIN u}
    BY <1>1, <1>2 DEF Members, ToSet
  <2> QED
    BY <2>1, <2>2, <2>3, <2>4
<1>16. ASSUME NEW i \in C
       PROVE  /\ Kid(kids[i], o) /\ kids[i].usis = Dealt(u, share, i)
              /\ ToSet(kids[i].usis) = {u[At(share, i, p)] : p \in 1 .. share[i]}
  <2>1. PICK d : d = Dealt(u, share, i)
    OBVIOUS
  <2>2. d = [p \in 1 .. share[i] |-> u[At(share, i, p)]]
    BY <2>1, DealtIs, Zenon
  <2>3. \A p \in 1 .. share[i] : u[At(share, i, p)] \in Engine
    <3>1. \A a \in 2 .. l : u[a] \in Engine
      BY <1>4
    <3> QED
      BY <1>14, <3>1, Zenon
  <2>4. d \in Seq(Engine) /\ Len(d) = share[i] /\ DOMAIN d = 1 .. share[i]
    <3>1. PICK k \in Nat : k = share[i]
      BY <1>13
    <3>2. d = [p \in 1 .. k |-> u[At(share, i, p)]]
      BY <2>2, <3>1
    <3>3. \A p \in 1 .. k : d[p] \in Engine
      BY <2>3, <3>1, <3>2
    <3>4. d \in [1 .. k -> Engine]
      BY <3>2, <3>3
    <3>5. d \in Seq(Engine) /\ Len(d) = k /\ DOMAIN d = 1 .. k
      BY <3>4
    <3> QED
      BY <3>1, <3>5
  <2>5. PICK pos \in Seq(Nat) : pos = Append(ps, Place(C, i))
    <3>1. Place(C, i) \in Nat
      <4>1. {k \in C : k <= i} \in SUBSET C
        OBVIOUS
      <4>2. IsFiniteSet({k \in C : k <= i})
        BY <1>9, <4>1, FS_Subset, Zenon
      <4> QED
        BY <4>2, FS_CardinalityType, Zenon DEF Place
    <3>2. Append(ps, Place(C, i)) \in Seq(Nat)
      BY <3>1
    <3> QED
      BY <3>2, Zenon
  <2>6. PICK ply \in Nat : ply = y + 1
    OBVIOUS
  <2>7. kids[i] = New(d, pos, ply, o, late)
    BY <1>11, <2>1, <2>5, <2>6
  <2>8. o \in Queue
    BY LiveTypes
  <2>9. kids[i] \in NodeRec /\ kids[i].usis = d /\ kids[i].ply = ply /\ kids[i].sink = o
    BY <2>4, <2>7, <2>8, NewType
  <2>10. ToSet(d) = {u[At(share, i, p)] : p \in 1 .. share[i]}
    BY <2>2, <2>4 DEF ToSet
  <2>11. \A p \in 1 .. share[i] : u[At(share, i, p)] \in Members(o) \ {u[1]}
    BY <1>14, <1>15
  <2>12. IsInjective(d)
    <3>1. ASSUME NEW p \in 1 .. share[i], NEW q \in 1 .. share[i], d[p] = d[q] PROVE p = q
      <4>1. u[At(share, i, p)] = u[At(share, i, q)]
        BY <2>2, <3>1
      <4>2. At(share, i, p) = At(share, i, q)
        BY <1>14, <1>15, <4>1, Zenon
      <4> QED
        BY <1>18, <4>2
    <3> QED
      BY <2>4, <3>1 DEF IsInjective
  <2>13. Len(d) >= 1
    BY <1>13, <2>4
  <2>14. kids[i].ply = node[o].ply + 1
    BY <1>1, <1>2, <2>6, <2>9
  <2>15. ToSet(d) \subseteq Members(o) \ {node[o].usis[1]}
    BY <1>1, <1>2, <2>10, <2>11
  <2> QED
    BY <2>1, <2>9, <2>10, <2>12, <2>13, <2>14, <2>15 DEF Kid
<1>17. ASSUME NEW i \in C, NEW k \in C, i # k
       PROVE  ToSet(kids[i].usis) \cap ToSet(kids[k].usis) = {}
  <2>1. SUFFICES ASSUME NEW x \in ToSet(kids[i].usis), x \in ToSet(kids[k].usis) PROVE FALSE
    OBVIOUS
  <2>5. /\ x \in {u[At(share, i, p)] : p \in 1 .. share[i]}
        /\ x \in {u[At(share, k, p)] : p \in 1 .. share[k]}
    BY <1>16, <2>1, ZenonT(60)
  <2>2. PICK p \in 1 .. share[i] : x = u[At(share, i, p)]
    BY <2>5, Zenon
  <2>3. PICK q \in 1 .. share[k] : x = u[At(share, k, q)]
    BY <2>5, Zenon
  <2>4. At(share, i, p) = At(share, k, q)
    BY <1>14, <1>15, <2>2, <2>3, Zenon
  <2> QED
    BY <1>18, <1>17, <2>4
<1> QED
  BY <1>9, <1>10, <1>12, <1>16, <1>17, Zenon

LEMMA ImageSize ==
  ASSUME NEW S, IsFiniteSet(S), NEW T, NEW f \in [S -> T],
         \A x, y \in S : f[x] = f[y] => x = y, \A t \in T : \E x \in S : f[x] = t
  PROVE  IsFiniteSet(T) /\ Cardinality(T) = Cardinality(S)
<1>1. f \in Bijection(S, T)
  BY DEF Bijection, Injection, Surjection, IsInjective
<1>2. ExistsBijection(S, T)
  BY <1>1 DEF ExistsBijection
<1> QED
  BY <1>2, FS_Bijection, Zenon

\* The children of o, at the places id, and the stubs that search at once.
Placed(o, kids, id, late) ==
  /\ IsFiniteSet(DOMAIN kids)
  /\ \A i \in DOMAIN kids : Kid(kids[i], o)
  /\ \A i, k \in DOMAIN kids : i # k => ToSet(kids[i].usis) \cap ToSet(kids[k].usis) = {}
  /\ id \in [DOMAIN kids -> Unused]
  /\ \A i, k \in DOMAIN kids : id[i] = id[k] => i = k
  /\ late \in [DOMAIN kids -> BOOLEAN]

Alone(kids) == {i \in DOMAIN kids : Len(kids[i].usis) = 1}
Heads(kids) == {kids[i].usis[1] : i \in Alone(kids)}

LEMMA KidFacts ==
  ASSUME Types, NEW o \in Live, NEW kids, NEW id, NEW late, Placed(o, kids, id, late),
         NEW i \in DOMAIN kids
  PROVE  /\ kids[i] \in NodeRec /\ kids[i].sink = o /\ kids[i].ply > node[o].ply
         /\ IsInjective(kids[i].usis) /\ kids[i].usis \in Seq(Engine)
         /\ kids[i].usis[1] \in ToSet(kids[i].usis)
         /\ \A x : x \in ToSet(kids[i].usis) => x \in Members(o) /\ x # node[o].usis[1]
         /\ i \in Alone(kids) => kids[i].usis = <<kids[i].usis[1]>>
         /\ i \notin Alone(kids) => Len(kids[i].usis) # 1 /\ Len(kids[i].usis) >= 2
         /\ \A x : kids[i].usis = <<x>> => i \in Alone(kids) /\ x = kids[i].usis[1]
<1>1. Kid(kids[i], o)
  BY DEF Placed
<1>2. PICK u \in Seq(Engine) : u = kids[i].usis
  BY <1>1 DEF Kid, NodeRec
<1>3. PICK k \in Nat : k = Len(u)
  <2>1. Len(u) \in Nat
    OBVIOUS
  <2> QED
    BY <2>1, Zenon
<1>4. k >= 1
  BY <1>1, <1>2, <1>3, Zenon DEF Kid
<1>5. i \in Alone(kids) <=> k = 1
  BY <1>2, <1>3 DEF Alone
<1>6. DOMAIN u = 1 .. k
  BY <1>3
<1>7. u[1] \in ToSet(u)
  <2>1. 1 \in DOMAIN u
    BY <1>4, <1>6
  <2> QED
    BY <2>1 DEF ToSet
<1>8. k = 1 => u = <<u[1]>>
  <2>1. SUFFICES ASSUME k = 1 PROVE u = <<u[1]>>
    OBVIOUS
  <2>2. DOMAIN u = 1 .. 1 /\ u = [j \in DOMAIN u |-> u[j]]
    BY <1>6, <2>1
  <2>3. PICK x : x = u[1]
    OBVIOUS
  <2>4. <<x>> = [j \in 1 .. 1 |-> x]
    OBVIOUS
  <2>5. [j \in 1 .. 1 |-> u[j]] = [j \in 1 .. 1 |-> x]
    BY <2>3
  <2> QED
    BY <2>2, <2>3, <2>4, <2>5, Zenon
<1>9. \A x : u = <<x>> => k = 1 /\ x = u[1]
  BY <1>3
<1>10. k # 1 => k >= 2
  BY <1>4
<1>11. i \notin Alone(kids) => Len(kids[i].usis) # 1 /\ Len(kids[i].usis) >= 2
  BY <1>2, <1>3, <1>5, <1>10, Zenon
<1>12. kids[i].ply > node[o].ply
  <2>1. node[o].ply \in Nat /\ kids[i].ply = node[o].ply + 1
    BY <1>1, LiveTypes DEF Kid
  <2> QED
    BY <2>1
<1> QED
  BY <1>1, <1>2, <1>5, <1>7, <1>8, <1>9, <1>11, <1>12 DEF Kid

\* As many stubs search at once, or objects have a thread, as there are objects and one.
OneEach(o, kids, id) ==
  Cardinality(Heads(kids) \cup {node[o].usis[1]})
    + Cardinality({id[i] : i \in DOMAIN kids \ Alone(kids)})
    = Cardinality({id[i] : i \in DOMAIN kids}) + 1

\* A stub for each object that searches at once, besides the first one.
LEMMA HeadsAre ==
  ASSUME Types, Tree, NEW o \in Live, NEW kids, NEW id, NEW late, Placed(o, kids, id, late)
  PROVE  /\ \A i \in Alone(kids) : i \in DOMAIN kids
         /\ Heads(kids) \subseteq Members(o) /\ node[o].usis[1] \notin Heads(kids)
         /\ \A i \in DOMAIN kids : i \notin Alone(kids) =>
              ToSet(kids[i].usis) \cap Heads(kids) = {}
         /\ OneEach(o, kids, id)
<1>1. PICK C : C = DOMAIN kids
  OBVIOUS
<1>2. PICK A \in SUBSET C : A = Alone(kids)
  BY <1>1 DEF Alone
<1>3. PICK B \in SUBSET C : B = C \ A
  OBVIOUS
<1>4. IsFiniteSet(C) /\ IsFiniteSet(A) /\ IsFiniteSet(B)
  <2>1. IsFiniteSet(C)
    BY <1>1 DEF Placed
  <2> QED
    BY <2>1, FS_Subset, Zenon
<1>5. PICK a \in Nat, b \in Nat, c \in Nat :
        a = Cardinality(A) /\ b = Cardinality(B) /\ c = Cardinality(C) /\ c = a + b
  <2>1. Cardinality(A) \in Nat /\ Cardinality(B) \in Nat
    BY <1>4, FS_CardinalityType, Zenon
  <2>2. C = A \cup B /\ A \cap B = {}
    BY <1>3
  <2>3. Cardinality(A \cup B) = Cardinality(A) + Cardinality(B) - Cardinality(A \cap B)
    BY <1>4, FS_Union, Zenon
  <2>4. Cardinality({}) = 0
    BY FS_EmptySet, Zenon
  <2>5. Cardinality(C) = Cardinality(A) + Cardinality(B)
    <3>1. Cardinality(C) = Cardinality(A) + Cardinality(B) - 0
      BY <2>2, <2>3, <2>4, Zenon
    <3> QED
      BY <2>1, <3>1
  <2> QED
    BY <2>1, <2>5
<1>6. /\ \A i \in C : kids[i].usis[1] \in ToSet(kids[i].usis)
      /\ \A i \in C : \A x : x \in ToSet(kids[i].usis) => x \in Members(o) /\ x # node[o].usis[1]
      /\ \A i, k \in C : i # k => ToSet(kids[i].usis) \cap ToSet(kids[k].usis) = {}
  <2>1. ASSUME NEW i \in C
        PROVE  /\ kids[i].usis[1] \in ToSet(kids[i].usis)
               /\ \A x : x \in ToSet(kids[i].usis) => x \in Members(o) /\ x # node[o].usis[1]
    BY <1>1, KidFacts
  <2> QED
    BY <1>1, <2>1 DEF Placed
<1>7. PICK h : h = [i \in A |-> kids[i].usis[1]]
  OBVIOUS
<1>8. PICK H : /\ H = Heads(kids) /\ h \in [A -> H] /\ \A x \in H : \E i \in A : h[i] = x
               /\ \A i, k \in A : h[i] = h[k] => i = k
  <2>1. \A i, k \in A : h[i] = h[k] => i = k
    BY <1>6, <1>7
  <2>2. PICK H : H = Heads(kids)
    OBVIOUS
  <2>3. H = {kids[i].usis[1] : i \in A}
    BY <1>2, <2>2, Zenon DEF Heads
  <2>4. \A x : x \in H <=> \E i \in A : h[i] = x
    BY <1>7, <2>3
  <2>5. h \in [A -> H]
    BY <1>7, <2>4
  <2> QED
    BY <2>1, <2>2, <2>4, <2>5
<1>10. IsFiniteSet(H) /\ Cardinality(H) = a
  BY <1>4, <1>5, <1>8, ImageSize
<1>11. H \subseteq Members(o) /\ node[o].usis[1] \notin H
  <2>1. ASSUME NEW x \in H PROVE x \in Members(o) /\ x # node[o].usis[1]
    <3>1. PICK i \in A : h[i] = x
      BY <1>8
    <3>2. x = kids[i].usis[1] /\ i \in C
      BY <1>7, <3>1
    <3> QED
      BY <1>6, <3>2
  <2> QED
    BY <2>1
<1>12. \A i \in C : i \notin A => ToSet(kids[i].usis) \cap H = {}
  BY <1>6, <1>7, <1>8
<1>13. Cardinality(H \cup {node[o].usis[1]}) = a + 1
  BY <1>10, <1>11, FS_AddElement
<1>14. Cardinality({id[i] : i \in C}) = c
  <2>1. PICK T : T = {id[i] : i \in C}
    OBVIOUS
  <2>2. id \in [C -> T] /\ (\A i, k \in C : id[i] = id[k] => i = k) /\ \A t \in T : \E i \in C : id[i] = t
    BY <1>1, <2>1 DEF Placed
  <2> QED
    BY <1>4, <1>5, <2>1, <2>2, ImageSize
<1>15. Cardinality({id[i] : i \in B}) = b
  <2>1. PICK T, g : T = {id[i] : i \in B} /\ g = [i \in B |-> id[i]]
    OBVIOUS
  <2>2. g \in [B -> T] /\ (\A i, k \in B : g[i] = g[k] => i = k) /\ \A t \in T : \E i \in B : g[i] = t
    BY <1>1, <2>1 DEF Placed
  <2> QED
    BY <1>4, <1>5, <2>1, <2>2, ImageSize
<1>16. /\ Cardinality(Heads(kids) \cup {node[o].usis[1]}) = a + 1
       /\ Cardinality({id[i] : i \in DOMAIN kids \ Alone(kids)}) = b
       /\ Cardinality({id[i] : i \in DOMAIN kids}) = c
  BY <1>1, <1>2, <1>3, <1>8, <1>13, <1>14, <1>15, Zenon
<1>17. Cardinality(Heads(kids) \cup {node[o].usis[1]})
         + Cardinality({id[i] : i \in DOMAIN kids \ Alone(kids)})
         = Cardinality({id[i] : i \in DOMAIN kids}) + 1
  BY <1>5, <1>16
<1> QED
  BY <1>1, <1>2, <1>8, <1>11, <1>12, <1>17 DEF OneEach

\* What the first half of split_search does, for one choice of the places.
Splits(o, kids, id, late) ==
  /\ Placed(o, kids, id, late)
  /\ node' = [x \in Node |-> node'[x]]
  /\ node'[o] = [node[o] EXCEPT !.pc = "count", !.kids = {id[i] : i \in DOMAIN kids},
                                !.stubs = {node[o].usis[1]}]
  /\ \A i \in DOMAIN kids : node'[id[i]] = Searched(kids[i], late[i])
  /\ \A p \in Node \ {o} : p \notin {id[i] : i \in DOMAIN kids} => node'[p] = node[p]
  /\ eng' = [x \in Engine |->
       IF x = node[o].usis[1] THEN Search(eng[x], node[o].pos, TRUE, o)
       ELSE Engaged(eng[x], x, Range(kids))]
  /\ raised' \in BOOLEAN /\ root' = root /\ asked' = asked
  /\ box' = [q \in Queue |-> IF q \in {id[i] : i \in DOMAIN kids} THEN <<>> ELSE box[q]]

LEMMA SplitIs ==
  ASSUME Types, Tree, NEW o \in Live, Split(o)
  PROVE  \E kids, id, late : kids = Children(o) /\ Splits(o, kids, id, late)
<1>1. PICK kids : kids = Children(o)
  OBVIOUS
<1>2. PICK id : id = CHOOSE f \in [DOMAIN kids -> Unused] : IsInjective(f)
  OBVIOUS
<1>3. /\ node[o].pc = "split" /\ node[o].keys > 0 /\ Room(Cardinality(DOMAIN kids))
      /\ SplitAmong(o, kids, id)
  BY <1>1, <1>2, Zenon DEF Split
<1>4. /\ IsFiniteSet(DOMAIN kids) /\ \A i \in DOMAIN kids : Kid(kids[i], o)
      /\ \A i, k \in DOMAIN kids : i # k => ToSet(kids[i].usis) \cap ToSet(kids[k].usis) = {}
  BY <1>1, <1>3, KidsAre
<1>5. id \in [DOMAIN kids -> Unused] /\ IsInjective(id)
  <2>1. \E f \in [DOMAIN kids -> Unused] : IsInjective(f)
    <3>1. IsFiniteSet(Unused) /\ Cardinality(DOMAIN kids) <= Cardinality(Unused)
      BY <1>3, UnusedIs DEF Room
    <3> QED
      BY <1>4, <3>1, RoomFor, Zenon
  <2> QED
    BY <1>2, <2>1, Zenon
<1>6. PICK e : e = Head(node[o].usis) /\ e = node[o].usis[1]
  BY FirstStubs
<1>7. PICK ids : ids = {id[i] : i \in DOMAIN kids}
  OBVIOUS
<1>8. PICK late \in [DOMAIN kids -> BOOLEAN] :
        node' = [x \in Node |->
                IF x = o THEN [node[o] EXCEPT !.pc = "count", !.kids = {id[i] : i \in DOMAIN kids},
                                              !.stubs = {Head(node[o].usis)}]
                ELSE IF x \in {id[i] : i \in DOMAIN kids}
                     THEN LET i == CHOOSE i \in DOMAIN kids : id[i] = x
                          IN  Searched(kids[i], late[i])
                     ELSE node[x]]
  BY <1>3, Zenon DEF SplitAmong
<1>9. eng' = [x \in Engine |->
                IF x = e THEN Search(eng[x], node[o].pos, TRUE, o)
                ELSE Engaged(eng[x], x, Range(kids))]
  BY <1>3, <1>6, Zenon DEF SplitAmong
<1>10. box' = [q \in Queue |-> IF q \in ids THEN <<>> ELSE box[q]]
  BY <1>3, <1>7, Zenon DEF SplitAmong
<1>11. raised' \in BOOLEAN /\ root' = root /\ asked' = asked
  <2>1. raised' = (\/ Refuses(Head(node[o].usis))
                   \/ \E i \in DOMAIN kids : Len(kids[i].usis) = 1 /\ Refuses(kids[i].usis[1]))
    BY <1>3, Zenon DEF SplitAmong
  <2>2. raised' \in BOOLEAN
    BY <2>1, Zenon
  <2> QED
    BY <1>3, <2>2 DEF SplitAmong
<1>12. \A i, k \in DOMAIN kids : id[i] = id[k] => i = k
  BY <1>5 DEF IsInjective
<1>13. Placed(o, kids, id, late)
  BY <1>4, <1>5, <1>8, <1>12, Zenon DEF Placed
<1>14. \A i \in DOMAIN kids : id[i] \in ids /\ id[i] \in Node /\ id[i] # o
  BY <1>5, <1>7, UnusedIs
<1>15. \A i \in DOMAIN kids : (CHOOSE k \in DOMAIN kids : id[k] = id[i]) = i
  <2>1. ASSUME NEW i \in DOMAIN kids PROVE (CHOOSE k \in DOMAIN kids : id[k] = id[i]) = i
    <3>1. \E k \in DOMAIN kids : id[k] = id[i]
      OBVIOUS
    <3>2. PICK l : l = CHOOSE k \in DOMAIN kids : id[k] = id[i]
      OBVIOUS
    <3>3. l \in DOMAIN kids /\ id[l] = id[i]
      BY <3>1, <3>2, Zenon
    <3> QED
      BY <1>12, <3>2, <3>3
  <2> QED
    BY <2>1
<1>16. /\ node' = [x \in Node |-> node'[x]]
       /\ node'[o] = [node[o] EXCEPT !.pc = "count", !.kids = ids, !.stubs = {e}]
       /\ \A i \in DOMAIN kids : node'[id[i]] = Searched(kids[i], late[i])
       /\ \A p \in Node \ {o} : p \notin ids => node'[p] = node[p]
  <2>1. o \in Node
    BY LiveTypes
  <2>2. node' = [x \in Node |-> node'[x]]
    <3> DEFINE T(x) == IF x = o
                       THEN [node[o] EXCEPT !.pc = "count", !.kids = {id[i] : i \in DOMAIN kids},
                                            !.stubs = {Head(node[o].usis)}]
                       ELSE IF x \in {id[i] : i \in DOMAIN kids}
                            THEN LET i == CHOOSE i \in DOMAIN kids : id[i] = x
                                 IN  Searched(kids[i], late[i])
                            ELSE node[x]
    <3>1. node' = [x \in Node |-> T(x)]
      BY <1>8, Zenon
    <3> HIDE DEF T
    <3> QED
      BY <3>1
  <2>4. node'[o] = [node[o] EXCEPT !.pc = "count", !.kids = {id[i] : i \in DOMAIN kids},
                                   !.stubs = {Head(node[o].usis)}]
    BY <1>8, <2>1, Zenon
  <2>5. \A p \in Node \ {o} : p \notin {id[i] : i \in DOMAIN kids} => node'[p] = node[p]
    <3>1. ASSUME NEW p \in Node, p # o, p \notin {id[i] : i \in DOMAIN kids}
          PROVE  node'[p] = node[p]
      BY <1>8, <3>1, Zenon
    <3> QED
      BY <3>1, Zenon
  <2>3. ASSUME NEW i \in DOMAIN kids PROVE node'[id[i]] = Searched(kids[i], late[i])
    <3>1. PICK x : x = id[i]
      OBVIOUS
    <3>2. x \in Node /\ x # o /\ x \in {id[k] : k \in DOMAIN kids}
      BY <1>7, <1>14, <3>1
    <3>3. node'[x] = LET k == CHOOSE k \in DOMAIN kids : id[k] = x
                     IN  Searched(kids[k], late[k])
      BY <1>8, <3>2, ZenonT(60)
    <3> QED
      BY <1>15, <3>1, <3>3, ZenonT(60)
  <2> QED
    BY <1>6, <1>7, <2>2, <2>3, <2>4, <2>5, Zenon
<1>17. Splits(o, kids, id, late)
  BY <1>6, <1>7, <1>9, <1>10, <1>11, <1>13, <1>16, Zenon DEF Splits
<1> QED
  BY <1>1, <1>17

\* What a stub is told when it is the only one of an object.
LEMMA EngagedIs ==
  ASSUME Types, Tree, NEW o \in Live, NEW kids, NEW id, NEW late, Placed(o, kids, id, late),
         NEW r, NEW x
  PROVE  /\ x \in Heads(kids) => \E pos \in Seq(Nat) :
              Engaged(r, x, Range(kids)) = Go(r, "search", pos, FALSE, o)
         /\ x \notin Heads(kids) => Engaged(r, x, Range(kids)) = r
<1>1. PICK S : S = Range(kids)
  OBVIOUS
<1>2. \A M : M \in S <=> \E i \in DOMAIN kids : M = kids[i]
  BY <1>1 DEF Range
<1>3. CASE x \in Heads(kids)
  <2>1. PICK i \in Alone(kids) : x = kids[i].usis[1]
    BY <1>3 DEF Heads
  <2>2. i \in DOMAIN kids
    BY DEF Alone
  <2>3. kids[i].usis = <<x>> /\ kids[i] \in S
    BY <1>2, <2>1, <2>2, KidFacts
  <2>4. \E M \in S : M.usis = <<x>>
    BY <2>3
  <2>5. PICK L : L = CHOOSE M \in S : M.usis = <<x>>
    OBVIOUS
  <2>6. L \in S /\ L.usis = <<x>>
    BY <2>4, <2>5, Zenon
  <2>7. Engaged(r, x, S) = Search(r, L.pos, FALSE, L.sink)
    BY <2>4, <2>5, Zenon DEF Engaged
  <2>8. PICK k \in DOMAIN kids : L = kids[k]
    BY <1>2, <2>6
  <2>9. L \in NodeRec /\ L.sink = o
    BY <2>8, KidFacts
  <2>10. L.pos \in Seq(Nat)
    BY <2>9 DEF NodeRec
  <2>11. Engaged(r, x, S) = Go(r, "search", L.pos, FALSE, o)
    BY <2>7, <2>9, Zenon DEF Search
  <2> QED
    BY <1>1, <1>3, <2>10, <2>11, Zenon
<1>4. CASE x \notin Heads(kids)
  <2>1. ASSUME NEW M \in S, M.usis = <<x>> PROVE FALSE
    <3>1. PICK k \in DOMAIN kids : M = kids[k]
      BY <1>2
    <3>2. k \in Alone(kids) /\ x = kids[k].usis[1]
      BY <2>1, <3>1, KidFacts
    <3> QED
      BY <1>4, <3>2 DEF Heads
  <2>2. Engaged(r, x, S) = r
    BY <2>1, Zenon DEF Engaged
  <2> QED
    BY <1>1, <1>4, <2>2, Zenon
<1> QED
  BY <1>3, <1>4

LEMMA SplitFine ==
  ASSUME Types, Tree, NEW o \in Live, node[o].pc = "split",
         NEW kids, NEW id, NEW late, Splits(o, kids, id, late)
  PROVE  Fine
<1>1. Placed(o, kids, id, late)
  BY DEF Splits
<1>2. PICK e \in Engine : e = node[o].usis[1] /\ e \in Members(o)
  BY FirstStubs
<1>3. /\ Busy(o) = {} /\ box[o] = <<>> /\ Kin(o) = {} /\ node[o].pc \notin Waiting
      /\ node[o].pc \notin {"book", "genmoves"} /\ o \in Node
      /\ Team(o) = Members(o) /\ Members(o) \subseteq Engine
      /\ \A x \in Members(o) : ~Open(x)
  <2>1. node[o].pc \notin Waiting /\ node[o].pc \notin {"book", "genmoves"} /\ o \in Node
    BY LiveTypes DEF Waiting
  <2>2. Busy(o) = {} /\ box[o] = <<>> /\ Kin(o) = {}
    BY <2>1, NoKin DEF Tree, Stages, Stage, Quiet
  <2>3. Team(o) = Members(o) /\ Members(o) \subseteq Engine /\ \A x \in Team(o) : Open(x) => x \in Busy(o)
    BY <2>1, FirstStubs
  <2> QED
    BY <2>1, <2>2, <2>3
<1>4. PICK F : F = {id[i] : i \in DOMAIN kids}
  OBVIOUS
<1>5. PICK K : K = {id[i] : i \in DOMAIN kids \ Alone(kids)}
  OBVIOUS
<1>6. PICK H : H = Heads(kids) \cup {e}
  OBVIOUS
<1>7. /\ H \subseteq Members(o) /\ e \notin Heads(kids)
      /\ \A i \in DOMAIN kids : i \notin Alone(kids) => ToSet(kids[i].usis) \cap H = {}
      /\ Cardinality(H) + Cardinality(K) = Cardinality(F) + 1
  <2>1. /\ Heads(kids) \subseteq Members(o) /\ e \notin Heads(kids)
        /\ \A i \in DOMAIN kids : i \notin Alone(kids) => ToSet(kids[i].usis) \cap Heads(kids) = {}
        /\ Cardinality(H) + Cardinality(K) = Cardinality(F) + 1
    <3>1. /\ Heads(kids) \subseteq Members(o) /\ node[o].usis[1] \notin Heads(kids)
          /\ \A i \in DOMAIN kids : i \notin Alone(kids) =>
               ToSet(kids[i].usis) \cap Heads(kids) = {}
          /\ OneEach(o, kids, id)
      BY <1>1, HeadsAre
    <3> QED
      BY <1>2, <1>4, <1>5, <1>6, <3>1, Zenon DEF OneEach
  <2>2. \A i \in DOMAIN kids : e \notin ToSet(kids[i].usis)
    BY <1>1, <1>2, KidFacts
  <2> QED
    BY <1>2, <1>6, <2>1, <2>2
<1>8. /\ \A i \in DOMAIN kids : id[i] \in F /\ (i \notin Alone(kids) => id[i] \in K)
      /\ \A p \in F : \E i \in DOMAIN kids : p = id[i]
      /\ \A p \in K : \E i \in DOMAIN kids : i \notin Alone(kids) /\ p = id[i]
      /\ \A i, k \in DOMAIN kids : id[i] = id[k] => i = k
  BY <1>1, <1>4, <1>5 DEF Placed
<1>9. /\ F \subseteq Node /\ F \cap Live = {} /\ o \notin F /\ K \subseteq F /\ F \subseteq Queue
      /\ \A x \in Engine : Open(x) => eng[x].sink \notin F
  <2>1. \A p \in F : p \in Unused
    BY <1>1, <1>8 DEF Placed
  <2>2. K \subseteq F
    BY <1>8
  <2> QED
    BY <2>1, <2>2, UnusedIs, Sizes
<1>10. PICK r \in NodeRec :
         /\ node'[o] = r /\ r.pc = "count" /\ r.usis = node[o].usis /\ r.ply = node[o].ply
         /\ r.sink = node[o].sink /\ r.kids = F /\ r.stubs = {e}
  <2>1. PICK M \in NodeRec : M = node[o]
    BY <1>3 DEF Types
  <2>2. PICK r : r = [M EXCEPT !.pc = "count", !.kids = F, !.stubs = {e}]
    OBVIOUS
  <2>3. r \in NodeRec /\ r.pc = "count" /\ r.usis = M.usis /\ r.ply = M.ply
        /\ r.sink = M.sink /\ r.kids = F /\ r.stubs = {e}
    BY <1>9, <2>2 DEF NodeRec, Pcs, Waiting
  <2>4. node'[o] = r
    BY <1>2, <1>4, <2>1, <2>2, Zenon DEF Splits
  <2> QED
    BY <2>1, <2>3, <2>4
<1>11. ASSUME NEW i \in DOMAIN kids
       PROVE  /\ node'[id[i]] \in NodeRec /\ node'[id[i]].usis = kids[i].usis
              /\ node'[id[i]].ply > node[o].ply /\ node'[id[i]].sink = o
              /\ i \in Alone(kids) => node'[id[i]].pc = "leaf"
              /\ i \notin Alone(kids) => node'[id[i]].pc \in {"presearch", "timeless"}
  <2>1. PICK M \in NodeRec : M = kids[i]
    BY <1>1, KidFacts
  <2>2. PICK l \in BOOLEAN : l = late[i]
    BY <1>1 DEF Placed
  <2>3. node'[id[i]] = Searched(M, l)
    BY <2>1, <2>2 DEF Splits
  <2>4. M.sink = o /\ M.ply > node[o].ply
    BY <1>1, <2>1, KidFacts
  <2>5. i \in Alone(kids) => Len(M.usis) = 1
    BY <2>1 DEF Alone
  <2>6. i \notin Alone(kids) => Len(M.usis) # 1
    BY <2>1 DEF Alone
  <2>7. /\ Len(M.usis) = 1 => Searched(M, l) \in NodeRec /\ Searched(M, l).pc = "leaf"
        /\ Len(M.usis) # 1 => Searched(M, l) \in NodeRec /\ Searched(M, l).pc \in {"presearch", "timeless"}
        /\ Searched(M, l).usis = M.usis /\ Searched(M, l).ply = M.ply
        /\ Searched(M, l).sink = M.sink
    BY SearchedType, Zenon
  <2>8. PICK s : s = Searched(M, l)
    OBVIOUS
  <2> QED
    BY <2>1, <2>3, <2>4, <2>5, <2>6, <2>7, <2>8, Zenon
<1>12. /\ node' \in [Node -> NodeRec]
       /\ \A p \in Node \ (F \cup {o}) : node'[p] = node[p]
  <2>1. \A p \in Node \ (F \cup {o}) : node'[p] = node[p]
    BY <1>4 DEF Splits
  <2>2. node' = [x \in Node |-> node'[x]]
    BY DEF Splits
  <2>3. ASSUME NEW p \in Node PROVE node'[p] \in NodeRec
    <3>1. CASE p = o
      BY <1>10, <3>1
    <3>2. CASE p \in F
      BY <1>8, <1>11, <3>2
    <3>3. CASE p \notin F \cup {o}
      BY <2>1, <3>3 DEF Types
    <3> QED
      BY <3>1, <3>2, <3>3
  <2> QED
    BY <2>1, <2>2, <2>3
<1>13. /\ \A x \in H : /\ eng'[x] \in StubRec /\ WorksFor(x, o) /\ Open(x)'
                       /\ Kind(x)' = "search"
       /\ \A x \in Engine \ H : eng'[x] = eng[x]
       /\ eng' \in [Engine -> StubRec]
  <2>1. eng' = [x \in Engine |->
          IF x = e THEN Search(eng[x], node[o].pos, TRUE, o) ELSE Engaged(eng[x], x, Range(kids))]
    BY <1>2, Zenon DEF Splits
  <2>2. PICK ps \in Seq(Nat) : ps = node[o].pos
    BY <1>3 DEF Types, NodeRec
  <2>3. "search" \in JobKind /\ o \in Queue
    BY LiveTypes DEF JobKind
  <2>4. ASSUME NEW x \in H
        PROVE  x \in Engine /\ \E pos \in Seq(Nat), own \in BOOLEAN : eng'[x] = Go(eng[x], "search", pos, own, o)
    <3>1. x \in Engine
      BY <1>3, <1>7
    <3>2. CASE x = e
      <4>1. eng'[x] = Search(eng[x], ps, TRUE, o)
        BY <2>1, <2>2, <3>1, <3>2
      <4>2. eng'[x] = Go(eng[x], "search", ps, TRUE, o)
        BY <4>1, Zenon DEF Search
      <4> QED
        BY <3>1, <4>2, Zenon
    <3>3. CASE x # e
      <4>1. x \in Heads(kids)
        BY <1>6, <3>3
      <4>2. eng'[x] = Engaged(eng[x], x, Range(kids))
        BY <2>1, <3>1, <3>3
      <4>3. \E pos \in Seq(Nat) : Engaged(eng[x], x, Range(kids)) = Go(eng[x], "search", pos, FALSE, o)
        BY <1>1, <4>1, EngagedIs, Zenon
      <4> QED
        BY <3>1, <4>2, <4>3, Zenon
    <3> QED
      BY <3>2, <3>3, Zenon
  <2>5. ASSUME NEW x \in H
        PROVE  eng'[x] \in StubRec /\ WorksFor(x, o) /\ Open(x)' /\ Kind(x)' = "search"
    <3>1. PICK pos \in Seq(Nat) : \E own \in BOOLEAN : eng'[x] = Go(eng[x], "search", pos, own, o)
      BY <2>4, Zenon
    <3>2. x \in Engine /\ ~Open(x) /\ OneJob
      BY <1>3, <1>7, <2>4 DEF Tree
    <3> QED
      BY <2>3, <3>1, <3>2, Sent
  <2>6. ASSUME NEW x \in Engine, x \notin H PROVE eng'[x] = eng[x]
    <3>1. x # e /\ x \notin Heads(kids)
      BY <1>6, <2>6
    <3>2. eng'[x] = Engaged(eng[x], x, Range(kids))
      BY <2>1, <3>1
    <3>3. Engaged(eng[x], x, Range(kids)) = eng[x]
      BY <1>1, <3>1, EngagedIs, Zenon
    <3> QED
      BY <3>2, <3>3
  <2>7. ASSUME NEW x \in Engine PROVE eng'[x] \in StubRec
    BY <2>5, <2>6 DEF Types
  <2>8. eng' = [x \in Engine |-> eng'[x]]
    <3> DEFINE T(x) == IF x = e THEN Search(eng[x], node[o].pos, TRUE, o)
                       ELSE Engaged(eng[x], x, Range(kids))
    <3>1. eng' = [x \in Engine |-> T(x)]
      BY <2>1, Zenon
    <3> HIDE DEF T
    <3> QED
      BY <3>1
  <2> QED
    BY <2>5, <2>6, <2>7, <2>8
<1>14. /\ box' \in [Queue -> Seq(MsgRec)] /\ \A q \in F : box'[q] = <<>>
       /\ \A q \in Queue \ F : box'[q] = box[q]
  <2>1. box' = [q \in Queue |-> IF q \in F THEN <<>> ELSE box[q]]
    BY <1>4, Zenon DEF Splits
  <2> QED
    BY <1>9, <2>1 DEF Types
<1>15. Types'
  <2>1. raised' \in BOOLEAN /\ root' = root /\ asked' = asked
    BY DEF Splits
  <2> QED
    BY <1>12, <1>13, <1>14, <2>1 DEF Types
<1> HIDE DEF Fine
<1>16. \A p \in Node \ (F \cup {o}) : Alike(p)
  BY <1>12 DEF Alike
<1>17. \A k \in F : k \in K <=> node'[k].pc \notin Idle
  <2>1. ASSUME NEW k \in F PROVE k \in K <=> node'[k].pc \notin Idle
    <3>1. PICK i \in DOMAIN kids : k = id[i]
      BY <1>8
    <3>2. k \in K <=> i \notin Alone(kids)
      BY <1>8, <3>1
    <3> QED
      BY <1>11, <3>1, <3>2 DEF Idle
  <2> QED
    BY <2>1
<1>18. \A k \in F : \A i \in DOMAIN kids : k = id[i] => Members(k)' = ToSet(kids[i].usis)
  BY <1>11 DEF Members
<1>19. \A k \in K : Young(k, o) /\ Members(k)' \subseteq Members(o)
  <2>1. ASSUME NEW k \in K PROVE Young(k, o) /\ Members(k)' \subseteq Members(o)
    <3>1. PICK i \in DOMAIN kids : i \notin Alone(kids) /\ k = id[i]
      BY <1>8
    <3>2. /\ IsInjective(kids[i].usis) /\ Len(kids[i].usis) >= 2
          /\ \A x : x \in ToSet(kids[i].usis) => x \in Members(o)
      BY <1>1, <3>1, KidFacts
    <3>3. Young(k, o)
      BY <1>9, <1>11, <1>14, <3>1, <3>2, Zenon DEF Young
    <3> QED
      BY <1>9, <1>18, <3>1, <3>2, <3>3
  <2> QED
    BY <2>1
<1>20. /\ \A x \in Engine \ H : AlikeStub(x)
       /\ \A x \in H : WorksFor(x, o) /\ Open(x)' /\ Kind(x)' = "search"
  BY <1>13 DEF AlikeStub
<1>21. Team(o)' = {e}
  BY <1>2, <1>10 DEF Team
<1>22. /\ Team(o)' \subseteq Members(o) /\ H \subseteq Members(o)
       /\ \A k \in K : Members(k)' \cap H = {} /\ Members(k)' \cap Team(o)' = {}
  <2>1. ASSUME NEW k \in K PROVE Members(k)' \cap H = {}
    <3>1. PICK i \in DOMAIN kids : i \notin Alone(kids) /\ k = id[i]
      BY <1>8
    <3> QED
      BY <1>7, <1>9, <1>18, <3>1
  <2> QED
    BY <1>2, <1>6, <1>7, <1>21, <2>1
<1>23. \A k, l \in K : k # l => Members(k)' \cap Members(l)' = {}
  <2>1. ASSUME NEW k \in K, NEW l \in K, k # l PROVE Members(k)' \cap Members(l)' = {}
    <3>1. PICK i \in DOMAIN kids : k = id[i]
      BY <1>8
    <3>2. PICK j \in DOMAIN kids : l = id[j]
      BY <1>8
    <3>3. i # j
      BY <2>1, <3>1, <3>2
    <3>4. ToSet(kids[i].usis) \cap ToSet(kids[j].usis) = {}
      BY <1>1, <3>3 DEF Placed
    <3> QED
      BY <1>9, <1>18, <3>1, <3>2, <3>4
  <2> QED
    BY <2>1
<1>24. /\ node'[o].usis = node[o].usis /\ node'[o].ply = node[o].ply
       /\ node'[o].sink = node[o].sink /\ node'[o].pc \in {"forcedwait", "count"}
       /\ node'[o].pc # "forcedwait"
       /\ node'[o].pc = "count" =>
            Cardinality(H) + Cardinality(K) = Cardinality(node'[o].kids) + Cardinality(node'[o].stubs)
  <2>1. Cardinality({e}) = 1
    BY FS_Singleton, Zenon
  <2>2. Cardinality(node'[o].kids) + Cardinality(node'[o].stubs) = Cardinality(F) + 1
    BY <1>10, <2>1, Zenon
  <2>3. Cardinality(H) + Cardinality(K) = Cardinality(node'[o].kids) + Cardinality(node'[o].stubs)
    BY <1>7, <2>2, Zenon
  <2> QED
    BY <1>10, <2>3
<1>25. Forks(o, F, K, H)
  BY <1>3, <1>9, <1>14, <1>16, <1>17, <1>19, <1>20, <1>22, <1>23, <1>24 DEF Forks
<1>26. Tree' /\ \A q \in External : Loads(q)
  BY <1>15, <1>25, ForkStep
<1> QED
  BY <1>15, <1>26 DEF Fine

LEMMA SplitStep ==
  ASSUME Types, Tree, NEW o \in Node, Split(o)
  PROVE  Fine
<1>1. node[o].pc = "split"
  BY DEF Split
<1>2. o \in Live
  BY <1>1 DEF Live
<1>3. PICK kids, id, late : Splits(o, kids, id, late)
  BY <1>2, SplitIs, Zenon
<1> QED
  BY <1>1, <1>2, <1>3, SplitFine, Zenon

-----------------------------------------------------------------------------
(* A client that makes one root search: the inductive invariant.           *)

LEMMA ReaderFine ==
  ASSUME Types, Tree, NEW e \in Engine, ReaderStep(e)
  PROVE  Fine
<1>1. /\ eng' \in [Engine -> StubRec] /\ box' \in [Queue -> Seq(MsgRec)]
      /\ node' = node /\ root' = root /\ asked' = asked /\ raised' = raised
  BY ReaderIs DEF Tree
<1>2. Types'
  BY <1>1 DEF Types
<1>3. Tree' /\ \A q \in External : Loads(q)
  BY <1>2, ReaderTree
<1> QED
  BY <1>2, <1>3 DEF Fine

LEMMA NodeFine ==
  ASSUME Types, Tree, ~StopsBetween, NEW o \in Node, NodeStep(o)
  PROVE  Fine
<1>1. CASE BookAnswered(o) \/ GenmovesAnswered(o)
  BY <1>1, BookStep, GenmovesStep
<1>2. CASE Presearch(o) \/ PresearchTake(o) \/ MateStopped(o) \/ PresearchEnd(o)
  BY <1>2, PresearchStep, TakeStep, MateStoppedStep, PresearchEndStep
<1>3. CASE Forced(o) \/ ForcedStopped(o) \/ Timeless(o) \/ ProbabilityAnswered(o)
  BY <1>3, ForcedStep, ForcedStoppedStep, TimelessStep, ProbabilityStep
<1>4. CASE Split(o) \/ SplitNothing(o) \/ Count(o)
  BY <1>4, SplitStep, SplitNothingStep, CountStep
<1>5. CASE Collect(o) \/ CollectStopped(o) \/ CollectEnd(o)
  BY <1>5, CollectStep, CollectStoppedStep, CollectEndStep
<1> QED
  BY <1>1, <1>2, <1>3, <1>4, <1>5 DEF NodeStep

\* The client has one object that will say :stopped to it, or has heard it.
ClusterInvariant == Types /\ Tree /\ ClientInv

LEMMA ClientKept ==
  ASSUME ClusterInvariant, Fine
  PROVE  ClusterInvariant'
<1>1. /\ Load(Client)' = 1 /\ Load(Finish)' = 0
      /\ EndsLast(Client) => EndsLast(Client)'
  BY DEF ClusterInvariant, ClientInv, Fine, Loads, External
<1>2. EndsLast(Client)
  BY DEF ClusterInvariant, ClientInv, EndsLast
<1>3. ClientInv'
  BY <1>1, <1>2 DEF ClientInv, EndsLast
<1> QED
  BY <1>3 DEF ClusterInvariant, Fine

LEMMA ClusterNext ==
  ASSUME ClusterInvariant, ~StopsBetween, [Next]_vars
  PROVE  ClusterInvariant'
<1>1. Types /\ Tree
  BY DEF ClusterInvariant
<1>2. ASSUME NEW e \in Engine, ReaderStep(e) PROVE ClusterInvariant'
  BY <1>1, <1>2, ReaderFine, ClientKept
<1>3. ASSUME NEW o \in Node, NodeStep(o) PROVE ClusterInvariant'
  BY <1>1, <1>3, NodeFine, ClientKept
<1>4. CASE ClientStop
  BY <1>1, <1>4, ClientStopStep, ClientKept
<1>5. CASE UNCHANGED vars
  <2>0. node' = node /\ eng' = eng /\ box' = box /\ raised' = raised /\ root' = root /\ asked' = asked
    BY <1>5 DEF vars
  <2>1. Types'
    BY <1>1, <2>0 DEF Types
  <2>2. Live' = Live /\ (\A p \in Node : Alike(p) /\ Team(p)' = Team(p))
        /\ \A e \in Engine : Open(e)' = Open(e) /\ Kind(e)' = Kind(e)
    BY <2>0 DEF Live, Alike, Team, Members, Open, Kind
  <2>3. \A q : SameBusy(q) /\ StoppedAt(q)' = StoppedAt(q) /\ Kin(q)' = Kin(q) /\ Load(q)' = Load(q)
    BY <2>0, <2>2 DEF SameBusy, Busy, StoppedAt, Kin, Load
  <2>4. \A p \in Live : Stage(p)'
    BY <1>1, <2>0, <2>2, <2>3, StageKept DEF Tree, Stages, Live
  <2>5. \A q \in External : Reported(q)'
    BY <1>1, <2>0, <2>3 DEF Tree, Stages, Reported, Says, SameBusy
  <2>6. OneJob' /\ Sinks' /\ Squads'
    BY <1>1, <2>0, <2>2 DEF Tree, OneJob, Sinks, Squads, Open, Kind, Live
  <2>7. Apart' /\ OwnJobs'
    <3>0. \A p \in Live : p \in Node /\ Team(p)' = Team(p)
      BY <2>2 DEF Live
    <3>3. PICK L : L = Live /\ L = Live'
      BY <2>2
    <3>1. Apart'
      <4>1. SUFFICES ASSUME NEW o \in Live', NEW p \in Live', o # p
                     PROVE  Team(o)' \cap Team(p)' = {}
        BY DEF Apart
      <4>2. o \in Live /\ p \in Live
        BY <3>3
      <4>3. Team(o)' = Team(o) /\ Team(p)' = Team(p)
        BY <3>0, <4>2
      <4> QED
        BY <1>1, <4>1, <4>2, <4>3 DEF Tree, Apart
    <3>2. OwnJobs'
      <4>1. SUFFICES ASSUME NEW o \in Live', NEW e \in Team(o)', Open(e)'
                     PROVE  eng'[e].sink = o
        BY DEF OwnJobs
      <4>2. o \in Live
        BY <3>3
      <4>3. e \in Team(o) /\ Open(e)
        BY <2>0, <3>0, <4>1, <4>2 DEF Open
      <4> QED
        BY <1>1, <2>0, <4>2, <4>3 DEF Tree, OwnJobs
    <3> QED
      BY <3>1, <3>2
  <2>8. Tree'
    BY <2>2, <2>4, <2>5, <2>6, <2>7 DEF Tree, Stages
  <2>9. ClientInv'
    BY <2>0, <2>3 DEF ClusterInvariant, ClientInv
  <2> QED
    BY <2>1, <2>8, <2>9 DEF ClusterInvariant
<1> QED
  BY <1>2, <1>3, <1>4, <1>5 DEF Next, Work

LEMMA FreeIs ==
  /\ FreeNode \in NodeRec /\ FreeNode.pc = "free"
  /\ IdleStub \in StubRec /\ IdleStub.jobs = <<>> /\ IdleStub.sink = Client
  /\ IdleStub.searching = FALSE
<1>1. FreeNode \in NodeRec /\ FreeNode.pc = "free"
  BY Sizes DEF FreeNode, NodeRec, Pcs, Idle, External
<1>2. IdleStub \in StubRec /\ IdleStub.jobs = <<>> /\ IdleStub.sink = Client
      /\ IdleStub.searching = FALSE
  BY Sizes DEF IdleStub, StubRec, External
<1> QED
  BY <1>1, <1>2

\* A new object for all stubs, before it asks for the book.
LEMMA RootIs ==
  ASSUME NEW pos \in Seq(Nat), NEW q \in Queue
  PROVE  \E r \in NodeRec, u \in Seq(Engine) :
           /\ RootCall(New([i \in 1 .. N |-> i], pos, 0, q, FALSE)) = r
           /\ New([i \in 1 .. N |-> i], pos, 0, q, FALSE).usis = u
           /\ New([i \in 1 .. N |-> i], pos, 0, q, FALSE).pos = pos
           /\ r.pc = "book" /\ r.usis = u /\ r.sink = q /\ r.ply = 0 /\ r.pos = pos
           /\ IsInjective(u) /\ Len(u) >= 1 /\ u[1] = 1 /\ Head(u) = 1 /\ ToSet(u) = Engine
<1>1. PICK u : u = [i \in 1 .. N |-> i]
  OBVIOUS
<1>2. PICK k \in Nat \ {0} : k = N
  BY SizesAssumption
<1>3. u \in Seq(Engine) /\ Len(u) = k /\ DOMAIN u = 1 .. k /\ \A i \in 1 .. k : u[i] = i
  BY <1>1, <1>2 DEF Engine
<1>4. u[1] = 1 /\ Head(u) = 1
  BY <1>3
<1>5. IsInjective(u) /\ ToSet(u) = Engine
  BY <1>2, <1>3 DEF IsInjective, ToSet, Engine
<1>6. Len(u) >= 1
  BY <1>3
<1>7. PICK f \in BOOLEAN : f = FALSE
  OBVIOUS
<1>8. PICK z \in Nat : z = 0
  OBVIOUS
<1>9. PICK M : M = New(u, pos, z, q, f)
  OBVIOUS
<1>10. M \in NodeRec /\ M.usis = u /\ M.pos = pos /\ M.ply = z /\ M.sink = q
  BY <1>3, <1>9, NewType
<1>11. PICK r : r = [M EXCEPT !.pc = "book"]
  OBVIOUS
<1>12. r \in NodeRec /\ r.pc = "book" /\ r.usis = u /\ r.pos = pos /\ r.ply = z /\ r.sink = q
  BY <1>10, <1>11 DEF NodeRec, Pcs
<1>13. New([i \in 1 .. N |-> i], pos, 0, q, FALSE) = M
  BY <1>1, <1>7, <1>8, <1>9, Zenon
<1>14. RootCall(M) = r
  BY <1>11, Zenon DEF RootCall
<1>15. r.ply = 0
  BY <1>8, <1>12
<1> QED
  BY <1>3, <1>4, <1>5, <1>6, <1>10, <1>12, <1>13, <1>14, <1>15, Zenon

\* One root search is on its way, for the queue q and the position ps, and nothing else is.
StartsWith(q, ps) ==
  LET M == New([i \in 1 .. N |-> i], ps, 0, q, FALSE)
  IN  /\ box = [p \in Queue |-> <<>>]
      /\ raised = FALSE
      /\ node = [o \in Node |-> IF o = 1 THEN RootCall(M) ELSE FreeNode]
      /\ eng = RootAsks([e \in Engine |-> IdleStub], 1, M)
      /\ root = 1 /\ asked = FALSE

LEMMA RootStarts ==
  ASSUME NEW q \in External, NEW ps \in Seq(Nat), StartsWith(q, ps)
  PROVE  /\ Types /\ Tree /\ Live = {1} /\ root = 1 /\ ~asked
         /\ Load(q) = 1 /\ \A p \in External : p # q => Load(p) = 0
         /\ \A p \in Queue : box[p] = <<>> /\ StoppedAt(p) = {}
<1>2. q \in Queue /\ 1 \in Node /\ 1 \in Engine /\ 1 \in Queue /\ 1 \notin External /\ q # 1
  BY Sizes DEF Node, Engine
<1>3. PICK r \in NodeRec, u \in Seq(Engine) :
        /\ RootCall(New([i \in 1 .. N |-> i], ps, 0, q, FALSE)) = r
        /\ New([i \in 1 .. N |-> i], ps, 0, q, FALSE).usis = u
        /\ New([i \in 1 .. N |-> i], ps, 0, q, FALSE).pos = ps
        /\ r.pc = "book" /\ r.usis = u /\ r.sink = q /\ r.ply = 0 /\ r.pos = ps
        /\ IsInjective(u) /\ Len(u) >= 1 /\ u[1] = 1 /\ Head(u) = 1 /\ ToSet(u) = Engine
  BY <1>2, RootIs, ZenonT(60)
<1>4. PICK E \in [Engine -> StubRec] : E = [e \in Engine |-> IdleStub]
  BY FreeIs
<1>5. /\ \A e \in Engine : E[e].jobs = <<>> /\ E[e].searching = FALSE /\ E[e].sink = Client
  BY <1>4, FreeIs
<1>6. eng = [E EXCEPT ![1] = Ask(E[1], "book", ps, 1)]
  <2>1. eng = RootAsks(E, 1, New([i \in 1 .. N |-> i], ps, 0, q, FALSE))
    BY <1>4, Zenon DEF StartsWith
  <2>2. eng = [E EXCEPT ![1] = Ask(@, "book", ps, 1)]
    BY <1>3, <2>1, Zenon DEF RootAsks
  <2> QED
    BY <2>2
<1>7. node = [o \in Node |-> IF o = 1 THEN r ELSE FreeNode] /\ box = [p \in Queue |-> <<>>]
      /\ raised = FALSE /\ root = 1 /\ asked = FALSE
  <2>1. node = [o \in Node |-> IF o = 1
                               THEN RootCall(New([i \in 1 .. N |-> i], ps, 0, q, FALSE))
                               ELSE FreeNode]
    BY Zenon DEF StartsWith
  <2>2. node = [o \in Node |-> IF o = 1 THEN r ELSE FreeNode]
    BY <1>3, <2>1, Zenon
  <2> QED
    BY <2>2, Zenon DEF StartsWith
<1>8. /\ node \in [Node -> NodeRec] /\ node[1] = r
      /\ \A o \in Node : o # 1 => node[o].pc = "free"
  BY <1>2, <1>7, FreeIs
<1>9. PICK g \in StubRec : /\ eng = [E EXCEPT ![1] = g] /\ g.sink = 1 /\ g.searching = FALSE
                           /\ Len(g.jobs) = 1 /\ g.jobs # <<>> /\ g.jobs[1].kind = "book"
  <2>1. PICK g : g = Ask(E[1], "book", ps, 1)
    OBVIOUS
  <2>2. PICK f \in BOOLEAN : f = FALSE
    OBVIOUS
  <2>3. PICK j \in JobRec : j = Job("book", ps, FALSE) /\ j.kind = "book"
    <3>1. PICK x : x = Job("book", ps, f)
      OBVIOUS
    <3>2. x \in JobRec /\ x.kind = "book"
      BY <3>1 DEF Job, JobRec, JobKind
    <3> QED
      BY <2>2, <3>1, <3>2, Zenon
  <2>4. PICK s \in StubRec : s = E[1] /\ s.jobs = <<>> /\ s.searching = FALSE
    BY <1>2, <1>5
  <2>5. g = [s EXCEPT !.sink = 1, !.jobs = Append(@, j)]
    BY <2>1, <2>3, <2>4, Zenon DEF Ask
  <2>6. PICK w \in Seq(JobRec) : w = <<>>
    <3>1. <<>> \in Seq(JobRec)
      OBVIOUS
    <3> QED
      BY <3>1, Zenon
  <2>7. PICK v \in Seq(JobRec) : v = Append(w, j) /\ Len(v) = 1 /\ v # <<>> /\ v[1] = j
    <3>1. Len(w) = 0
      BY <2>6
    <3>2. Append(w, j) \in Seq(JobRec) /\ Len(Append(w, j)) = 1 /\ Append(w, j)[1] = j
      BY <3>1
    <3>3. Append(w, j) # <<>>
      <4>1. Len(<<>>) # 1
        OBVIOUS
      <4> QED
        BY <3>2, <4>1, Zenon
    <3> QED
      BY <3>2, <3>3, Zenon
  <2>8. g = [s EXCEPT !.sink = 1, !.jobs = v]
    BY <2>4, <2>5, <2>6, <2>7
  <2>9. g \in StubRec /\ g.sink = 1 /\ g.searching = FALSE /\ g.jobs = v
    BY <1>2, <2>4, <2>8 DEF StubRec
  <2> QED
    BY <1>6, <2>1, <2>3, <2>7, <2>9
<1>10. /\ eng \in [Engine -> StubRec] /\ eng[1] = g
       /\ \A e \in Engine : e # 1 => eng[e] = E[e]
  BY <1>2, <1>9
<1>11. Types
  <2>1. raised \in BOOLEAN /\ asked \in BOOLEAN
    BY <1>7, Zenon
  <2>2. box \in [Queue -> Seq(MsgRec)]
    <3>1. PICK w \in Seq(MsgRec) : w = <<>>
      <4>1. <<>> \in Seq(MsgRec)
        OBVIOUS
      <4> QED
        BY <4>1, Zenon
    <3>2. box = [p \in Queue |-> w]
      BY <1>7, <3>1, Zenon
    <3> QED
      BY <3>2
  <2>3. root \in Node \cup {0}
    BY <1>2, <1>7, Zenon
  <2> QED
    BY <1>8, <1>10, <2>1, <2>2, <2>3, Zenon DEF Types
<1>12. Live = {1} /\ 1 \in Live
  BY <1>2, <1>3, <1>8 DEF Live
<1>13. \A e \in Engine : (Open(e) <=> e = 1) /\ (e = 1 => Kind(e) = "book" /\ eng[e].sink = 1)
                         /\ eng[e].searching = FALSE /\ Len(eng[e].jobs) <= 1
  <2>1. ASSUME NEW e \in Engine, e # 1
        PROVE  ~Open(e) /\ eng[e].searching = FALSE /\ Len(eng[e].jobs) <= 1
    <3>1. eng[e].jobs = <<>> /\ eng[e].searching = FALSE
      BY <1>5, <1>10, <2>1
    <3>2. Len(<<>>) <= 1
      OBVIOUS
    <3> QED
      BY <3>1, <3>2, Zenon DEF Open
  <2>2. /\ Open(1) /\ Kind(1) = "book" /\ eng[1].sink = 1 /\ eng[1].searching = FALSE
        /\ Len(eng[1].jobs) <= 1
    <3>1. PICK k \in Nat : k = 1
      OBVIOUS
    <3>2. 1 <= 1
      OBVIOUS
    <3> QED
      BY <1>9, <1>10, <3>2, Zenon DEF Open, Kind
  <2> QED
    BY <2>1, <2>2, Zenon
<1>14. Busy(1) = {1} /\ \A p \in Queue : p # 1 => Busy(p) = {}
  BY <1>2, <1>13 DEF Busy
<1>15. Kin(q) = {1} /\ \A p \in External : p # q => Kin(p) = {}
  BY <1>2, <1>3, <1>8, <1>12 DEF Kin
<1>16. \A p \in Queue : box[p] = <<>> /\ StoppedAt(p) = {}
  BY <1>7 DEF StoppedAt
<1>17. Load(q) = 1 /\ \A p \in External : p # q => Load(p) = 0
  <2>1. Cardinality({}) = 0 /\ Cardinality({1}) = 1
    BY FS_EmptySet, FS_Singleton, Zenon
  <2>2. \A p \in External : p \in Queue /\ p # 1 /\ Busy(p) = {} /\ StoppedAt(p) = {}
    BY <1>2, <1>14, <1>16, Sizes
  <2>3. Load(q) = 0 + 1 + 0
    BY <1>15, <2>1, <2>2, Zenon DEF Load
  <2>4. \A p \in External : p # q => Load(p) = 0 + 0 + 0
    BY <1>15, <2>1, <2>2, Zenon DEF Load
  <2> QED
    BY <2>3, <2>4
<1>18. Tree
  <2>1. OneJob
    BY <1>13 DEF OneJob
  <2>2. Sinks
    BY <1>3, <1>8, <1>12, <1>13 DEF Sinks, External
  <2>3. Squads
    BY <1>3, <1>8, <1>12 DEF Squads
  <2>4. Apart
    BY <1>12 DEF Apart
  <2>5. OwnJobs
    <3>1. \A e \in Team(1) : e \in Engine
      BY <1>11, <1>12, LiveTypes, <2>3 DEF Squads
    <3> QED
      BY <1>12, <1>13, <3>1 DEF OwnJobs
  <2>6. Stage(1)
    BY <1>2, <1>3, <1>8, <1>13, <1>14, <1>16 DEF Stage, InBook, Waiting
  <2>7. \A p \in External : Reported(p)
    BY <1>2, <1>14, <1>16, Sizes, SMTT(30) DEF Reported, Says
  <2> QED
    BY <1>12, <2>1, <2>2, <2>3, <2>4, <2>5, <2>6, <2>7 DEF Tree, Stages
<1> QED
  BY <1>7, <1>11, <1>12, <1>16, <1>17, <1>18, Zenon

LEMMA ClusterInit ==
  ASSUME Init
  PROVE  ClusterInvariant
<1>1. PICK ps \in Seq(Nat) : ps = <<>>
  <2>1. <<>> \in Seq(Nat)
    OBVIOUS
  <2> QED
    BY <2>1, Zenon
<1>2. StartsWith(Client, ps)
  BY <1>1, Zenon DEF Init, StartsWith
<1>3. Client \in External /\ Finish \in External /\ Client # Finish /\ Client \in Queue
  BY Sizes DEF External, Client, Finish
<1>4. /\ Types /\ Tree /\ Load(Client) = 1 /\ Load(Finish) = 0 /\ StoppedAt(Client) = {}
  BY <1>2, <1>3, RootStarts
<1> QED
  BY <1>4 DEF ClusterInvariant, ClientInv

\* While no stop falls between the halves of split_search, each searcher owes one :stopped to
\* the queue it was given, and each thread counts those it is owed.
THEOREM ClusterHolds ==
  Spec /\ StopsOutside => []ClusterInvariant
<1>1. Init => ClusterInvariant
  BY ClusterInit
<1>2. ClusterInvariant /\ [Next]_vars /\ [~StopsBetween]_vars => ClusterInvariant'
  BY ClusterNext, Outside
<1> QED
  BY <1>1, <1>2, PTL DEF Spec, StopsOutside

\* usiMulti.rb counts each :stopped once, in every behaviour in which no stop, the client's or
\* an object's own, falls between usiMulti.rb:180 and :183: no thread hears more of them than
\* it counted searchers, and nothing reaches the client after the one that ends its search.
\* With such a stop the object says :stopped at once, and its searchers say more.
THEOREM StoppedOnceHolds ==
  Spec /\ StopsOutside => []StoppedOnce
<1>1. ClusterInvariant => StoppedOnce
  <2>1. SUFFICES ASSUME ClusterInvariant PROVE StoppedOnce
    OBVIOUS
  <2>2. ASSUME NEW o \in Node, node[o].pc = "collect"
        PROVE  node[o].stops + Cardinality(StoppedAt(o)) <= node[o].count
    <3>1. Types /\ o \in Live /\ o \in Queue /\ node[o].pc \in Waiting
      BY <2>1, <2>2, Sizes DEF ClusterInvariant, Live, Waiting
    <3>2. node[o].stops + Load(o) = node[o].count
      BY <2>1, <2>2, <3>1 DEF ClusterInvariant, Tree, Stages, Stage
    <3>3. PICK b \in Nat, k \in Nat, s \in Nat, n \in Nat :
            /\ b = Cardinality(Busy(o)) /\ k = Cardinality(Kin(o)) /\ s = Cardinality(StoppedAt(o))
            /\ n = node[o].stops /\ Load(o) = b + k + s
      <4>1. node[o].stops \in Nat
        BY <3>1 DEF Types, NodeRec
      <4> QED
        BY <3>1, <4>1, LoadType DEF Load
    <3> QED
      BY <3>2, <3>3
  <2> QED
    BY <2>1, <2>2 DEF StoppedOnce, ClusterInvariant, ClientInv
<1> QED
  BY <1>1, ClusterHolds, PTL

\* The record types above say all that TypeOK says.
LEMMA TypesSay ==
  ASSUME Types
  PROVE  TypeOK
<1>1. ASSUME NEW e \in Engine
      PROVE  /\ eng[e].searching \in BOOLEAN /\ eng[e].stopped \in BOOLEAN
             /\ eng[e].sink \in Queue
             /\ \A i \in DOMAIN eng[e].jobs : eng[e].jobs[i].kind \in JobKind
  <2>1. PICK s \in StubRec : s = eng[e]
    BY DEF Types
  <2>2. PICK w \in Seq(JobRec) : w = s.jobs
    BY DEF StubRec
  <2>3. \A i \in DOMAIN w : w[i].kind \in JobKind
    <3>1. \A i \in DOMAIN w : w[i] \in JobRec
      OBVIOUS
    <3> QED
      BY <3>1 DEF JobRec
  <2> QED
    BY <2>1, <2>2, <2>3 DEF StubRec
<1>2. ASSUME NEW q \in Queue
      PROVE  \A i \in DOMAIN box[q] : box[q][i].type \in MsgType /\ box[q][i].val \in Val
  <2>1. PICK w \in Seq(MsgRec) : w = box[q]
    BY DEF Types
  <2>2. \A i \in DOMAIN w : w[i].type \in MsgType /\ w[i].val \in Val
    <3>1. \A i \in DOMAIN w : w[i] \in MsgRec
      OBVIOUS
    <3> QED
      BY <3>1 DEF MsgRec
  <2> QED
    BY <2>1, <2>2
<1>3. WrapperTypeOK
  BY <1>1, <1>2 DEF WrapperTypeOK, Types
<1>4. ASSUME NEW o \in Node
      PROVE  /\ node[o].pc \in Pcs /\ ToSet(node[o].usis) \subseteq Engine
             /\ node[o].stubs \subseteq Engine /\ node[o].kids \subseteq Node
             /\ node[o].sink \in Queue /\ node[o].maxval \in Val \cup {-1}
  <2>1. PICK M \in NodeRec : M = node[o]
    BY DEF Types
  <2>2. PICK u \in Seq(Engine) : u = M.usis
    BY DEF NodeRec
  <2>3. ToSet(u) \subseteq Engine
    BY DEF ToSet
  <2> QED
    BY <2>1, <2>2, <2>3 DEF NodeRec
<1> QED
  BY <1>3, <1>4 DEF TypeOK, Types, Pcs, Idle, Waiting

\* The objects, the stubs and the queues of the cluster have the types of their fields, in
\* every behaviour in which no stop falls between usiMulti.rb:180 and :183.
THEOREM ClusterTyped ==
  Spec /\ StopsOutside => []TypeOK
<1>1. ClusterInvariant => TypeOK
  BY TypesSay DEF ClusterInvariant
<1> QED
  BY <1>1, ClusterHolds, PTL

\* A thread's results go up to a thread that is nearer to the root: who waits for nobody's
\* :stopped leaves no thread behind.
LEMMA NobodyLeft ==
  ASSUME Types, Tree, Kin(Client) = {}, Kin(Finish) = {}
  PROVE  Live = {}
<1>1. SUFFICES ASSUME Live # {} PROVE FALSE
  OBVIOUS
<1>2. PICK P : P = {node[o].ply : o \in Live}
  OBVIOUS
<1>3. P \subseteq Nat /\ P # {}
  <2>1. \A o \in Live : node[o].ply \in Nat
    BY LiveTypes
  <2> QED
    BY <1>1, <1>2, <2>1
<1>4. PICK y \in P : \A x \in P : y <= x
  BY <1>3, LeastNat
<1>5. PICK o \in Live : node[o].ply = y
  BY <1>2, <1>4
<1>6. node[o].sink \notin External
  BY <1>5 DEF Kin, External
<1>7. node[o].sink \in Live /\ node[node[o].sink].ply < node[o].ply
  BY <1>5, <1>6 DEF Tree, Sinks
<1>8. node[node[o].sink].ply \in P /\ node[node[o].sink].ply \in Nat /\ y \in Nat
  BY <1>2, <1>3, <1>4, <1>7
<1> QED
  BY <1>4, <1>5, <1>7, <1>8

\* In every behaviour in which no stop, the client's or an object's own, falls between
\* usiMulti.rb:180 and :183, wait_stopped of the client returns when every process and every
\* thread of its search has ended: the stubs are free for the next search. After such a stop
\* it returns while they work.
THEOREM EndIsQuietHolds ==
  Spec /\ StopsOutside => []EndIsQuiet
<1>1. ClusterInvariant => EndIsQuiet
  <2>1. SUFFICES ASSUME ClusterInvariant, CanFinish(Client)
                 PROVE  Live = {} /\ \A e \in Engine : eng[e].jobs = <<>>
    BY DEF EndIsQuiet
  <2>2. Types /\ Tree /\ Load(Client) = 1 /\ Load(Finish) = 0 /\ Client \in Queue /\ Finish \in Queue
    BY <2>1, Sizes DEF ClusterInvariant, ClientInv, External
  <2>3. Busy(Client) = {} /\ Kin(Client) = {}
    BY <2>1, <2>2, LastEnd
  <2>4. Busy(Finish) = {} /\ Kin(Finish) = {}
    BY <2>2, NoLoad
  <2>5. Live = {}
    BY <2>2, <2>3, <2>4, NobodyLeft
  <2>6. ASSUME NEW e \in Engine, Open(e) PROVE FALSE
    <3>1. eng[e].sink \in External
      BY <2>2, <2>5, <2>6 DEF Tree, Sinks
    <3> QED
      BY <2>3, <2>4, <2>6, <3>1 DEF Busy, External
  <2> QED
    BY <2>5, <2>6 DEF Open
<1> QED
  BY <1>1, ClusterHolds, PTL
=============================================================================
