----------------------------- MODULE IntProofs -----------------------------
(***************************************************************************)
(* Integers of every width: a value is always the representative of its    *)
(* type, a for loop's index is always its counter, the laws of the         *)
(* truncating division and of casts between signednesses, and the          *)
(* refinement: every step of the unbounded integers is the step of Words   *)
(* on the two's-complement digits of their values.                         *)
(***************************************************************************)
EXTENDS IntRefine, FiniteSetTheorems, SequenceTheorems, TLAPS

-----------------------------------------------------------------------------
(* Recursion on the naturals, from the well-foundedness of finite sets.    *)

\* A set of naturals that holds 0 and the successors of what it holds is all
\* of them.
LEMMA SetInduction ==
  ASSUME NEW S, 0 \in S, \A n \in Nat : n \in S => n + 1 \in S
  PROVE  Nat \subseteq S
<1> DEFINE R == StrictSubsetOrdering(Nat)
           F == FiniteSubsetsOf(Nat)
           T == {1 .. n : n \in Nat \ S}
<1> SUFFICES ASSUME Nat \ S # {} PROVE FALSE
  OBVIOUS
<1>1. IsWellFoundedOn(R, F)
  BY FS_StrictSubsetOrderingWellFounded
<1>2. T \subseteq F /\ T # {}
  <2>1. ASSUME NEW n \in Nat PROVE 1 .. n \in F
    <3>1. IsFiniteSet(1 .. n)
      BY FS_Interval
    <3> QED BY <3>1 DEF FiniteSubsetsOf
  <2> HIDE DEF F
  <2> QED BY <2>1
<1>3. \A X, Y : <<Y, X>> \in R <=> Y \in SUBSET Nat /\ X \in SUBSET Nat /\ Y \subseteq X /\ Y # X
  BY DEF StrictSubsetOrdering
<1>4. PICK X \in T : \A Y \in T : ~(<<Y, X>> \in R)
  <2> HIDE DEF R, F, T
  <2> QED BY <1>1, <1>2, WFMin
<1> PICK n \in Nat \ S : X = 1 .. n
  OBVIOUS
<1>5. n - 1 \in Nat \ S
  OBVIOUS
<1>6. 1 .. n - 1 \subseteq X /\ 1 .. n - 1 # X
  <2>1. n \in 1 .. n /\ n \notin 1 .. n - 1
    BY <1>5
  <2> QED BY <2>1
<1>7. 1 .. n - 1 \in SUBSET Nat /\ X \in SUBSET Nat
  OBVIOUS
<1>8. 1 .. n - 1 \in T
  BY <1>5
<1>9. <<1 .. n - 1, X>> \in R
  BY <1>6, <1>7, <1>3
<1> QED BY <1>8, <1>9, <1>4

\* A recursion over the naturals, or over those up to a bound, has a solution.
IsStart(S) == S \subseteq Nat /\ \A n \in S : n = 0 \/ n - 1 \in S
\* A rule gives values of V.
IsRule(G, V) == \A n \in Nat, w \in V : G[<<n, w>>] \in V
\* A function on S that starts at v and takes each further value from the
\* one before.
Follows(f, S, v, G) == \A n \in S : f[n] = IF n = 0 THEN v ELSE G[<<n, f[n - 1]>>]

\* There is a function that follows a rule from 0 on.
LEMMA Recursion ==
  ASSUME NEW S, NEW V, NEW v, NEW G, IsStart(S), v \in V, IsRule(G, V)
  PROVE  \E f \in [S -> V] : Follows(f, S, v, G)
<1>0. S \subseteq Nat /\ \A n \in S : n = 0 \/ n - 1 \in S
  BY DEF IsStart
<1> DEFINE Good(n, g) == /\ g \in [0 .. n -> V]
                         /\ g[0] = v
                         /\ \A k \in 0 .. n : k # 0 => g[k] = G[<<k, g[k - 1]>>]
           E == {n \in Nat : \E g : Good(n, g)}
           U == {n \in Nat : \A g, h, m : m \in Nat /\ n <= m /\ Good(n, g) /\ Good(m, h) => g[n] = h[n]}
<1>1. Nat \subseteq E
  <2>1. 0 \in E
    <3>1. Good(0, [k \in 0 .. 0 |-> v])
      OBVIOUS
    <3> QED BY <3>1
  <2>2. ASSUME NEW n \in Nat, n \in E PROVE n + 1 \in E
    <3>1. PICK g : Good(n, g)
      BY <2>2
    <3> DEFINE h == [k \in 0 .. n + 1 |-> IF k = n + 1 THEN G[<<n + 1, g[n]>>] ELSE g[k]]
    <3>2. G[<<n + 1, g[n]>>] \in V
      <4>1. g[n] \in V
        BY <3>1
      <4> HIDE DEF Good
      <4> QED BY <4>1 DEF IsRule
    <3>3. h \in [0 .. n + 1 -> V] /\ h[0] = v
      BY <3>1, <3>2
    <3>4. ASSUME NEW k \in 0 .. n + 1, k # 0 PROVE h[k] = G[<<k, h[k - 1]>>]
      <4>1. CASE k = n + 1
        BY <4>1
      <4>2. CASE k # n + 1
        <5>1. k \in 0 .. n /\ k - 1 \in 0 .. n + 1 /\ k - 1 # n + 1
          BY <3>4, <4>2
        <5>2. g[k] = G[<<k, g[k - 1]>>]
          BY <3>1, <3>4, <5>1
        <5>3. h[k] = g[k] /\ h[k - 1] = g[k - 1]
          BY <5>1, <4>2
        <5> QED BY <5>2, <5>3
      <4> QED BY <4>1, <4>2
    <3>5. Good(n + 1, h)
      BY <3>3, <3>4
    <3> HIDE DEF Good, h
    <3> QED BY <3>5
  <2> HIDE DEF E
  <2> QED BY <2>1, <2>2, SetInduction
<1>2. Nat \subseteq U
  <2>1. 0 \in U
    OBVIOUS
  <2>2. ASSUME NEW n \in Nat, n \in U PROVE n + 1 \in U
    <3>0. n + 1 \in Nat
      OBVIOUS
    <3> SUFFICES ASSUME NEW g, NEW h, NEW m \in Nat, n + 1 <= m, Good(n + 1, g), Good(m, h)
                 PROVE  g[n + 1] = h[n + 1]
      <4> HIDE DEF Good, E
      <4> QED BY <3>0
    <3> DEFINE gg == [k \in 0 .. n |-> g[k]]
    <3>1. Good(n, gg)
      <4>1. gg \in [0 .. n -> V]
        OBVIOUS
      <4>2. gg[0] = v
        OBVIOUS
      <4>3. ASSUME NEW k \in 0 .. n, k # 0 PROVE gg[k] = G[<<k, gg[k - 1]>>]
        <5>1. k \in 0 .. n + 1 /\ k - 1 \in 0 .. n
          BY <4>3
        <5>2. g[k] = G[<<k, g[k - 1]>>]
          BY <5>1, <4>3
        <5> QED BY <5>1, <5>2
      <4> QED BY <4>1, <4>2, <4>3
    <3>2. gg[n] = h[n]
      <4> HIDE DEF Good, gg
      <4>1. n <= m
        OBVIOUS
      <4> QED BY <3>1, <2>2, <4>1
    <3>3. gg[n] = g[n]
      OBVIOUS
    <3>4. /\ n + 1 \in 0 .. n + 1 /\ n + 1 \in 0 .. m /\ (n + 1) - 1 = n /\ n + 1 # 0
      OBVIOUS
    <3>5. /\ g[n + 1] = G[<<n + 1, g[(n + 1) - 1]>>]
          /\ h[n + 1] = G[<<n + 1, h[(n + 1) - 1]>>]
      BY ONLY <3>4, Good(n + 1, g), Good(m, h) DEF Good
    <3> QED BY <3>2, <3>3, <3>4, <3>5
  <2> HIDE DEF U
  <2> QED BY <2>1, <2>2, SetInduction
<1> DEFINE At(n) == CHOOSE g : Good(n, g)
           f == [n \in S |-> At(n)[n]]
<1>3. \A n \in Nat : Good(n, At(n))
  <2> HIDE DEF Good
  <2> QED BY <1>1
<1>4. ASSUME NEW n \in S PROVE At(n)[n] \in V
  <2>1. At(n) \in [0 .. n -> V] /\ n \in Nat
    BY <1>0, <1>3
  <2> HIDE DEF At
  <2> QED BY <2>1
<1>5. ASSUME NEW n \in S, n # 0 PROVE f[n] = G[<<n, f[n - 1]>>]
  <2>1. n - 1 \in S /\ n \in Nat /\ n - 1 \in Nat /\ n - 1 <= n
    BY <1>0, <1>5
  <2>2. Good(n, At(n)) /\ Good(n - 1, At(n - 1))
    BY <2>1, <1>3
  <2>3. At(n)[n] = G[<<n, At(n)[n - 1]>>]
    <3>1. n \in 0 .. n
      BY <2>1
    <3> HIDE DEF At
    <3> QED BY <2>2, <3>1, <1>5
  <2>4. At(n - 1)[n - 1] = At(n)[n - 1]
    <3> HIDE DEF Good, At
    <3> QED BY <2>1, <2>2, <1>2
  <2>5. f[n] = At(n)[n] /\ f[n - 1] = At(n - 1)[n - 1]
    BY <2>1
  <2> HIDE DEF f, At
  <2> QED BY <2>3, <2>4, <2>5
<1>6. ASSUME 0 \in S PROVE f[0] = v
  <2>1. Good(0, At(0))
    BY <1>3
  <2>2. At(0)[0] = v
    <3> HIDE DEF At
    <3> QED BY <2>1
  <2> QED BY <1>6, <2>2
<1>7. f \in [S -> V]
  BY <1>4
<1> HIDE DEF f
<1> QED BY <1>5, <1>6, <1>7 DEF Follows

-----------------------------------------------------------------------------
\* The equations of powers.
LEMMA PowersEq ==
  ASSUME NEW b \in Nat
  PROVE  /\ powers(b) \in [Nat -> Nat]
         /\ powers(b)[0] = 1
         /\ \A n \in Nat : powers(b)[n + 1] = b * powers(b)[n]
<1> DEFINE G == [p \in Nat \X Nat |-> b * p[2]]
           Eq(p) == p = [n \in Nat |-> IF n = 0 THEN 1 ELSE b * p[n - 1]]
<1>1. PICK f \in [Nat -> Nat] : Follows(f, Nat, 1, G)
  <2>1. IsRule(G, Nat)
    BY DEF IsRule
  <2>2. IsStart(Nat)
    BY DEF IsStart
  <2> HIDE DEF G
  <2> QED BY <2>1, <2>2, Recursion
<1>2. f = [n \in Nat |-> IF n = 0 THEN 1 ELSE b * f[n - 1]]
  <2>1. \A n \in Nat : n # 0 => G[<<n, f[n - 1]>>] = b * f[n - 1]
    OBVIOUS
  <2>2. f = [n \in Nat |-> f[n]]
    OBVIOUS
  <2> HIDE DEF G
  <2> QED BY <1>1, <2>1, <2>2 DEF Follows
<1>3. powers(b) = CHOOSE p : Eq(p)
  BY DEF powers
<1>4. Eq(f)
  BY <1>2
<1>5. Eq(powers(b))
  <2> HIDE DEF Eq
  <2> QED BY <1>3, <1>4
<1> DEFINE g == powers(b)
<1>6. g = [n \in Nat |-> IF n = 0 THEN 1 ELSE b * g[n - 1]]
  BY <1>5
<1> HIDE DEF g
<1>7. g[0] = 1 /\ \A n \in Nat : g[n + 1] = b * g[n]
  <2>1. \A n \in Nat : n + 1 \in Nat /\ n + 1 # 0 /\ (n + 1) - 1 = n
    OBVIOUS
  <2> QED BY <1>6, <2>1
<1> DEFINE S == {n \in Nat : g[n] \in Nat}
<1>8. Nat \subseteq S
  <2>1. 0 \in S
    BY <1>7
  <2>2. \A n \in Nat : n \in S => n + 1 \in S
    BY <1>7
  <2> HIDE DEF S
  <2> QED BY <2>1, <2>2, SetInduction
<1>9. g \in [Nat -> Nat]
  <2>1. \A n \in Nat : g[n] \in Nat
    BY <1>8
  <2>2. g = [n \in Nat |-> g[n]]
    BY <1>6
  <2> QED BY <2>1, <2>2
<1> QED BY <1>7, <1>9 DEF g

\* Powers of two.
LEMMA Pow2 ==
  /\ pow2(0) = 1
  /\ \A n \in Nat : pow2(n) \in Nat \ {0} /\ pow2(n + 1) = 2 * pow2(n)
<1>1. pow2(0) = 1 /\ \A n \in Nat : pow2(n) \in Nat /\ pow2(n + 1) = 2 * pow2(n)
  BY PowersEq DEF pow2, power
<1> DEFINE S == {n \in Nat : pow2(n) # 0}
<1>2. 0 \in S
  BY <1>1
<1>3. \A n \in Nat : n \in S => n + 1 \in S
  BY <1>1
<1>4. Nat \subseteq S
  <2> HIDE DEF S
  <2> QED BY <1>2, <1>3, SetInduction
<1> QED BY <1>1, <1>4

-----------------------------------------------------------------------------
(* Division that rounds down, powers of two and the bits of an integer.    *)

\* Division rounds down and leaves a remainder.
LEMMA DivMod ==
  ASSUME NEW a \in Int, NEW m \in Nat \ {0}
  PROVE  \E q \in Int, r \in Int :
           q = a \div m /\ r = a % m /\ 0 <= r /\ r < m /\ a = m * q + r
<1> DEFINE q == a \div m
           r == a % m
<1>1. q \in Int /\ r \in 0 .. m - 1 /\ a = m * q + r
  OBVIOUS
<1>2. q = a \div m /\ r = a % m
  OBVIOUS
<1> HIDE DEF q, r
<1>3. r \in Int /\ 0 <= r /\ r < m
  BY <1>1
<1> QED BY <1>1, <1>2, <1>3

\* There is one such quotient and remainder.
LEMMA DivUnique ==
  ASSUME NEW a \in Int, NEW m \in Nat \ {0}, NEW q \in Int, NEW r \in Int,
         0 <= r, r < m, a = m * q + r
  PROVE  a \div m = q /\ a % m = r
<1>1. PICK p \in Int, s \in Int :
        p = a \div m /\ s = a % m /\ 0 <= s /\ s < m /\ a = m * p + s
  BY DivMod
<1>2. m * (p - q) = r - s
  <2>1. m * (p - q) = m * p - m * q
    BY <1>1
  <2>2. m * p \in Int /\ m * q \in Int
    BY <1>1
  <2> QED BY <2>1, <2>2, <1>1
<1>3. p - q < 1
  <2> SUFFICES ASSUME p - q >= 1 PROVE FALSE
    BY <1>1
  <2>1. m * (p - q) >= m
    BY <1>1
  <2> QED BY <2>1, <1>1, <1>2
<1>4. p - q > -1
  <2> SUFFICES ASSUME q - p >= 1 PROVE FALSE
    BY <1>1
  <2>1. m * (q - p) >= m /\ m * (q - p) = -(m * (p - q))
    BY <1>1
  <2> QED BY <2>1, <1>1, <1>2
<1>5. p = q
  BY <1>1, <1>3, <1>4
<1>6. s = r
  BY <1>1, <1>2, <1>5
<1> QED BY ONLY <1>1, <1>5, <1>6, Zenon

\* Dividing twice divides by the product.
LEMMA DivDiv ==
  ASSUME NEW a \in Int, NEW m \in Nat \ {0}, NEW n \in Nat \ {0}
  PROVE  (a \div m) \div n = a \div (m * n)
<1>1. PICK q \in Int, r \in Int :
        q = a \div m /\ r = a % m /\ 0 <= r /\ r < m /\ a = m * q + r
  BY DivMod
<1>2. PICK s \in Int, t \in Int :
        s = q \div n /\ t = q % n /\ 0 <= t /\ t < n /\ q = n * s + t
  BY DivMod
<1>a. 0 <= r /\ r < m /\ a = m * q + r
  BY <1>1
<1>b. 0 <= t /\ t < n /\ q = n * s + t
  BY <1>2
<1>3. m * n \in Nat \ {0}
  <2>1. m * n \in Int /\ m * n >= m
    OBVIOUS
  <2> QED BY <2>1
<1>4. a = (m * n) * s + (m * t + r)
  <2>1. m * (n * s + t) = (m * n) * s + m * t
    OBVIOUS
  <2>2. a = ((m * n) * s + m * t) + r
    BY ONLY <1>a, <1>b, <2>1
  <2> DEFINE x == (m * n) * s
             y == m * t
  <2>3. x \in Int /\ y \in Int /\ a = (x + y) + r
    BY <2>2
  <2> HIDE DEF x, y
  <2>4. a = x + (y + r)
    BY ONLY <2>3, r \in Int
  <2> QED BY <2>4 DEF x, y
<1>5. m * t + r \in Int /\ 0 <= m * t + r /\ m * t + r < m * n
  <2> DEFINE x == m * n
             y == m * t
  <2>1. y \in Int /\ y >= 0
    BY <1>b
  <2>2. m * t <= m * (n - 1)
    BY <1>b
  <2>3. m * (n - 1) = m * n - m
    OBVIOUS
  <2>4. y <= x - m /\ x \in Int
    BY <2>2, <2>3
  <2> HIDE DEF x, y
  <2>5. y + r \in Int /\ 0 <= y + r /\ y + r < x
    BY ONLY <2>1, <2>4, <1>a, r \in Int, m \in Int
  <2> QED BY <2>5 DEF x, y
<1>6. a \div (m * n) = s
  <2> DEFINE x == m * n
             y == m * t + r
  <2>1. x \in Nat \ {0} /\ y \in Int /\ 0 <= y /\ y < x /\ a = x * s + y
    BY ONLY <1>3, <1>4, <1>5, Zenon
  <2> HIDE DEF x, y
  <2>2. a \div x = s
    BY ONLY <2>1, a \in Int, s \in Int, DivUnique
  <2> QED BY ONLY <2>2 DEF x
<1> QED BY ONLY <1>1, <1>2, <1>6, Zenon

-----------------------------------------------------------------------------
\* The powers of two turn sums into products.
LEMMA PowAdd ==
  ASSUME NEW i \in Nat, NEW j \in Nat
  PROVE  pow2(i + j) = pow2(i) * pow2(j)
<1> DEFINE S == {k \in Nat : pow2(i + k) = pow2(i) * pow2(k)}
<1>1. 0 \in S
  BY Pow2
<1>2. ASSUME NEW k \in Nat, k \in S PROVE k + 1 \in S
  <2>1. i + (k + 1) = (i + k) + 1 /\ i + k \in Nat
    OBVIOUS
  <2>2. pow2(i + (k + 1)) = 2 * pow2(i + k) /\ pow2(k + 1) = 2 * pow2(k)
    BY <2>1, Pow2
  <2> DEFINE x == pow2(i)
             y == pow2(k)
  <2>3. x \in Nat /\ y \in Nat /\ pow2(i + k) = x * y
    BY <1>2, Pow2
  <2> HIDE DEF x, y
  <2>4. 2 * (x * y) = x * (2 * y)
    BY <2>3
  <2> QED BY <2>2, <2>3, <2>4 DEF x, y
<1>3. Nat \subseteq S
  <2> HIDE DEF S
  <2> QED BY <1>1, <1>2, SetInduction
<1> QED BY <1>3

\* The powers of two do not fall.
LEMMA PowMono ==
  ASSUME NEW i \in Nat, NEW j \in Nat, i <= j
  PROVE  pow2(i) <= pow2(j)
<1>1. j - i \in Nat /\ i + (j - i) = j
  OBVIOUS
<1>2. pow2(j) = pow2(i) * pow2(j - i)
  BY <1>1, PowAdd
<1> DEFINE x == pow2(i)
           y == pow2(j - i)
<1>3. x \in Nat /\ y \in Nat \ {0}
  BY <1>1, Pow2
<1> HIDE DEF x, y
<1>4. x * y >= x
  BY <1>3
<1> QED BY <1>2, <1>4 DEF x, y

\* A quotient by a power of two is twice the next one and a bit.
LEMMA BitFacts ==
  ASSUME NEW v \in Int, NEW i \in Nat
  PROVE  /\ bit(v, i + 1) \in {0, 1}
         /\ v \div pow2(i) \in Int
         /\ v \div pow2(i) = 2 * (v \div pow2(i + 1)) + bit(v, i + 1)
<1> DEFINE m == pow2(i)
           q == v \div m
<1>1. m \in Nat \ {0} /\ pow2(i + 1) = m * 2
  BY Pow2
<1> HIDE DEF m
<1>2. q \in Int
  BY <1>1
<1>3. q \div 2 = v \div pow2(i + 1)
  <2>1. 2 \in Nat \ {0}
    OBVIOUS
  <2>2. (v \div m) \div 2 = v \div (m * 2)
    BY ONLY <1>1, <2>1, v \in Int, DivDiv
  <2> QED BY <2>2, <1>1
<1>4. bit(v, i + 1) = q % 2
  BY DEF bit, m
<1>5. PICK s \in Int, t \in Int :
        s = q \div 2 /\ t = q % 2 /\ 0 <= t /\ t < 2 /\ q = 2 * s + t
  <2>1. 2 \in Nat \ {0}
    OBVIOUS
  <2> HIDE DEF q
  <2> QED BY ONLY <1>2, <2>1, DivMod
<1>6. t \in {0, 1}
  <2>1. 0 <= t /\ t < 2
    BY ONLY <1>5, Zenon
  <2> QED BY ONLY <2>1, t \in Int
<1>7. bit(v, i + 1) = t /\ v \div pow2(i + 1) = s
  BY ONLY <1>3, <1>4, <1>5, Zenon
<1>8. v \div pow2(i) = q
  BY DEF m
<1> HIDE DEF q
<1> QED BY ONLY <1>2, <1>5, <1>6, <1>7, <1>8, Zenon

\* A shifted integer has the bits from there on.
LEMMA BitShift ==
  ASSUME NEW v \in Int, NEW k \in Nat, NEW i \in Nat \ {0}
  PROVE  bit(v \div pow2(k), i) = bit(v, k + i)
<1>1. i - 1 \in Nat /\ k + (i - 1) = (k + i) - 1
  OBVIOUS
<1>2. (v \div pow2(k)) \div pow2(i - 1) = v \div pow2((k + i) - 1)
  <2>1. pow2(k) \in Nat \ {0} /\ pow2(i - 1) \in Nat \ {0}
    BY <1>1, Pow2
  <2>2. pow2(k) * pow2(i - 1) = pow2((k + i) - 1)
    BY <1>1, PowAdd
  <2> QED BY <2>1, <2>2, DivDiv
<1> QED BY <1>2 DEF bit

-----------------------------------------------------------------------------
(* Canonical values, the loop index, division and casts.                   *)

(* The powers of two a type's range is made of. *)
LEMMA WidthPowers ==
  ASSUME NEW n \in 1 .. MaxBits
  PROVE  /\ pow2(n) \in Nat \ {0} /\ pow2(n - 1) \in Nat \ {0}
         /\ pow2(n) = 2 * pow2(n - 1)
<1>1. n - 1 \in Nat /\ (n - 1) + 1 = n  BY WidthAssumption
<1> QED BY <1>1, Pow2

(* A power of a radix is positive. *)
LEMMA PowerPositive ==
  ASSUME NEW b \in Nat \ {0}, NEW k \in Nat
  PROVE  power(b, k) \in Nat \ {0}
<1> DEFINE g == powers(b)
           S == {n \in Nat : g[n] \in Nat \ {0}}
<1>1. g[0] = 1 /\ \A n \in Nat : g[n + 1] = b * g[n]  BY PowersEq
<1> HIDE DEF g
<1>2. 0 \in S  BY <1>1
<1>3. ASSUME NEW n \in Nat, n \in S PROVE n + 1 \in S
  <2>1. b * g[n] \in Nat /\ b * g[n] # 0  BY <1>3
  <2> QED BY <1>1, <2>1
<1>4. Nat \subseteq S
  <2> HIDE DEF S
  <2> QED BY <1>2, <1>3, SetInduction
<1> QED BY <1>4 DEF power, g

(* The remainder takes the dividend's sign and is smaller than the divisor. *)
LEMMA RemainderBounded ==
  ASSUME NEW a \in Int, NEW m \in Nat \ {0}
  PROVE  /\ Remainder(a, m) \in Int
         /\ a < 0  => -m < Remainder(a, m) /\ Remainder(a, m) <= 0
         /\ a >= 0 => 0 <= Remainder(a, m) /\ Remainder(a, m) < m
<1>1. Abs(m) = m  BY DEF Abs
<1>2. Abs(a) \in Nat  BY DEF Abs
<1>3. Abs(a) % m \in 0 .. m - 1  BY <1>2
<1> QED BY <1>1, <1>2, <1>3 DEF Remainder

(* wrap reduces any integer into the range of the type. *)
LEMMA WrapInRange ==
  ASSUME NEW ty \in IntType, NEW raw \in Int
  PROVE  wrap(ty, raw) \in least(ty) .. greatest(ty)
<1> DEFINE m == pow2(ty.bits)
           h == pow2(ty.bits - 1)
           r == Remainder(raw, m)
<1>1. ty.bits \in 1 .. MaxBits /\ ty.signed \in BOOLEAN  BY DEF IntType
<1>2. m \in Nat \ {0} /\ h \in Nat \ {0} /\ m = 2 * h  BY <1>1, WidthPowers
<1> HIDE DEF m, h
<1>3. r \in Int /\ -m < r /\ r < m  BY <1>2, RemainderBounded
<1> HIDE DEF r
<1>4. wrap(ty, raw) = LET u == IF r < 0 THEN r + m ELSE r
                      IN  IF ty.signed /\ u >= h THEN u - m ELSE u
  BY DEF wrap, m, h, r
<1>5. least(ty) = (IF ty.signed THEN -h ELSE 0)
      /\ greatest(ty) = (IF ty.signed THEN h - 1 ELSE m - 1)
  BY DEF least, greatest, m, h
<1> QED BY <1>1, <1>2, <1>3, <1>4, <1>5

(* wrap changes nothing in the range of the type. *)
LEMMA WrapIdentity ==
  ASSUME NEW ty \in IntType, NEW v \in least(ty) .. greatest(ty)
  PROVE  wrap(ty, v) = v
<1> DEFINE m == pow2(ty.bits)
           h == pow2(ty.bits - 1)
<1>1. ty.bits \in 1 .. MaxBits /\ ty.signed \in BOOLEAN  BY DEF IntType
<1>2. m \in Nat \ {0} /\ h \in Nat \ {0} /\ m = 2 * h  BY <1>1, WidthPowers
<1>3. wrap(ty, v) = LET r == Remainder(v, m)
                        u == IF r < 0 THEN r + m ELSE r
                    IN  IF ty.signed /\ u >= h THEN u - m ELSE u
  BY DEF wrap
<1>4. least(ty) = (IF ty.signed THEN -h ELSE 0)
      /\ greatest(ty) = (IF ty.signed THEN h - 1 ELSE m - 1)
  BY DEF least, greatest
<1> HIDE DEF m, h
<1>5. v \in Int /\ -m < v /\ v < m  BY <1>1, <1>2, <1>4
<1>6. Remainder(v, m) = v
  <2>1. Abs(m) = m /\ Abs(v) \in 0 .. m - 1  BY <1>2, <1>5 DEF Abs
  <2>2. Abs(v) % m = Abs(v)  BY <1>2, <2>1
  <2> QED BY <1>5, <2>1, <2>2 DEF Remainder, Abs
<1> QED BY <1>1, <1>2, <1>3, <1>4, <1>5, <1>6

(* An IntValue's type and value. *)
LEMMA IntValueFacts ==
  ASSUME NEW x \in IntValue
  PROVE  /\ x.type \in IntType
         /\ x \in IntValueOf(x.type)
         /\ x.value \in least(x.type) .. greatest(x.type)
         /\ x = [type |-> x.type, value |-> x.value]
BY DEF IntValue, IntValueOf

(* The range of a type, and the range of its bit patterns. *)
LEMMA PatternInRange ==
  ASSUME NEW x \in IntValue
  PROVE  /\ x.value \in Int
         /\ unsigned_repr(x) \in 0 .. pow2(x.type.bits) - 1
<1> DEFINE ty == x.type
           m == pow2(ty.bits)
           h == pow2(ty.bits - 1)
<1>1. ty.bits \in 1 .. MaxBits /\ ty.signed \in BOOLEAN
      /\ x.value \in least(ty) .. greatest(ty)
  BY IntValueFacts DEF IntType
<1>2. m \in Nat \ {0} /\ h \in Nat \ {0} /\ m = 2 * h  BY <1>1, WidthPowers
<1>3. least(ty) = (IF ty.signed THEN -h ELSE 0)
      /\ greatest(ty) = (IF ty.signed THEN h - 1 ELSE m - 1)
  BY DEF least, greatest
<1>4. unsigned_repr(x) = IF x.value < 0 THEN x.value + m ELSE x.value
  BY DEF unsigned_repr
<1> HIDE DEF m, h, ty
<1>5. x.value \in Int /\ unsigned_repr(x) \in 0 .. m - 1  BY <1>1, <1>2, <1>3, <1>4
<1> QED BY <1>5 DEF m, ty
-----------------------------------------------------------------------------
(* canonical makes a value of any integer. *)
LEMMA CanonicalIsValue ==
  ASSUME NEW ty \in IntType, NEW raw \in Int
  PROVE  canonical(ty, raw) \in IntValue
BY WrapInRange DEF canonical, IntValue, IntValueOf

(* checked makes a value of every integer it accepts. *)
LEMMA CheckedIsValue ==
  ASSUME NEW ty \in IntType, NEW raw \in Int, checked(ty, raw).ok
  PROVE  checked(ty, raw).int \in IntValue
<1> DEFINE h == pow2(ty.bits - 1)
           m == pow2(ty.bits)
<1>1. ty.bits \in 1 .. MaxBits  BY DEF IntType
<1>2. h \in Int /\ m \in Int  BY <1>1, WidthPowers
<1> HIDE DEF h, m
<1>3. least(ty) \in Int /\ greatest(ty) \in Int  BY <1>2 DEF least, greatest, h, m
<1>4. ~(raw < least(ty) \/ raw > greatest(ty))  BY DEF checked, Fail
<1>5. raw \in least(ty) .. greatest(ty)  BY <1>3, <1>4
<1>6. checked(ty, raw).int = [type |-> ty, value |-> raw]  BY <1>4 DEF checked, Ok
<1> QED BY <1>5, <1>6 DEF IntValue, IntValueOf

(* What a successful operation leaves in the local.                        *)
Gives(r) == r.ok => r.int \in IntValue

(* canonical and checked results, and errors, give values. *)
LEMMA GivesCanonical ==
  ASSUME NEW ty \in IntType, NEW raw \in Int
  PROVE  Gives(Ok(canonical(ty, raw)))
BY CanonicalIsValue DEF Gives, Ok

(* checked gives a value or an error. *)
LEMMA GivesChecked ==
  ASSUME NEW ty \in IntType, NEW raw \in Int
  PROVE  Gives(checked(ty, raw))
BY CheckedIsValue DEF Gives

(* An error gives nothing. *)
LEMMA GivesFailure ==
  ASSUME NEW e
  PROVE  Gives(Fail(e))
BY DEF Gives, Fail

(* The truncating quotient is an integer. *)
LEMMA QuotientInt ==
  ASSUME NEW a \in Int, NEW b \in Int, b # 0
  PROVE  Quotient(a, b) \in Int /\ Remainder(a, b) \in Int
<1>1. Abs(a) \in Nat /\ Abs(b) \in Nat \ {0}  BY DEF Abs
<1>2. Abs(a) \div Abs(b) \in Int /\ Abs(a) % Abs(b) \in Int  BY <1>1
<1>3. Quotient(a, b) \in Int  BY ONLY <1>2 DEF Quotient
<1>4. a >= 0 => Abs(a) = a  BY DEF Abs
<1>5. Remainder(a, b) \in Int  BY ONLY <1>2, <1>4, a \in Int DEF Remainder
<1> QED BY <1>3, <1>5

(* The five arithmetic operators. *)
LEMMA GivesArithmetic ==
  ASSUME NEW a \in IntValue, NEW b \in IntValue, NEW op \in ArithOp
  PROVE  Gives(arithmetic(op, a, b))
<1>1. a.type \in IntType /\ a.value \in Int /\ b.value \in Int
  BY IntValueFacts, PatternInRange
<1>2. CASE op = "Add"
  BY <1>1, <1>2, GivesChecked DEF arithmetic
<1>3. CASE op = "Subtract"
  BY <1>1, <1>3, GivesChecked DEF arithmetic
<1>4. CASE op = "Multiply"
  <2>1. a.value * b.value \in Int  BY <1>1
  <2> QED BY <1>1, <1>4, <2>1, GivesChecked DEF arithmetic
<1>5. CASE op = "Divide"
  <2>1. CASE b.value = 0
    BY <1>5, <2>1, GivesFailure DEF arithmetic, Divided
  <2>2. CASE b.value # 0
    BY <1>1, <1>5, <2>2, QuotientInt, GivesChecked DEF arithmetic, Divided
  <2> QED BY <2>1, <2>2
<1>6. CASE op = "Modulo"
  <2>1. CASE b.value = 0
    BY <1>6, <2>1, GivesFailure DEF arithmetic, Reduced
  <2>2. CASE b.value # 0
    BY <1>1, <1>6, <2>2, QuotientInt, GivesCanonical, GivesFailure DEF arithmetic, Reduced
  <2> QED BY <2>1, <2>2
<1> QED BY <1>2, <1>3, <1>4, <1>5, <1>6 DEF ArithOp

(* The bitwise operators, whose operands are bit patterns of one type. *)
LEMMA GivesBitwise ==
  ASSUME NEW a \in IntValue, NEW b \in IntValue, a.type = b.type, NEW op \in BitwiseOp
  PROVE  Gives(bitwise(op, a, b))
<1> DEFINE p == unsigned_repr(a)
           q == unsigned_repr(b)
           n == a.type.bits
<1>1. a.type \in IntType /\ n \in 1 .. MaxBits  BY IntValueFacts DEF IntType
<1>2. p \in 0 .. pow2(n) - 1 /\ q \in 0 .. pow2(n) - 1  BY PatternInRange
<1> HIDE DEF p, q, n
<1>3. BitAnd(p, q) \in Int /\ BitOr(p, q) \in Int /\ BitXor(p, q) \in Int
  BY <1>1, <1>2, BitwiseAssumption
<1>4. CASE op = "And"  BY <1>1, <1>3, <1>4, GivesCanonical DEF bitwise, p, q
<1>5. CASE op = "Or"   BY <1>1, <1>3, <1>5, GivesCanonical DEF bitwise, p, q
<1>6. CASE op = "Xor"  BY <1>1, <1>3, <1>6, GivesCanonical DEF bitwise, p, q
<1> QED BY <1>4, <1>5, <1>6 DEF BitwiseOp

(* The shifts. *)
LEMMA GivesShift ==
  ASSUME NEW a \in IntValue, NEW b \in IntValue, a.type = b.type, NEW op \in ShiftOp
  PROVE  Gives(shift(op, a, b))
<1> DEFINE k == unsigned_repr(b)
           u == unsigned_repr(a)
           n == a.type.bits
<1>1. a.type \in IntType /\ n \in 1 .. MaxBits  BY IntValueFacts DEF IntType
<1>2. pow2(n) \in Nat \ {0}  BY <1>1, WidthPowers
<1>3. k \in 0 .. pow2(n) - 1 /\ u \in 0 .. pow2(n) - 1 /\ a.value \in Int
  BY PatternInRange
<1>4. CASE k >= n
  BY <1>4, GivesFailure DEF shift
<1>5. CASE ~(k >= n)
  <2>1. k \in Nat /\ u \in Int /\ k < n  BY <1>1, <1>2, <1>3, <1>5
  <2>2. pow2(k) \in Nat \ {0}  BY <2>1, Pow2
  <2> DEFINE m == pow2(k)
  <2> HIDE DEF m, u, k, n
  <2>3. u * m \in Int /\ a.value \div m \in Int  BY <1>3, <2>1, <2>2 DEF m
  <2>4. shift(op, a, b) = Ok(canonical(a.type, IF op = "ShiftLeft" THEN u * m ELSE a.value \div m))
    BY <1>5 DEF shift, m, u, k, n
  <2> QED BY <1>1, <2>3, <2>4, GivesCanonical
<1> QED BY <1>4, <1>5

(* Every binary operator on operands of any types. *)
LEMMA GivesBinary ==
  ASSUME NEW a \in IntValue, NEW b \in IntValue, NEW op \in BinaryOp
  PROVE  Gives(eval_int_binary(op, a, b))
<1>1. CASE a.type # b.type  BY <1>1, GivesFailure DEF eval_int_binary
<1>2. CASE a.type = b.type
  <2>1. CASE op \in ArithOp
    <3>1. op \notin BitwiseOp /\ op \notin ShiftOp  BY <2>1 DEF ArithOp, BitwiseOp, ShiftOp
    <3> QED BY <1>2, <2>1, <3>1, GivesArithmetic DEF eval_int_binary
  <2>2. CASE op \in BitwiseOp
    <3>1. op \notin ArithOp /\ op \notin ShiftOp  BY <2>2 DEF ArithOp, BitwiseOp, ShiftOp
    <3> QED BY <1>2, <2>2, <3>1, GivesBitwise DEF eval_int_binary
  <2>3. CASE op \in ShiftOp
    <3>1. op \notin ArithOp /\ op \notin BitwiseOp  BY <2>3 DEF ArithOp, BitwiseOp, ShiftOp
    <3> QED BY <1>2, <2>3, <3>1, GivesShift DEF eval_int_binary
  <2> QED BY <2>1, <2>2, <2>3 DEF BinaryOp
<1> QED BY <1>1, <1>2

(* The unary operators and the casts. *)
LEMMA GivesUnary ==
  ASSUME NEW x \in IntValue
  PROVE  Gives(negate(x)) /\ Gives(complement(x))
<1> DEFINE m == pow2(x.type.bits)
<1>1. x.type \in IntType /\ x.type.bits \in 1 .. MaxBits /\ x.value \in Int
  BY IntValueFacts, PatternInRange DEF IntType
<1>2. m \in Nat \ {0}  BY <1>1, WidthPowers
<1>3. unsigned_repr(x) \in 0 .. m - 1  BY PatternInRange
<1> HIDE DEF m
<1>4. -x.value \in Int /\ m - 1 - unsigned_repr(x) \in Int  BY <1>1, <1>2, <1>3
<1> QED BY <1>1, <1>4, GivesChecked, GivesCanonical DEF negate, complement, m

(* The casts between integer types, directly and through Field. *)
LEMMA GivesCast ==
  ASSUME NEW x \in IntValue, NEW ty \in IntType
  PROVE  Gives(cast(ty, x)) /\ Gives(throughField(ty, x))
<1>1. x.type.bits \in 1 .. MaxBits /\ x.value \in Int
  BY IntValueFacts, PatternInRange DEF IntType
<1>2. pow2(x.type.bits) \in Nat  BY <1>1, WidthPowers
<1>3. unsigned_repr(x) \in Int  BY <1>2, PatternInRange
<1>4. unsigned_repr(x) % Modulus \in Int  BY <1>3, ModulusAssumption
<1>5. Gives(cast(ty, x))  BY <1>1, GivesCanonical DEF cast
<1>6. CASE toField(x).ok
  <2>1. toField(x) = Ok(unsigned_repr(x) % Modulus)  BY <1>6 DEF toField, Fail
  <2>2. throughField(ty, x) = Ok(canonical(ty, unsigned_repr(x) % Modulus))
    BY <1>6, <2>1 DEF throughField, Ok
  <2> QED BY <1>4, <1>5, <2>2, GivesCanonical
<1>7. CASE ~toField(x).ok
  <2>1. throughField(ty, x) = toField(x)  BY <1>7 DEF throughField
  <2> QED BY <1>5, <1>7, <2>1 DEF Gives
<1> QED BY <1>6, <1>7

(* A cast to Field gives a natural number or an error. *)
LEMMA ElementIsNat ==
  ASSUME NEW x \in IntValue, toField(x).ok
  PROVE  toField(x).int \in Nat
<1>1. x.type.bits \in 1 .. MaxBits  BY IntValueFacts DEF IntType
<1>2. pow2(x.type.bits) \in Nat  BY <1>1, WidthPowers
<1>3. unsigned_repr(x) \in Nat  BY <1>2, PatternInRange
<1>4. unsigned_repr(x) % Modulus \in Nat  BY <1>3, ModulusAssumption
<1>5. toField(x) = Ok(unsigned_repr(x) % Modulus)  BY DEF toField, Fail
<1> QED BY <1>4, <1>5 DEF Ok

(* Every limb of a decomposition that succeeds is an integer. *)
LEMMA LimbIsInt ==
  ASSUME NEW f \in Nat, NEW radix \in Radix, NEW n \in 1 .. MaxBits, NEW big \in BOOLEAN,
         NEW i \in 1 .. n, to_radix(f, radix, n, big).ok
  PROVE  to_radix(f, radix, n, big).limbs[i] \in Int
<1> DEFINE k == IF big THEN n - i ELSE i - 1
<1>1. radix \in 2 .. 256  BY DEF to_radix, Fail
<1>2. k \in 0 .. MaxBits  BY WidthAssumption
<1>3. to_radix(f, radix, n, big).limbs[i] = digit(f, radix, k)  BY DEF to_radix, Fail
<1>4. power(radix, k) \in Nat \ {0}  BY <1>1, <1>2, PowerPositive
<1>5. digit(f, radix, k) \in Int
  <2> DEFINE m == power(radix, k)
  <2>1. m \in Nat \ {0}  BY <1>4
  <2> HIDE DEF m
  <2>2. f \div m \in Int  BY <2>1
  <2>3. (f \div m) % radix \in Int  BY <1>1, <2>2
  <2> QED BY <2>3 DEF digit, m
<1> QED BY <1>3, <1>5

(* The intrinsics on Field elements. *)
LEMMA GivesIntrinsic ==
  ASSUME NEW x \in IntValue
  PROVE  /\ \A y \in IntValue : Gives(field_less_than(x, y))
         /\ \A n \in 1 .. MaxBits : Gives(apply_range_constraint(n, x))
         /\ \A t : /\ t.radix \in Radix /\ t.count \in 1 .. MaxBits
                   /\ t.big_endian \in BOOLEAN /\ t.at \in 1 .. t.count
                   => Gives(limb(t, x))
<1>1. x.type \in IntType  BY IntValueFacts
<1>2. ASSUME NEW y \in IntValue PROVE Gives(field_less_than(x, y))
  BY <1>1, GivesCanonical DEF field_less_than, castBool, Gives
<1>3. ASSUME NEW n \in 1 .. MaxBits PROVE Gives(apply_range_constraint(n, x))
  BY DEF apply_range_constraint, Gives, Ok, Fail
<1>4. ASSUME NEW t, t.radix \in Radix, t.count \in 1 .. MaxBits,
             t.big_endian \in BOOLEAN, t.at \in 1 .. t.count
      PROVE  Gives(limb(t, x))
  <2> DEFINE f == toField(x)
             r == to_radix(f.int, t.radix, t.count, t.big_endian)
  <2>1. limb(t, x) = IF ~f.ok THEN f ELSE IF ~r.ok THEN r ELSE Ok(canonical(x.type, r.limbs[t.at]))
    BY DEF limb
  <2>2. CASE f.ok /\ r.ok
    <3>1. f.int \in Nat  BY <2>2, ElementIsNat
    <3>2. r.limbs[t.at] \in Int  BY <1>4, <2>2, <3>1, LimbIsInt
    <3> QED BY <1>1, <2>1, <2>2, <3>2, GivesCanonical
  <2>3. CASE ~(f.ok /\ r.ok)
    BY <2>1, <2>3 DEF Gives
  <2> QED BY <2>2, <2>3
<1> QED BY <1>2, <1>3, <1>4

(* Every operation whose operands are values gives a value. *)
LEMMA ResultIsValue ==
  ASSUME NEW x \in IntValue, NEW t \in Operation, t # Nothing
  PROVE  Gives(result(t, x))
<1>1. CASE t \in {[op |-> o, rhs |-> b] : o \in BinaryOp \cup CompareOp, b \in IntValue}
  <2>1. t.rhs \in IntValue /\ t.op \in BinaryOp \cup CompareOp  BY <1>1
  <2>2. CASE t.op \in BinaryOp
    <3>1. t.op \notin CompareOp /\ t.op \notin {"Minus", "Not", "Cast", "ThroughField",
                                            "FieldLess", "RangeConstraint", "Limb"}
      BY <2>2 DEF CompareOp, BinaryOp, ArithOp, BitwiseOp, ShiftOp
    <3>2. result(t, x) = eval_int_binary(t.op, x, t.rhs)  BY <2>2, <3>1 DEF result
    <3> QED BY <2>1, <2>2, <3>2, GivesBinary
  <2>3. CASE t.op \in CompareOp
    <3>1. t.op \notin BinaryOp
      BY <2>3 DEF CompareOp, BinaryOp, ArithOp, BitwiseOp, ShiftOp
    <3>2. result(t, x) = compared(t.op, x, t.rhs)  BY <2>3, <3>1 DEF result, CompareOp
    <3>3. x.type \in IntType  BY IntValueFacts
    <3>4. CASE x.type # t.rhs.type  BY <3>2, <3>4, GivesFailure DEF compared
    <3>5. CASE x.type = t.rhs.type
      BY <3>2, <3>3, <3>5, GivesCanonical DEF compared, castBool
    <3> QED BY <3>4, <3>5
  <2> QED BY <2>1, <2>2, <2>3
<1>2. CASE t \in {[op |-> o, to |-> ty] : o \in {"Cast", "ThroughField"}, ty \in IntType}
  <2>1. t.to \in IntType /\ t.op \in {"Cast", "ThroughField"}  BY <1>2
  <2>2. result(t, x) = cast(t.to, x) \/ result(t, x) = throughField(t.to, x)
    BY <2>1 DEF result, BinaryOp, CompareOp, ArithOp, BitwiseOp, ShiftOp
  <2> QED BY <2>1, <2>2, GivesCast
<1>3. CASE t \in {[op |-> o] : o \in {"Minus", "Not"}}
  <2>1. t.op \in {"Minus", "Not"}  BY <1>3
  <2>2. result(t, x) = negate(x) \/ result(t, x) = complement(x)
    BY <2>1 DEF result, BinaryOp, CompareOp, ArithOp, BitwiseOp, ShiftOp
  <2> QED BY <2>2, GivesUnary
<1>4. CASE t \in {[op |-> "FieldLess", rhs |-> b] : b \in IntValue}
  <2>1. t.op = "FieldLess" /\ t.rhs \in IntValue  BY <1>4
  <2>2. result(t, x) = field_less_than(x, t.rhs)
    BY <2>1 DEF result, BinaryOp, CompareOp, ArithOp, BitwiseOp, ShiftOp
  <2> QED BY <2>1, <2>2, GivesIntrinsic
<1>5. CASE t \in {[op |-> "RangeConstraint", bits |-> n] : n \in 1 .. MaxBits}
  <2>1. t.op = "RangeConstraint" /\ t.bits \in 1 .. MaxBits  BY <1>5
  <2>2. result(t, x) = apply_range_constraint(t.bits, x)
    BY <2>1 DEF result, BinaryOp, CompareOp, ArithOp, BitwiseOp, ShiftOp
  <2> QED BY <2>1, <2>2, GivesIntrinsic
<1>6. ASSUME NEW n \in 1 .. MaxBits,
             t \in [op : {"Limb"}, radix : Radix, big_endian : BOOLEAN, count : {n}, at : 1 .. n]
      PROVE  Gives(result(t, x))
  <2>1. t.op = "Limb" /\ t.radix \in Radix /\ t.big_endian \in BOOLEAN /\ t.at \in 1 .. n
        /\ t.count = n
    BY <1>6
  <2>2. result(t, x) = limb(t, x)
    BY <2>1 DEF result, BinaryOp, CompareOp, ArithOp, BitwiseOp, ShiftOp
  <2> QED BY <2>1, <2>2, GivesIntrinsic
<1> QED BY <1>1, <1>2, <1>3, <1>4, <1>5, <1>6 DEF Operation

-----------------------------------------------------------------------------
(* The loop in progress stays in the range of its index's type: the        *)
(* counter does, and the exclusive end is at most one beyond it.           *)
LoopInRange ==
  /\ loop \in [i : Int, end : Int]
  /\ loop.i < loop.end => /\ least(acc.type) <= loop.i
                         /\ loop.end <= greatest(acc.type) + 1

\* The inductive invariant.
IntInv == /\ acc \in IntValue
          /\ todo \in Operation
          /\ LoopInRange
          /\ todo = Nothing \/ loop = NoLoop

(* The bounds of a type are integers. *)
LEMMA BoundsAreInts ==
  ASSUME NEW ty \in IntType
  PROVE  least(ty) \in Int /\ greatest(ty) \in Int
<1>1. ty.bits \in 1 .. MaxBits  BY DEF IntType
<1> QED BY <1>1, WidthPowers DEF least, greatest

(* The invariant holds initially. *)
LEMMA IntInvInit == Init => IntInv
<1> SUFFICES ASSUME Init PROVE IntInv  OBVIOUS
<1>1. loop \in [i : Int, end : Int] /\ ~(loop.i < loop.end)  BY DEF Init, NoLoop
<1> QED BY <1>1 DEF Init, IntInv, LoopInRange, Operation

(* While a loop runs, the index is its counter. *)
LEMMA IndexInRange ==
  ASSUME IntInv, loop.i < loop.end
  PROVE  /\ loop.i \in least(acc.type) .. greatest(acc.type)
         /\ canonical(acc.type, loop.i) = [type |-> acc.type, value |-> loop.i]
<1>1. acc.type \in IntType  BY IntValueFacts DEF IntInv
<1>2. least(acc.type) \in Int /\ greatest(acc.type) \in Int  BY <1>1, BoundsAreInts
<1>3. loop.i \in Int /\ loop.end \in Int  BY DEF IntInv, LoopInRange
<1>4. loop.i \in least(acc.type) .. greatest(acc.type)
  BY <1>2, <1>3 DEF IntInv, LoopInRange
<1>5. wrap(acc.type, loop.i) = loop.i  BY <1>1, <1>4, WrapIdentity
<1> QED BY <1>4, <1>5 DEF canonical

(* Every step preserves the invariant. *)
LEMMA IntInvStep == IntInv /\ [Next]_vars => IntInv'
<1> SUFFICES ASSUME IntInv, [Next]_vars PROVE IntInv'  OBVIOUS
<1>1. acc \in IntValue /\ todo \in Operation /\ LoopInRange  BY DEF IntInv
<1>2. CASE Evaluate
  <2>1. LoopInRange'  BY <1>1, <1>2 DEF Evaluate, LoopInRange
  <2>2. loop' = NoLoop  BY <1>2 DEF Evaluate, Idle
  <2> QED BY <1>1, <1>2, <2>1, <2>2 DEF Evaluate, IntInv
<1>3. CASE Apply
  <2>1. acc' \in IntValue
    <3>1. Gives(result(todo, acc))  BY <1>1, <1>3, ResultIsValue DEF Apply
    <3> QED BY <1>1, <1>3, <3>1 DEF Apply, Gives
  <2>2. todo' = Nothing /\ todo' \in Operation  BY <1>3 DEF Apply, Operation
  <2>3. loop' = NoLoop  BY <1>3 DEF Apply, IntInv
  <2>4. LoopInRange'  BY <2>3 DEF LoopInRange, NoLoop
  <2> QED BY <2>1, <2>2, <2>4 DEF IntInv
<1>4. CASE EnterFor
  <2>1. PICK b \in IntValueOf(acc.type), inclusive \in BOOLEAN :
          loop' = [i |-> acc.value, end |-> IF inclusive THEN b.value + 1 ELSE b.value]
    BY <1>4 DEF EnterFor
  <2>2. acc.type \in IntType /\ acc.value \in least(acc.type) .. greatest(acc.type)
    BY <1>1, IntValueFacts
  <2>3. least(acc.type) \in Int /\ greatest(acc.type) \in Int  BY <2>2, BoundsAreInts
  <2>4. b.value \in least(acc.type) .. greatest(acc.type)  BY <2>1 DEF IntValueOf
  <2>5. acc' = acc /\ todo' = todo /\ todo = Nothing  BY <1>4 DEF EnterFor, Idle
  <2>6. LoopInRange'  BY <2>1, <2>2, <2>3, <2>4, <2>5 DEF LoopInRange
  <2> QED BY <1>1, <2>5, <2>6 DEF IntInv
<1>5. CASE Iterate
  <2>1. loop.i < loop.end  BY <1>5 DEF Iterate
  <2>2. acc.type \in IntType  BY <1>1, IntValueFacts
  <2>3. acc' = [type |-> acc.type, value |-> loop.i] /\ acc' \in IntValue
    BY <1>5, <2>1, <2>2, IndexInRange DEF Iterate, IntValue, IntValueOf
  <2>4. loop.i \in Int /\ loop.end \in Int /\ loop = [i |-> loop.i, end |-> loop.end]
    BY <1>1 DEF LoopInRange
  <2>5. least(acc.type) \in Int  BY <2>2, BoundsAreInts
  <2>6. CASE loop' = NoLoop
    <3>1. LoopInRange'  BY <2>6 DEF LoopInRange, NoLoop
    <3> QED BY <1>1, <1>5, <2>3, <2>6, <3>1 DEF IntInv, Iterate
  <2>7. CASE loop' = [loop EXCEPT !.i = @ + 1]
    <3>1. loop' = [i |-> loop.i + 1, end |-> loop.end]  BY <2>4, <2>7
    <3>2. acc'.type = acc.type  BY <2>3
    <3>3. LoopInRange'  BY <1>1, <2>1, <2>4, <2>5, <3>1, <3>2 DEF LoopInRange
    <3>4. todo' = Nothing
      <4>1. loop # NoLoop  BY <2>1 DEF NoLoop
      <4> QED BY <1>5, <4>1 DEF IntInv, Iterate
    <3> QED BY <1>1, <2>3, <3>3, <3>4 DEF IntInv, Operation
  <2> QED BY <1>5, <2>6, <2>7 DEF Iterate
<1>6. CASE LeaveFor
  <2>1. loop' = NoLoop  BY <1>6 DEF LeaveFor
  <2>2. LoopInRange'  BY <2>1 DEF LoopInRange, NoLoop
  <2> QED BY <1>1, <1>6, <2>1, <2>2 DEF LeaveFor, IntInv
<1>7. CASE UNCHANGED vars
  BY <1>1, <1>7 DEF vars, IntInv, LoopInRange
<1> QED BY <1>2, <1>3, <1>4, <1>5, <1>6, <1>7 DEF Next

(* The invariant holds in every state. *)
LEMMA IntInvHolds == Spec => []IntInv
BY IntInvInit, IntInvStep, PTL DEF Spec

(* A value is the two's-complement representative its type has for it      *)
(* after any sequence of operations and loops, at every width.             *)
THEOREM CanonicalValues == Spec => []Canonical
<1>1. IntInv => Canonical  BY IntValueFacts DEF IntInv, Canonical
<1> QED BY <1>1, IntInvHolds, PTL

(* At every width, wrapping the counter of a for loop into the index type  *)
(* never changes it.                                                       *)
THEOREM LoopIndex == Spec => IndexIsCounter
<1>1. IntInv /\ [Next]_vars => [loop # NoLoop /\ acc' # acc => acc'.value = loop.i]_vars
  <2> SUFFICES ASSUME IntInv, Next, loop # NoLoop, acc' # acc PROVE acc'.value = loop.i
    BY DEF vars
  <2>1. CASE Iterate
    <3>1. loop.i < loop.end  BY <2>1 DEF Iterate
    <3> QED BY <2>1, <3>1, IndexInRange DEF Iterate
  <2>2. CASE Apply  BY <2>2 DEF Apply, IntInv
  <2> QED BY <2>1, <2>2 DEF Next, Evaluate, EnterFor, LeaveFor
<1> QED BY <1>1, IntInvHolds, PTL DEF Spec, IndexIsCounter

-----------------------------------------------------------------------------
(* The bit pattern names the value: wrapping it gives the value back.      *)
(* Bitwise operators, complements and left shifts compute on the pattern.  *)
THEOREM PatternNamesValue ==
  ASSUME NEW x \in IntValue
  PROVE  canonical(x.type, unsigned_repr(x)) = x
<1> DEFINE m == pow2(x.type.bits)
           h == pow2(x.type.bits - 1)
           p == unsigned_repr(x)
<1>1. x.type.bits \in 1 .. MaxBits /\ x.type.signed \in BOOLEAN
      /\ x.value \in least(x.type) .. greatest(x.type)
  BY IntValueFacts DEF IntType
<1>2. m \in Nat \ {0} /\ h \in Nat \ {0} /\ m = 2 * h  BY <1>1, WidthPowers
<1>3. least(x.type) = (IF x.type.signed THEN -h ELSE 0)
      /\ greatest(x.type) = (IF x.type.signed THEN h - 1 ELSE m - 1)
  BY DEF least, greatest
<1>4. p = IF x.value < 0 THEN x.value + m ELSE x.value  BY DEF unsigned_repr
<1>5. p \in 0 .. m - 1  BY PatternInRange
<1>6. wrap(x.type, p) = LET r == Remainder(p, m)
                            u == IF r < 0 THEN r + m ELSE r
                        IN  IF x.type.signed /\ u >= h THEN u - m ELSE u
  BY DEF wrap
<1> HIDE DEF m, h, p
<1>7. Remainder(p, m) = p
  <2>1. Abs(m) = m /\ p % m = p  BY <1>2, <1>5 DEF Abs
  <2> QED BY <1>2, <1>5, <2>1 DEF Remainder
<1>8. wrap(x.type, p) = x.value  BY <1>1, <1>2, <1>3, <1>4, <1>5, <1>6, <1>7
<1>9. canonical(x.type, p) = [type |-> x.type, value |-> x.value]
  BY <1>8 DEF canonical
<1> QED BY <1>9, IntValueFacts DEF p

(* Divide and Modulo obey one law: q * b + r = a, with |r| < |b| and r of  *)
(* the sign of a.                                                          *)
THEOREM DivisionLaw ==
  ASSUME NEW a \in Int, NEW b \in Int, b # 0
  PROVE  /\ Quotient(a, b) * b + Remainder(a, b) = a
         /\ Abs(Remainder(a, b)) < Abs(b)
         /\ a < 0 => Remainder(a, b) <= 0
         /\ a >= 0 => Remainder(a, b) >= 0
<1> DEFINE x == Abs(a)
           y == Abs(b)
           q == x \div y
           r == x % y
<1>1. x \in Nat /\ y \in Nat \ {0}  BY DEF Abs
<1>2. a = (IF a < 0 THEN -x ELSE x) /\ b = (IF b < 0 THEN -y ELSE y)  BY DEF Abs
<1> HIDE DEF x, y
<1>3. q \in Int /\ r \in 0 .. y - 1 /\ x = y * q + r  BY <1>1
<1>4. Quotient(a, b) = IF (a < 0) = (b < 0) THEN q ELSE -q  BY DEF Quotient, x, y, q
<1>5. Remainder(a, b) = IF a < 0 THEN -r ELSE r  BY <1>2 DEF Remainder, x, y, r
<1> HIDE DEF q, r
<1>6. Abs(Remainder(a, b)) = r  BY <1>3, <1>5 DEF Abs
<1>7. y * q \in Int /\ (-q) * y = -(y * q) /\ q * (-y) = -(y * q) /\ q * y = y * q
      /\ (-q) * (-y) = y * q
  BY <1>1, <1>3
<1>8. Quotient(a, b) * b = IF a < 0 THEN -(y * q) ELSE y * q
  <2>1. CASE a < 0 /\ b < 0    BY <1>2, <1>4, <1>7, <2>1
  <2>2. CASE a < 0 /\ ~(b < 0)  BY <1>2, <1>4, <1>7, <2>2
  <2>3. CASE ~(a < 0) /\ b < 0  BY <1>2, <1>4, <1>7, <2>3
  <2>4. CASE ~(a < 0) /\ ~(b < 0)  BY <1>2, <1>4, <1>7, <2>4
  <2> QED BY <2>1, <2>2, <2>3, <2>4
<1>9. Quotient(a, b) * b + Remainder(a, b) = a
  BY <1>1, <1>2, <1>3, <1>5, <1>7, <1>8
<1> QED BY <1>1, <1>3, <1>5, <1>6, <1>9 DEF y

-----------------------------------------------------------------------------
(* Digits: the bits of a number, and the number of some digits.            *)

\* The n low bits of v.
Bits(v, n) == [i \in 1 .. n |-> bit(v, i)]
\* The number of the low digits of ds, for each count of them.
Low(ds) == Reference!LowPart(ds, 2)
\* The sequences of n digits.
Digits(n) == [1 .. n -> {0, 1}]

\* A function on 1 .. n is a sequence of length n.
LEMMA LenDigits ==
  ASSUME NEW n \in Nat, NEW ds, DOMAIN ds = 1 .. n, ds = [i \in 1 .. n |-> ds[i]]
  PROVE  Len(ds) = n
<1> DEFINE V == {ds[i] : i \in 1 .. n}
<1>1. ds \in [1 .. n -> V]
  OBVIOUS
<1>2. ds \in Seq(V)
  <2> HIDE DEF V
  <2> QED BY <1>1
<1> QED BY <1>2

\* The bits of an integer are digits.
LEMMA BitsAreDigits ==
  ASSUME NEW v \in Int, NEW n \in Nat
  PROVE  Bits(v, n) \in Digits(n) /\ Len(Bits(v, n)) = n
<1>1. \A i \in 1 .. n : bit(v, i) \in {0, 1}
  <2> SUFFICES ASSUME NEW i \in 1 .. n PROVE bit(v, i) \in {0, 1}
    OBVIOUS
  <2>1. i - 1 \in Nat /\ (i - 1) + 1 = i
    OBVIOUS
  <2>2. bit(v, (i - 1) + 1) \in {0, 1}
    BY ONLY <2>1, v \in Int, BitFacts
  <2> QED BY <2>1, <2>2
<1>2. Bits(v, n) \in Digits(n)
  BY <1>1 DEF Bits, Digits
<1> QED BY <1>2, LenDigits DEF Digits

\* The number of the low digits grows by a power of two per digit that is set,
\* and stays below the next power.
LEMMA LowEq ==
  ASSUME NEW n \in Nat, NEW ds \in Digits(n)
  PROVE  /\ Low(ds)[0] = 0
         /\ \A i \in Nat : i + 1 <= n =>
              Low(ds)[i + 1] = IF ds[i + 1] = 0 THEN Low(ds)[i] ELSE Low(ds)[i] + pow2(i)
         /\ \A i \in Nat : i <= n => Low(ds)[i] \in Int /\ 0 <= Low(ds)[i] /\ Low(ds)[i] < pow2(i)
<1> DEFINE G == [p \in Nat \X Int |->
                   IF p[1] \in 1 .. n THEN p[2] + ds[p[1]] * pow2(p[1] - 1) ELSE 0]
           Eq(f) == f = [i \in 0 .. n |-> IF i = 0 THEN 0 ELSE f[i - 1] + ds[i] * pow2(i - 1)]
<1>0. Len(ds) = n
  BY LenDigits DEF Digits
<1>1. PICK f \in [0 .. n -> Int] : Follows(f, 0 .. n, 0, G)
  <2>1. IsRule(G, Int)
    <3> SUFFICES ASSUME NEW i \in Nat, NEW w \in Int PROVE G[<<i, w>>] \in Int
      BY DEF IsRule
    <3>1. CASE i \in 1 .. n
      <4>1. i - 1 \in Nat
        BY <3>1
      <4>2. pow2(i - 1) \in Int
        BY <4>1, Pow2
      <4>4. ds[i] \in Int
        BY <3>1 DEF Digits
      <4>3. ds[i] * pow2(i - 1) \in Int
        BY <4>2, <4>4
      <4> QED BY <3>1, <4>3
    <3>2. CASE i \notin 1 .. n
      BY <3>2
    <3> QED BY <3>1, <3>2
  <2>2. IsStart(0 .. n) /\ 0 \in Int
    BY DEF IsStart
  <2> HIDE DEF G
  <2> QED BY <2>1, <2>2, Recursion
<1>2. Eq(f)
  <2>1. \A i \in 0 .. n : i # 0 => G[<<i, f[i - 1]>>] = f[i - 1] + ds[i] * pow2(i - 1)
    OBVIOUS
  <2>2. f = [i \in 0 .. n |-> f[i]]
    OBVIOUS
  <2> HIDE DEF G
  <2> QED BY <1>1, <2>1, <2>2 DEF Follows
<1>3. Low(ds) = CHOOSE g : Eq(g)
  BY <1>0 DEF Low, Reference!LowPart, Reference!pow2, Reference!power, Reference!powers,
             pow2, power, powers
<1>4. Eq(Low(ds))
  <2> HIDE DEF Eq
  <2> QED BY <1>2, <1>3
<1> DEFINE g == Low(ds)
<1>5. g = [i \in 0 .. n |-> IF i = 0 THEN 0 ELSE g[i - 1] + ds[i] * pow2(i - 1)]
  BY <1>4
<1> HIDE DEF g
<1>6. g[0] = 0
  BY <1>5
<1>7. ASSUME NEW i \in Nat, i + 1 <= n
      PROVE  /\ g[i + 1] = g[i] + ds[i + 1] * pow2(i)
             /\ ds[i + 1] \in {0, 1}
             /\ pow2(i) \in Int
  <2>1. i + 1 \in 0 .. n /\ i + 1 # 0 /\ (i + 1) - 1 = i /\ i + 1 \in 1 .. n
    BY <1>7
  <2>2. g[i + 1] = g[(i + 1) - 1] + ds[i + 1] * pow2((i + 1) - 1)
    BY ONLY <1>5, <2>1
  <2> QED BY <2>1, <2>2, Pow2 DEF Digits
<1> DEFINE S == {i \in Nat : i <= n => g[i] \in Int /\ 0 <= g[i] /\ g[i] < pow2(i)}
<1>8. Nat \subseteq S
  <2>1. 0 \in S
    <3>1. g[0] = 0 /\ 0 < pow2(0)
      BY <1>6, Pow2
    <3> QED BY ONLY <3>1
  <2>2. ASSUME NEW i \in Nat, i \in S PROVE i + 1 \in S
    <3> SUFFICES ASSUME i + 1 <= n
                 PROVE  g[i + 1] \in Int /\ 0 <= g[i + 1] /\ g[i + 1] < pow2(i + 1)
      OBVIOUS
    <3> DEFINE x == g[i]
               m == pow2(i)
    <3>1. g[i + 1] = x + ds[i + 1] * m /\ ds[i + 1] \in {0, 1}
      BY <1>7
    <3>2. x \in Int /\ 0 <= x /\ x < m
      <4>1. i <= n
        OBVIOUS
      <4> QED BY <2>2, <4>1
    <3>3. m \in Int /\ pow2(i + 1) = 2 * m
      <4>1. pow2(i) \in Nat \ {0} /\ pow2(i + 1) = 2 * pow2(i)
        BY ONLY Pow2, i \in Nat
      <4> HIDE DEF x
      <4> QED BY <4>1
    <3> HIDE DEF x, m
    <3>4. CASE ds[i + 1] = 0
      <4>1. g[i + 1] = x
        BY <3>1, <3>2, <3>3, <3>4
      <4> QED BY ONLY <4>1, <3>2, <3>3
    <3>5. CASE ds[i + 1] = 1
      <4>1. g[i + 1] = x + m
        BY <3>1, <3>2, <3>3, <3>5
      <4> QED BY ONLY <4>1, <3>2, <3>3
    <3> QED BY <3>1, <3>4, <3>5
  <2> HIDE DEF S
  <2> QED BY <2>1, <2>2, SetInduction
<1>9. ASSUME NEW i \in Nat, i + 1 <= n
      PROVE  g[i + 1] = IF ds[i + 1] = 0 THEN g[i] ELSE g[i] + pow2(i)
  <2>1. i <= n
    BY <1>9
  <2>2. g[i] \in Int
    BY <1>8, <2>1
  <2>3. CASE ds[i + 1] = 0
    BY <1>7, <1>9, <2>2, <2>3
  <2>4. CASE ds[i + 1] = 1
    BY <1>7, <1>9, <2>2, <2>4
  <2> QED BY <1>7, <1>9, <2>3, <2>4
<1>10. \A i \in Nat : i <= n => g[i] \in Int /\ 0 <= g[i] /\ g[i] < pow2(i)
  BY <1>8
<1> QED BY <1>6, <1>9, <1>10 DEF g

\* An integer is its lowest bits and a multiple of a power of two.
LEMMA LowOfBits ==
  ASSUME NEW v \in Int, NEW n \in Nat
  PROVE  \A i \in Nat : i <= n => v = pow2(i) * (v \div pow2(i)) + Low(Bits(v, n))[i]
<1> DEFINE g == Low(Bits(v, n))
           S == {i \in Nat : i <= n => v = pow2(i) * (v \div pow2(i)) + g[i]}
<1>1. Bits(v, n) \in Digits(n)
  BY BitsAreDigits
<1>2. /\ g[0] = 0
      /\ \A i \in Nat : i + 1 <= n =>
           g[i + 1] = IF Bits(v, n)[i + 1] = 0 THEN g[i] ELSE g[i] + pow2(i)
      /\ \A i \in Nat : i <= n => g[i] \in Int
  BY <1>1, LowEq
<1> HIDE DEF g
<1>3. Nat \subseteq S
  <2>1. 0 \in S
    <3>1. v \div 1 = v
      OBVIOUS
    <3> QED BY <3>1, <1>2, Pow2
  <2>2. ASSUME NEW i \in Nat, i \in S PROVE i + 1 \in S
    <3> SUFFICES ASSUME i + 1 <= n
                 PROVE  v = pow2(i + 1) * (v \div pow2(i + 1)) + g[i + 1]
      OBVIOUS
    <3> DEFINE m == pow2(i)
               d == bit(v, i + 1)
               p == v \div pow2(i)
               q == v \div pow2(i + 1)
    <3>1. i <= n /\ i + 1 \in 1 .. n
      OBVIOUS
    <3>2. v = m * p + g[i] /\ g[i] \in Int
      BY <2>2, <3>1, <1>2
    <3>3. g[i + 1] = IF d = 0 THEN g[i] ELSE g[i] + m
      BY <3>1, <1>2 DEF Bits
    <3>4. d \in {0, 1} /\ p \in Int /\ p = 2 * q + d
      BY BitFacts
    <3>5. q \in Int
      <4>1. v \div pow2(i + 1) \in Int
        <5>1. i + 1 \in Nat
          OBVIOUS
        <5> QED BY ONLY <5>1, BitFacts, v \in Int
      <4> QED BY <4>1
    <3>6. m \in Int /\ pow2(i + 1) = 2 * m
      BY Pow2
    <3> HIDE DEF m, d, p, q
    <3>7. m * (2 * q + d) = (2 * m) * q + m * d
      BY <3>4, <3>5, <3>6
    <3> DEFINE x == (2 * m) * q
    <3>8. x \in Int
      BY <3>5, <3>6
    <3>9. m * d = IF d = 0 THEN 0 ELSE m
      BY <3>4, <3>6
    <3>10. v = x + m * d + g[i]
      BY <3>2, <3>4, <3>7
    <3> HIDE DEF x
    <3>11. v = x + g[i + 1]
      BY ONLY <3>2, <3>3, <3>4, <3>6, <3>8, <3>9, <3>10
    <3> QED BY <3>11, <3>6 DEF x, q
  <2> HIDE DEF S
  <2> QED BY <2>1, <2>2, SetInduction
<1> QED BY <1>3 DEF g

\* Digits that differ from an integer by a multiple of their power of two are
\* its lowest bits.
LEMMA BitsOf ==
  ASSUME NEW n \in Nat, NEW ds \in Digits(n), NEW v \in Int, NEW q \in Int,
         v = pow2(n) * q + Low(ds)[n]
  PROVE  ds = Bits(v, n)
<1> DEFINE g == Low(ds)
           S == {k \in Nat : k <= n => \E p \in Int : v = pow2(n - k) * p + g[n - k]}
<1>1. /\ g[0] = 0
      /\ \A i \in Nat : i + 1 <= n => g[i + 1] = IF ds[i + 1] = 0 THEN g[i] ELSE g[i] + pow2(i)
      /\ \A i \in Nat : i <= n => g[i] \in Int /\ 0 <= g[i] /\ g[i] < pow2(i)
  BY LowEq
<1>2. v = pow2(n) * q + g[n]
  OBVIOUS
<1> HIDE DEF g
<1>3. ASSUME NEW i \in Nat, i + 1 <= n, NEW p \in Int, v = pow2(i + 1) * p + g[i + 1]
      PROVE  /\ 2 * p + ds[i + 1] \in Int
             /\ v = pow2(i) * (2 * p + ds[i + 1]) + g[i]
             /\ bit(v, i + 1) = ds[i + 1]
  <2> DEFINE m == pow2(i)
             d == ds[i + 1]
  <2>1. d \in {0, 1}
    BY <1>3 DEF Digits
  <2>2. m \in Nat \ {0} /\ pow2(i + 1) = 2 * m
    BY Pow2
  <2>3. i <= n
    BY <1>3
  <2>4. g[i + 1] = (IF d = 0 THEN g[i] ELSE g[i] + m) /\ g[i] \in Int /\ 0 <= g[i] /\ g[i] < m
    BY <1>3, <1>1, <2>3
  <2>5. v = (2 * m) * p + g[i + 1]
    BY <1>3, <2>2
  <2>6. bit(v, i + 1) = (v \div m) % 2
    BY DEF bit
  <2> HIDE DEF m, d
  <2>7. m * (2 * p + d) = (2 * m) * p + m * d
    BY <2>1, <2>2
  <2>8. m * d = IF d = 0 THEN 0 ELSE m
    BY <2>1, <2>2
  <2> DEFINE x == (2 * m) * p
  <2>9. x \in Int
    BY <2>2
  <2>10. v = m * (2 * p + d) + g[i]
    <3>1. v = x + g[i + 1] /\ m * (2 * p + d) = x + m * d
      BY <2>5, <2>7
    <3> HIDE DEF x
    <3>2. v = (x + m * d) + g[i]
      BY ONLY <3>1, <2>1, <2>2, <2>4, <2>8, <2>9
    <3> QED BY <3>1, <3>2
  <2>11. 2 * p + d \in Int
    BY <2>1
  <2> HIDE DEF x
  <2> DEFINE y == 2 * p + d
  <2>12. v \div m = y
    <3>1. y \in Int /\ v = m * y + g[i]
      BY <2>10, <2>11
    <3> HIDE DEF y
    <3> QED BY ONLY <3>1, <2>2, <2>4, v \in Int, DivUnique
  <2>13. y % 2 = d
    BY <2>1
  <2> HIDE DEF y
  <2>14. bit(v, i + 1) = d
    BY <2>6, <2>12, <2>13
  <2> QED BY <2>10, <2>11, <2>14 DEF m, d
<1>4. Nat \subseteq S
  <2>1. 0 \in S
    BY <1>2
  <2>2. ASSUME NEW k \in Nat, k \in S PROVE k + 1 \in S
    <3> SUFFICES ASSUME k + 1 <= n
                 PROVE  \E p \in Int : v = pow2(n - (k + 1)) * p + g[n - (k + 1)]
      OBVIOUS
    <3> DEFINE i == n - (k + 1)
    <3>1. i \in Nat /\ i + 1 <= n /\ i + 1 = n - k /\ k <= n
      OBVIOUS
    <3>2. PICK p \in Int : v = pow2(n - k) * p + g[n - k]
      BY <2>2, <3>1
    <3> HIDE DEF i
    <3>3. v = pow2(i + 1) * p + g[i + 1]
      BY <3>1, <3>2
    <3>4. 2 * p + ds[i + 1] \in Int /\ v = pow2(i) * (2 * p + ds[i + 1]) + g[i]
      BY <3>1, <3>3, <1>3
    <3> QED BY <3>4 DEF i
  <2> HIDE DEF S
  <2> QED BY <2>1, <2>2, SetInduction
<1>5. ASSUME NEW j \in 1 .. n PROVE ds[j] = bit(v, j)
  <2> DEFINE i == j - 1
             k == n - j
  <2>1. i \in Nat /\ i + 1 <= n /\ i + 1 = j /\ k \in Nat /\ k <= n /\ n - k = i + 1
    OBVIOUS
  <2>2. PICK p \in Int : v = pow2(n - k) * p + g[n - k]
    BY <1>4, <2>1
  <2> HIDE DEF i, k
  <2>3. v = pow2(i + 1) * p + g[i + 1]
    BY <2>1, <2>2
  <2>4. bit(v, i + 1) = ds[i + 1]
    BY <2>1, <2>3, <1>3
  <2> QED BY <2>1, <2>4
<1> QED BY <1>5 DEF Bits, Digits

\* Integers that differ by a multiple of a power of two have the same bits
\* below it.
LEMMA SameBits ==
  ASSUME NEW n \in Nat, NEW v \in Int, NEW q \in Int
  PROVE  Bits(v + pow2(n) * q, n) = Bits(v, n)
<1> DEFINE ds == Bits(v, n)
           p == v \div pow2(n)
           l == Low(ds)[n]
           m == pow2(n)
<1>1. ds \in Digits(n)
  BY BitsAreDigits
<1>0. n <= n
  OBVIOUS
<1>2. v = m * p + l
  BY ONLY <1>0, v \in Int, n \in Nat, LowOfBits
<1>3. p \in Int /\ m \in Int /\ l \in Int
  <2>1. p \in Int
    BY BitFacts
  <2>2. m \in Int
    BY Pow2
  <2>3. l \in Int
    BY <1>0, <1>1, LowEq
  <2> QED BY <2>1, <2>2, <2>3
<1> HIDE DEF p, l, m
<1>4. v + m * q = m * (p + q) + l
  <2>1. m * (p + q) = m * p + m * q
    BY <1>3
  <2>2. m * p \in Int /\ m * q \in Int
    BY <1>3
  <2> QED BY <2>1, <2>2, <1>2, <1>3
<1>5. p + q \in Int /\ v + m * q \in Int
  <2>1. m * q \in Int
    BY <1>3
  <2> QED BY <2>1, <1>3
<1> HIDE DEF ds
<1>6. v + m * q = pow2(n) * (p + q) + Low(ds)[n]
  BY <1>4 DEF l, m
<1>7. ds = Bits(v + m * q, n)
  BY ONLY <1>1, <1>5, <1>6, n \in Nat, BitsOf
<1> QED BY <1>7 DEF ds, m

\* Integers with the same bits differ by a multiple.
LEMMA SameBitsOnly ==
  ASSUME NEW n \in Nat, NEW v \in Int, NEW w \in Int, Bits(v, n) = Bits(w, n)
  PROVE  \E q \in Int : v = w + pow2(n) * q
<1> DEFINE p == v \div pow2(n)
           r == w \div pow2(n)
           l == Low(Bits(v, n))[n]
           m == pow2(n)
<1>0. n <= n
  OBVIOUS
<1>1. v = m * p + l /\ w = m * r + l
  <2>1. v = m * p + l
    BY ONLY <1>0, v \in Int, n \in Nat, LowOfBits
  <2>2. w = m * r + l
    BY ONLY <1>0, w \in Int, n \in Nat, Bits(v, n) = Bits(w, n), LowOfBits
  <2> QED BY <2>1, <2>2
<1>2. p \in Int /\ r \in Int /\ m \in Int /\ l \in Int
  <2>1. p \in Int /\ r \in Int
    BY BitFacts
  <2>2. m \in Int
    BY Pow2
  <2>3. l \in Int
    BY <1>0, BitsAreDigits, LowEq
  <2> QED BY <2>1, <2>2, <2>3
<1> HIDE DEF p, r, l, m
<1>3. m * (p - r) = m * p - m * r
  BY <1>2
<1>4. v = w + m * (p - r)
  <2>1. m * p \in Int /\ m * r \in Int
    BY <1>2
  <2> QED BY <2>1, <1>1, <1>2, <1>3
<1>5. p - r \in Int
  BY <1>2
<1> QED BY <1>4, <1>5 DEF m

-----------------------------------------------------------------------------
(* The word of a value of a type.                                          *)

\* Small dividends.
LEMMA SmallDiv ==
  ASSUME NEW v \in Int, NEW m \in Nat \ {0}
  PROVE  /\ 0 <= v /\ v < m => v \div m = 0
         /\ -m <= v /\ v < 0 => v \div m = -1
<1>1. ASSUME 0 <= v, v < m PROVE v \div m = 0
  <2>1. v = m * 0 + v
    OBVIOUS
  <2> QED BY <1>1, <2>1, DivUnique
<1>2. ASSUME -m <= v, v < 0 PROVE v \div m = -1
  <2>1. v = m * (-1) + (v + m) /\ v + m \in Int /\ 0 <= v + m /\ v + m < m /\ -1 \in Int
    BY <1>2
  <2> QED BY ONLY <2>1, v \in Int, m \in Nat \ {0}, DivUnique
<1> QED BY <1>1, <1>2

\* The bits of a value from its sign on are those of its sign.
LEMMA SignBits ==
  ASSUME NEW v \in Int, NEW k \in Nat, -pow2(k) <= v, v < pow2(k)
  PROVE  \A i \in Nat : i > k => bit(v, i) = IF v < 0 THEN 1 ELSE 0
<1> SUFFICES ASSUME NEW i \in Nat, i > k PROVE bit(v, i) = IF v < 0 THEN 1 ELSE 0
  OBVIOUS
<1>1. i - 1 \in Nat /\ k <= i - 1
  OBVIOUS
<1>2. pow2(k) <= pow2(i - 1) /\ pow2(i - 1) \in Nat \ {0} /\ pow2(k) \in Int
  <2>1. pow2(k) <= pow2(i - 1)
    BY ONLY <1>1, k \in Nat, PowMono
  <2> QED BY <1>1, <2>1, Pow2
<1> DEFINE m == pow2(i - 1)
<1>3. m \in Nat \ {0} /\ -m <= v /\ v < m
  BY <1>2
<1>4. bit(v, i) = (v \div m) % 2
  BY DEF bit
<1> HIDE DEF m
<1>5. CASE v < 0
  <2>1. v \div m = -1
    BY <1>3, <1>5, SmallDiv
  <2>2. (-1) % 2 = 1
    <3>1. -1 = 2 * (-1) + 1 /\ -1 \in Int /\ 1 \in Int /\ 0 <= 1 /\ 1 < 2 /\ 2 \in Nat \ {0}
      OBVIOUS
    <3> QED BY ONLY <3>1, DivUnique
  <2> QED BY <1>4, <1>5, <2>1, <2>2
<1>6. CASE ~(v < 0)
  <2>1. v \div m = 0
    BY <1>3, <1>6, SmallDiv
  <2> QED BY <1>4, <1>6, <2>1
<1> QED BY <1>5, <1>6

\* Types of any width.
AnyType == [signed : BOOLEAN, bits : Nat \ {0}]

\* The types of the machine are among those of any width.
LEMMA IntTypeIsAny ==
  ASSUME NEW ty \in IntType
  PROVE  ty \in AnyType /\ ty.bits \in 1 .. MaxBits
BY WidthAssumption DEF IntType, AnyType

\* The range of a type.
LEMMA TypeRange ==
  ASSUME NEW ty \in AnyType
  PROVE  /\ ty.bits \in Nat /\ ty.signed \in BOOLEAN /\ ty.bits - 1 \in Nat
         /\ pow2(ty.bits - 1) \in Nat \ {0}
         /\ pow2(ty.bits) \in Nat \ {0}
         /\ pow2(ty.bits) = 2 * pow2(ty.bits - 1)
         /\ least(ty) = IF ty.signed THEN -pow2(ty.bits - 1) ELSE 0
         /\ greatest(ty) = IF ty.signed THEN pow2(ty.bits - 1) - 1 ELSE pow2(ty.bits) - 1
<1>1. ty.bits \in Nat \ {0} /\ ty.signed \in BOOLEAN
  BY DEF AnyType
<1>2. ty.bits - 1 \in Nat /\ (ty.bits - 1) + 1 = ty.bits
  BY <1>1
<1>3. pow2((ty.bits - 1) + 1) = 2 * pow2(ty.bits - 1)
  BY <1>2, Pow2
<1> QED BY <1>1, <1>2, <1>3, Pow2 DEF least, greatest

\* v is a value of the type ty.
InRange(ty, v) == v \in least(ty) .. greatest(ty)
\* The sign digit of v.
Neg(v) == IF v < 0 THEN 1 ELSE 0

\* The word of a value has its type, its bits and its sign; extending it to any
\* width gives the bits of the value there.
LEMMA WordFacts ==
  ASSUME NEW ty \in AnyType, NEW v, InRange(ty, v)
  PROVE  /\ v \in Int
         /\ WordOf(ty, v).signed = ty.signed
         /\ WordOf(ty, v).digits = Bits(v, ty.bits)
         /\ Reference!Width(WordOf(ty, v)) = ty.bits
         /\ Reference!Sign(WordOf(ty, v)) = Neg(v)
         /\ \A k \in Nat : Reference!Extend(WordOf(ty, v), k) = Bits(v, k)
<1> DEFINE w == WordOf(ty, v)
           n == ty.bits
           m == pow2(n - 1)
<1>1. /\ n \in Nat /\ n - 1 \in Nat /\ m \in Nat \ {0} /\ pow2(n) \in Nat /\ pow2(n) = 2 * m
      /\ least(ty) = IF ty.signed THEN -m ELSE 0
      /\ greatest(ty) = IF ty.signed THEN m - 1 ELSE pow2(n) - 1
  BY TypeRange
<1>2. v \in Int /\ (ty.signed => -m <= v /\ v < m) /\ (~ty.signed => 0 <= v /\ v < pow2(n))
  BY <1>1 DEF InRange
<1>3. w.signed = ty.signed /\ w.digits = Bits(v, n)
  BY DEF WordOf, Bits
<1>4. Len(w.digits) = n
  BY <1>1, <1>2, <1>3, BitsAreDigits
<1>5. \A i \in Nat : i > n => bit(v, i) = Neg(v)
  <2>1. -pow2(n) <= v /\ v < pow2(n)
    BY <1>1, <1>2
  <2> QED BY <1>1, <1>2, <2>1, SignBits DEF Neg
<1>6. ASSUME ty.signed PROVE bit(v, n) = Neg(v)
  <2>1. -pow2(n - 1) <= v /\ v < pow2(n - 1)
    BY <1>2, <1>6
  <2>2. n > n - 1
    BY <1>1
  <2> QED BY <1>1, <1>2, <2>1, <2>2, SignBits DEF Neg
<1>7. Reference!Sign(w) = Neg(v)
  <2>1. CASE ty.signed
    <3>1. Reference!Sign(w) = w.digits[n]
      BY <2>1, <1>3, <1>4 DEF Reference!Sign, Reference!Last
    <3>2. n \in 1 .. n
      BY <1>1
    <3> QED BY <3>1, <3>2, <1>3, <1>6, <2>1 DEF Bits
  <2>2. CASE ~ty.signed
    BY <2>2, <1>2, <1>3 DEF Reference!Sign, Neg
  <2> QED BY <2>1, <2>2
<1>8. ASSUME NEW k \in Nat PROVE Reference!Extend(w, k) = Bits(v, k)
  <2>1. \A i \in 1 .. k : (IF i <= n THEN w.digits[i] ELSE Reference!Sign(w)) = bit(v, i)
    BY <1>1, <1>3, <1>5, <1>7 DEF Bits
  <2>2. Reference!Extend(w, k) = [i \in 1 .. k |-> IF i <= n THEN w.digits[i] ELSE Reference!Sign(w)]
    BY <1>4 DEF Reference!Extend, Reference!Width
  <2> HIDE DEF w
  <2> QED BY <2>1, <2>2 DEF Bits
<1> QED BY <1>2, <1>3, <1>4, <1>7, <1>8 DEF Reference!Width

\* Wrapping an integer changes it by a multiple of the power of two.
LEMMA WrapCongruent ==
  ASSUME NEW ty \in IntType, NEW raw \in Int
  PROVE  \E q \in Int : wrap(ty, raw) = raw + pow2(ty.bits) * q
<1> DEFINE m == pow2(ty.bits)
           r == Remainder(raw, m)
<1>1. m \in Nat \ {0}
  BY IntTypeIsAny, TypeRange
<1>2. wrap(ty, raw) = LET u == IF r < 0 THEN r + m ELSE r
                      IN  IF ty.signed /\ u >= pow2(ty.bits - 1) THEN u - m ELSE u
  BY DEF wrap
<1> HIDE DEF m
<1>3. PICK p \in Int : r \in Int /\ raw = m * p + r
  <2> DEFINE a == Abs(raw)
  <2>1. a \in Int /\ (raw < 0 => raw = -a) /\ (raw >= 0 => raw = a)
    BY DEF Abs
  <2>2. Abs(m) = m
    BY <1>1 DEF Abs
  <2>3. PICK q \in Int, s \in Int : q = a \div m /\ s = a % m /\ 0 <= s /\ s < m /\ a = m * q + s
    BY <1>1, <2>1, DivMod
  <2>4. a = m * q + s
    BY ONLY <2>3, Zenon
  <2>5. r = IF raw < 0 THEN -s ELSE s
    <3>1. r = IF raw < 0 THEN -(a % m) ELSE raw % m
      BY <2>2 DEF Remainder
    <3>2. raw >= 0 => raw % m = s
      BY <2>1, <2>3
    <3> QED BY <3>1, <3>2, <2>3
  <2> HIDE DEF a, r
  <2>6. CASE raw < 0
    <3>1. m * (-q) = -(m * q) /\ -q \in Int /\ m * q \in Int
      BY <1>1
    <3>2. r = -s
      BY <2>5, <2>6
    <3>3. raw = m * (-q) + r /\ r \in Int
      BY ONLY <2>1, <2>4, <2>6, <3>1, <3>2, s \in Int
    <3> QED BY <3>1, <3>3
  <2>7. CASE ~(raw < 0)
    <3>1. r = s /\ raw = a
      BY <2>1, <2>5, <2>7
    <3> QED BY <3>1, <2>4
  <2> QED BY <2>6, <2>7
<1> HIDE DEF r
<1>4. \E e \in {-2, -1, 0, 1} : wrap(ty, raw) = r + m * e
  <2>1. m * (-1) = -m /\ m * 0 = 0 /\ m * 1 = m
    BY <1>1
  <2> QED BY <1>1, <1>2, <1>3, <2>1
<1>5. PICK e \in {-2, -1, 0, 1} : wrap(ty, raw) = r + m * e
  BY <1>4
<1>6. m * (e - p) = m * e - m * p /\ m * e \in Int /\ m * p \in Int /\ e - p \in Int
  BY <1>1
<1>7. wrap(ty, raw) = raw + m * (e - p)
  BY ONLY <1>3, <1>5, <1>6, raw \in Int
<1> QED BY <1>6, <1>7 DEF m

\* Wrapping an integer into a type does not change its word.
LEMMA WrapBits ==
  ASSUME NEW ty \in IntType, NEW raw \in Int
  PROVE  WordOf(ty, wrap(ty, raw)) = WordOf(ty, raw)
<1>1. PICK q \in Int : wrap(ty, raw) = raw + pow2(ty.bits) * q
  BY WrapCongruent
<1>2. Bits(wrap(ty, raw), ty.bits) = Bits(raw, ty.bits)
  BY <1>1, IntTypeIsAny, TypeRange, SameBits
<1> QED BY <1>2 DEF WordOf, Bits

\* A canonical value and the word of any integer it stands for.
LEMMA CanonicalWord ==
  ASSUME NEW ty \in IntType, NEW raw \in Int
  PROVE  WordOfInt(canonical(ty, raw)) = WordOf(ty, raw)
BY WrapBits DEF canonical, WordOfInt

\* Values of a type are told apart by their bits.
LEMMA WordsDiffer ==
  ASSUME NEW ty \in AnyType, NEW v, NEW w, InRange(ty, v), InRange(ty, w),
         Bits(v, ty.bits) = Bits(w, ty.bits)
  PROVE  v = w
<1> DEFINE m == pow2(ty.bits)
<1>1. v \in Int /\ w \in Int
  BY WordFacts
<1>2. m \in Nat \ {0} /\ -m < v - w /\ v - w < m
  BY TypeRange, <1>1 DEF InRange
<1>3. PICK q \in Int : v = w + m * q
  BY <1>1, TypeRange, SameBitsOnly
<1> HIDE DEF m
<1>4. m * q = v - w
  <2>1. m * q \in Int
    BY <1>2
  <2> QED BY <1>1, <1>3, <2>1
<1>5. ~(q >= 1)
  <2> SUFFICES ASSUME q >= 1 PROVE FALSE
    OBVIOUS
  <2>1. m * q >= m
    BY <1>2
  <2> QED BY <2>1, <1>1, <1>2, <1>4
<1>6. ~(q <= -1)
  <2> SUFFICES ASSUME q <= -1 PROVE FALSE
    OBVIOUS
  <2>1. m * (-q) >= m /\ m * (-q) = -(m * q)
    BY <1>2
  <2> QED BY <2>1, <1>1, <1>2, <1>4
<1>7. q = 0
  BY <1>5, <1>6
<1>8. m * 0 = 0
  BY <1>2
<1> QED BY <1>1, <1>4, <1>7, <1>8

\* Every word is that of a value.
LEMMA EveryWord ==
  ASSUME NEW ty \in IntType, NEW ds \in Digits(ty.bits)
  PROVE  \E v : InRange(ty, v) /\ ds = Bits(v, ty.bits)
<1> DEFINE l == Low(ds)[ty.bits]
           v == wrap(ty, l)
<1>1. ty.bits \in Nat /\ ty.bits <= ty.bits
  BY IntTypeIsAny, TypeRange
<1>2. l \in Int
  BY <1>1, LowEq
<1>3. InRange(ty, v)
  BY <1>2, WrapInRange DEF InRange
<1>4. PICK q \in Int : v = l + pow2(ty.bits) * q
  BY <1>2, WrapCongruent
<1>5. v \in Int
  BY <1>3, IntTypeIsAny, WordFacts
<1>6. v = pow2(ty.bits) * q + l
  <2>1. pow2(ty.bits) * q \in Int
    BY <1>1, Pow2
  <2> HIDE DEF l, v
  <2> QED BY <1>2, <1>4, <1>5, <2>1
<1> HIDE DEF v
<1>7. ds = Bits(v, ty.bits)
  BY ONLY <1>1, <1>5, <1>6, ds \in Digits(ty.bits), q \in Int, BitsOf DEF l
<1> QED BY <1>3, <1>7

\* The number of a word's digits is the bit pattern of its value.
LEMMA PatternIsNumber ==
  ASSUME NEW ty \in AnyType, NEW v, InRange(ty, v)
  PROVE  Reference!Number(Bits(v, ty.bits)) = IF v < 0 THEN v + pow2(ty.bits) ELSE v
<1> DEFINE n == ty.bits
           m == pow2(n)
           l == Low(Bits(v, n))[n]
           q == v \div m
           u == IF v < 0 THEN v + m ELSE v
<1>1. v \in Int /\ n \in Nat /\ n <= n /\ m \in Nat \ {0}
  BY WordFacts, TypeRange
<1>2. l \in Int /\ 0 <= l /\ l < m
  BY <1>1, BitsAreDigits, LowEq
<1>3. v = m * q + l
  BY <1>1, LowOfBits
<1>4. q \in Int
  BY <1>1, BitFacts
<1>5. u \in Int /\ 0 <= u /\ u < m
  BY <1>1, TypeRange DEF InRange
<1>6. Reference!Number(Bits(v, n)) = l
  BY <1>1, BitsAreDigits DEF Reference!Number, Low
<1> HIDE DEF m, l, q
<1>7. u % m = u
  BY <1>1, <1>5
<1>8. u % m = l
  <2>1. CASE v < 0
    <3>1. m * (q + 1) = m * q + m /\ q + 1 \in Int /\ m * q \in Int
      BY <1>1, <1>4
    <3>2. u = m * (q + 1) + l
      BY <1>1, <1>2, <1>3, <2>1, <3>1
    <3> HIDE DEF u
    <3> QED BY ONLY <3>1, <3>2, <1>1, <1>2, <1>5, DivUnique
  <2>2. CASE ~(v < 0)
    <3>1. u = m * q + l
      BY <1>3, <2>2
    <3> HIDE DEF u
    <3> QED BY ONLY <3>1, <1>1, <1>2, <1>4, <1>5, DivUnique
  <2> QED BY <2>1, <2>2
<1> QED BY <1>6, <1>7, <1>8 DEF m

\* The number of the digits of a value is the bit pattern the code reads.
LEMMA NumberIsPattern ==
  ASSUME NEW x \in IntValue
  PROVE  Reference!Number(WordOfInt(x).digits) = unsigned_repr(x)
<1>1. x.type \in IntType /\ InRange(x.type, x.value)
  BY IntValueFacts DEF InRange
<1> QED BY <1>1, IntTypeIsAny, PatternIsNumber, WordFacts DEF WordOfInt, unsigned_repr

\* Flipping the bits of v gives those of -1 - v.
LEMMA FlipBits ==
  ASSUME NEW v \in Int, NEW n \in Nat
  PROVE  Reference!Flip(Bits(v, n)) = Bits(-1 - v, n)
<1>1. ASSUME NEW i \in 1 .. n PROVE bit(-1 - v, i) = 1 - bit(v, i)
  <2> DEFINE m == pow2(i - 1)
  <2>1. m \in Nat \ {0}
    BY Pow2
  <2>2. bit(v, i) = (v \div m) % 2 /\ bit(-1 - v, i) = ((-1 - v) \div m) % 2
    BY DEF bit
  <2> HIDE DEF m
  <2>3. PICK q \in Int, r \in Int :
          q = v \div m /\ r = v % m /\ 0 <= r /\ r < m /\ v = m * q + r
    BY <2>1, DivMod
  <2>4. 0 <= r /\ r < m /\ v = m * q + r
    BY ONLY <2>3, Zenon
  <2>5. m * (-1 - q) = -m - m * q /\ m * q \in Int /\ -1 - q \in Int
    BY <2>1
  <2>6. -1 - v = m * (-1 - q) + (m - 1 - r)
    BY ONLY <2>1, <2>4, <2>5, v \in Int, r \in Int
  <2>7. m - 1 - r \in Int /\ 0 <= m - 1 - r /\ m - 1 - r < m /\ -1 - v \in Int
    BY <2>1, <2>4
  <2>8. (-1 - v) \div m = -1 - q
    BY ONLY <2>1, <2>5, <2>6, <2>7, DivUnique
  <2>9. (-1 - q) % 2 = 1 - (q % 2)
    <3>0. 2 \in Nat \ {0}
      OBVIOUS
    <3>1. PICK p \in Int, t \in Int :
            p = q \div 2 /\ t = q % 2 /\ 0 <= t /\ t < 2 /\ q = 2 * p + t
      BY ONLY <3>0, q \in Int, DivMod
    <3>2. /\ -1 - q = 2 * (-1 - p) + (1 - t) /\ 0 <= 1 - t /\ 1 - t < 2
          /\ -1 - q \in Int /\ -1 - p \in Int /\ 1 - t \in Int
      <4>1. 0 <= t /\ t < 2 /\ q = 2 * p + t
        BY ONLY <3>1, Zenon
      <4> QED BY ONLY <4>1, q \in Int, p \in Int, t \in Int
    <3>3. (-1 - q) % 2 = 1 - t
      BY ONLY <3>0, <3>2, DivUnique
    <3>4. t = q % 2
      BY ONLY <3>1, Zenon
    <3> DEFINE y == q % 2
               x == (-1 - q) % 2
    <3>5. x = 1 - t /\ t = y
      BY ONLY <3>3, <3>4
    <3> HIDE DEF x, y
    <3>6. x = 1 - y
      BY <3>5
    <3> QED BY <3>6 DEF x, y
  <2>10. v \div m = q
    BY ONLY <2>3, Zenon
  <2> DEFINE x == bit(v, i)
             y == bit(-1 - v, i)
  <2>11. y = (-1 - q) % 2
    BY <2>2, <2>8
  <2>12. x = q % 2
    BY <2>2, <2>10
  <2> HIDE DEF x, y
  <2>13. y = 1 - x
    BY ONLY <2>9, <2>11, <2>12
  <2> QED BY <2>13 DEF x, y
<1> QED BY <1>1 DEF Reference!Flip, Bits

-----------------------------------------------------------------------------
(* Ripple-carry sums.                                                      *)

\* The equations of a ripple of carries.
LEMMA CarryEq ==
  ASSUME NEW n \in Nat, NEW xs \in Digits(n), NEW ys \in Digits(n), NEW in \in {0, 1}
  PROVE  LET c == Reference!Carries(xs, ys, in)
             s == Reference!Sum(xs, ys, in)
         IN  /\ c[0] = in
             /\ \A i \in Nat : i <= n => c[i] \in {0, 1}
             /\ s \in Digits(n)
             /\ \A i \in Nat : i + 1 <= n => s[i + 1] + 2 * c[i + 1] = xs[i + 1] + ys[i + 1] + c[i]
<1> DEFINE B == {0, 1}
           G == [p \in Nat \X B |->
                   IF p[1] \in 1 .. n THEN (xs[p[1]] + ys[p[1]] + p[2]) \div 2 ELSE 0]
           Eq(f) == f = [i \in 0 .. n |-> IF i = 0 THEN in ELSE (xs[i] + ys[i] + f[i - 1]) \div 2]
<1>0. Len(xs) = n /\ \A i \in 1 .. n : xs[i] \in B /\ ys[i] \in B
  BY LenDigits DEF Digits
<1>1. PICK f \in [0 .. n -> B] : Follows(f, 0 .. n, in, G)
  <2>1. IsRule(G, B)
    <3> SUFFICES ASSUME NEW i \in Nat, NEW w \in B PROVE G[<<i, w>>] \in B
      BY DEF IsRule
    <3> QED BY <1>0
  <2>2. IsStart(0 .. n) /\ in \in B
    BY DEF IsStart
  <2> HIDE DEF G, B
  <2> QED BY <2>1, <2>2, Recursion
<1>2. Eq(f)
  <2>1. \A i \in 0 .. n : i # 0 => G[<<i, f[i - 1]>>] = (xs[i] + ys[i] + f[i - 1]) \div 2
    OBVIOUS
  <2>2. f = [i \in 0 .. n |-> f[i]]
    OBVIOUS
  <2> HIDE DEF G
  <2> QED BY <1>1, <2>1, <2>2 DEF Follows
<1> DEFINE c == Reference!Carries(xs, ys, in)
           s == Reference!Sum(xs, ys, in)
<1>3. c = CHOOSE g : Eq(g)
  BY <1>0 DEF Reference!Carries
<1>4. Eq(c)
  <2> HIDE DEF Eq, c
  <2> QED BY <1>2, <1>3
<1>5. c = [i \in 0 .. n |-> IF i = 0 THEN in ELSE (xs[i] + ys[i] + c[i - 1]) \div 2]
  BY <1>4
<1>6. s = [i \in 1 .. n |-> (xs[i] + ys[i] + c[i - 1]) % 2]
  <2>1. DOMAIN xs = 1 .. n
    BY DEF Digits
  <2> HIDE DEF c
  <2> QED BY <2>1 DEF Reference!Sum, c
<1> HIDE DEF c, s
<1>7. c[0] = in
  BY <1>5
<1>8. ASSUME NEW i \in Nat, i + 1 <= n
      PROVE  /\ c[i + 1] = (xs[i + 1] + ys[i + 1] + c[i]) \div 2
             /\ s[i + 1] = (xs[i + 1] + ys[i + 1] + c[i]) % 2
             /\ xs[i + 1] \in B /\ ys[i + 1] \in B
  <2>1. i + 1 \in 0 .. n /\ i + 1 # 0 /\ (i + 1) - 1 = i /\ i + 1 \in 1 .. n
    BY <1>8
  <2>2. c[i + 1] = (xs[i + 1] + ys[i + 1] + c[(i + 1) - 1]) \div 2
    BY ONLY <1>5, <2>1
  <2>3. s[i + 1] = (xs[i + 1] + ys[i + 1] + c[(i + 1) - 1]) % 2
    BY ONLY <1>6, <2>1
  <2> QED BY <1>0, <2>1, <2>2, <2>3
<1> DEFINE S == {i \in Nat : i <= n => c[i] \in B}
<1>9. Nat \subseteq S
  <2>1. 0 \in S
    BY <1>7
  <2>2. ASSUME NEW i \in Nat, i \in S PROVE i + 1 \in S
    <3> SUFFICES ASSUME i + 1 <= n PROVE c[i + 1] \in B
      OBVIOUS
    <3>1. i <= n
      OBVIOUS
    <3>2. c[i] \in B
      BY <2>2, <3>1
    <3> QED BY <1>8, <3>2
  <2> HIDE DEF S
  <2> QED BY <2>1, <2>2, SetInduction
<1>10. \A i \in Nat : i <= n => c[i] \in B
  BY <1>9
<1>11. ASSUME NEW i \in Nat, i + 1 <= n
       PROVE  s[i + 1] \in B /\ s[i + 1] + 2 * c[i + 1] = xs[i + 1] + ys[i + 1] + c[i]
  <2>1. i <= n
    BY <1>11
  <2>2. c[i] \in B
    BY <1>10, <2>1
  <2> QED BY <1>8, <1>11, <2>2
<1>12. s \in Digits(n)
  <2>1. ASSUME NEW j \in 1 .. n PROVE s[j] \in B
    <3>1. j - 1 \in Nat /\ (j - 1) + 1 = j /\ (j - 1) + 1 <= n
      OBVIOUS
    <3>2. s[(j - 1) + 1] \in B
      BY <1>11, <3>1
    <3> QED BY <3>1, <3>2
  <2>2. s = [j \in 1 .. n |-> s[j]]
    BY <1>6
  <2> QED BY <2>1, <2>2 DEF Digits
<1>13. \A i \in Nat : i + 1 <= n => s[i + 1] + 2 * c[i + 1] = xs[i + 1] + ys[i + 1] + c[i]
  BY <1>11
<1> QED BY <1>7, <1>10, <1>12, <1>13 DEF c, s

\* What the low digits of a sum are worth: the sum of the operands' low
\* digits, less the carry out of them.
LEMMA SumLow ==
  ASSUME NEW n \in Nat, NEW xs \in Digits(n), NEW ys \in Digits(n), NEW in \in {0, 1}
  PROVE  \A i \in Nat : i <= n =>
           Low(xs)[i] + Low(ys)[i] + in
             = Low(Reference!Sum(xs, ys, in))[i] + pow2(i) * Reference!Carries(xs, ys, in)[i]
<1> DEFINE c == Reference!Carries(xs, ys, in)
           s == Reference!Sum(xs, ys, in)
           X == Low(xs)
           Y == Low(ys)
           Z == Low(s)
<1>1. /\ c[0] = in
      /\ \A i \in Nat : i <= n => c[i] \in {0, 1}
      /\ s \in Digits(n)
      /\ \A i \in Nat : i + 1 <= n => s[i + 1] + 2 * c[i + 1] = xs[i + 1] + ys[i + 1] + c[i]
  BY CarryEq
<1> HIDE DEF c, s
<1>2. /\ X[0] = 0
      /\ \A i \in Nat : i + 1 <= n => X[i + 1] = IF xs[i + 1] = 0 THEN X[i] ELSE X[i] + pow2(i)
      /\ \A i \in Nat : i <= n => X[i] \in Int
  BY LowEq
<1>3. /\ Y[0] = 0
      /\ \A i \in Nat : i + 1 <= n => Y[i + 1] = IF ys[i + 1] = 0 THEN Y[i] ELSE Y[i] + pow2(i)
      /\ \A i \in Nat : i <= n => Y[i] \in Int
  BY LowEq
<1>4. /\ Z[0] = 0
      /\ \A i \in Nat : i + 1 <= n => Z[i + 1] = IF s[i + 1] = 0 THEN Z[i] ELSE Z[i] + pow2(i)
      /\ \A i \in Nat : i <= n => Z[i] \in Int
  BY <1>1, LowEq
<1> HIDE DEF X, Y, Z
<1> DEFINE S == {i \in Nat : i <= n => X[i] + Y[i] + in = Z[i] + pow2(i) * c[i]}
<1>5. Nat \subseteq S
  <2>1. 0 \in S
    BY <1>1, <1>2, <1>3, <1>4, Pow2
  <2>2. ASSUME NEW i \in Nat, i \in S PROVE i + 1 \in S
    <3> SUFFICES ASSUME i + 1 <= n
                 PROVE  X[i + 1] + Y[i + 1] + in = Z[i + 1] + pow2(i + 1) * c[i + 1]
      OBVIOUS
    <3>1. i <= n /\ i + 1 \in Nat
      OBVIOUS
    <3>2. X[i] + Y[i] + in = Z[i] + pow2(i) * c[i]
      BY <2>2, <3>1
    <3>3. c[i] \in {0, 1} /\ c[i + 1] \in {0, 1}
      BY <1>1, <3>1
    <3>4. i + 1 \in 1 .. n
      OBVIOUS
    <3>5. xs[i + 1] \in {0, 1} /\ ys[i + 1] \in {0, 1} /\ s[i + 1] \in {0, 1}
      BY <1>1, <3>4 DEF Digits
    <3>6. s[i + 1] + 2 * c[i + 1] = xs[i + 1] + ys[i + 1] + c[i]
      BY <1>1
    <3>7. /\ X[i + 1] = IF xs[i + 1] = 0 THEN X[i] ELSE X[i] + pow2(i)
          /\ Y[i + 1] = IF ys[i + 1] = 0 THEN Y[i] ELSE Y[i] + pow2(i)
          /\ Z[i + 1] = IF s[i + 1] = 0 THEN Z[i] ELSE Z[i] + pow2(i)
          /\ X[i] \in Int /\ Y[i] \in Int /\ Z[i] \in Int
      BY <1>2, <1>3, <1>4, <3>1
    <3> DEFINE m == pow2(i)
    <3>8. m \in Int /\ pow2(i + 1) = 2 * m
      BY Pow2
    <3>9. /\ m * c[i] = IF c[i] = 0 THEN 0 ELSE m
          /\ (2 * m) * c[i + 1] = IF c[i + 1] = 0 THEN 0 ELSE 2 * m
      BY <3>3, <3>8
    <3> HIDE DEF m
    <3> DEFINE a == X[i]  b == Y[i]  d == Z[i]
               p == X[i + 1]  q == Y[i + 1]  r == Z[i + 1]
               x == xs[i + 1]  y == ys[i + 1]  z == s[i + 1]
               e == c[i]  f == c[i + 1]
    <3>10. /\ p = IF x = 0 THEN a ELSE a + m
           /\ q = IF y = 0 THEN b ELSE b + m
           /\ r = IF z = 0 THEN d ELSE d + m
           /\ a \in Int /\ b \in Int /\ d \in Int
      BY <3>7 DEF m
    <3>11. a + b + in = d + (IF e = 0 THEN 0 ELSE m)
      BY <3>2, <3>9 DEF m
    <3> HIDE DEF a, b, d, p, q, r, x, y, z, e, f
    <3>12. x \in {0, 1} /\ y \in {0, 1} /\ z \in {0, 1} /\ e \in {0, 1} /\ f \in {0, 1}
      BY <3>3, <3>5 DEF x, y, z, e, f
    <3>13. z + 2 * f = x + y + e
      BY <3>6 DEF x, y, z, e, f
    <3>14. p + q + in = r + (IF f = 0 THEN 0 ELSE 2 * m)
      BY ONLY <3>8, <3>10, <3>11, <3>12, <3>13, in \in {0, 1}
    <3> QED BY <3>8, <3>9, <3>14 DEF p, q, r, f
  <2> HIDE DEF S
  <2> QED BY <2>1, <2>2, SetInduction
<1> QED BY <1>5 DEF X, Y, Z, c, s

-----------------------------------------------------------------------------
(* Sums and differences of words, and when they overflow.                  *)

\* q and l are the parts of v above and below digit i.
SplitAt(v, n, i, q, l) == /\ q = v \div pow2(i) /\ l = Low(Bits(v, n))[i]
                          /\ 0 <= l /\ l < pow2(i) /\ v = pow2(i) * q + l

\* An integer has such parts.
LEMMA Parts ==
  ASSUME NEW v \in Int, NEW n \in Nat, NEW i \in Nat, i <= n
  PROVE  \E q \in Int, l \in Int : SplitAt(v, n, i, q, l)
<1>1. Bits(v, n) \in Digits(n)
  BY BitsAreDigits
<1>2. Low(Bits(v, n))[i] \in Int /\ 0 <= Low(Bits(v, n))[i] /\ Low(Bits(v, n))[i] < pow2(i)
  BY <1>1, LowEq
<1>3. v \div pow2(i) \in Int
  BY BitFacts
<1>4. v = pow2(i) * (v \div pow2(i)) + Low(Bits(v, n))[i]
  BY LowOfBits
<1> DEFINE q == v \div pow2(i)
           l == Low(Bits(v, n))[i]
<1>5. q = v \div pow2(i) /\ l = Low(Bits(v, n))[i] /\ q \in Int /\ l \in Int
      /\ 0 <= l /\ l < pow2(i) /\ v = pow2(i) * q + l
  BY <1>2, <1>3, <1>4
<1> HIDE DEF q, l
<1>6. SplitAt(v, n, i, q, l)
  BY <1>5 DEF SplitAt
<1> QED BY <1>5, <1>6

\* A ripple of carries adds modulo a power of two; the carry out of a digit
\* is what the sum has above it and its operands do not.
LEMMA SumBits ==
  ASSUME NEW n \in Nat, NEW v \in Int, NEW w \in Int, NEW in \in Reference!Bit
  PROVE  /\ Reference!Sum(Bits(v, n), Bits(w, n), in) = Bits(v + w + in, n)
         /\ \A i \in Nat : i <= n =>
              (v + w + in) \div pow2(i)
                = (v \div pow2(i)) + (w \div pow2(i)) + Reference!Carries(Bits(v, n), Bits(w, n), in)[i]
<1> DEFINE xs == Bits(v, n)
           ys == Bits(w, n)
           s == Reference!Sum(xs, ys, in)
           c == Reference!Carries(xs, ys, in)
<1>0. in \in {0, 1}
  BY DEF Reference!Bit
<1>1. xs \in Digits(n) /\ ys \in Digits(n)
  BY BitsAreDigits
<1>2. s \in Digits(n) /\ \A i \in Nat : i <= n => c[i] \in {0, 1}
  <2> HIDE DEF xs, ys
  <2> QED BY <1>0, <1>1, CarryEq
<1>3. \A i \in Nat : i <= n => Low(xs)[i] + Low(ys)[i] + in = Low(s)[i] + pow2(i) * c[i]
  <2> HIDE DEF xs, ys
  <2> QED BY <1>0, <1>1, SumLow
<1>4. ASSUME NEW i \in Nat, i <= n
      PROVE  \E p \in Int : /\ p = (v \div pow2(i)) + (w \div pow2(i)) + c[i]
                            /\ v + w + in = pow2(i) * p + Low(s)[i]
  <2> DEFINE m == pow2(i)
             k == c[i]
             z == Low(s)[i]
  <2>1. PICK q \in Int, l \in Int : SplitAt(v, n, i, q, l)
    <3>1. i <= n
      BY <1>4
    <3> QED BY ONLY <3>1, i \in Nat, n \in Nat, v \in Int, Parts
  <2>2. PICK r \in Int, t \in Int : SplitAt(w, n, i, r, t)
    <3>1. i <= n
      BY <1>4
    <3> QED BY ONLY <3>1, i \in Nat, n \in Nat, w \in Int, Parts
  <2>p. /\ q = v \div pow2(i) /\ l = Low(xs)[i] /\ v = m * q + l
        /\ r = w \div pow2(i) /\ t = Low(ys)[i] /\ w = m * r + t
    BY <2>1, <2>2 DEF SplitAt
  <2>3. l + t + in = z + m * k
    BY <1>3, <1>4, <2>p
  <2>4. k \in Int /\ z \in Int /\ m \in Int
    <3>1. k \in Int
      BY <1>2, <1>4
    <3>2. z \in Int
      BY <1>2, <1>4, LowEq
    <3> QED BY <3>1, <3>2, Pow2
  <2>5. v = m * q + l /\ w = m * r + t
    BY <2>p
  <2> HIDE DEF m, k, z
  <2>6. m * (q + r + k) = m * q + m * r + m * k /\ m * q \in Int /\ m * r \in Int /\ m * k \in Int
    BY <2>4
  <2> DEFINE a == m * q  b == m * r  d == m * k
  <2>7. a \in Int /\ b \in Int /\ d \in Int /\ l + t + in = z + d /\ v = a + l /\ w = b + t
    BY <2>3, <2>5, <2>6
  <2> HIDE DEF a, b, d
  <2>8. v + w + in = (a + b + d) + z
    BY ONLY <2>4, <2>7, l \in Int, t \in Int, <1>0
  <2>9. v + w + in = m * (q + r + k) + z
    BY <2>6, <2>8 DEF a, b, d
  <2>10. q + r + k = (v \div pow2(i)) + (w \div pow2(i)) + c[i] /\ q + r + k \in Int
    BY <2>p, <2>4 DEF k
  <2> QED BY <2>9, <2>10 DEF m, z
<1> HIDE DEF xs, ys, s, c
<1>5. v + w + in \in Int /\ n <= n
  BY <1>0
<1>6. s = Bits(v + w + in, n)
  <2>1. PICK p \in Int : v + w + in = pow2(n) * p + Low(s)[n]
    BY <1>4, <1>5
  <2> QED BY ONLY <1>2, <1>5, <2>1, n \in Nat, BitsOf
<1>7. ASSUME NEW i \in Nat, i <= n
      PROVE  (v + w + in) \div pow2(i) = (v \div pow2(i)) + (w \div pow2(i)) + c[i]
  <2>1. PICK p \in Int : /\ p = (v \div pow2(i)) + (w \div pow2(i)) + c[i]
                         /\ v + w + in = pow2(i) * p + Low(s)[i]
    BY <1>4, <1>7
  <2>2. Low(s)[i] \in Int /\ 0 <= Low(s)[i] /\ Low(s)[i] < pow2(i)
    BY <1>2, <1>7, LowEq
  <2>3. pow2(i) \in Nat \ {0}
    BY Pow2
  <2>4. v + w + in = pow2(i) * p + Low(s)[i]
    BY <2>1
  <2>5. (v + w + in) \div pow2(i) = p
    BY ONLY <1>5, <2>2, <2>3, <2>4, DivUnique
  <2> QED BY <2>1, <2>5
<1> QED BY <1>6, <1>7 DEF xs, ys, s, c

\* The ripple-carry sum of the bits of two integers is the bits of their sum.
LEMMA SumIs ==
  ASSUME NEW n \in Nat, NEW v \in Int, NEW w \in Int, NEW in \in Reference!Bit,
         NEW s, s = v + w + in
  PROVE  Reference!Sum(Bits(v, n), Bits(w, n), in) = Bits(s, n)
<1>2. Reference!Sum(Bits(v, n), Bits(w, n), in) = Bits(v + w + in, n)
  BY SumBits
<1> QED BY ONLY <1>2, s = v + w + in, Zenon

\* What an integer has above digit i.
Top(v, i) == v \div pow2(i)

\* The carry into a digit is what the quotients of the summands leave out.
LEMMA CarryIs ==
  ASSUME NEW n \in Nat, NEW v \in Int, NEW w \in Int, NEW in \in Reference!Bit,
         NEW s, s = v + w + in, NEW i \in Nat, i <= n
  PROVE  Top(s, i) = Top(v, i) + Top(w, i) + Reference!Carries(Bits(v, n), Bits(w, n), in)[i]
<1>2. (v + w + in) \div pow2(i)
        = (v \div pow2(i)) + (w \div pow2(i)) + Reference!Carries(Bits(v, n), Bits(w, n), in)[i]
  BY ONLY n \in Nat, v \in Int, w \in Int, i \in Nat, i <= n, in \in Reference!Bit, SumBits
<1> QED BY ONLY <1>2, s = v + w + in, Zenon DEF Top

\* An integer fits in the digits below one when the quotients by it and by
\* the next agree.
LEMMA FitsSigned ==
  ASSUME NEW v \in Int, NEW k \in Nat
  PROVE  v \div pow2(k + 1) = v \div pow2(k) <=> -pow2(k) <= v /\ v < pow2(k)
<1> DEFINE m == pow2(k)
           q == v \div pow2(k)
           r == v \div pow2(k + 1)
           b == bit(v, k + 1)
<1>1. m \in Nat \ {0} /\ pow2(k + 1) \in Nat \ {0} /\ pow2(k + 1) = 2 * m
  BY Pow2
<1>2. b \in {0, 1} /\ q = 2 * r + b /\ q \in Int
  BY BitFacts
<1>3. r \in Int
  BY <1>1
<1>4. PICK l \in Int : 0 <= l /\ l < m /\ v = m * q + l
  BY <1>1, DivMod
<1>5. ASSUME r = q PROVE -m <= v /\ v < m
  <2> HIDE DEF m, q, r, b
  <2>1. q = 0 \/ q = -1
    BY <1>2, <1>3, <1>5
  <2>2. m * q = 0 \/ m * q = -m
    BY <1>1, <2>1
  <2> QED BY <1>1, <1>4, <2>2
<1>6. ASSUME -m <= v, v < m PROVE r = q
  <2>1. CASE v < 0
    <3>1. q = -1
      BY <1>1, <1>6, <2>1, SmallDiv
    <3>2. r = -1
      BY <1>1, <1>6, <2>1, SmallDiv
    <3> QED BY <3>1, <3>2
  <2>2. CASE ~(v < 0)
    <3>1. q = 0
      BY <1>1, <1>6, <2>2, SmallDiv
    <3>2. r = 0
      BY <1>1, <1>6, <2>2, SmallDiv
    <3> QED BY <3>1, <3>2
  <2> QED BY <2>1, <2>2
<1> QED BY <1>5, <1>6

\* A value lies in the width of an unsigned type when nothing is left above.
LEMMA FitsUnsigned ==
  ASSUME NEW v \in Int, NEW m \in Nat \ {0}
  PROVE  v \div m = 0 <=> 0 <= v /\ v < m
<1>1. PICK q \in Int, l \in Int : q = v \div m /\ 0 <= l /\ l < m /\ v = m * q + l
  BY DivMod
<1>2. ASSUME v \div m = 0 PROVE 0 <= v /\ v < m
  <2>1. m * q = 0
    BY <1>1, <1>2
  <2> QED BY <1>1, <2>1
<1> QED BY <1>2, SmallDiv

\* The quotient of a value of a type by what its digits can hold.
LEMMA Above ==
  ASSUME NEW ty \in AnyType, NEW v, InRange(ty, v)
  PROVE  /\ v \div pow2(ty.bits) = -Neg(v)
         /\ ty.signed => v \div pow2(ty.bits - 1) = -Neg(v)
<1>1. /\ v \in Int /\ pow2(ty.bits) \in Nat \ {0} /\ pow2(ty.bits - 1) \in Nat \ {0}
      /\ -pow2(ty.bits) <= v /\ v < pow2(ty.bits)
      /\ ty.signed => -pow2(ty.bits - 1) <= v /\ v < pow2(ty.bits - 1)
  BY TypeRange, WordFacts DEF InRange
<1>2. CASE v < 0
  BY <1>1, <1>2, SmallDiv DEF Neg
<1>3. CASE ~(v < 0)
  BY <1>1, <1>3, SmallDiv DEF Neg
<1> QED BY <1>2, <1>3

\* What an operation of the machine and one on words give agree.
Agree(r, w) == IF r.ok THEN w = Reference!Ok(WordOfInt(r.int)) ELSE w = Reference!Fail(r.error)

\* A word with the digits of another value is the word of that value.
LEMMA WithWord ==
  ASSUME NEW ty, NEW v, NEW u
  PROVE  Reference!With(WordOf(ty, v), Bits(u, ty.bits)) = WordOf(ty, u)
<1> DEFINE f == Bits(v, ty.bits)
           g == Bits(u, ty.bits)
<1>1. WordOf(ty, v) = [signed |-> ty.signed, digits |-> f] /\ WordOf(ty, u) = [signed |-> ty.signed, digits |-> g]
  BY DEF WordOf, Bits
<1> HIDE DEF f, g
<1>2. Reference!With(WordOf(ty, v), g) = WordOf(ty, u)
  BY <1>1 DEF Reference!With
<1> QED BY <1>2 DEF g

\* A canonical result agrees with the word of the unwrapped number.
LEMMA AgreeCanonical ==
  ASSUME NEW ty \in IntType, NEW raw \in Int
  PROVE  Agree(Ok(canonical(ty, raw)), Reference!Ok(WordOf(ty, raw)))
BY CanonicalWord DEF Agree, Ok

\* A sum of values overflows when it is outside the type.
LEMMA OverflowsIff ==
  ASSUME NEW ty \in AnyType, NEW v, InRange(ty, v), NEW w \in Int, NEW in \in Reference!Bit,
         NEW clear \in Reference!Bit, ty.signed => w \div pow2(ty.bits - 1) = w \div pow2(ty.bits),
         ~ty.signed => w \div pow2(ty.bits) + clear = 0
  PROVE  Reference!Overflows(WordOf(ty, v), Bits(w, ty.bits), in, clear)
           <=> v + w + in < least(ty) \/ v + w + in > greatest(ty)
<1> DEFINE n == ty.bits
           s == v + w + in
           c == Reference!Carries(Bits(v, n), Bits(w, n), in)
<1>a. in \in {0, 1} /\ clear \in {0, 1}
  BY DEF Reference!Bit
<1>1. /\ n \in Nat /\ n - 1 \in Nat /\ (n - 1) + 1 = n /\ n <= n /\ n - 1 <= n
      /\ v \in Int /\ s \in Int /\ ty.signed \in BOOLEAN
      /\ pow2(n) \in Nat \ {0} /\ pow2(n - 1) \in Nat \ {0}
      /\ least(ty) = IF ty.signed THEN -pow2(n - 1) ELSE 0
      /\ greatest(ty) = IF ty.signed THEN pow2(n - 1) - 1 ELSE pow2(n) - 1
  BY <1>a, TypeRange, WordFacts
<1>3. Reference!Overflows(WordOf(ty, v), Bits(w, n), in, clear)
        <=> IF ty.signed THEN c[n] # c[n - 1] ELSE c[n] # clear
  BY WordFacts DEF Reference!Overflows
<1>4. c[n] \in Int /\ c[n - 1] \in Int
  <2> PICK xs \in Digits(n), ys \in Digits(n) : xs = Bits(v, n) /\ ys = Bits(w, n)
    BY <1>1, BitsAreDigits
  <2>1. \A i \in Nat : i <= n => Reference!Carries(xs, ys, in)[i] \in {0, 1}
    BY ONLY <1>1, <1>a, xs \in Digits(n), ys \in Digits(n), CarryEq
  <2> QED BY ONLY <1>1, <2>1, xs = Bits(v, n), ys = Bits(w, n)
<1> HIDE DEF c
<1> DEFINE a == s \div pow2(n)  b == v \div pow2(n)  d == w \div pow2(n)
           e == s \div pow2(n - 1)  f == v \div pow2(n - 1)  g == w \div pow2(n - 1)
<1>5. a = b + d + c[n] /\ e = f + g + c[n - 1]
  <2>1. s = v + w + in
    OBVIOUS
  <2>a. v \in Int /\ n \in Nat
    BY <1>1
  <2>c. n - 1 \in Nat /\ n <= n /\ n - 1 <= n
    BY <1>1
  <2> HIDE DEF s
  <2> HIDE DEF n
  <2>b. ASSUME NEW i \in Nat, i <= n PROVE Top(s, i) = Top(v, i) + Top(w, i) + c[i]
    <3>1. v \in Int
      BY <2>a
    <3>2. n \in Nat
      BY <2>a
    <3> QED BY ONLY <2>1, <2>b, <3>1, <3>2, in \in Reference!Bit, i \in Nat, w \in Int, CarryIs DEF c
  <2>2. a = b + d + c[n]
    <3>1. Top(s, n) = Top(v, n) + Top(w, n) + c[n]
      BY ONLY <2>a, <2>b, <2>c
    <3> QED BY ONLY <3>1 DEF Top
  <2>3. e = f + g + c[n - 1]
    <3>1. Top(s, n - 1) = Top(v, n - 1) + Top(w, n - 1) + c[n - 1]
      BY ONLY <2>a, <2>b, <2>c
    <3> QED BY ONLY <3>1 DEF Top
  <2> QED BY <2>2, <2>3
<1>6. a \in Int /\ b \in Int /\ d \in Int /\ e \in Int /\ f \in Int /\ g \in Int
  BY <1>1, BitFacts
<1>7. b = -Neg(v) /\ (ty.signed => f = -Neg(v)) /\ Neg(v) \in {0, 1}
  BY Above DEF Neg
<1>8. CASE ty.signed
  <2>1. f = b /\ g = d
    BY <1>7, <1>8
  <2>2. e = a <=> -pow2(n - 1) <= s /\ s < pow2(n - 1)
    <3>1. s \div pow2((n - 1) + 1) = s \div pow2(n - 1) <=> -pow2(n - 1) <= s /\ s < pow2(n - 1)
      BY <1>1, FitsSigned
    <3> QED BY <1>1, <3>1
  <2> HIDE DEF a, b, d, e, f, g
  <2> DEFINE x == c[n]  y == c[n - 1]
  <2>4. /\ x \in Int /\ y \in Int /\ b \in Int /\ d \in Int
        /\ a = b + d + x /\ e = b + d + y
    BY <1>4, <1>5, <1>6, <2>1
  <2> HIDE DEF x, y
  <2>3. x # y <=> ~(e = a)
    BY ONLY <2>4
  <2> QED BY <1>1, <1>3, <1>8, <2>2, <2>3 DEF x, y
<1>9. CASE ~ty.signed
  <2>1. d + clear = 0 /\ b = 0
    <3>1. 0 <= v
      BY <1>1, <1>9 DEF InRange
    <3> QED BY <1>1, <1>7, <1>9, <3>1 DEF Neg
  <2>2. a = 0 <=> 0 <= s /\ s < pow2(n)
    BY <1>1, FitsUnsigned
  <2> HIDE DEF a, b, d
  <2>3. c[n] # clear <=> ~(a = 0)
    BY ONLY <1>4, <1>5, <1>6, <2>1, <1>a
  <2> QED BY <1>1, <1>3, <1>9, <2>2, <2>3
<1> QED BY <1>1, <1>8, <1>9

\* Addition: overflow when the carries into and out of the sign differ.
LEMMA Plus ==
  ASSUME NEW ty \in IntType, NEW v, NEW w, InRange(ty, v), InRange(ty, w)
  PROVE  Agree(checked(ty, v + w), Reference!Plus(WordOf(ty, v), WordOf(ty, w)))
<1>0. ty \in AnyType
  BY IntTypeIsAny
<1>1. v \in Int /\ w \in Int /\ ty.bits \in Nat
  BY <1>0, WordFacts, TypeRange
<1>2. w \div pow2(ty.bits) = -Neg(w) /\ (ty.signed => w \div pow2(ty.bits - 1) = -Neg(w))
  BY <1>0, Above
<1>3. ~ty.signed => Neg(w) = 0
  BY <1>0, TypeRange DEF InRange, Neg
<1>4. 0 \in {0, 1} /\ 0 \in Reference!Bit /\ v + w = v + w + 0 /\ 0 \in Int
  BY <1>1 DEF Reference!Bit
<1>a. /\ ty.signed => w \div pow2(ty.bits - 1) = w \div pow2(ty.bits)
      /\ ~ty.signed => w \div pow2(ty.bits) + 0 = 0
  BY <1>2, <1>3
<1>b. Reference!Overflows(WordOf(ty, v), Bits(w, ty.bits), 0, 0)
        <=> v + w + 0 < least(ty) \/ v + w + 0 > greatest(ty)
  BY ONLY <1>0, <1>1, <1>a, <1>4, InRange(ty, v), OverflowsIff
<1>5. Reference!Overflows(WordOf(ty, v), Bits(w, ty.bits), 0, 0) <=> v + w < least(ty) \/ v + w > greatest(ty)
  <2> DEFINE o == Reference!Overflows(WordOf(ty, v), Bits(w, ty.bits), 0, 0)
             x == v + w + 0
             y == v + w
  <2>1. x = y /\ (o <=> x < least(ty) \/ x > greatest(ty))
    BY <1>1, <1>b
  <2> HIDE DEF o, x, y
  <2>2. o <=> y < least(ty) \/ y > greatest(ty)
    BY ONLY <2>1
  <2> QED BY <2>2 DEF o, y
<1>6. Reference!Sum(Bits(v, ty.bits), Bits(w, ty.bits), 0) = Bits(v + w, ty.bits)
  <2>1. v \in Int /\ w \in Int /\ ty.bits \in Nat /\ 0 \in Reference!Bit /\ v + w = v + w + 0
    BY <1>1, <1>4
  <2> QED BY ONLY <2>1, SumIs
<1>7. WordOf(ty, v).digits = Bits(v, ty.bits) /\ WordOf(ty, w).digits = Bits(w, ty.bits)
  BY <1>0, WordFacts
<1>8. Reference!Plus(WordOf(ty, v), WordOf(ty, w))
        = IF v + w < least(ty) \/ v + w > greatest(ty) THEN Reference!Fail("Overflow")
          ELSE Reference!Ok(WordOf(ty, v + w))
  BY <1>5, <1>6, <1>7, WithWord DEF Reference!Plus
<1> QED BY <1>8 DEF Agree, checked, Ok, Fail, WordOfInt

\* Subtraction is the addition of the flipped digits and a carry.
LEMMA Minus ==
  ASSUME NEW ty \in IntType, NEW v, NEW w, InRange(ty, v), InRange(ty, w)
  PROVE  Agree(checked(ty, v - w), Reference!Minus(WordOf(ty, v), WordOf(ty, w)))
<1>0. ty \in AnyType
  BY IntTypeIsAny
<1>1. v \in Int /\ w \in Int /\ ty.bits \in Nat /\ ty.bits - 1 \in Nat /\ ty.signed \in BOOLEAN
      /\ pow2(ty.bits) \in Nat \ {0} /\ pow2(ty.bits - 1) \in Nat \ {0}
  BY <1>0, WordFacts, TypeRange
<1> DEFINE u == -1 - w
<1>2. u \in Int /\ v - w = v + u + 1
  BY <1>1
<1>3. ty.signed => u \div pow2(ty.bits - 1) = u \div pow2(ty.bits)
  <2> SUFFICES ASSUME ty.signed PROVE u \div pow2(ty.bits - 1) = u \div pow2(ty.bits)
    OBVIOUS
  <2>1. -pow2(ty.bits - 1) <= u /\ u < pow2(ty.bits - 1)
    BY <1>0, <1>1, TypeRange DEF InRange
  <2>2. (ty.bits - 1) + 1 = ty.bits
    BY <1>1
  <2> HIDE DEF u
  <2> QED BY <1>1, <1>2, <2>1, <2>2, FitsSigned
<1>4. ~ty.signed => u \div pow2(ty.bits) + 1 = 0
  <2> SUFFICES ASSUME ~ty.signed PROVE u \div pow2(ty.bits) = -1
    OBVIOUS
  <2>1. -pow2(ty.bits) <= u /\ u < 0
    BY <1>0, <1>1, TypeRange DEF InRange
  <2> HIDE DEF u
  <2> QED BY <1>1, <1>2, <2>1, SmallDiv
<1>5. WordOf(ty, v).digits = Bits(v, ty.bits) /\ Reference!Flip(WordOf(ty, w).digits) = Bits(u, ty.bits)
  BY <1>0, <1>1, WordFacts, FlipBits
<1> HIDE DEF u
<1>6. 1 \in {0, 1} /\ 1 \in Reference!Bit
  BY DEF Reference!Bit
<1>b. Reference!Overflows(WordOf(ty, v), Bits(u, ty.bits), 1, 1)
        <=> v + u + 1 < least(ty) \/ v + u + 1 > greatest(ty)
  BY ONLY <1>0, <1>1, <1>2, <1>3, <1>4, <1>6, InRange(ty, v), OverflowsIff
<1>7. Reference!Overflows(WordOf(ty, v), Bits(u, ty.bits), 1, 1) <=> v - w < least(ty) \/ v - w > greatest(ty)
  <2> DEFINE o == Reference!Overflows(WordOf(ty, v), Bits(u, ty.bits), 1, 1)
             x == v + u + 1
             y == v - w
  <2>1. x = y /\ (o <=> x < least(ty) \/ x > greatest(ty))
    BY <1>2, <1>b
  <2> HIDE DEF o, x, y
  <2>2. o <=> y < least(ty) \/ y > greatest(ty)
    BY ONLY <2>1
  <2> QED BY <2>2 DEF o, y
<1>8. Reference!Sum(Bits(v, ty.bits), Bits(u, ty.bits), 1) = Bits(v - w, ty.bits)
  <2>1. v \in Int /\ u \in Int /\ ty.bits \in Nat /\ 1 \in Reference!Bit /\ v - w = v + u + 1
    BY <1>1, <1>2, <1>6
  <2> QED BY ONLY <2>1, SumIs
<1>9. Reference!Minus(WordOf(ty, v), WordOf(ty, w))
        = IF v - w < least(ty) \/ v - w > greatest(ty) THEN Reference!Fail("Overflow")
          ELSE Reference!Ok(WordOf(ty, v - w))
  BY <1>5, <1>7, <1>8, WithWord DEF Reference!Minus
<1> QED BY <1>9 DEF Agree, checked, Ok, Fail, WordOfInt

-----------------------------------------------------------------------------
(* Shifts of digits.                                                       *)

\* A bit by the steps of its computation.
LEMMA BitIs ==
  ASSUME NEW v \in Int, NEW i \in Nat \ {0}, NEW m, m = pow2(i - 1), NEW q, q = v \div m, NEW b, b = q % 2
  PROVE  bit(v, i) = b
BY Zenon DEF bit

\* Zero's digits are clear.
LEMMA ZeroBits ==
  ASSUME NEW n \in Nat
  PROVE  Reference!Zero(n) = Bits(0, n)
<1>1. ASSUME NEW i \in 1 .. n PROVE bit(0, i) = 0
  <2> DEFINE m == pow2(i - 1)
  <2>1. m \in Nat \ {0}
    BY Pow2
  <2>2. bit(0, i) = (0 \div m) % 2
    BY DEF bit
  <2> HIDE DEF m
  <2>3. 0 \div m = 0
    BY <2>1, SmallDiv
  <2> QED BY <2>2, <2>3
<1> QED BY <1>1 DEF Reference!Zero, Bits

\* Shifting digits up multiplies.
LEMMA ShiftedLeft ==
  ASSUME NEW n \in Nat, NEW v \in Int, NEW k \in Nat
  PROVE  Reference!Shifted(Bits(v, n), k, 0) = Bits(v * pow2(k), n)
<1> DEFINE m == pow2(k)
           u == v * m
<1>1. m \in Nat \ {0}
  BY Pow2
<1>2. u \in Int
  <2> HIDE DEF m
  <2> QED BY <1>1
<1>3. ASSUME NEW i \in 1 .. n, i > k PROVE bit(u, i) = bit(v, i - k)
  <2>1. i - k \in Nat \ {0} /\ k + (i - k) = i
    BY <1>3
  <2>2. bit(u \div pow2(k), i - k) = bit(u, k + (i - k))
    BY ONLY <1>2, <2>1, k \in Nat, BitShift
  <2>3. u \div pow2(k) = v
    <3> HIDE DEF m
    <3>1. u = m * v + 0 /\ 0 \in Int /\ 0 <= 0 /\ 0 < m
      BY <1>1
    <3> HIDE DEF u
    <3>2. u \div m = v
      BY ONLY <3>1, <1>1, <1>2, v \in Int, DivUnique
    <3> QED BY <3>2 DEF m
  <2> HIDE DEF u
  <2> QED BY ONLY <2>1, <2>2, <2>3, Zenon
<1>4. ASSUME NEW i \in 1 .. n, ~(i > k) PROVE bit(u, i) = 0
  <2> DEFINE d == pow2(i - 1)
             e == pow2(k - i)
  <2>1. i - 1 \in Nat /\ k - i \in Nat /\ (i - 1) + 1 = i /\ i + (k - i) = k /\ i \in Nat
    BY <1>4
  <2>2. d \in Nat \ {0} /\ e \in Nat \ {0} /\ pow2(i) = 2 * d
    BY <2>1, Pow2
  <2>3. m = (2 * d) * e
    <3>1. pow2(i + (k - i)) = pow2(i) * pow2(k - i)
      BY ONLY <2>1, PowAdd
    <3> QED BY <2>1, <2>2, <3>1
  <2>4. bit(u, i) = (u \div d) % 2
    BY DEF bit
  <2> HIDE DEF m, d, e
  <2>5. u = d * (2 * (v * e)) + 0 /\ v * e \in Int
    <3>1. v * ((2 * d) * e) = d * (2 * (v * e))
      BY <2>2
    <3>2. v * e \in Int
      BY <2>2
    <3>3. d * (2 * (v * e)) \in Int
      BY <2>2, <3>2
    <3> QED BY <2>3, <3>1, <3>2, <3>3
  <2> DEFINE p == v * e
  <2>6. p \in Int /\ 2 * p \in Int /\ u = d * (2 * p) + 0 /\ 0 \in Int /\ 0 <= 0 /\ 0 < d
    BY <2>2, <2>5
  <2> HIDE DEF p, u
  <2>7. u \div d = 2 * p
    BY ONLY <2>2, <2>6, <1>2, DivUnique
  <2>8. (2 * p) % 2 = 0
    BY <2>6
  <2> QED BY <2>4, <2>7, <2>8
<1> HIDE DEF u
<1> DEFINE f == Bits(v, n)
<1>5. DOMAIN f = 1 .. n /\ \A i \in 1 .. n : f[i] = bit(v, i)
  BY DEF Bits
<1> HIDE DEF f
<1>6. ASSUME NEW i \in 1 .. n PROVE (IF i - k \in DOMAIN f THEN f[i - k] ELSE 0) = bit(u, i)
  <2>1. CASE i > k
    <3>1. i - k \in 1 .. n
      BY <2>1
    <3> QED BY <1>3, <1>5, <2>1, <3>1
  <2>2. CASE ~(i > k)
    <3>1. ~(i - k \in 1 .. n)
      BY <2>2
    <3> QED BY <1>4, <1>5, <2>2, <3>1
  <2> QED BY <2>1, <2>2
<1>7. Reference!Shifted(f, k, 0) = Bits(u, n)
  BY <1>5, <1>6 DEF Reference!Shifted, Bits
<1> QED BY <1>7 DEF f, u

\* Shifting digits down and filling with the sign divides, rounding down.
LEMMA ShiftedRight ==
  ASSUME NEW ty \in AnyType, NEW v, InRange(ty, v), NEW k \in Nat
  PROVE  Reference!Shifted(Bits(v, ty.bits), -k, Neg(v)) = Bits(v \div pow2(k), ty.bits)
<1> DEFINE n == ty.bits
           f == Bits(v, n)
           u == v \div pow2(k)
<1>1. n \in Nat /\ v \in Int
  BY TypeRange, WordFacts
<1>2. DOMAIN f = 1 .. n /\ \A i \in 1 .. n : f[i] = bit(v, i)
  BY DEF Bits
<1>3. -pow2(n) <= v /\ v < pow2(n)
  BY TypeRange DEF InRange
<1>4. \A i \in Nat : i > n => bit(v, i) = Neg(v)
  <2> HIDE DEF n
  <2> QED BY <1>1, <1>3, SignBits DEF Neg
<1> HIDE DEF n, f
<1>5. ASSUME NEW i \in 1 .. n
      PROVE  (IF i - (-k) \in DOMAIN f THEN f[i - (-k)] ELSE Neg(v)) = bit(u, i)
  <2>1. i \in Nat \ {0} /\ i - (-k) = k + i /\ k + i \in Nat /\ (k + i \in 1 .. n <=> ~(k + i > n))
    BY <1>1
  <2>2. bit(u, i) = bit(v, k + i)
    BY <1>1, <2>1, BitShift
  <2> HIDE DEF u
  <2> QED BY <1>2, <1>4, <2>1, <2>2
<1> HIDE DEF u
<1>6. Reference!Shifted(f, -k, Neg(v)) = Bits(u, n)
  BY <1>2, <1>5 DEF Reference!Shifted, Bits
<1> QED BY <1>6 DEF f, u, n

-----------------------------------------------------------------------------
(* Long multiplication.                                                    *)

\* The equations of the partial products.
LEMMA PartialEq ==
  ASSUME NEW n \in Nat, NEW xs \in Digits(n), NEW ys \in Digits(n)
  PROVE  LET p == Reference!Partial(xs, ys)
         IN  /\ p[0] = Reference!Zero(n)
             /\ \A k \in Nat : k + 1 <= n =>
                  p[k + 1] = IF ys[k + 1] = 0 THEN p[k]
                             ELSE Reference!Sum(p[k], Reference!Shifted(xs, k, 0), 0)
<1> DEFINE Step(k, q) == Reference!Sum(q, Reference!Shifted(xs, k - 1, 0), 0)
           Z == Reference!Zero(n)
           V == Digits(n)
           G == [q \in Nat \X V |->
                   IF q[1] \in 1 .. n THEN IF ys[q[1]] = 0 THEN q[2] ELSE Step(q[1], q[2]) ELSE Z]
           Eq(f) == f = [k \in 0 .. n |-> IF k = 0 THEN Z
                                          ELSE IF ys[k] = 0 THEN f[k - 1] ELSE Step(k, f[k - 1])]
<1>0. Len(xs) = n /\ Len(ys) = n /\ DOMAIN xs = 1 .. n /\ \A i \in 1 .. n : xs[i] \in {0, 1}
  BY LenDigits DEF Digits
<1>1. Z \in V
  BY DEF Reference!Zero, Digits
<1>2. ASSUME NEW k \in Nat, NEW q \in V PROVE Step(k, q) \in V
  <2> DEFINE zs == Reference!Shifted(xs, k - 1, 0)
  <2>1. zs \in Digits(n)
    BY <1>0 DEF Reference!Shifted, Digits
  <2>2. 0 \in {0, 1}
    OBVIOUS
  <2> HIDE DEF zs
  <2>3. Reference!Sum(q, zs, 0) \in Digits(n)
    BY ONLY <2>1, <2>2, n \in Nat, q \in V, CarryEq
  <2> QED BY <2>3 DEF zs
<1> HIDE DEF Step, Z
<1>3. PICK f \in [0 .. n -> V] : Follows(f, 0 .. n, Z, G)
  <2>1. IsRule(G, V)
    <3> SUFFICES ASSUME NEW i \in Nat, NEW w \in V PROVE G[<<i, w>>] \in V
      BY DEF IsRule
    <3> HIDE DEF V
    <3> QED BY <1>1, <1>2
  <2>2. IsStart(0 .. n)
    BY DEF IsStart
  <2> HIDE DEF G, V
  <2> QED BY <1>1, <2>1, <2>2, Recursion
<1>4. Eq(f)
  <2>1. \A k \in 0 .. n : k # 0 =>
          G[<<k, f[k - 1]>>] = IF ys[k] = 0 THEN f[k - 1] ELSE Step(k, f[k - 1])
    <3> HIDE DEF V
    <3> QED OBVIOUS
  <2>2. f = [k \in 0 .. n |-> f[k]]
    OBVIOUS
  <2> HIDE DEF G, V
  <2> QED BY <1>3, <2>1, <2>2 DEF Follows
<1> DEFINE p == Reference!Partial(xs, ys)
<1>5. p = CHOOSE g : Eq(g)
  BY <1>0 DEF Reference!Partial, Step, Z
<1>6. Eq(p)
  <2> HIDE DEF Eq, p
  <2> QED BY <1>4, <1>5
<1> HIDE DEF p
<1>7. p[0] = Z
  BY <1>6
<1>8. ASSUME NEW k \in Nat, k + 1 <= n
      PROVE  p[k + 1] = IF ys[k + 1] = 0 THEN p[k] ELSE Step(k + 1, p[k])
  <2>1. k + 1 \in 0 .. n /\ k + 1 # 0 /\ (k + 1) - 1 = k
    BY <1>8
  <2>2. p[k + 1] = IF ys[k + 1] = 0 THEN p[(k + 1) - 1] ELSE Step(k + 1, p[(k + 1) - 1])
    BY ONLY <1>6, <2>1
  <2> QED BY <2>1, <2>2
<1>9. ASSUME NEW k \in Nat, k + 1 <= n
      PROVE  p[k + 1] = IF ys[k + 1] = 0 THEN p[k]
                        ELSE Reference!Sum(p[k], Reference!Shifted(xs, k, 0), 0)
  <2>1. (k + 1) - 1 = k
    OBVIOUS
  <2>2. Step(k + 1, p[k]) = Reference!Sum(p[k], Reference!Shifted(xs, k, 0), 0)
    BY <2>1 DEF Step
  <2> QED BY <1>8, <1>9, <2>2
<1> QED BY <1>7, <1>9 DEF p, Z

\* Long multiplication multiplies.
LEMMA PartialIs ==
  ASSUME NEW n \in Nat, NEW v \in Int, NEW w \in Int
  PROVE  Reference!Partial(Bits(v, n), Bits(w, n))[n] = Bits(v * w, n)
<1> DEFINE xs == Bits(v, n)
           ys == Bits(w, n)
           p == Reference!Partial(xs, ys)
           l == Low(ys)
<1>0. ys \in Digits(n)
  BY BitsAreDigits
<1>1. /\ p[0] = Bits(0, n)
      /\ \A k \in Nat : k + 1 <= n =>
           p[k + 1] = IF ys[k + 1] = 0 THEN p[k]
                      ELSE Reference!Sum(p[k], Bits(v * pow2(k), n), 0)
  <2>1. /\ p[0] = Reference!Zero(n)
        /\ \A k \in Nat : k + 1 <= n =>
             p[k + 1] = IF ys[k + 1] = 0 THEN p[k]
                        ELSE Reference!Sum(p[k], Reference!Shifted(xs, k, 0), 0)
    BY BitsAreDigits, PartialEq
  <2>2. \A k \in Nat : Reference!Shifted(xs, k, 0) = Bits(v * pow2(k), n)
    BY ShiftedLeft
  <2> HIDE DEF p, ys, xs
  <2> QED BY <2>1, <2>2, ZeroBits
<1>2. /\ l[0] = 0
      /\ \A i \in Nat : i + 1 <= n => l[i + 1] = IF ys[i + 1] = 0 THEN l[i] ELSE l[i] + pow2(i)
      /\ \A i \in Nat : i <= n => l[i] \in Int
  BY <1>0, LowEq
<1>3. w = pow2(n) * (w \div pow2(n)) + l[n]
  <2>1. n <= n
    OBVIOUS
  <2> QED BY ONLY <2>1, n \in Nat, w \in Int, LowOfBits
<1> HIDE DEF p, l, ys
<1> DEFINE S == {k \in Nat : k <= n => p[k] = Bits(v * l[k], n)}
<1>4. Nat \subseteq S
  <2>1. 0 \in S
    <3>1. v * 0 = 0
      OBVIOUS
    <3> QED BY <1>1, <1>2, <3>1
  <2>2. ASSUME NEW k \in Nat, k \in S PROVE k + 1 \in S
    <3> SUFFICES ASSUME k + 1 <= n PROVE p[k + 1] = Bits(v * l[k + 1], n)
      OBVIOUS
    <3>1. k <= n
      OBVIOUS
    <3>2. p[k] = Bits(v * l[k], n)
      BY <2>2, <3>1
    <3> DEFINE m == pow2(k)
               d == l[k]
    <3>3. d \in Int /\ m \in Int
      BY <1>2, <3>1, Pow2
    <3>4. CASE ys[k + 1] = 0
      BY <1>1, <1>2, <3>2, <3>4
    <3>5. CASE ys[k + 1] # 0
      <4>1. l[k + 1] = d + m /\ p[k + 1] = Reference!Sum(Bits(v * d, n), Bits(v * m, n), 0)
        BY <1>1, <1>2, <3>2, <3>5
      <4> HIDE DEF d, m
      <4> DEFINE a == v * d
                 b == v * m
                 c == v * (d + m)
      <4>2. a \in Int /\ b \in Int
        BY <3>3
      <4>3. c = a + b + 0
        <5>1. v * (d + m) = v * d + v * m
          BY <3>3
        <5> QED BY <4>2, <5>1
      <4> HIDE DEF a, b, c
      <4>4. 0 \in Reference!Bit
        BY DEF Reference!Bit
      <4>5. a \in Int
        BY <4>2
      <4>6. b \in Int
        BY <4>2
      <4>7. Reference!Sum(Bits(a, n), Bits(b, n), 0) = Bits(c, n)
        BY ONLY <4>3, <4>4, <4>5, <4>6, n \in Nat, SumIs
      <4> QED BY <4>1, <4>7 DEF a, b, c
    <3> QED BY <3>4, <3>5
  <2> HIDE DEF S
  <2> QED BY <2>1, <2>2, SetInduction
<1>5. p[n] = Bits(v * l[n], n)
  <2>1. n <= n
    OBVIOUS
  <2> QED BY <1>4, <2>1
<1>6. Bits(v * w, n) = Bits(v * l[n], n)
  <2> DEFINE m == pow2(n)
             q == w \div m
             d == l[n]
  <2>1. m \in Int /\ d \in Int /\ q \in Int /\ w = m * q + d
    <3>1. q \in Int
      BY BitFacts
    <3>2. d \in Int
      <4>1. n <= n
        OBVIOUS
      <4> QED BY <1>2, <4>1
    <3> QED BY <1>3, <3>1, <3>2, Pow2
  <2> HIDE DEF m, q, d
  <2>2. v * (m * q + d) = v * d + m * (v * q)
    <3>1. v * (m * q + d) = v * (m * q) + v * d
      BY <2>1
    <3>2. v * (m * q) = m * (v * q)
      BY <2>1
    <3>3. v * (m * q) \in Int /\ v * d \in Int
      <4>1. m * q \in Int
        BY <2>1
      <4> QED BY <2>1, <4>1
    <3> QED BY <3>1, <3>2, <3>3
  <2>3. v * d \in Int /\ v * q \in Int
    BY <2>1
  <2>4. Bits(v * d + pow2(n) * (v * q), n) = Bits(v * d, n)
    <3> DEFINE a == v * d
               b == v * q
    <3>1. a \in Int
      BY <2>3
    <3>2. b \in Int
      BY <2>3
    <3> HIDE DEF a, b
    <3>3. Bits(a + pow2(n) * b, n) = Bits(a, n)
      BY ONLY <3>1, <3>2, n \in Nat, SameBits
    <3> QED BY <3>3 DEF a, b
  <2>5. v * w = v * d + pow2(n) * (v * q)
    BY ONLY <2>1, <2>2, Zenon DEF m
  <2> QED BY ONLY <2>4, <2>5, Zenon DEF d
<1> QED BY <1>5, <1>6 DEF p, ys

-----------------------------------------------------------------------------
(* Products fit in twice the width.                                        *)

\* Integers that are close have different bits.
LEMMA BitsDiffer ==
  ASSUME NEW k \in Nat, NEW v \in Int, NEW w \in Int, -pow2(k) < v - w, v - w < pow2(k),
         Bits(v, k) = Bits(w, k)
  PROVE  v = w
<1> DEFINE m == pow2(k)
<1>1. m \in Nat \ {0} /\ -m < v - w /\ v - w < m
  BY Pow2
<1>2. PICK q \in Int : v = w + m * q
  BY SameBitsOnly
<1> HIDE DEF m
<1>3. m * q = v - w
  <2>1. m * q \in Int
    BY <1>1
  <2> QED BY <1>2, <2>1
<1>4. ~(q >= 1)
  <2> SUFFICES ASSUME q >= 1 PROVE FALSE
    OBVIOUS
  <2>1. m * q >= m
    BY <1>1
  <2> QED BY <2>1, <1>1, <1>3
<1>5. ~(q <= -1)
  <2> SUFFICES ASSUME q <= -1 PROVE FALSE
    OBVIOUS
  <2>1. m * (-q) >= m /\ m * (-q) = -(m * q)
    BY <1>1
  <2> QED BY <2>1, <1>1, <1>3
<1>6. q = 0
  BY <1>4, <1>5
<1>7. m * 0 = 0
  BY <1>1
<1> QED BY <1>3, <1>6, <1>7

\* A product is at most the product of the bounds.
LEMMA ProductBound ==
  ASSUME NEW b \in Nat, NEW v \in Int, NEW w \in Int, -b <= v, v <= b, -b <= w, w <= b
  PROVE  v * w \in Int /\ -(b * b) <= v * w /\ v * w <= b * b
<1>1. ASSUME NEW x \in Nat, NEW y \in Nat, x <= b, y <= b
      PROVE  x * y \in Int /\ 0 <= x * y /\ x * y <= b * b
  <2>1. x * y <= x * b
    BY <1>1
  <2>2. x * b <= b * b
    BY <1>1
  <2>3. x * y \in Int /\ x * b \in Int /\ b * b \in Int /\ 0 <= x * y
    BY <1>1
  <2> QED BY <2>1, <2>2, <2>3
<1> DEFINE x == IF v < 0 THEN -v ELSE v
           y == IF w < 0 THEN -w ELSE w
           p == x * y
           z == v * w
           bb == b * b
<1>2. x \in Nat /\ y \in Nat /\ x <= b /\ y <= b
  OBVIOUS
<1>3. z = p \/ z = -p
  <2>1. (-v) * w = -(v * w) /\ v * (-w) = -(v * w) /\ (-v) * (-w) = v * w /\ v * w \in Int
    OBVIOUS
  <2>2. CASE v < 0 /\ w < 0
    BY <2>1, <2>2
  <2>3. CASE v < 0 /\ ~(w < 0)
    BY <2>1, <2>3
  <2>4. CASE ~(v < 0) /\ w < 0
    BY <2>1, <2>4
  <2>5. CASE ~(v < 0) /\ ~(w < 0)
    BY <2>1, <2>5
  <2> QED BY <2>2, <2>3, <2>4, <2>5
<1> HIDE DEF x, y
<1>4. p \in Int /\ 0 <= p /\ p <= bb
  BY <1>1, <1>2
<1>5. bb \in Int
  OBVIOUS
<1> HIDE DEF p, z, bb
<1>6. z \in Int /\ -bb <= z /\ z <= bb
  BY ONLY <1>3, <1>4, <1>5
<1> QED BY <1>6 DEF z, bb

\* What long arithmetic on values of a type comes to is below the square of
\* what its digits can hold.
LEMMA Near ==
  ASSUME NEW m \in Nat \ {0}, NEW a \in Int, NEW b \in Int, NEW c \in Int, NEW d \in Int,
         -m < a, a < m, -m < b, b < m, -m < c, c < m, -m < d, d < m
  PROVE  -(m * m) < (a * b + c) - d /\ (a * b + c) - d < m * m
<1> DEFINE k == m - 1
           z == a * b
           kk == k * k
           mm == m * m
<1>1. k \in Nat /\ -k <= a /\ a <= k /\ -k <= b /\ b <= k
  OBVIOUS
<1>2. mm = kk + 2 * k + 1 /\ kk \in Int
  OBVIOUS
<1>3. z \in Int /\ -kk <= z /\ z <= kk
  <2> HIDE DEF k
  <2> QED BY <1>1, ProductBound
<1>4. -k <= c /\ c <= k /\ -k <= d /\ d <= k
  OBVIOUS
<1> HIDE DEF k, z, kk, mm
<1>5. -mm < (z + c) - d /\ (z + c) - d < mm
  BY ONLY <1>1, <1>2, <1>3, <1>4, c \in Int, d \in Int
<1> QED BY <1>5 DEF z, mm

\* A value is smaller than the power of two of its width.
LEMMA ValueBound ==
  ASSUME NEW ty \in AnyType, NEW v, InRange(ty, v)
  PROVE  v \in Int /\ -pow2(ty.bits) < v /\ v < pow2(ty.bits)
BY TypeRange, WordFacts DEF InRange

\* The power of two of twice a width is the square of that of the width.
LEMMA DoubleWidth ==
  ASSUME NEW n \in Nat
  PROVE  pow2(2 * n) = pow2(n) * pow2(n) /\ 2 * n \in Nat
<1>1. 2 * n = n + n
  OBVIOUS
<1> QED BY <1>1, PowAdd

\* The long product is exact.
LEMMA LongIs ==
  ASSUME NEW ty \in AnyType, NEW v, NEW w, InRange(ty, v), InRange(ty, w)
  PROVE  Reference!LongProduct(WordOf(ty, v), WordOf(ty, w)) = Bits(v * w, 2 * ty.bits)
<1>1. v \in Int /\ w \in Int /\ ty.bits \in Nat
  BY TypeRange, WordFacts
<1>2. 2 * ty.bits \in Nat
  BY <1>1
<1> DEFINE k == 2 * ty.bits
<1>3. /\ Reference!Width(WordOf(ty, v)) = ty.bits
      /\ Reference!Extend(WordOf(ty, v), k) = Bits(v, k)
      /\ Reference!Extend(WordOf(ty, w), k) = Bits(w, k)
  BY <1>2, WordFacts
<1>4. Reference!Partial(Bits(v, k), Bits(w, k))[k] = Bits(v * w, k)
  BY <1>1, <1>2, PartialIs
<1> QED BY <1>3, <1>4 DEF Reference!LongProduct

\* The low digits of the bits of an integer are its bits at the lower width.
LEMMA SubSeqIs ==
  ASSUME NEW v \in Int, NEW n \in Nat, NEW k \in Nat, n <= k
  PROVE  SubSeq(Bits(v, k), 1, n) = Bits(v, n)
<1> DEFINE f == Bits(v, k)
           g == Bits(v, n)
           h == SubSeq(f, 1, n)
<1>1. Len(f) = k /\ f \in Seq({0, 1})
  BY BitsAreDigits DEF Digits
<1>2. Len(g) = n /\ g \in Seq({0, 1})
  BY BitsAreDigits DEF Digits
<1>3. \A i \in 1 .. k : f[i] = bit(v, i)
  BY DEF Bits
<1>4. \A i \in 1 .. n : g[i] = bit(v, i)
  BY DEF Bits
<1> HIDE DEF f, g
<1>5. h \in Seq({0, 1}) /\ Len(h) = n /\ \A i \in 1 .. n : h[i] = f[i]
  BY <1>1
<1> HIDE DEF h
<1>6. \A i \in 1 .. n : h[i] = g[i]
  BY <1>3, <1>4, <1>5
<1>7. h = g
  BY <1>2, <1>5, <1>6, SeqEqual
<1> QED BY <1>7 DEF f, g, h

-----------------------------------------------------------------------------
(* Products of words.                                                      *)

\* Multiplication: overflow when extending the short product does not give
\* back the long one.
LEMMA Times ==
  ASSUME NEW ty \in IntType, NEW v, NEW w, InRange(ty, v), InRange(ty, w)
  PROVE  Agree(checked(ty, v * w), Reference!Times(WordOf(ty, v), WordOf(ty, w)))
<1> DEFINE n == ty.bits
           k == 2 * n
           p == v * w
           u == wrap(ty, p)
           long == Bits(p, k)
           short == WordOf(ty, p)
<1>0. ty \in AnyType
  BY IntTypeIsAny
<1>1. v \in Int /\ w \in Int /\ n \in Nat /\ k \in Nat /\ n <= k
  BY <1>0, TypeRange, WordFacts
<1>2. p \in Int
  BY <1>1
<1>3. InRange(ty, u)
  BY <1>2, WrapInRange DEF InRange
<1>4. Reference!LongProduct(WordOf(ty, v), WordOf(ty, w)) = long
  BY <1>0, LongIs
<1>5. Reference!With(WordOf(ty, v), SubSeq(long, 1, n)) = short
  <2>1. SubSeq(long, 1, n) = Bits(p, n)
    <3> HIDE DEF n, k, p
    <3> QED BY ONLY <1>1, <1>2, SubSeqIs
  <2> HIDE DEF long, p
  <2> QED BY <2>1, WithWord
<1>6. Len(long) = k
  <2> HIDE DEF k, p
  <2> QED BY <1>1, <1>2, BitsAreDigits
<1>7. Reference!Extend(short, k) = Bits(u, k)
  <2> HIDE DEF k, p
  <2>1. short = WordOf(ty, u)
    BY <1>2, WrapBits
  <2> HIDE DEF short, u
  <2> QED BY <1>0, <1>1, <1>3, <2>1, WordFacts
<1>8. Reference!Width(WordOf(ty, v)) = n
  BY <1>0, WordFacts
<1>9. Bits(u, k) = long <=> InRange(ty, p)
  <2>1. ASSUME InRange(ty, p) PROVE Bits(u, k) = long
    <3>1. u = p
      <4> HIDE DEF p
      <4> QED BY <2>1, WrapIdentity DEF InRange
    <3> HIDE DEF u, p, k
    <3> QED BY <3>1
  <2>2. ASSUME Bits(u, k) = long PROVE InRange(ty, p)
    <3> DEFINE m == pow2(n)
    <3>1. m \in Nat \ {0} /\ pow2(k) = m * m
      BY <1>1, DoubleWidth, Pow2
    <3>2. /\ -m < v /\ v < m /\ -m < w /\ w < m
          /\ u \in Int /\ -m < u /\ u < m
      <4> HIDE DEF u
      <4> QED BY <1>0, <1>3, ValueBound
    <3>3. -m < 0 /\ 0 < m /\ 0 \in Int
      BY <3>1
    <3> HIDE DEF m, u
    <3>4. -(m * m) < (v * w + 0) - u /\ (v * w + 0) - u < m * m
      BY ONLY <1>1, <3>1, <3>2, <3>3, Near
    <3> DEFINE mm == m * m
    <3>5. (v * w + 0) - u = p - u
      BY <1>2
    <3> HIDE DEF p, k
    <3>6. -pow2(k) < p - u /\ p - u < pow2(k)
      BY ONLY <3>1, <3>4, <3>5
    <3>7. p = u
      BY ONLY <1>1, <1>2, <2>2, <3>2, <3>6, BitsDiffer DEF long
    <3> QED BY <1>3, <3>7
  <2> QED BY <2>1, <2>2
<1>10. Reference!Times(WordOf(ty, v), WordOf(ty, w))
         = IF InRange(ty, p) THEN Reference!Ok(WordOf(ty, p)) ELSE Reference!Fail("Overflow")
  <2> HIDE DEF n, k, p, u, long, short
  <2>1. Reference!Times(WordOf(ty, v), WordOf(ty, w))
          = IF Reference!Extend(short, k) = long THEN Reference!Ok(short) ELSE Reference!Fail("Overflow")
    BY <1>4, <1>5, <1>6, <1>8 DEF Reference!Times
  <2> QED BY <1>7, <1>9, <2>1 DEF short
<1>11. InRange(ty, p) <=> ~(p < least(ty) \/ p > greatest(ty))
  <2> HIDE DEF p
  <2> QED BY <1>2, BoundsAreInts DEF InRange
<1> HIDE DEF p
<1>12. checked(ty, p) = IF InRange(ty, p) THEN Ok([type |-> ty, value |-> p]) ELSE Fail("Overflow")
  BY <1>11 DEF checked
<1> QED BY <1>10, <1>12 DEF Agree, Ok, Fail, WordOfInt, p

\* The magnitude of a word is that of its value.
LEMMA MagnitudeIs ==
  ASSUME NEW ty \in AnyType, NEW v, InRange(ty, v)
  PROVE  Reference!Magnitude(WordOf(ty, v)) = Abs(v)
<1> DEFINE n == ty.bits
<1>1. v \in Int /\ n \in Nat
  BY TypeRange, WordFacts
<1>2. Reference!Sign(WordOf(ty, v)) = Neg(v) /\ WordOf(ty, v).digits = Bits(v, n)
  BY WordFacts
<1>3. CASE v < 0
  <2>1. InRange(ty, -1 - v) /\ ~(-1 - v < 0)
    BY <1>1, <1>3, TypeRange DEF InRange
  <2>2. Reference!Number(Bits(-1 - v, n)) = -1 - v
    <3> DEFINE u == -1 - v
    <3>1. InRange(ty, u) /\ ~(u < 0)
      BY <2>1
    <3> HIDE DEF u
    <3>2. Reference!Number(Bits(u, n)) = u
      BY <3>1, PatternIsNumber
    <3> QED BY <3>2 DEF u
  <2>3. Reference!Flip(Bits(v, n)) = Bits(-1 - v, n)
    BY <1>1, FlipBits
  <2>4. Reference!Magnitude(WordOf(ty, v)) = (-1 - v) + 1
    <3>1. Neg(v) # 0
      BY <1>3 DEF Neg
    <3> QED BY <1>2, <2>2, <2>3, <3>1 DEF Reference!Magnitude
  <2> QED BY <1>1, <1>3, <2>4 DEF Abs
<1>4. CASE ~(v < 0)
  <2>1. Reference!Number(Bits(v, n)) = v
    BY <1>4, PatternIsNumber
  <2> QED BY <1>2, <1>4, <2>1 DEF Reference!Magnitude, Neg, Abs
<1> QED BY <1>3, <1>4

\* The words of a type are those of its values.
LEMMA SameIs ==
  ASSUME NEW ty \in IntType, NEW v, InRange(ty, v)
  PROVE  Reference!Same(WordOf(ty, v)) = {WordOf(ty, u) : u \in least(ty) .. greatest(ty)}
<1> DEFINE a == WordOf(ty, v)
           n == ty.bits
<1>0. ty \in AnyType
  BY IntTypeIsAny
<1>1. Reference!Width(a) = n /\ n \in Nat
  BY <1>0, WordFacts, TypeRange
<1>2. Reference!Digits(n) = Digits(n)
  BY DEF Reference!Digits, Reference!Bit, Digits
<1>3. Reference!Same(a) = {Reference!With(a, ds) : ds \in Digits(n)}
  <2> HIDE DEF a, n
  <2> QED BY <1>1, <1>2 DEF Reference!Same
<1>4. ASSUME NEW ds \in Digits(n)
      PROVE  \E u \in least(ty) .. greatest(ty) : Reference!With(a, ds) = WordOf(ty, u)
  <2>1. PICK u : InRange(ty, u) /\ ds = Bits(u, n)
    BY EveryWord
  <2> QED BY <2>1, WithWord DEF InRange
<1>5. ASSUME NEW u \in least(ty) .. greatest(ty)
      PROVE  \E ds \in Digits(n) : Reference!With(a, ds) = WordOf(ty, u)
  <2>1. u \in Int
    BY <1>0, WordFacts DEF InRange
  <2>2. Bits(u, n) \in Digits(n)
    BY <1>1, <2>1, BitsAreDigits
  <2> QED BY <2>2, WithWord
<1> HIDE DEF a, n
<1> QED BY <1>3, <1>4, <1>5 DEF a

-----------------------------------------------------------------------------
(* The division law determines quotient and remainder.                     *)

\* The truncating quotient and remainder are the only ones the law allows.
LEMMA DivisionUnique ==
  ASSUME NEW a \in Int, NEW b \in Int, b # 0, NEW q \in Int, NEW r \in Int,
         q * b + r = a, Abs(r) < Abs(b), Abs(r) = 0 \/ Neg(r) = Neg(a)
  PROVE  q = Quotient(a, b) /\ r = Remainder(a, b)
<1> DEFINE Q == Quotient(a, b)
           R == Remainder(a, b)
           c == Abs(b)
           qb == q * b
           Qb == Q * b
<1>1. /\ Qb + R = a /\ Abs(R) < c
      /\ a < 0 => R <= 0
      /\ a >= 0 => R >= 0
  BY DivisionLaw
<1>2. Q \in Int /\ R \in Int
  BY QuotientInt
<1>3. c \in Nat \ {0} /\ (b = c \/ b = -c)
  BY DEF Abs
<1>4. qb \in Int /\ Qb \in Int
  <2> HIDE DEF Q
  <2> QED BY <1>2
<1>5. (q - Q) * b = qb - Qb
  <2> HIDE DEF Q
  <2> QED BY <1>2
<1>6. -c < r - R /\ r - R < c
  <2>1. (a < 0 => r <= 0) /\ (a >= 0 => r >= 0)
    BY DEF Abs, Neg
  <2>2. -c < r /\ r < c
    BY <1>3 DEF Abs
  <2>3. -c < R /\ R < c
    <3> HIDE DEF R, c
    <3> QED BY <1>1, <1>2, <1>3 DEF Abs
  <2> HIDE DEF R, c, Qb
  <2> QED BY <1>1, <1>2, <1>3, <2>1, <2>2, <2>3
<1>7. qb - Qb = -(r - R)
  <2>1. qb + r = a
    OBVIOUS
  <2> HIDE DEF qb, Qb, R
  <2> QED BY <1>1, <1>2, <1>4, <2>1
<1> HIDE DEF Q, R, c, qb, Qb
<1>8. q = Q
  <2> DEFINE d == q - Q
  <2>1. d \in Int /\ d * b = -(r - R)
    BY <1>2, <1>5, <1>7
  <2>2. d * b = d * c \/ d * b = -(d * c)
    <3>1. d * (-c) = -(d * c)
      <4> HIDE DEF d
      <4> QED BY <1>3, <2>1
    <3> HIDE DEF d
    <3> QED BY <1>3, <3>1
  <2> HIDE DEF d
  <2> DEFINE dc == d * c
  <2>3. dc \in Int /\ -c < dc /\ dc < c
    <3>1. dc \in Int
      BY <1>3, <2>1
    <3> HIDE DEF dc
    <3>2. r - R = dc \/ r - R = -dc
      <4>1. d * b = dc \/ d * b = -dc
        BY <2>2 DEF dc
      <4> DEFINE x == d * b
      <4>2. (x = dc \/ x = -dc) /\ x = -(r - R)
        BY <2>1, <4>1
      <4> HIDE DEF x
      <4> QED BY <1>2, <3>1, <4>2
    <3> QED BY <1>2, <1>3, <1>6, <3>1, <3>2
  <2>4. ~(d >= 1)
    <3> SUFFICES ASSUME d >= 1 PROVE FALSE
      OBVIOUS
    <3>1. d * c >= c
      BY <1>3, <2>1
    <3> QED BY <1>3, <2>3, <3>1
  <2>5. ~(d <= -1)
    <3> SUFFICES ASSUME d <= -1 PROVE FALSE
      OBVIOUS
    <3>1. (-d) * c >= c /\ (-d) * c = -(d * c)
      BY <1>3, <2>1
    <3> HIDE DEF dc
    <3>2. -dc >= c
      BY <3>1 DEF dc
    <3> QED BY <1>3, <2>3, <3>2
  <2>6. d = 0
    BY <2>1, <2>4, <2>5
  <2> QED BY <1>2, <2>6 DEF d
<1>9. r = R
  <2>1. qb = Qb
    BY <1>8 DEF qb, Qb
  <2> QED BY <1>2, <1>4, <1>7, <2>1
<1> QED BY <1>8, <1>9 DEF Q, R

\* Words divide when their values do.
LEMMA DividesIs ==
  ASSUME NEW ty \in AnyType, NEW a, NEW b, NEW q, NEW r,
         InRange(ty, a), InRange(ty, b), InRange(ty, q), InRange(ty, r)
  PROVE  Reference!Divides(WordOf(ty, a), WordOf(ty, b), WordOf(ty, q), WordOf(ty, r))
           <=> /\ q * b + r = a
               /\ Abs(r) < Abs(b)
               /\ Abs(r) = 0 \/ Neg(r) = Neg(a)
<1> DEFINE n == ty.bits
           k == 2 * n
           p == q * b
           s == p + r
<1>1. a \in Int /\ b \in Int /\ q \in Int /\ r \in Int /\ n \in Nat /\ k \in Nat
  BY TypeRange, WordFacts
<1>2. p \in Int
  BY <1>1
<1>3. s \in Int
  <2> HIDE DEF p
  <2> QED BY <1>1, <1>2
<1>4. Reference!LongProduct(WordOf(ty, q), WordOf(ty, b)) = Bits(p, k)
  BY LongIs
<1>5. Reference!Extend(WordOf(ty, r), k) = Bits(r, k) /\ Reference!Extend(WordOf(ty, a), k) = Bits(a, k)
  <2> HIDE DEF k
  <2> QED BY <1>1, WordFacts
<1>6. Reference!Sum(Bits(p, k), Bits(r, k), 0) = Bits(s, k)
  <2> HIDE DEF p, k
  <2>1. 0 \in Reference!Bit
    BY DEF Reference!Bit
  <2>2. s = p + r + 0
    BY <1>1, <1>2
  <2>3. r \in Int
    BY <1>1
  <2>4. k \in Nat
    BY <1>1
  <2> HIDE DEF s
  <2> QED BY ONLY <1>2, <2>1, <2>2, <2>3, <2>4, SumIs
<1>7. Bits(s, k) = Bits(a, k) <=> s = a
  <2> SUFFICES ASSUME Bits(s, k) = Bits(a, k) PROVE s = a
    OBVIOUS
  <2> DEFINE m == pow2(n)
  <2>1. m \in Nat \ {0} /\ pow2(k) = m * m
    BY <1>1, DoubleWidth, Pow2
  <2>2. -m < a /\ a < m /\ -m < b /\ b < m /\ -m < q /\ q < m /\ -m < r /\ r < m
    BY ValueBound
  <2>3. -(m * m) < (q * b + r) - a /\ (q * b + r) - a < m * m
    <3> HIDE DEF m, n
    <3> QED BY ONLY <1>1, <2>1, <2>2, Near
  <2>4. -pow2(k) < s - a /\ s - a < pow2(k)
    <3> HIDE DEF m, k
    <3> QED BY ONLY <2>1, <2>3
  <2> HIDE DEF s, k
  <2> QED BY ONLY <1>1, <1>3, <2>4, Bits(s, k) = Bits(a, k), BitsDiffer
<1>8. /\ Reference!Magnitude(WordOf(ty, r)) = Abs(r) /\ Reference!Magnitude(WordOf(ty, b)) = Abs(b)
      /\ Reference!Sign(WordOf(ty, r)) = Neg(r) /\ Reference!Sign(WordOf(ty, a)) = Neg(a)
      /\ Reference!Width(WordOf(ty, a)) = n
  BY MagnitudeIs, WordFacts
<1> HIDE DEF p, k, n
<1>9. Reference!Divides(WordOf(ty, a), WordOf(ty, b), WordOf(ty, q), WordOf(ty, r))
        <=> /\ Bits(s, k) = Bits(a, k)
            /\ Abs(r) < Abs(b)
            /\ Abs(r) = 0 \/ Neg(r) = Neg(a)
  <2> HIDE DEF s
  <2> QED BY <1>4, <1>5, <1>6, <1>8 DEF Reference!Divides, k
<1> QED BY <1>7, <1>9 DEF s, p

\* Of the quotients of a type's values only that of the least and -1 is
\* outside the type.
LEMMA QuotientRange ==
  ASSUME NEW ty \in AnyType, NEW a, NEW b, InRange(ty, a), InRange(ty, b), b # 0
  PROVE  /\ Quotient(a, b) \in Int /\ Remainder(a, b) \in Int
         /\ InRange(ty, Remainder(a, b))
         /\ InRange(ty, Quotient(a, b)) <=> ~(ty.signed /\ a = least(ty) /\ b = -1)
<1> DEFINE Q == Quotient(a, b)
           R == Remainder(a, b)
           h == pow2(ty.bits - 1)
           x == Abs(a)
           y == Abs(b)
<1>1. /\ a \in Int /\ b \in Int /\ h \in Nat \ {0} /\ ty.signed \in BOOLEAN
      /\ pow2(ty.bits) = 2 * h
      /\ least(ty) = IF ty.signed THEN -h ELSE 0
      /\ greatest(ty) = IF ty.signed THEN h - 1 ELSE 2 * h - 1
  BY TypeRange, WordFacts
<1>2. x \in Nat /\ y \in Nat \ {0} /\ (a < 0 => a = -x) /\ (a >= 0 => a = x)
      /\ (b < 0 => b = -y) /\ (b >= 0 => b = y)
  BY <1>1 DEF Abs
<1>3. PICK q \in Int, r \in Int : /\ q = x \div y /\ r = x % y
                                 /\ 0 <= r /\ r < y /\ x = y * q + r
  <2> HIDE DEF x, y
  <2> QED BY <1>2, DivMod
<1>4. /\ 0 <= r /\ r < y /\ x = y * q + r
      /\ Q = IF (a < 0) = (b < 0) THEN q ELSE -q
      /\ R = IF a < 0 THEN -r ELSE r
  <2>1. Q = IF (a < 0) = (b < 0) THEN x \div y ELSE -(x \div y)
    BY DEF Quotient
  <2>2. R = IF a < 0 THEN -(x % y) ELSE x % y
    <3>1. a >= 0 => a = x
      BY <1>2
    <3> HIDE DEF x
    <3> QED BY <1>1, <3>1 DEF Remainder, x
  <2>3. q = x \div y /\ r = x % y
    BY <1>3
  <2> HIDE DEF x, y, Q, R
  <2> QED BY <1>3, <2>1, <2>2, <2>3
<1> HIDE DEF x, y, Q, R, h
<1>5. q >= 0
  <2> SUFFICES ASSUME q <= -1 PROVE FALSE
    OBVIOUS
  <2>1. y * (-q) >= y /\ y * (-q) = -(y * q) /\ y * q \in Int
    BY <1>2
  <2> DEFINE z == y * q
  <2>2. z \in Int /\ -z >= y /\ x = z + r
    BY <1>4, <2>1
  <2> HIDE DEF z
  <2> QED BY <1>2, <1>4, <2>2
<1>6. r <= x /\ q <= x /\ (y >= 2 => 2 * q <= x) /\ (y = 1 => q = x)
  <2> DEFINE z == y * q
  <2>1. z \in Int /\ z >= q /\ (y >= 2 => z >= 2 * q) /\ (y = 1 => z = q) /\ x = z + r
    BY <1>2, <1>4, <1>5
  <2> HIDE DEF z
  <2> QED BY <1>2, <1>4, <1>5, <2>1
<1>7. InRange(ty, a) /\ InRange(ty, b)
  OBVIOUS
<1>8. Q \in Int /\ R \in Int
  BY <1>4
<1>9. InRange(ty, R)
  <2>1. (ty.signed => -h <= a /\ a <= h - 1) /\ (~ty.signed => 0 <= a /\ a <= 2 * h - 1)
    BY <1>1, <1>7 DEF InRange
  <2>2. (a < 0 => a <= R /\ R <= 0) /\ (a >= 0 => 0 <= R /\ R <= a)
    BY <1>1, <1>2, <1>4, <1>6
  <2> QED BY <1>1, <1>8, <2>1, <2>2 DEF InRange
<1>10. InRange(ty, Q) <=> ~(ty.signed /\ a = least(ty) /\ b = -1)
  <2>1. CASE ty.signed
    <3>1. least(ty) = -h /\ greatest(ty) = h - 1 /\ -h <= a /\ a <= h - 1 /\ -h <= b /\ b <= h - 1
      BY <1>1, <1>7, <2>1 DEF InRange
    <3>2. x <= h /\ (x = h => a = -h)
      BY <1>1, <1>2, <3>1
    <3>3. InRange(ty, Q) <=> -h <= Q /\ Q <= h - 1
      BY <1>1, <1>8, <3>1 DEF InRange
    <3>4. -h <= Q
      BY <1>1, <1>2, <1>4, <1>5, <1>6, <3>2
    <3>5. ASSUME a = -h, b = -1 PROVE Q = h
      <4>1. x = h /\ y = 1
        BY <1>1, <1>2, <3>5
      <4> QED BY <1>1, <1>4, <1>6, <3>5, <4>1
    <3>6. ASSUME ~(Q <= h - 1) PROVE a = -h /\ b = -1
      <4>1. Q >= h
        BY <1>1, <1>8, <3>6
      <4>2. q >= h /\ Q = q
        BY <1>1, <1>4, <1>5, <4>1
      <4>3. x = h /\ a = -h
        BY <1>1, <1>2, <1>6, <3>2, <4>2
      <4>4. y = 1
        BY <1>1, <1>2, <1>5, <1>6, <4>2, <4>3
      <4>5. b = 1 \/ b = -1
        BY <1>1, <1>2, <4>4
      <4>6. b # 1
        BY <1>1, <1>4, <4>1, <4>2, <4>3
      <4> QED BY <4>3, <4>5, <4>6
    <3> QED BY <1>1, <1>8, <2>1, <3>1, <3>3, <3>4, <3>5, <3>6
  <2>2. CASE ~ty.signed
    <3>1. least(ty) = 0 /\ greatest(ty) = 2 * h - 1 /\ 0 <= a /\ a <= 2 * h - 1 /\ 0 <= b
      BY <1>1, <1>7, <2>2 DEF InRange
    <3>2. Q = q /\ x = a
      BY <1>1, <1>2, <1>4, <3>1
    <3>3. 0 <= Q /\ Q <= 2 * h - 1
      BY <1>1, <1>5, <1>6, <3>1, <3>2
    <3> QED BY <1>1, <1>8, <2>2, <3>1, <3>3 DEF InRange
  <2> QED BY <1>1, <2>1, <2>2
<1> QED BY <1>8, <1>9, <1>10 DEF Q, R

-----------------------------------------------------------------------------
(* Division of words.                                                      *)

\* The answers of a division of words: those of the values, when the type
\* holds them.
LEMMA AnswersIs ==
  ASSUME NEW ty \in IntType, NEW a, NEW b, InRange(ty, a), InRange(ty, b), b # 0
  PROVE  LET Q == Quotient(a, b)
             R == Remainder(a, b)
             S == Reference!Same(WordOf(ty, a))
         IN  {qr \in S \X S : Reference!Divides(WordOf(ty, a), WordOf(ty, b), qr[1], qr[2])}
               = IF InRange(ty, Q) THEN {<<WordOf(ty, Q), WordOf(ty, R)>>} ELSE {}
<1> DEFINE Q == Quotient(a, b)
           R == Remainder(a, b)
           S == Reference!Same(WordOf(ty, a))
           D(q, r) == Reference!Divides(WordOf(ty, a), WordOf(ty, b), q, r)
           A == {qr \in S \X S : D(qr[1], qr[2])}
           W == {WordOf(ty, u) : u \in least(ty) .. greatest(ty)}
<1>0. ty \in AnyType
  BY IntTypeIsAny
<1>1. S = W
  BY SameIs
<1>2. a \in Int /\ b \in Int
  BY <1>0, WordFacts
<1>3. Q \in Int /\ R \in Int /\ InRange(ty, R)
  BY <1>0, QuotientRange
<1>4. /\ Q * b + R = a /\ Abs(R) < Abs(b)
      /\ Abs(R) = 0 \/ Neg(R) = Neg(a)
  <2>1. /\ Q * b + R = a /\ Abs(R) < Abs(b)
        /\ a < 0 => R <= 0
        /\ a >= 0 => R >= 0
    BY <1>2, DivisionLaw
  <2> HIDE DEF R
  <2>2. Abs(R) = 0 \/ Neg(R) = Neg(a)
    BY <1>2, <1>3, <2>1 DEF Abs, Neg
  <2> QED BY <2>1, <2>2
<1>5. ASSUME InRange(ty, Q) PROVE D(WordOf(ty, Q), WordOf(ty, R))
  <2> HIDE DEF Q, R
  <2> QED BY <1>0, <1>3, <1>4, <1>5, DividesIs
<1>6. ASSUME NEW q \in least(ty) .. greatest(ty), NEW r \in least(ty) .. greatest(ty),
             D(WordOf(ty, q), WordOf(ty, r))
      PROVE  q = Q /\ r = R
  <2>1. InRange(ty, q) /\ InRange(ty, r)
    BY DEF InRange
  <2>2. q \in Int /\ r \in Int
    BY <1>0, <2>1, WordFacts
  <2>3. q * b + r = a /\ Abs(r) < Abs(b) /\ (Abs(r) = 0 \/ Neg(r) = Neg(a))
    BY <1>0, <1>6, <2>1, DividesIs
  <2> QED BY ONLY <1>2, <2>2, <2>3, b # 0, DivisionUnique
<1> HIDE DEF Q, R, D, S
<1>7. CASE InRange(ty, Q)
  <2>1. WordOf(ty, Q) \in S /\ WordOf(ty, R) \in S
    BY <1>1, <1>3, <1>7 DEF InRange
  <2>2. ASSUME NEW x \in A PROVE x = <<WordOf(ty, Q), WordOf(ty, R)>>
    <3>1. PICK q \in least(ty) .. greatest(ty), r \in least(ty) .. greatest(ty) :
            x = <<WordOf(ty, q), WordOf(ty, r)>>
      BY <1>1
    <3>2. D(WordOf(ty, q), WordOf(ty, r))
      BY <3>1
    <3>3. q = Q /\ r = R
      BY <1>6, <3>2
    <3> QED BY <3>1, <3>3
  <2>3. <<WordOf(ty, Q), WordOf(ty, R)>> \in A
    BY <1>5, <1>7, <2>1
  <2> HIDE DEF A
  <2>4. A = {<<WordOf(ty, Q), WordOf(ty, R)>>}
    BY <2>2, <2>3
  <2> QED BY <1>7, <2>4 DEF A, S, D, Q, R
<1>8. CASE ~InRange(ty, Q)
  <2>1. ASSUME NEW x \in A PROVE FALSE
    <3>1. PICK q \in least(ty) .. greatest(ty), r \in least(ty) .. greatest(ty) :
            x = <<WordOf(ty, q), WordOf(ty, r)>>
      BY <1>1
    <3>2. D(WordOf(ty, q), WordOf(ty, r))
      BY <3>1
    <3>3. q = Q
      BY <1>6, <3>2
    <3> QED BY <1>8, <3>3 DEF InRange
  <2>2. A = {}
    BY <2>1
  <2> QED BY <1>8, <2>2 DEF A, S, D, Q, R
<1> QED BY <1>7, <1>8

\* Division and remainder: no answer exists exactly for i_MIN and -1, where
\* the code reports the overflow for both.
LEMMA Division ==
  ASSUME NEW ty \in IntType, NEW a, NEW b, InRange(ty, a), InRange(ty, b)
  PROVE  /\ Agree(Divided(ty, a, b), Reference!Division("Divide", WordOf(ty, a), WordOf(ty, b)))
         /\ Agree(Reduced(ty, a, b), Reference!Division("Modulo", WordOf(ty, a), WordOf(ty, b)))
<1> DEFINE Q == Quotient(a, b)
           R == Remainder(a, b)
           S == Reference!Same(WordOf(ty, a))
           answers == {qr \in S \X S : Reference!Divides(WordOf(ty, a), WordOf(ty, b), qr[1], qr[2])}
           pair == <<WordOf(ty, Q), WordOf(ty, R)>>
<1>0. ty \in AnyType
  BY IntTypeIsAny
<1>1. a \in Int /\ b \in Int
  BY <1>0, WordFacts
<1>2. Reference!Magnitude(WordOf(ty, b)) = 0 <=> b = 0
  <2>1. Reference!Magnitude(WordOf(ty, b)) = Abs(b)
    BY <1>0, MagnitudeIs
  <2> QED BY <1>1, <2>1 DEF Abs
<1>3. CASE b = 0
  <2>1. \A op : Reference!Division(op, WordOf(ty, a), WordOf(ty, b)) = Reference!Fail("DivisionByZero")
    BY <1>2, <1>3 DEF Reference!Division
  <2> QED BY <1>3, <2>1 DEF Agree, Divided, Reduced, Fail
<1>4. CASE b # 0
  <2>1. answers = IF InRange(ty, Q) THEN {pair} ELSE {}
    BY <1>4, AnswersIs
  <2>2. /\ Q \in Int /\ R \in Int /\ InRange(ty, R)
        /\ InRange(ty, Q) <=> ~(ty.signed /\ a = least(ty) /\ b = -1)
    BY <1>0, <1>4, QuotientRange
  <2>3. \A op : Reference!Division(op, WordOf(ty, a), WordOf(ty, b))
          = IF answers = {} THEN Reference!Fail("Overflow")
            ELSE LET qr == CHOOSE x \in answers : TRUE
                 IN  Reference!Ok(IF op = "Divide" THEN qr[1] ELSE qr[2])
    BY <1>2, <1>4, Zenon DEF Reference!Division
  <2> HIDE DEF answers, pair, Q, R
  <2>4. CASE InRange(ty, Q)
    <3>1. answers = {pair}
      BY <2>1, <2>4
    <3>2. answers # {} /\ (CHOOSE x \in answers : TRUE) = pair
      BY <3>1
    <3>3. pair[1] = WordOf(ty, Q) /\ pair[2] = WordOf(ty, R)
      BY DEF pair
    <3>4. Reference!Division("Divide", WordOf(ty, a), WordOf(ty, b)) = Reference!Ok(WordOf(ty, Q))
      BY <2>3, <3>2, <3>3
    <3>5. Reference!Division("Modulo", WordOf(ty, a), WordOf(ty, b)) = Reference!Ok(WordOf(ty, R))
      BY <2>3, <3>2, <3>3
    <3>6. Divided(ty, a, b) = Ok([type |-> ty, value |-> Q])
      <4>1. ~(Q < least(ty) \/ Q > greatest(ty))
        BY <2>2, <2>4, BoundsAreInts DEF InRange
      <4> QED BY <1>4, <4>1 DEF Divided, checked, Q
    <3>7. Reduced(ty, a, b) = Ok(canonical(ty, R))
      BY <1>4, <2>2, <2>4 DEF Reduced, R
    <3>8. Agree(Ok(canonical(ty, R)), Reference!Ok(WordOf(ty, R)))
      BY <2>2, AgreeCanonical
    <3>9. Agree(Ok([type |-> ty, value |-> Q]), Reference!Ok(WordOf(ty, Q)))
      BY DEF Agree, Ok, WordOfInt
    <3> QED BY <3>4, <3>5, <3>6, <3>7, <3>8, <3>9
  <2>5. CASE ~InRange(ty, Q)
    <3>1. answers = {}
      BY <2>1, <2>5
    <3>2. \A op : Reference!Division(op, WordOf(ty, a), WordOf(ty, b)) = Reference!Fail("Overflow")
      BY <2>3, <3>1
    <3>3. Divided(ty, a, b) = Fail("Overflow")
      <4>1. Q < least(ty) \/ Q > greatest(ty)
        BY <2>2, <2>5, BoundsAreInts DEF InRange
      <4> QED BY <1>4, <4>1 DEF Divided, checked, Q
    <3>4. Reduced(ty, a, b) = Fail("Overflow")
      BY <1>4, <2>2, <2>5 DEF Reduced
    <3> QED BY <3>2, <3>3, <3>4 DEF Agree, Fail
  <2> QED BY <2>4, <2>5
<1> QED BY <1>3, <1>4

-----------------------------------------------------------------------------
(* Shifts, logic, complement and casts.                                    *)

\* A value and its bit pattern have the same bits.
LEMMA PatternBits ==
  ASSUME NEW x \in IntValue
  PROVE  /\ x.type \in IntType /\ x.type \in AnyType /\ InRange(x.type, x.value)
         /\ x.value \in Int /\ x.type.bits \in Nat
         /\ unsigned_repr(x) \in Nat /\ unsigned_repr(x) < pow2(x.type.bits)
         /\ Bits(unsigned_repr(x), x.type.bits) = Bits(x.value, x.type.bits)
         /\ WordOfInt(x) = WordOf(x.type, x.value)
<1> DEFINE ty == x.type
           v == x.value
           m == pow2(ty.bits)
           u == unsigned_repr(x)
<1>1. ty \in IntType /\ InRange(ty, v)
  BY IntValueFacts DEF InRange
<1>2. ty \in AnyType /\ v \in Int /\ ty.bits \in Nat /\ m \in Nat \ {0}
  BY <1>1, IntTypeIsAny, WordFacts, TypeRange
<1>3. u \in Nat /\ u < m
  <2>1. u \in 0 .. m - 1
    BY PatternInRange
  <2> HIDE DEF u, m
  <2> QED BY <1>2, <2>1
<1>4. Bits(u, ty.bits) = Bits(v, ty.bits)
  <2>1. CASE v < 0
    <3>1. u = v + m
      BY <2>1 DEF unsigned_repr
    <3>2. m * 1 = m /\ 1 \in Int
      BY <1>2
    <3>3. Bits(v + m * 1, ty.bits) = Bits(v, ty.bits)
      BY <1>2, SameBits
    <3> HIDE DEF m, u, v
    <3> QED BY <3>1, <3>2, <3>3
  <2>2. CASE ~(v < 0)
    BY <2>2 DEF unsigned_repr
  <2> QED BY <2>1, <2>2
<1> QED BY <1>1, <1>2, <1>3, <1>4 DEF WordOfInt

\* Shifts: the amount is the pattern of the right operand, and a right shift
\* fills with the sign.
LEMMA Shifts ==
  ASSUME NEW x \in IntValue, NEW y \in IntValue, x.type = y.type, NEW op \in ShiftOp
  PROVE  Agree(shift(op, x, y), Reference!Shift(op, WordOfInt(x), WordOfInt(y)))
<1> DEFINE ty == x.type
           n == ty.bits
           v == x.value
           u == unsigned_repr(x)
           k == unsigned_repr(y)
           a == WordOfInt(x)
           b == WordOfInt(y)
<1>1. /\ ty \in IntType /\ ty \in AnyType /\ InRange(ty, v) /\ v \in Int /\ n \in Nat
      /\ u \in Nat /\ Bits(u, n) = Bits(v, n) /\ a = WordOf(ty, v) /\ k \in Nat
  BY PatternBits
<1>2. Reference!Number(b.digits) = k
  BY NumberIsPattern
<1>3. Reference!Width(a) = n /\ Reference!Sign(a) = Neg(v) /\ a.digits = Bits(v, n)
  BY <1>1, WordFacts
<1> HIDE DEF k, u, v, a, b
<1>4. CASE k >= n
  <2>1. shift(op, x, y) = Fail("Overflow")
    BY <1>4 DEF shift, k
  <2>2. Reference!Shift(op, a, b) = Reference!Fail("Overflow")
    BY <1>2, <1>3, <1>4 DEF Reference!Shift
  <2> QED BY <2>1, <2>2 DEF Agree, Fail, a, b
<1>5. CASE ~(k >= n)
  <2> DEFINE m == pow2(k)
  <2>1. m \in Nat \ {0}
    BY <1>1, Pow2
  <2>2. CASE op = "ShiftLeft"
    <3>1. shift(op, x, y) = Ok(canonical(ty, u * m))
      BY <1>5, <2>2 DEF shift, k, u
    <3>2. u * m \in Int
      <4> HIDE DEF m
      <4> QED BY <1>1, <2>1
    <3>3. Reference!Shifted(Bits(v, n), k, 0) = Bits(u * m, n)
      BY <1>1, ShiftedLeft
    <3> DEFINE p == u * m
    <3>4. Reference!Shift(op, a, b) = Reference!Ok(WordOf(ty, p))
      <4> HIDE DEF p
      <4> QED BY <1>1, <1>2, <1>3, <1>5, <2>2, <3>3, WithWord DEF Reference!Shift, p
    <3> HIDE DEF p
    <3> QED BY <1>1, <3>1, <3>2, <3>4, AgreeCanonical DEF p, a, b
  <2>3. CASE op = "ShiftRight"
    <3> DEFINE p == v \div m
    <3>1. shift(op, x, y) = Ok(canonical(ty, p))
      BY <1>5, <2>3 DEF shift, k, v
    <3>2. p \in Int
      BY <1>1, BitFacts
    <3>3. Reference!Shifted(Bits(v, n), -k, Neg(v)) = Bits(p, n)
      BY <1>1, ShiftedRight
    <3> HIDE DEF p
    <3>4. Reference!Shift(op, a, b) = Reference!Ok(WordOf(ty, p))
      <4>1. op # "ShiftLeft"
        BY <2>3
      <4> QED BY <1>1, <1>2, <1>3, <1>5, <3>3, <4>1, WithWord DEF Reference!Shift
    <3> QED BY <1>1, <3>1, <3>2, <3>4, AgreeCanonical DEF a, b
  <2> QED BY <2>2, <2>3 DEF ShiftOp
<1> QED BY <1>1, <1>4, <1>5

\* And, Or and Xor on bit patterns are digit-wise.
LEMMA LogicIs ==
  ASSUME NEW x \in IntValue, NEW y \in IntValue, x.type = y.type, NEW op \in BitwiseOp
  PROVE  LET a == WordOfInt(x)
             b == WordOfInt(y)
         IN  Agree(bitwise(op, x, y),
                   Reference!Ok(Reference!With(a, [i \in DOMAIN a.digits |->
                                  Reference!Logic(op, a.digits[i], b.digits[i])])))
<1> DEFINE ty == x.type
           n == ty.bits
           v == x.value
           w == y.value
           p == unsigned_repr(x)
           q == unsigned_repr(y)
           r == CASE op = "And" -> BitAnd(p, q)
                  [] op = "Or"  -> BitOr(p, q)
                  [] op = "Xor" -> BitXor(p, q)
           a == WordOfInt(x)
           b == WordOfInt(y)
<1>1. /\ ty \in IntType /\ n \in Nat /\ n \in 1 .. MaxBits
      /\ p \in Int /\ q \in Int
      /\ p \in 0 .. pow2(n) - 1 /\ q \in 0 .. pow2(n) - 1
      /\ Bits(p, n) = Bits(v, n) /\ Bits(q, n) = Bits(w, n)
      /\ a = WordOf(ty, v) /\ a.digits = Bits(v, n) /\ b.digits = Bits(w, n)
  <2>1. n \in 1 .. MaxBits
    BY PatternBits, IntTypeIsAny
  <2>2. pow2(n) \in Nat
    BY PatternBits, Pow2
  <2>3. p \in 0 .. pow2(n) - 1 /\ q \in 0 .. pow2(n) - 1
    BY PatternInRange
  <2> QED BY <2>1, <2>3, PatternBits, WordFacts
<1>2. bitwise(op, x, y) = Ok(canonical(ty, r))
  BY DEF bitwise
<1> HIDE DEF p, q, v, w, n, a, b
<1>3. /\ BitAnd(p, q) \in Nat /\ BitOr(p, q) \in Nat /\ BitXor(p, q) \in Nat
      /\ \A i \in 1 .. n : /\ bit(BitAnd(p, q), i) = 1 <=> bit(p, i) = 1 /\ bit(q, i) = 1
                           /\ bit(BitOr(p, q), i) = 1 <=> bit(p, i) = 1 \/ bit(q, i) = 1
                           /\ bit(BitXor(p, q), i) = 1 <=> bit(p, i) # bit(q, i)
  BY <1>1, BitwiseAssumption
<1>4. r \in Int
  BY <1>3 DEF BitwiseOp
<1>5. ASSUME NEW i \in 1 .. n PROVE bit(r, i) = Reference!Logic(op, Bits(v, n)[i], Bits(w, n)[i])
  <2>1. /\ Bits(p, n)[i] = bit(p, i) /\ Bits(q, n)[i] = bit(q, i)
        /\ bit(p, i) \in {0, 1} /\ bit(q, i) \in {0, 1} /\ bit(r, i) \in {0, 1}
    <3>1. Bits(p, n) \in Digits(n) /\ Bits(q, n) \in Digits(n) /\ Bits(r, n) \in Digits(n)
      BY <1>1, <1>4, BitsAreDigits
    <3> HIDE DEF r
    <3> QED BY <3>1 DEF Bits, Digits
  <2> DEFINE d == bit(p, i)
             e == bit(q, i)
             f == bit(r, i)
  <2>2. Bits(v, n)[i] = d /\ Bits(w, n)[i] = e
    BY <1>1, <2>1
  <2>3. d \in {0, 1} /\ e \in {0, 1} /\ f \in {0, 1}
    BY <2>1
  <2>4. CASE op = "And"
    <3>1. f = 1 <=> d = 1 /\ e = 1
      BY <1>3, <2>4
    <3> HIDE DEF d, e, f
    <3>2. f = IF d + e = 2 THEN 1 ELSE 0
      BY ONLY <2>3, <3>1
    <3> QED BY <2>2, <2>4, <3>2 DEF Reference!Logic, f
  <2>5. CASE op = "Or"
    <3>1. f = 1 <=> d = 1 \/ e = 1
      BY <1>3, <2>5
    <3> HIDE DEF d, e, f
    <3>2. f = IF d + e > 0 THEN 1 ELSE 0
      BY ONLY <2>3, <3>1
    <3> QED BY <2>2, <2>5, <3>2 DEF Reference!Logic, f
  <2>6. CASE op = "Xor"
    <3>1. f = 1 <=> d # e
      BY <1>3, <2>6
    <3> HIDE DEF d, e, f
    <3>2. f = IF d # e THEN 1 ELSE 0
      BY ONLY <2>3, <3>1
    <3> QED BY <2>2, <2>6, <3>2 DEF Reference!Logic, f
  <2> QED BY <2>4, <2>5, <2>6 DEF BitwiseOp
<1> HIDE DEF r
<1>6. [i \in DOMAIN a.digits |-> Reference!Logic(op, a.digits[i], b.digits[i])] = Bits(r, n)
  <2> DEFINE f == Bits(v, n)
             g == Bits(w, n)
  <2>1. a.digits = f /\ b.digits = g /\ DOMAIN f = 1 .. n
    BY <1>1 DEF Bits
  <2>2. \A i \in 1 .. n : bit(r, i) = Reference!Logic(op, f[i], g[i])
    BY <1>5
  <2> HIDE DEF f, g
  <2> QED BY <2>1, <2>2 DEF Bits
<1>7. Reference!With(a, Bits(r, n)) = WordOf(ty, r)
  BY <1>1, WithWord DEF n
<1> QED BY <1>1, <1>2, <1>4, <1>6, <1>7, AgreeCanonical DEF a, b

\* The complement of a bit pattern flips its digits.
LEMMA Complement ==
  ASSUME NEW x \in IntValue
  PROVE  Agree(complement(x),
               Reference!Ok(Reference!With(WordOfInt(x), Reference!Flip(WordOfInt(x).digits))))
<1> DEFINE ty == x.type
           n == ty.bits
           v == x.value
           u == unsigned_repr(x)
           m == pow2(n)
           r == m - 1 - u
<1>1. /\ ty \in IntType /\ n \in Nat /\ v \in Int /\ u \in Int /\ Bits(u, n) = Bits(v, n)
      /\ WordOfInt(x) = WordOf(ty, v) /\ WordOf(ty, v).digits = Bits(v, n)
  BY PatternBits, WordFacts
<1>2. m \in Int
  BY <1>1, Pow2
<1> HIDE DEF u, v, n
<1>3. Reference!Flip(Bits(u, n)) = Bits(-1 - u, n)
  BY <1>1, FlipBits
<1>4. Bits((-1 - u) + m * 1, n) = Bits(-1 - u, n)
  <2>1. -1 - u \in Int /\ 1 \in Int
    BY <1>1
  <2> QED BY ONLY <1>1, <2>1, SameBits
<1>5. (-1 - u) + m * 1 = r /\ r \in Int
  <2> HIDE DEF m
  <2> QED BY <1>1, <1>2
<1> HIDE DEF r, m
<1>6. Reference!Flip(WordOfInt(x).digits) = Bits(r, n)
  BY <1>1, <1>3, <1>4, <1>5
<1>7. Reference!With(WordOfInt(x), Bits(r, n)) = WordOf(ty, r)
  BY <1>1, WithWord DEF n
<1>8. complement(x) = Ok(canonical(ty, r))
  BY DEF complement, r, m, u, n
<1> QED BY <1>1, <1>5, <1>6, <1>7, <1>8, AgreeCanonical

\* A cast extends or drops digits.
LEMMA CastIs ==
  ASSUME NEW x \in IntValue, NEW ty \in IntType
  PROVE  /\ Agree(cast(ty, x), Reference!Ok(Reference!Cast(ty, WordOfInt(x))))
         /\ Reference!Cast(ty, WordOfInt(x)) = WordOf(ty, x.value)
<1>1. x.type \in AnyType /\ InRange(x.type, x.value) /\ x.value \in Int
      /\ WordOfInt(x) = WordOf(x.type, x.value) /\ ty.bits \in Nat
  BY PatternBits, IntTypeIsAny, TypeRange
<1>2. Reference!Extend(WordOfInt(x), ty.bits) = Bits(x.value, ty.bits)
  BY <1>1, WordFacts
<1>3. Reference!Cast(ty, WordOfInt(x)) = WordOf(ty, x.value)
  BY <1>2 DEF Reference!Cast, WordOf, Bits
<1> QED BY <1>1, <1>3, AgreeCanonical DEF cast

-----------------------------------------------------------------------------
(* Negation, and elements of the field.                                    *)

\* Zero is a value of every type.
LEMMA ZeroInRange ==
  ASSUME NEW ty \in AnyType
  PROVE  InRange(ty, 0)
<1>1. /\ pow2(ty.bits - 1) \in Nat \ {0} /\ pow2(ty.bits) \in Nat \ {0}
      /\ least(ty) = IF ty.signed THEN -pow2(ty.bits - 1) ELSE 0
      /\ greatest(ty) = IF ty.signed THEN pow2(ty.bits - 1) - 1 ELSE pow2(ty.bits) - 1
  BY TypeRange
<1> DEFINE p == pow2(ty.bits - 1)
           q == pow2(ty.bits)
<1> HIDE DEF p, q
<1>2. p \in Nat \ {0} /\ q \in Nat \ {0}
  BY <1>1 DEF p, q
<1>3. /\ least(ty) = IF ty.signed THEN -p ELSE 0
      /\ greatest(ty) = IF ty.signed THEN p - 1 ELSE q - 1
  BY <1>1 DEF p, q
<1> QED BY <1>2, <1>3 DEF InRange

\* A negation is the difference of the zero word and the operand.
LEMMA Negate ==
  ASSUME NEW x \in IntValue
  PROVE  Agree(negate(x),
               Reference!Minus(Reference!With(WordOfInt(x), Reference!Zero(Reference!Width(WordOfInt(x)))),
                               WordOfInt(x)))
<1> DEFINE ty == x.type
           v == x.value
<1>1. /\ ty \in IntType /\ ty \in AnyType /\ InRange(ty, v) /\ v \in Int /\ ty.bits \in Nat
      /\ WordOfInt(x) = WordOf(ty, v)
  BY PatternBits
<1>2. Reference!Width(WordOf(ty, v)) = ty.bits
  BY <1>1, WordFacts
<1>3. Reference!With(WordOf(ty, v), Reference!Zero(ty.bits)) = WordOf(ty, 0)
  BY <1>1, ZeroBits, WithWord
<1>4. InRange(ty, 0)
  BY <1>1, ZeroInRange
<1>5. Agree(checked(ty, 0 - v), Reference!Minus(WordOf(ty, 0), WordOf(ty, v)))
  BY <1>1, <1>4, Minus
<1>6. 0 - v = -v
  <2> HIDE DEF v
  <2> QED BY <1>1
<1>7. negate(x) = checked(ty, 0 - v)
  BY <1>6 DEF negate
<1> QED BY <1>1, <1>2, <1>3, <1>5, <1>7

\* An unsigned type's values are its bit patterns.
LEMMA UnsignedRange ==
  ASSUME NEW ty \in AnyType, ~ty.signed, NEW v
  PROVE  InRange(ty, v) <=> v \in Int /\ 0 <= v /\ v < pow2(ty.bits)
<1>1. /\ pow2(ty.bits) \in Nat \ {0} /\ least(ty) = 0 /\ greatest(ty) = pow2(ty.bits) - 1
  BY TypeRange
<1> DEFINE m == pow2(ty.bits)
<1> HIDE DEF m
<1>2. m \in Nat \ {0} /\ least(ty) = 0 /\ greatest(ty) = m - 1
  BY <1>1 DEF m
<1>3. InRange(ty, v) <=> v \in Int /\ 0 <= v /\ v < m
  BY <1>2 DEF InRange
<1> QED BY <1>3 DEF m

\* A type fits in the field when every pattern of its width is an element.
LEMMA EmbedsIs ==
  ASSUME NEW x \in IntValue
  PROVE  Reference!Embeds(WordOfInt(x)) <=> ~x.type.signed /\ fits_unsigned(x.type.bits)
<1> DEFINE ty == x.type
           v == x.value
           a == WordOfInt(x)
           m == pow2(ty.bits)
<1>1. /\ ty \in IntType /\ ty \in AnyType /\ InRange(ty, v) /\ v \in Int
      /\ a = WordOf(ty, v) /\ a.signed = ty.signed
  BY PatternBits, WordFacts
<1>2. Reference!Same(a) = {WordOf(ty, u) : u \in least(ty) .. greatest(ty)}
  BY <1>1, SameIs
<1>3. m \in Nat \ {0} /\ Modulus \in Nat
  BY <1>1, TypeRange, ModulusAssumption
<1>4. CASE ty.signed
  BY <1>1, <1>4 DEF Reference!Embeds
<1>5. CASE ~ty.signed
  <2>1. ASSUME NEW u \in least(ty) .. greatest(ty)
        PROVE  Reference!Number(WordOf(ty, u).digits) = u /\ u \in Int /\ u < m
    <3>1. InRange(ty, u)
      BY DEF InRange
    <3>2. u \in Int /\ 0 <= u /\ u < m
      BY <1>1, <1>5, <3>1, UnsignedRange
    <3>3. Reference!Number(Bits(u, ty.bits)) = IF u < 0 THEN u + pow2(ty.bits) ELSE u
      BY <1>1, <3>1, PatternIsNumber
    <3>4. WordOf(ty, u).digits = Bits(u, ty.bits)
      BY <1>1, <3>1, WordFacts
    <3>5. ~(u < 0)
      BY ONLY <3>2
    <3> QED BY <3>2, <3>3, <3>4, <3>5
  <2>2. ASSUME m <= Modulus PROVE Reference!Embeds(a)
    <3>1. \A w \in Reference!Same(a) : Reference!Number(w.digits) < Modulus
      <4> SUFFICES ASSUME NEW u \in least(ty) .. greatest(ty)
                   PROVE  Reference!Number(WordOf(ty, u).digits) < Modulus
        BY <1>2
      <4> DEFINE f == Reference!Number(WordOf(ty, u).digits)
      <4>1. f = u /\ u \in Int /\ u < m
        BY <2>1
      <4> HIDE DEF f, m
      <4>2. f < Modulus
        BY <1>3, <2>2, <4>1
      <4> QED BY <4>2 DEF f
    <3> QED BY <1>1, <1>5, <3>1 DEF Reference!Embeds
  <2>3. ASSUME Reference!Embeds(a) PROVE m <= Modulus
    <3> DEFINE u == m - 1
    <3>1. u \in Int /\ 0 <= u /\ u < m
      <4> HIDE DEF m
      <4> QED BY <1>3
    <3>2. InRange(ty, u)
      BY <1>1, <1>5, <3>1, UnsignedRange
    <3>3. WordOf(ty, u) \in Reference!Same(a)
      BY <1>2, <3>2 DEF InRange
    <3>4. Reference!Number(WordOf(ty, u).digits) = u
      BY <2>1, <3>2 DEF InRange
    <3>5. u < Modulus
      BY <2>3, <3>3, <3>4 DEF Reference!Embeds
    <3> HIDE DEF m
    <3> QED BY <1>3, <3>5
  <2> QED BY <1>5, <2>2, <2>3 DEF fits_unsigned
<1> QED BY <1>4, <1>5

\* A cast to Field keeps the value of what fits.
LEMMA ElementIs ==
  ASSUME NEW x \in IntValue
  PROVE  /\ toField(x).ok <=> Reference!Embeds(WordOfInt(x))
         /\ ~toField(x).ok => toField(x) = Fail("Type")
         /\ toField(x).ok => /\ ~x.type.signed /\ toField(x) = Ok(x.value)
                             /\ toField(x).int = x.value
                             /\ x.value \in Nat /\ x.value < pow2(x.type.bits)
<1> DEFINE ty == x.type
           v == x.value
           m == pow2(ty.bits)
<1>1. /\ ty \in IntType /\ ty \in AnyType /\ InRange(ty, v) /\ v \in Int
  BY PatternBits
<1>2. m \in Nat \ {0} /\ Modulus \in Nat \ {0}
  BY <1>1, TypeRange, ModulusAssumption
<1>3. CASE ty.signed \/ ~fits_unsigned(ty.bits)
  BY <1>3, EmbedsIs DEF toField, Fail
<1>4. CASE ~(ty.signed \/ ~fits_unsigned(ty.bits))
  <2>1. 0 <= v /\ v < m
    BY <1>1, <1>4, UnsignedRange
  <2>2. m <= Modulus
    BY <1>4 DEF fits_unsigned
  <2>3. unsigned_repr(x) = v
    <3>1. ~(v < 0)
      BY ONLY <1>1, <2>1
    <3> QED BY <3>1 DEF unsigned_repr
  <2> HIDE DEF m, v
  <2>4. v % Modulus = v
    <3>1. v < Modulus
      BY <1>1, <1>2, <2>1, <2>2
    <3>2. v = Modulus * 0 + v
      BY <1>1, <1>2
    <3> QED BY <1>1, <1>2, <2>1, <3>1, <3>2, DivUnique
  <2>5. toField(x) = Ok(v)
    BY <1>4, <2>3, <2>4 DEF toField
  <2>6. v \in Nat
    BY <1>1, <2>1
  <2> QED BY <1>4, <2>1, <2>5, <2>6, EmbedsIs DEF Ok, v, m
<1> QED BY <1>3, <1>4

\* A value cast to Field and on to an integer type.
LEMMA ThroughFieldIs ==
  ASSUME NEW x \in IntValue, NEW ty \in IntType
  PROVE  Agree(throughField(ty, x),
               IF Reference!Embeds(WordOfInt(x)) THEN Reference!Ok(Reference!Cast(ty, WordOfInt(x)))
                                                 ELSE Reference!Fail("Type"))
<1>1. CASE toField(x).ok
  <2>1. throughField(ty, x) = Ok(canonical(ty, x.value))
    BY <1>1, ElementIs DEF throughField
  <2>2. Agree(cast(ty, x), Reference!Ok(Reference!Cast(ty, WordOfInt(x))))
    BY CastIs
  <2> QED BY <1>1, <2>1, <2>2, ElementIs DEF cast
<1>2. CASE ~toField(x).ok
  <2>1. throughField(ty, x) = Fail("Type")
    BY <1>2, ElementIs DEF throughField
  <2> QED BY <1>2, <2>1, ElementIs DEF Agree, Fail, Reference!Fail
<1> QED BY <1>1, <1>2

-----------------------------------------------------------------------------
(* Range constraints.                                                      *)

\* Digits that all agree are the same digits.
LEMMA BitsEqual ==
  ASSUME NEW n \in Nat, NEW v, NEW w, \A i \in 1 .. n : bit(v, i) = bit(w, i)
  PROVE  Bits(v, n) = Bits(w, n)
BY DEF Bits

\* The same digits agree bit by bit.
LEMMA BitsEqualOnly ==
  ASSUME NEW n \in Nat, NEW v, NEW w, Bits(v, n) = Bits(w, n), NEW i \in 1 .. n
  PROVE  bit(v, i) = bit(w, i)
<1>1. Bits(v, n)[i] = bit(v, i) /\ Bits(w, n)[i] = bit(w, i)
  BY DEF Bits
<1> QED BY <1>1

\* The digits above the k-th are clear when the number has at most k.
LEMMA ClearIs ==
  ASSUME NEW n \in Nat, NEW k \in Nat, NEW v \in Nat, v < pow2(n)
  PROVE  Reference!Clear(Bits(v, n), k) <=> v < pow2(k)
<1> DEFINE m == pow2(n)
           p == pow2(k)
<1>1. m \in Nat \ {0} /\ p \in Nat \ {0} /\ v \in Int
  BY Pow2
<1>2. Reference!Clear(Bits(v, n), k) <=> \A i \in 1 .. n : i > k => bit(v, i) = 0
  BY DEF Reference!Clear, Bits
<1>3. ASSUME v < p, NEW i \in 1 .. n, i > k PROVE bit(v, i) = 0
  <2>1. -p <= v /\ ~(v < 0) /\ v < p
    <3> HIDE DEF p
    <3> QED BY <1>1, <1>3
  <2>2. \A j \in Nat : j > k => bit(v, j) = IF v < 0 THEN 1 ELSE 0
    BY <1>1, <2>1, SignBits
  <2> QED BY <1>3, <2>1, <2>2
<1>4. ASSUME \A i \in 1 .. n : i > k => bit(v, i) = 0 PROVE v < p
  <2>1. CASE k <= n
    <3>1. PICK q \in Int, l \in Int : SplitAt(v, n, k, q, l)
      BY <1>1, <2>1, Parts
    <3>2. l \in Int /\ q \in Int /\ 0 <= l /\ l < p /\ v = p * q + l
      BY <3>1 DEF SplitAt
    <3>3. Bits(v, k) = Bits(l, k)
      <4>1. Bits(l + pow2(k) * q, k) = Bits(l, k)
        BY <3>2, SameBits
      <4>2. l + p * q = v
        <5> DEFINE z == p * q
        <5>1. z \in Int /\ v = z + l
          BY <1>1, <3>2
        <5> HIDE DEF z, p
        <5>2. l + z = v
          BY <1>1, <3>2, <5>1
        <5> QED BY <5>2 DEF z
      <4> QED BY <4>1, <4>2
    <3>4. \A j \in Nat : j > k => bit(l, j) = 0
      <4>1. -p <= l /\ ~(l < 0)
        <5> HIDE DEF p
        <5> QED BY <1>1, <3>2
      <4>2. \A j \in Nat : j > k => bit(l, j) = IF l < 0 THEN 1 ELSE 0
        BY <3>2, <4>1, SignBits
      <4> QED BY <4>1, <4>2
    <3>5. ASSUME NEW i \in 1 .. n PROVE bit(v, i) = bit(l, i)
      <4>1. CASE i > k
        BY <1>4, <3>4, <4>1
      <4>2. CASE ~(i > k)
        <5>1. i \in 1 .. k
          BY <4>2
        <5> QED BY <3>3, <5>1, BitsEqualOnly
      <4> QED BY <4>1, <4>2
    <3>6. Bits(v, n) = Bits(l, n)
      BY <3>5, BitsEqual
    <3>7. -m < v - l /\ v - l < m
      <4>1. p <= m
        BY <2>1, PowMono
      <4> HIDE DEF p, m
      <4>2. v < m
        BY DEF m
      <4> QED BY ONLY <1>1, <3>2, <4>1, <4>2, v \in Nat
    <3>8. v = l
      BY ONLY n \in Nat, v \in Int, l \in Int, <1>1, <3>2, <3>6, <3>7, BitsDiffer
    <3> QED BY <3>2, <3>8
  <2>2. CASE ~(k <= n)
    <3>1. m <= p
      BY <2>2, PowMono
    <3> HIDE DEF m, p
    <3>2. v < m
      BY DEF m
    <3> QED BY <1>1, <3>1, <3>2
  <2> QED BY <2>1, <2>2
<1> QED BY <1>2, <1>3, <1>4

\* A range constraint is that the digits above its width are clear.
LEMMA RangeIs ==
  ASSUME NEW x \in IntValue, NEW k \in Nat
  PROVE  Agree(apply_range_constraint(k, x),
               IF ~Reference!Embeds(WordOfInt(x)) THEN Reference!Fail("Type")
               ELSE IF Reference!Clear(WordOfInt(x).digits, k) THEN Reference!Ok(WordOfInt(x))
               ELSE Reference!Fail("AssertionFailed"))
<1>1. CASE ~toField(x).ok
  BY <1>1, ElementIs DEF Agree, Fail, Reference!Fail, apply_range_constraint
<1>2. CASE toField(x).ok
  <2>1. /\ Reference!Embeds(WordOfInt(x)) /\ toField(x).int = x.value
        /\ x.value \in Nat /\ x.value < pow2(x.type.bits)
    BY <1>2, ElementIs
  <2>2. WordOfInt(x).digits = Bits(x.value, x.type.bits) /\ x.type.bits \in Nat
    BY PatternBits, WordFacts
  <2>3. Reference!Clear(WordOfInt(x).digits, k) <=> x.value < pow2(k)
    BY <2>1, <2>2, ClearIs
  <2>4. CASE x.value < pow2(k)
    <3>1. ~(x.value >= pow2(k))
      <4>1. pow2(k) \in Nat
        BY Pow2
      <4> QED BY <2>1, <2>4, <4>1
    <3>2. apply_range_constraint(k, x) = Ok(x)
      BY <1>2, <2>1, <3>1 DEF apply_range_constraint
    <3> QED BY <2>1, <2>3, <2>4, <3>2 DEF Agree, Ok
  <2>5. CASE ~(x.value < pow2(k))
    <3>1. x.value >= pow2(k)
      <4>1. pow2(k) \in Nat
        BY Pow2
      <4> QED BY <2>1, <2>5, <4>1
    <3>2. apply_range_constraint(k, x) = Fail("AssertionFailed")
      BY <1>2, <2>1, <3>1 DEF apply_range_constraint
    <3> QED BY <2>1, <2>3, <2>5, <3>2 DEF Agree, Fail
  <2> QED BY <2>4, <2>5
<1> QED BY <1>1, <1>2

-----------------------------------------------------------------------------
(* Limbs.                                                                  *)

\* A multiple of m by a smaller factor leaves room for another m.
LEMMA MultipleBelow ==
  ASSUME NEW r \in Nat, NEW d \in Nat, d < r, NEW m \in Nat
  PROVE  d * m \in Nat /\ d * m + m <= r * m
<1>1. PICK e \in Nat : r = d + 1 + e
  <2>1. r - d - 1 \in Nat /\ r = d + 1 + (r - d - 1)
    OBVIOUS
  <2> QED BY <2>1
<1>2. r * m = d * m + m + e * m
  BY <1>1
<1>3. d * m \in Nat /\ e * m \in Nat
  OBVIOUS
<1> DEFINE x == d * m
           y == e * m
           z == r * m
<1>4. x \in Nat /\ y \in Nat /\ z = x + m + y
  BY <1>2, <1>3
<1> HIDE DEF x, y, z
<1>5. x \in Nat /\ x + m <= z
  BY <1>4
<1> QED BY <1>5 DEF x, z

\* The powers of a radix.
LEMMA RadixPowers ==
  ASSUME NEW r \in Nat \ {0}
  PROVE  /\ power(r, 0) = 1
         /\ \A i \in Nat : power(r, i) \in Nat \ {0} /\ power(r, i + 1) = r * power(r, i)
<1>1. r \in Nat
  OBVIOUS
<1>2. power(r, 0) = 1 /\ \A i \in Nat : power(r, i + 1) = r * power(r, i)
  BY <1>1, PowersEq DEF power
<1> QED BY <1>2, PowerPositive

\* One further power of a radix.
LEMMA RadixStep ==
  ASSUME NEW r \in Nat \ {0}, NEW i \in Nat
  PROVE  /\ power(r, i) \in Nat \ {0} /\ power(r, i) \in Nat /\ power(r, i) \in Int
         /\ power(r, i + 1) = r * power(r, i)
         /\ r \in Int
<1>1. power(r, i) \in Nat \ {0} /\ power(r, i + 1) = r * power(r, i)
  BY RadixPowers
<1> DEFINE m == power(r, i)
<1>2. m \in Nat \ {0} /\ power(r, i + 1) = r * m
  BY <1>1
<1> HIDE DEF m
<1>3. m \in Nat /\ m \in Int /\ r \in Int
  BY <1>2
<1> QED BY <1>2, <1>3 DEF m

\* The numbers of the low limbs.
Part(ds, r) == Reference!LowPart(ds, r)
\* The sequences of n limbs.
Limbs(r, n) == [1 .. n -> 0 .. r - 1]

\* The number of the low limbs grows by a multiple of a power per limb, and
\* stays below the next power.
LEMMA PartEq ==
  ASSUME NEW r \in Nat \ {0}, NEW n \in Nat, NEW ds \in Limbs(r, n)
  PROVE  /\ Part(ds, r)[0] = 0
         /\ \A i \in Nat : i + 1 <= n =>
              Part(ds, r)[i + 1] = Part(ds, r)[i] + ds[i + 1] * power(r, i)
         /\ \A i \in Nat : i <= n =>
              Part(ds, r)[i] \in Int /\ 0 <= Part(ds, r)[i] /\ Part(ds, r)[i] < power(r, i)
<1> DEFINE G == [p \in Nat \X Int |->
                   IF p[1] \in 1 .. n THEN p[2] + ds[p[1]] * power(r, p[1] - 1) ELSE 0]
           Eq(f) == f = [i \in 0 .. n |-> IF i = 0 THEN 0 ELSE f[i - 1] + ds[i] * power(r, i - 1)]
<1>0. Len(ds) = n
  BY LenDigits DEF Limbs
<1>1. PICK f \in [0 .. n -> Int] : Follows(f, 0 .. n, 0, G)
  <2>1. IsRule(G, Int)
    <3> SUFFICES ASSUME NEW i \in Nat, NEW w \in Int PROVE G[<<i, w>>] \in Int
      BY DEF IsRule
    <3>1. CASE i \in 1 .. n
      <4>1. i - 1 \in Nat
        BY <3>1
      <4>2. power(r, i - 1) \in Int
        BY <4>1, RadixPowers
      <4>4. ds[i] \in Int
        BY <3>1 DEF Limbs
      <4>3. ds[i] * power(r, i - 1) \in Int
        BY <4>2, <4>4
      <4> QED BY <3>1, <4>3
    <3>2. CASE i \notin 1 .. n
      BY <3>2
    <3> QED BY <3>1, <3>2
  <2>2. IsStart(0 .. n) /\ 0 \in Int
    BY DEF IsStart
  <2> HIDE DEF G
  <2> QED BY <2>1, <2>2, Recursion
<1>2. Eq(f)
  <2>1. \A i \in 0 .. n : i # 0 => G[<<i, f[i - 1]>>] = f[i - 1] + ds[i] * power(r, i - 1)
    OBVIOUS
  <2>2. f = [i \in 0 .. n |-> f[i]]
    OBVIOUS
  <2> HIDE DEF G
  <2> QED BY <1>1, <2>1, <2>2 DEF Follows
<1>3. Part(ds, r) = CHOOSE g : Eq(g)
  BY <1>0 DEF Part, Reference!LowPart, Reference!power, Reference!powers, power, powers
<1>4. Eq(Part(ds, r))
  <2> HIDE DEF Eq
  <2> QED BY <1>2, <1>3
<1> DEFINE g == Part(ds, r)
<1>5. g = [i \in 0 .. n |-> IF i = 0 THEN 0 ELSE g[i - 1] + ds[i] * power(r, i - 1)]
  BY <1>4
<1> HIDE DEF g
<1>6. g[0] = 0
  BY <1>5
<1>7. ASSUME NEW i \in Nat, i + 1 <= n
      PROVE  /\ g[i + 1] = g[i] + ds[i + 1] * power(r, i)
             /\ ds[i + 1] \in 0 .. r - 1
  <2>1. i + 1 \in 0 .. n /\ i + 1 # 0 /\ (i + 1) - 1 = i /\ i + 1 \in 1 .. n
    BY <1>7
  <2>2. g[i + 1] = g[(i + 1) - 1] + ds[i + 1] * power(r, (i + 1) - 1)
    BY ONLY <1>5, <2>1
  <2> QED BY <2>1, <2>2 DEF Limbs
<1> DEFINE S == {i \in Nat : i <= n => g[i] \in Int /\ 0 <= g[i] /\ g[i] < power(r, i)}
<1>8. Nat \subseteq S
  <2>1. 0 \in S
    <3>1. g[0] = 0 /\ 0 < power(r, 0)
      BY <1>6, RadixPowers
    <3> QED BY ONLY <3>1
  <2>2. ASSUME NEW i \in Nat, i \in S PROVE i + 1 \in S
    <3> SUFFICES ASSUME i + 1 <= n
                 PROVE  g[i + 1] \in Int /\ 0 <= g[i + 1] /\ g[i + 1] < power(r, i + 1)
      OBVIOUS
    <3> DEFINE x == g[i]
               m == power(r, i)
               d == ds[i + 1]
               y == d * m
               z == r * m
    <3>1. g[i + 1] = x + y /\ d \in 0 .. r - 1
      BY <1>7
    <3>2. x \in Int /\ 0 <= x /\ x < m
      <4>1. i <= n
        OBVIOUS
      <4> QED BY <2>2, <4>1
    <3>3. m \in Nat /\ power(r, i + 1) = z /\ m \in Int
      <4>1. i \in Nat
        OBVIOUS
      <4> QED BY ONLY <4>1, r \in Nat \ {0}, RadixStep
    <3> HIDE DEF x, m, d
    <3>4. d \in Nat /\ d < r /\ r \in Nat
      BY <3>1
    <3>5. y \in Nat /\ y + m <= z
      BY ONLY <3>3, <3>4, MultipleBelow
    <3>6. z \in Int
      BY <3>3
    <3> HIDE DEF y, z
    <3>7. x + y \in Int /\ 0 <= x + y /\ x + y < z
      BY ONLY <3>2, <3>3, <3>5, <3>6
    <3> QED BY <3>1, <3>3, <3>7
  <2> HIDE DEF S
  <2> QED BY <2>1, <2>2, SetInduction
<1>9. \A i \in Nat : i + 1 <= n => g[i + 1] = g[i] + ds[i + 1] * power(r, i)
  BY <1>7
<1>10. \A i \in Nat : i <= n => g[i] \in Int /\ 0 <= g[i] /\ g[i] < power(r, i)
  BY <1>8
<1> QED BY <1>6, <1>9, <1>10 DEF g

\* The limb the code takes from the quotient by a power of the radix.
LEMMA DigitStep ==
  ASSUME NEW v \in Nat, NEW r \in Nat \ {0}, NEW k \in Nat
  PROVE  /\ v \div power(r, k) \in Int
         /\ digit(v, r, k) \in 0 .. r - 1
         /\ v \div power(r, k) = r * (v \div power(r, k + 1)) + digit(v, r, k)
<1> DEFINE m == power(r, k)
           q == v \div m
           p == v \div power(r, k + 1)
           d == digit(v, r, k)
<1>1. m \in Nat \ {0} /\ power(r, k + 1) = r * m /\ v \in Int
  BY RadixPowers
<1>2. d = q % r
  BY DEF digit
<1>3. q \in Int
  BY <1>1
<1>4. q \div r = p
  <2>1. q \div r = v \div (m * r)
    <3> HIDE DEF m
    <3> QED BY <1>1, DivDiv
  <2>2. m * r = r * m
    BY <1>1
  <2> QED BY <1>1, <2>1, <2>2
<1> HIDE DEF q, p, d
<1>5. PICK x \in Int, y \in Int : x = q \div r /\ y = q % r /\ 0 <= y /\ y < r /\ q = r * x + y
  BY ONLY <1>3, r \in Nat \ {0}, DivMod
<1>6. x = p /\ y = d
  BY <1>2, <1>4, <1>5
<1>7. 0 <= y /\ y < r /\ q = r * x + y /\ y \in Int
  BY <1>5
<1>8. y \in 0 .. r - 1
  BY <1>7
<1> QED BY <1>3, <1>6, <1>7, <1>8 DEF q, p, d

\* The limbs the code takes from an element.
DigitsOf(v, r, n) == [i \in 1 .. n |-> digit(v, r, i - 1)]

\* They are digits of the radix.
LEMMA DigitsAreLimbs ==
  ASSUME NEW v \in Nat, NEW r \in Nat \ {0}, NEW n \in Nat
  PROVE  DigitsOf(v, r, n) \in Limbs(r, n)
<1>1. ASSUME NEW i \in 1 .. n PROVE digit(v, r, i - 1) \in 0 .. r - 1
  <2>1. i - 1 \in Nat
    OBVIOUS
  <2> QED BY <2>1, DigitStep
<1> QED BY <1>1 DEF Limbs, DigitsOf

\* An element is its low limbs and a multiple of a power of the radix.
LEMMA PartOfDigits ==
  ASSUME NEW v \in Nat, NEW r \in Nat \ {0}, NEW n \in Nat
  PROVE  \A i \in Nat : i <= n =>
           v = power(r, i) * (v \div power(r, i)) + Part(DigitsOf(v, r, n), r)[i]
<1> DEFINE ds == DigitsOf(v, r, n)
           g == Part(ds, r)
           S == {i \in Nat : i <= n => v = power(r, i) * (v \div power(r, i)) + g[i]}
<1>1. ds \in Limbs(r, n)
  BY DigitsAreLimbs
<1>2. /\ g[0] = 0
      /\ \A i \in Nat : i + 1 <= n => g[i + 1] = g[i] + ds[i + 1] * power(r, i)
      /\ \A i \in Nat : i <= n => g[i] \in Int
  BY <1>1, PartEq
<1> HIDE DEF g
<1>3. Nat \subseteq S
  <2>1. 0 \in S
    <3>1. v \div 1 = v /\ power(r, 0) = 1
      BY RadixPowers
    <3> QED BY <3>1, <1>2
  <2>2. ASSUME NEW i \in Nat, i \in S PROVE i + 1 \in S
    <3> SUFFICES ASSUME i + 1 <= n
                 PROVE  v = power(r, i + 1) * (v \div power(r, i + 1)) + g[i + 1]
      OBVIOUS
    <3> DEFINE m == power(r, i)
               d == digit(v, r, i)
               p == v \div m
               q == v \div power(r, i + 1)
    <3>1. i <= n /\ i + 1 \in 1 .. n /\ (i + 1) - 1 = i
      OBVIOUS
    <3>2. v = m * p + g[i] /\ g[i] \in Int
      BY <2>2, <3>1, <1>2
    <3>3. g[i + 1] = g[i] + d * m
      <4>1. ds[i + 1] = d
        BY <3>1 DEF DigitsOf
      <4> HIDE DEF ds
      <4> QED BY <3>1, <4>1, <1>2
    <3>4. d \in Int /\ p \in Int /\ p = r * q + d
      <4>1. d \in 0 .. r - 1
        BY DigitStep
      <4>2. d \in Int
        <5> HIDE DEF d
        <5> QED BY <4>1
      <4> QED BY <4>2, DigitStep
    <3>5. q \in Int
      <4>1. i + 1 \in Nat
        OBVIOUS
      <4> QED BY ONLY <4>1, DigitStep, v \in Nat, r \in Nat \ {0}
    <3>6. m \in Int /\ power(r, i + 1) = r * m /\ r \in Int
      <4>1. i \in Nat
        OBVIOUS
      <4> QED BY ONLY <4>1, r \in Nat \ {0}, RadixStep
    <3> HIDE DEF m, d, p, q
    <3>7. m * (r * q + d) = (r * m) * q + d * m
      BY ONLY <3>4, <3>5, <3>6
    <3> DEFINE x == (r * m) * q
               y == d * m
    <3>8. x \in Int /\ y \in Int
      BY <3>4, <3>5, <3>6
    <3>9. v = (x + y) + g[i]
      BY <3>2, <3>4, <3>7
    <3>10. g[i + 1] = g[i] + y
      BY <3>3
    <3> HIDE DEF x, y
    <3>11. v = x + g[i + 1]
      BY ONLY <3>2, <3>8, <3>9, <3>10
    <3> QED BY <3>11, <3>6 DEF x, q
  <2> HIDE DEF S
  <2> QED BY <2>1, <2>2, SetInduction
<1> QED BY <1>3 DEF g

\* Limbs whose number is the element are the limbs the code takes from it.
LEMMA PartDetermines ==
  ASSUME NEW r \in Nat \ {0}, NEW n \in Nat, NEW ds \in Limbs(r, n), NEW v \in Nat,
         v = Part(ds, r)[n]
  PROVE  \A j \in 1 .. n : ds[j] = digit(v, r, j - 1)
<1> DEFINE g == Part(ds, r)
           S == {k \in Nat : k <= n => \E p \in Int : v = power(r, n - k) * p + g[n - k]}
<1>1. /\ g[0] = 0
      /\ \A i \in Nat : i + 1 <= n => g[i + 1] = g[i] + ds[i + 1] * power(r, i)
      /\ \A i \in Nat : i <= n => g[i] \in Int /\ 0 <= g[i] /\ g[i] < power(r, i)
  BY PartEq
<1>2. v = g[n]
  OBVIOUS
<1> HIDE DEF g
<1>3. ASSUME NEW i \in Nat, i + 1 <= n, NEW p \in Int, v = power(r, i + 1) * p + g[i + 1]
      PROVE  /\ r * p + ds[i + 1] \in Int
             /\ v = power(r, i) * (r * p + ds[i + 1]) + g[i]
             /\ digit(v, r, i) = ds[i + 1]
  <2> DEFINE m == power(r, i)
             d == ds[i + 1]
  <2>1. d \in 0 .. r - 1
    BY <1>3 DEF Limbs
  <2>2. m \in Nat \ {0} /\ power(r, i + 1) = r * m /\ r \in Int
    BY ONLY i \in Nat, r \in Nat \ {0}, RadixStep
  <2>3. i <= n
    BY <1>3
  <2>4. g[i + 1] = g[i] + d * m /\ g[i] \in Int /\ 0 <= g[i] /\ g[i] < m
    BY <1>3, <1>1, <2>3
  <2>5. v = (r * m) * p + g[i + 1]
    BY <1>3, <2>2
  <2>6. digit(v, r, i) = (v \div m) % r
    BY DEF digit
  <2> HIDE DEF m, d
  <2>0. d \in Int /\ m \in Int /\ 0 <= d /\ d < r
    BY <2>1, <2>2
  <2>7. m * (r * p + d) = (r * m) * p + d * m
    BY ONLY <2>0, <2>2, p \in Int
  <2> DEFINE x == (r * m) * p
             w == d * m
  <2>9. x \in Int /\ w \in Int
    BY <2>0, <2>2
  <2>10. v = m * (r * p + d) + g[i]
    <3>1. v = x + g[i + 1] /\ m * (r * p + d) = x + w /\ g[i + 1] = g[i] + w
      BY <2>4, <2>5, <2>7
    <3> HIDE DEF x, w
    <3>2. v = (x + w) + g[i]
      BY ONLY <3>1, <2>4, <2>9
    <3> QED BY <3>1, <3>2
  <2>11. r * p + d \in Int
    BY <2>0, <2>2
  <2> HIDE DEF x, w
  <2> DEFINE y == r * p + d
  <2>12. v \div m = y
    <3>1. y \in Int /\ v = m * y + g[i] /\ v \in Int
      BY <2>10, <2>11
    <3> HIDE DEF y
    <3> QED BY ONLY <3>1, <2>2, <2>4, DivUnique
  <2>13. y % r = d
    <3>1. y \in Int /\ y = r * p + d
      BY <2>11
    <3> HIDE DEF y
    <3> QED BY ONLY <3>1, <2>0, p \in Int, r \in Nat \ {0}, DivUnique
  <2> HIDE DEF y
  <2>14. digit(v, r, i) = d
    BY <2>6, <2>12, <2>13
  <2> QED BY <2>10, <2>11, <2>14 DEF m, d
<1>4. Nat \subseteq S
  <2>1. 0 \in S
    <3>1. n - 0 = n /\ power(r, n) * 0 = 0 /\ g[n] \in Int
      <4>1. power(r, n) \in Int /\ n <= n
        BY RadixPowers
      <4> QED BY <1>1, <4>1
    <3>2. v = power(r, n - 0) * 0 + g[n - 0]
      BY <1>2, <3>1
    <3> QED BY <3>2
  <2>2. ASSUME NEW k \in Nat, k \in S PROVE k + 1 \in S
    <3> SUFFICES ASSUME k + 1 <= n
                 PROVE  \E p \in Int : v = power(r, n - (k + 1)) * p + g[n - (k + 1)]
      OBVIOUS
    <3> DEFINE i == n - (k + 1)
    <3>1. i \in Nat /\ i + 1 <= n /\ i + 1 = n - k /\ k <= n
      OBVIOUS
    <3>2. PICK p \in Int : v = power(r, n - k) * p + g[n - k]
      BY <2>2, <3>1
    <3> HIDE DEF i
    <3>3. v = power(r, i + 1) * p + g[i + 1]
      BY <3>1, <3>2
    <3>4. r * p + ds[i + 1] \in Int /\ v = power(r, i) * (r * p + ds[i + 1]) + g[i]
      BY <3>1, <3>3, <1>3
    <3> QED BY <3>4 DEF i
  <2> HIDE DEF S
  <2> QED BY <2>1, <2>2, SetInduction
<1>5. ASSUME NEW j \in 1 .. n PROVE ds[j] = digit(v, r, j - 1)
  <2> DEFINE i == j - 1
             k == n - j
  <2>1. i \in Nat /\ i + 1 <= n /\ i + 1 = j /\ k \in Nat /\ k <= n /\ n - k = i + 1
    OBVIOUS
  <2>2. PICK p \in Int : v = power(r, n - k) * p + g[n - k]
    BY <1>4, <2>1
  <2> HIDE DEF i, k
  <2>3. v = power(r, i + 1) * p + g[i + 1]
    BY <2>1, <2>2
  <2>4. digit(v, r, i) = ds[i + 1]
    BY <2>1, <2>3, <1>3
  <2> QED BY <2>1, <2>4 DEF i
<1> QED BY <1>5

\* An element has a notation of n limbs when it is below the power, and then
\* it has that of the code and no other.
LEMMA NotationsAre ==
  ASSUME NEW r \in Nat \ {0}, NEW n \in Nat, NEW v \in Nat
  PROVE  Reference!Notations(v, r, n)
           = IF v < power(r, n) THEN {DigitsOf(v, r, n)} ELSE {}
<1> DEFINE N == Reference!Notations(v, r, n)
           f == DigitsOf(v, r, n)
<1>1. N = {ds \in Limbs(r, n) : Part(ds, r)[n] = v}
  BY DEF Reference!Notations, Limbs, Part
<1>2. n \in Nat /\ n <= n /\ power(r, n) \in Nat \ {0}
  BY RadixPowers
<1>3. ASSUME NEW ds \in N PROVE v < power(r, n) /\ ds = f
  <2>1. ds \in Limbs(r, n) /\ v = Part(ds, r)[n]
    BY <1>1
  <2>2. Part(ds, r)[n] < power(r, n)
    BY <1>2, <2>1, PartEq
  <2>3. \A j \in 1 .. n : ds[j] = digit(v, r, j - 1)
    BY <2>1, PartDetermines
  <2>4. ds = [j \in 1 .. n |-> ds[j]]
    BY <2>1 DEF Limbs
  <2>5. ds = f
    BY <2>3, <2>4 DEF DigitsOf
  <2> QED BY <2>1, <2>2, <2>5
<1>4. ASSUME v < power(r, n) PROVE f \in N
  <2>1. f \in Limbs(r, n)
    BY DigitsAreLimbs
  <2> HIDE DEF f
  <2> DEFINE m == power(r, n)
             x == Part(f, r)[n]
  <2>2. v = m * (v \div m) + x
    <3>1. \A i \in Nat : i <= n => v = power(r, i) * (v \div power(r, i)) + Part(f, r)[i]
      BY ONLY r \in Nat \ {0}, n \in Nat, v \in Nat, PartOfDigits DEF f
    <3> QED BY ONLY <3>1, <1>2
  <2>3. v \div m = 0
    <3> HIDE DEF m
    <3>1. v < m /\ m \in Nat \ {0}
      BY <1>2, <1>4 DEF m
    <3> QED BY <3>1, SmallDiv
  <2>4. x \in Int
    BY <1>2, <2>1, PartEq
  <2> HIDE DEF x
  <2>5. x = v
    <3>1. m * 0 = 0
      BY <1>2
    <3>2. v = 0 + x
      BY <2>2, <2>3, <3>1
    <3> QED BY <2>4, <3>2
  <2> QED BY <1>1, <2>1, <2>5 DEF x
<1> HIDE DEF N, f
<1>5. v < power(r, n) => N = {f}
  BY ONLY <1>3, <1>4
<1>6. ~(v < power(r, n)) => N = {}
  BY ONLY <1>3
<1>7. N = IF v < power(r, n) THEN {f} ELSE {}
  BY ONLY <1>5, <1>6
<1> QED BY <1>7 DEF N, f

\* The limb is a value of the element's type.
LEMMA DigitBelow ==
  ASSUME NEW v \in Nat, NEW r \in Nat \ {0}, NEW k \in Nat
  PROVE  digit(v, r, k) \in Nat /\ digit(v, r, k) <= v
<1> DEFINE m == power(r, k)
           q == v \div m
           d == digit(v, r, k)
<1>1. m \in Nat \ {0} /\ v \in Int
  BY RadixPowers
<1>2. PICK p \in Int, s \in Int : p = v \div m /\ s = v % m /\ 0 <= s /\ s < m /\ v = m * p + s
  BY <1>1, DivMod
<1>3. 0 <= p /\ p <= v
  <2>1. p \in Int /\ s \in Int /\ s < m /\ 0 <= s /\ v = m * p + s
    BY <1>2
  <2> HIDE DEF m
  <2>2. CASE p < 0
    <3>1. PICK e \in Nat : p = -1 - e
      <4>1. -1 - p \in Nat /\ p = -1 - (-1 - p)
        BY <2>1, <2>2
      <4> QED BY <4>1
    <3>2. m * p = -m - m * e /\ m * e \in Nat
      BY <1>1, <3>1
    <3> DEFINE x == m * e
               y == m * p
    <3>3. y = -m - x /\ x \in Nat /\ v = y + s
      BY <2>1, <3>2
    <3> HIDE DEF x, y
    <3>4. v < 0
      BY ONLY <1>1, <2>1, <3>3
    <3> QED BY <3>4
  <2>3. CASE ~(p < 0)
    <3>1. PICK e \in Nat : m = 1 + e
      <4>1. m - 1 \in Nat /\ m = 1 + (m - 1)
        BY <1>1
      <4> QED BY <4>1
    <3>2. p \in Nat
      BY <2>1, <2>3
    <3>3. m * p = p + e * p /\ e * p \in Nat
      BY <3>1, <3>2
    <3> DEFINE x == e * p
               y == m * p
    <3>4. y = p + x /\ x \in Nat /\ v = y + s
      BY <2>1, <3>3
    <3> HIDE DEF x, y
    <3> QED BY <2>1, <3>2, <3>4
  <2> QED BY <2>2, <2>3
<1>4. q \in Nat /\ q <= v
  BY <1>2, <1>3
<1>5. d = q % r
  BY DEF digit
<1> HIDE DEF q, d
<1>6. PICK x \in Int, y \in Int : x = q \div r /\ y = q % r /\ 0 <= y /\ y < r /\ q = r * x + y
  <2>1. q \in Int
    BY <1>4
  <2> QED BY <2>1, DivMod
<1>7. y <= q
  <2>1. y \in Int /\ 0 <= y /\ y < r /\ q = r * x + y
    BY <1>6
  <2>2. CASE x < 0
    <3>1. PICK e \in Nat : x = -1 - e
      <4>1. -1 - x \in Nat /\ x = -1 - (-1 - x)
        BY <2>2
      <4> QED BY <4>1
    <3>2. r * x = -r - r * e /\ r * e \in Nat
      BY <3>1
    <3> DEFINE z == r * e
               w == r * x
    <3>3. w = -r - z /\ z \in Nat /\ q = w + y
      BY <2>1, <3>2
    <3> HIDE DEF z, w
    <3>4. q < 0
      BY <2>1, <3>3
    <3> QED BY <1>4, <3>4
  <2>3. CASE ~(x < 0)
    <3>1. x \in Nat /\ r \in Nat
      BY <2>3
    <3>2. r * x \in Nat
      BY <3>1
    <3> DEFINE z == r * x
    <3>3. z \in Nat /\ q = z + y
      BY <2>1, <3>2
    <3> HIDE DEF z
    <3> QED BY <2>1, <3>3
  <2> QED BY <2>2, <2>3
<1>8. d = y /\ y \in Int /\ 0 <= y
  BY <1>5, <1>6
<1>9. d \in Nat /\ d <= v
  BY <1>1, <1>4, <1>7, <1>8
<1> QED BY <1>9 DEF d

\* The word of an unsigned value is the one whose digits are its notation.
LEMMA WordWithNumber ==
  ASSUME NEW ty \in IntType, ~ty.signed, NEW v, NEW d, InRange(ty, v), InRange(ty, d)
  PROVE  (CHOOSE w \in Reference!Same(WordOf(ty, v)) : Reference!Number(w.digits) = d) = WordOf(ty, d)
<1>1. ty \in AnyType
  BY IntTypeIsAny
<1>2. ASSUME NEW u, InRange(ty, u) PROVE Reference!Number(WordOf(ty, u).digits) = u
  <2>1. u \in Int /\ 0 <= u
    BY <1>1, <1>2, UnsignedRange
  <2>2. ~(u < 0)
    BY <2>1
  <2> QED BY <1>1, <1>2, <2>2, PatternIsNumber, WordFacts
<1>3. Reference!Same(WordOf(ty, v)) = {WordOf(ty, u) : u \in least(ty) .. greatest(ty)}
  BY SameIs
<1>4. WordOf(ty, d) \in Reference!Same(WordOf(ty, v)) /\ Reference!Number(WordOf(ty, d).digits) = d
  BY <1>2, <1>3 DEF InRange
<1>5. ASSUME NEW w \in Reference!Same(WordOf(ty, v)), Reference!Number(w.digits) = d
      PROVE  w = WordOf(ty, d)
  <2>1. PICK u \in least(ty) .. greatest(ty) : w = WordOf(ty, u)
    BY <1>3
  <2>2. u = d
    BY <1>2, <1>5, <2>1 DEF InRange
  <2> QED BY <2>1, <2>2
<1> QED BY <1>4, <1>5

\* The arguments of a limb operation.
LimbTodo(t) == /\ t.radix \in Radix /\ t.count \in 1 .. MaxBits
               /\ t.big_endian \in BOOLEAN /\ t.at \in 1 .. t.count

\* The code's limbs are the only notation of the element, and the code refuses
\* an element exactly when it has none of so many limbs.
LEMMA LimbIs ==
  ASSUME NEW x \in IntValue, NEW t, LimbTodo(t)
  PROVE  Agree(limb(t, x), Reference!Limb(t, WordOfInt(x)))
<1> DEFINE ty == x.type
           v == x.value
           a == WordOfInt(x)
           c == t.count
           r == t.radix
           N == Reference!Notations(Reference!Number(a.digits), r, c)
<1>1. CASE ~toField(x).ok
  BY <1>1, ElementIs DEF Agree, Fail, Reference!Fail, limb, Reference!Limb
<1>2. CASE toField(x).ok
  <2>1. /\ Reference!Embeds(a) /\ toField(x).int = v /\ ~ty.signed
        /\ v \in Nat /\ v < pow2(ty.bits)
    BY <1>2, ElementIs
  <2>2. /\ ty \in AnyType /\ ty \in IntType /\ InRange(ty, v) /\ v \in Int
        /\ a = WordOf(ty, v) /\ a.digits = Bits(v, ty.bits) /\ ty.bits \in Nat
    BY PatternBits, WordFacts
  <2>3. CASE r \notin 2 .. 256
    <3>1. to_radix(v, r, c, t.big_endian) = Fail("Type")
      BY <2>3 DEF to_radix
    <3>2. limb(t, x) = Fail("Type")
      BY <1>2, <2>1, <3>1 DEF limb, Fail
    <3>3. Reference!Limb(t, a) = Reference!Fail("Type")
      BY <2>3 DEF Reference!Limb
    <3> QED BY <3>2, <3>3 DEF Agree, Fail
  <2>4. CASE r \in 2 .. 256
    <3>1. r \in Nat \ {0} /\ c \in Nat
      <4>1. c \in 1 .. MaxBits
        BY DEF LimbTodo
      <4> HIDE DEF r, c
      <4> QED BY <2>4, <4>1, WidthAssumption
    <3>2. Reference!Number(a.digits) = v
      <4>1. ~(v < 0)
        BY <2>1
      <4> QED BY <2>2, <4>1, PatternIsNumber
    <3> DEFINE f == DigitsOf(v, r, c)
    <3>3. N = IF v < power(r, c) THEN {f} ELSE {}
      <4> HIDE DEF r, c, v
      <4> QED BY <2>1, <3>1, <3>2, NotationsAre
    <3>4. power(r, c) \in Nat
      BY <3>1, RadixPowers
    <3>5. CASE ~(v < power(r, c))
      <4>1. v >= power(r, c)
        BY <2>1, <3>4, <3>5
      <4>2. to_radix(v, r, c, t.big_endian) = Fail("AssertionFailed")
        BY <2>4, <4>1 DEF to_radix
      <4>3. limb(t, x) = Fail("AssertionFailed")
        BY <1>2, <2>1, <4>2 DEF limb, Fail
      <4>4. N = {}
        BY <3>3, <3>5
      <4> HIDE DEF N
      <4>5. Reference!Limb(t, a) = Reference!Fail("AssertionFailed")
        BY <2>1, <2>4, <4>4 DEF Reference!Limb, N
      <4> QED BY <4>3, <4>5 DEF Agree, Fail
    <3>6. CASE v < power(r, c)
      <4> DEFINE i == IF t.big_endian THEN c + 1 - t.at ELSE t.at
                 k == IF t.big_endian THEN c - t.at ELSE t.at - 1
                 d == digit(v, r, k)
      <4>1. i \in 1 .. c /\ k = i - 1 /\ k \in Nat /\ t.at \in 1 .. c
        <5>1. t.at \in 1 .. c /\ t.big_endian \in BOOLEAN
          BY DEF LimbTodo
        <5> HIDE DEF c
        <5> QED BY <3>1, <5>1
      <4>2. ~(v >= power(r, c))
        BY <2>1, <3>4, <3>6
      <4> DEFINE y == to_radix(v, r, c, t.big_endian)
      <4>3. y = [ok |-> TRUE, limbs |-> [h \in 1 .. c |->
                   digit(v, r, IF t.big_endian THEN c - h ELSE h - 1)]]
        BY <2>4, <4>2 DEF to_radix
      <4>4. y.ok /\ y.limbs[t.at] = d
        BY <4>1, <4>3
      <4> HIDE DEF y
      <4>5. limb(t, x) = Ok(canonical(ty, d))
        <5> HIDE DEF d
        <5> QED BY <1>2, <2>1, <4>4 DEF limb, y
      <4>6. N = {f}
        BY <3>3, <3>6
      <4>7. f[i] = d
        BY <4>1 DEF DigitsOf
      <4> HIDE DEF i, k
      <4>8. d \in Nat /\ d <= v
        BY <2>1, <3>1, <4>1, DigitBelow
      <4> HIDE DEF d
      <4>9. InRange(ty, d) /\ d \in Int
        <5> DEFINE m == pow2(ty.bits)
        <5>1. d \in Int /\ 0 <= d
          BY <4>8
        <5>2. m \in Nat /\ v < m
          BY <2>1, <2>2, Pow2
        <5> HIDE DEF m, v
        <5>3. d < m
          BY <2>1, <4>8, <5>2
        <5> QED BY <2>1, <2>2, <5>1, <5>3, UnsignedRange DEF m
      <4>10. (CHOOSE w \in Reference!Same(a) : Reference!Number(w.digits) = d) = WordOf(ty, d)
        BY <2>1, <2>2, <4>9, WordWithNumber
      <4>11. N # {} /\ (CHOOSE z \in N : TRUE)[i] = d
        <5> HIDE DEF N, f
        <5>1. N # {} /\ (CHOOSE z \in N : TRUE) = f
          BY <4>6
        <5> QED BY <4>7, <5>1
      <4> HIDE DEF N, f
      <4>12. Reference!Limb(t, a) = Reference!Ok(WordOf(ty, d))
        BY <2>1, <2>4, <4>10, <4>11 DEF Reference!Limb, N, i
      <4> QED BY <2>2, <4>5, <4>9, <4>12, AgreeCanonical
    <3> QED BY <3>5, <3>6
  <2> QED BY <2>3, <2>4
<1> QED BY <1>1, <1>2

-----------------------------------------------------------------------------
(* The order of words.                                                     *)

\* A set of indices that is not empty has a greatest.
LEMMA Highest ==
  ASSUME NEW n \in Nat, NEW D, D \subseteq 1 .. n, D # {}
  PROVE  \E i \in D : \A j \in D : j <= i
<1> DEFINE S == {k \in Nat : \A E \in SUBSET (1 .. k) : E # {} => \E i \in E : \A j \in E : j <= i}
<1>1. 0 \in S
  <2>1. 1 .. 0 = {}
    OBVIOUS
  <2> QED BY <2>1
<1>2. ASSUME NEW k \in Nat, k \in S PROVE k + 1 \in S
  <2>1. SUFFICES ASSUME NEW E \in SUBSET (1 .. (k + 1)), E # {}
                 PROVE  \E i \in E : \A j \in E : j <= i
    OBVIOUS
  <2>2. CASE k + 1 \in E
    <3>1. \A j \in E : j <= k + 1
      OBVIOUS
    <3> QED BY <2>2, <3>1
  <2>3. CASE k + 1 \notin E
    <3>1. E \in SUBSET (1 .. k)
      <4>1. ASSUME NEW j \in E PROVE j \in 1 .. k
        <5>1. j \in 1 .. (k + 1) /\ j # k + 1
          BY <2>3
        <5> QED BY <5>1
      <4> QED BY <4>1
    <3> QED BY <1>2, <2>1, <3>1
  <2> QED BY <2>2, <2>3
<1> HIDE DEF S
<1>3. n \in S
  BY <1>1, <1>2, SetInduction
<1> QED BY <1>3 DEF S

\* The smaller quotient has the smaller dividend.
LEMMA TopLess ==
  ASSUME NEW v \in Int, NEW w \in Int, NEW i \in Nat, Top(v, i) < Top(w, i)
  PROVE  v < w
<1> DEFINE m == pow2(i)
<1>1. m \in Nat \ {0}
  BY Pow2
<1>2. PICK q \in Int, r \in Int : q = v \div m /\ r = v % m /\ 0 <= r /\ r < m /\ v = m * q + r
  BY <1>1, DivMod
<1>3. PICK p \in Int, s \in Int : p = w \div m /\ s = w % m /\ 0 <= s /\ s < m /\ w = m * p + s
  BY <1>1, DivMod
<1>4. q < p
  BY <1>2, <1>3 DEF Top
<1> HIDE DEF m
<1>5. PICK e \in Nat : p = q + 1 + e
  <2>1. p - q - 1 \in Nat /\ p = q + 1 + (p - q - 1)
    BY <1>4
  <2> QED BY <2>1
<1>6. m * p = m * q + m + m * e
  BY <1>1, <1>5
<1> DEFINE a == m * p
           b == m * q
           c == m * e
<1>7. a \in Int /\ b \in Int /\ c \in Nat /\ a = b + m + c
  BY <1>1, <1>6
<1>8. v = b + r /\ r < m /\ w = a + s /\ 0 <= s
  BY <1>2, <1>3
<1> HIDE DEF a, b, c
<1> QED BY ONLY <1>1, <1>7, <1>8, r \in Int, s \in Int

\* One bit further down.
LEMMA TopStep ==
  ASSUME NEW v \in Int, NEW i \in Nat
  PROVE  /\ Top(v, i) \in Int
         /\ Top(v, i) = 2 * Top(v, i + 1) + bit(v, i + 1)
         /\ bit(v, i + 1) \in Reference!Bit
BY BitFacts DEF Top, Reference!Bit

\* Values of the same sign whose digits above the i-th agree have the same
\* quotient by 2^i.
LEMMA SameTop ==
  ASSUME NEW ty \in AnyType, NEW v, NEW w, InRange(ty, v), InRange(ty, w), Neg(v) = Neg(w),
         NEW i \in Nat, i <= ty.bits,
         \A j \in i + 1 .. ty.bits : bit(v, j) = bit(w, j)
  PROVE  Top(v, i) = Top(w, i)
<1> DEFINE n == ty.bits
           S == {d \in Nat : d <= n - i => Top(v, n - d) = Top(w, n - d)}
<1>1. v \in Int /\ w \in Int /\ n \in Nat
  BY WordFacts, TypeRange
<1> HIDE DEF n
<1>2. 0 \in S
  <2>1. Top(v, n) = -Neg(v) /\ Top(w, n) = -Neg(w)
    BY Above DEF Top, n
  <2>2. n - 0 = n
    BY <1>1
  <2> QED BY <2>1, <2>2
<1>3. ASSUME NEW d \in Nat, d \in S PROVE d + 1 \in S
  <2>1. CASE d + 1 <= n - i
    <3> DEFINE j == n - (d + 1)
    <3>1. j \in Nat /\ j + 1 = n - d /\ j + 1 \in i + 1 .. n /\ d <= n - i
      BY <1>1, <2>1
    <3>2. Top(v, n - d) = Top(w, n - d)
      BY <1>3, <3>1
    <3>3. bit(v, j + 1) = bit(w, j + 1)
      BY <3>1 DEF n
    <3> HIDE DEF j
    <3>4. j \in Nat /\ v \in Int /\ w \in Int
      BY <1>1, <3>1
    <3>5. Top(v, j) = 2 * Top(v, j + 1) + bit(v, j + 1) /\ Top(w, j) = 2 * Top(w, j + 1) + bit(w, j + 1)
      BY ONLY <3>4, TopStep
    <3>6. Top(v, j) = Top(w, j)
      BY <3>1, <3>2, <3>3, <3>5
    <3> QED BY <3>6 DEF j
  <2>2. CASE ~(d + 1 <= n - i)
    BY <2>2
  <2> QED BY <2>1, <2>2
<1> HIDE DEF S
<1>4. Nat \subseteq S
  BY <1>2, <1>3, SetInduction
<1>5. n - i \in Nat /\ n - (n - i) = i /\ n - i <= n - i
  <2>1. i <= n
    BY DEF n
  <2> QED BY <1>1, <2>1
<1>6. n - i \in S
  BY <1>4, <1>5
<1> QED BY <1>5, <1>6 DEF S

\* The top bit of a signed value is its sign.
LEMMA NegBit ==
  ASSUME NEW ty \in AnyType, ty.signed, NEW v, InRange(ty, v)
  PROVE  bit(v, ty.bits) = Neg(v)
<1> DEFINE k == ty.bits - 1
           p == pow2(k)
<1>1. /\ k \in Nat /\ ty.bits \in Nat /\ p \in Nat \ {0} /\ v \in Int
      /\ least(ty) = -p /\ greatest(ty) = p - 1 /\ ty.bits > k
  BY TypeRange, WordFacts
<1>2. -p <= v /\ v < p
  <2> HIDE DEF p
  <2> QED BY <1>1 DEF InRange
<1>3. \A i \in Nat : i > k => bit(v, i) = IF v < 0 THEN 1 ELSE 0
  BY <1>1, <1>2, SignBits
<1> QED BY <1>1, <1>3 DEF Neg

\* The order of words, on the bits of the values they denote.
BelowAt(ty, v, w, i) ==
  /\ bit(v, i) # bit(w, i)
  /\ \A j \in i + 1 .. ty.bits : bit(v, j) = bit(w, j)
  /\ (bit(v, i) < bit(w, i)) # (ty.signed /\ i = ty.bits)

\* The order of words is the order by their bits.
LEMMA LessBits ==
  ASSUME NEW ty \in AnyType, NEW v, NEW w, InRange(ty, v), InRange(ty, w)
  PROVE  Reference!Less(WordOf(ty, v), WordOf(ty, w)) <=> \E i \in 1 .. ty.bits : BelowAt(ty, v, w, i)
<1> DEFINE a == WordOf(ty, v)
           b == WordOf(ty, w)
           n == ty.bits
<1>1. /\ a.signed = ty.signed /\ Reference!Width(a) = n /\ n \in Nat
      /\ a.digits = Bits(v, n) /\ b.digits = Bits(w, n)
  BY WordFacts, TypeRange
<1>2. \A i \in 1 .. n : a.digits[i] = bit(v, i) /\ b.digits[i] = bit(w, i)
  BY <1>1 DEF Bits
<1> HIDE DEF a, b
<1>3. Reference!Less(a, b) <=>
        \E i \in 1 .. n : /\ a.digits[i] # b.digits[i]
                          /\ \A j \in i + 1 .. n : a.digits[j] = b.digits[j]
                          /\ (a.digits[i] < b.digits[i]) # (ty.signed /\ i = n)
  BY <1>1 DEF Reference!Less
<1>4. ASSUME NEW i \in 1 .. n
      PROVE  /\ a.digits[i] = bit(v, i) /\ b.digits[i] = bit(w, i)
             /\ \A j \in i + 1 .. n : a.digits[j] = bit(v, j) /\ b.digits[j] = bit(w, j)
  <2>1. \A j \in i + 1 .. n : j \in 1 .. n
    BY <1>1
  <2> QED BY <1>2, <2>1
<1>5. ASSUME NEW i \in 1 .. n
      PROVE  BelowAt(ty, v, w, i) <=> 
                          /\ a.digits[i] # b.digits[i]
                          /\ \A j \in i + 1 .. n : a.digits[j] = b.digits[j]
                          /\ (a.digits[i] < b.digits[i]) # (ty.signed /\ i = n)
  BY <1>4 DEF BelowAt
<1> QED BY <1>3, <1>5 DEF a, b

\* Of two values the one below at the first differing bit is the lesser.
LEMMA BelowIsLess ==
  ASSUME NEW ty \in AnyType, NEW v, NEW w, InRange(ty, v), InRange(ty, w),
         NEW i \in 1 .. ty.bits, BelowAt(ty, v, w, i)
  PROVE  v < w
<1> DEFINE n == ty.bits
           k == i - 1
<1>1. v \in Int /\ w \in Int /\ n \in Nat /\ k \in Nat /\ k + 1 = i /\ i \in Nat /\ i <= n /\ ty.signed \in BOOLEAN
  BY WordFacts, TypeRange
<1>2. bit(v, i) \in Reference!Bit /\ bit(w, i) \in Reference!Bit /\ bit(v, i) # bit(w, i)
  BY <1>1, TopStep DEF BelowAt
<1>3. CASE ty.signed /\ i = n
  <2>1. bit(v, i) = Neg(v) /\ bit(w, i) = Neg(w)
    BY <1>3, NegBit
  <2>2. ~(bit(v, i) < bit(w, i))
    BY <1>3 DEF BelowAt
  <2>3. Neg(v) = 1 /\ Neg(w) = 0
    <3> DEFINE d == bit(v, i)
               e == bit(w, i)
    <3>1. d \in {0, 1} /\ e \in {0, 1} /\ d # e /\ ~(d < e)
      BY <1>2, <2>2 DEF Reference!Bit
    <3> HIDE DEF d, e
    <3>2. d = 1 /\ e = 0
      BY ONLY <3>1
    <3> QED BY <2>1, <3>2 DEF d, e
  <2> QED BY <1>1, <2>3 DEF Neg
<1>4. CASE ~(ty.signed /\ i = n)
  <2>1. bit(v, i) = 0 /\ bit(w, i) = 1
    <3> DEFINE d == bit(v, i)
               e == bit(w, i)
    <3>1. d < e
      BY <1>4 DEF BelowAt
    <3>2. d \in {0, 1} /\ e \in {0, 1} /\ d # e
      BY <1>2 DEF Reference!Bit
    <3> HIDE DEF d, e
    <3>3. d = 0 /\ e = 1
      BY ONLY <3>1, <3>2
    <3> QED BY <3>3 DEF d, e
  <2>2. Neg(v) = Neg(w)
    <3>1. CASE ty.signed
      <4>1. n \in i + 1 .. n
        BY <1>1, <1>4, <3>1
      <4> QED BY <3>1, <4>1, NegBit DEF BelowAt
    <3>2. CASE ~ty.signed
      <4>1. 0 <= v /\ 0 <= w
        BY <3>2, UnsignedRange
      <4>2. ~(v < 0) /\ ~(w < 0)
        BY ONLY <1>1, <4>1
      <4> QED BY <4>2 DEF Neg
    <3> QED BY <3>1, <3>2
  <2>3. Top(v, i) = Top(w, i)
    BY <1>1, <2>2, SameTop DEF BelowAt
  <2>4. Top(v, k) < Top(w, k)
    <3> DEFINE p == Top(v, i)
    <3> HIDE DEF k
    <3>2. v \in Int /\ w \in Int /\ k \in Nat /\ i \in Nat
      BY <1>1
    <3>3. /\ Top(v, k) = 2 * Top(v, k + 1) + bit(v, k + 1)
          /\ Top(w, k) = 2 * Top(w, k + 1) + bit(w, k + 1)
          /\ Top(v, i) \in Int
      BY ONLY <3>2, TopStep
    <3>4. k + 1 = i
      BY <1>1
    <3>1. Top(v, k) = 2 * p + 0 /\ Top(w, k) = 2 * p + 1 /\ p \in Int
      BY ONLY <2>1, <2>3, <3>3, <3>4
    <3> HIDE DEF p
    <3> QED BY <3>1
  <2> QED BY <1>1, <2>4, TopLess
<1> QED BY <1>3, <1>4

\* The first digit that differs from the top orders words as their values.
LEMMA LessIs ==
  ASSUME NEW ty \in AnyType, NEW v, NEW w, InRange(ty, v), InRange(ty, w)
  PROVE  Reference!Less(WordOf(ty, v), WordOf(ty, w)) <=> v < w
<1> DEFINE n == ty.bits
<1>1. v \in Int /\ w \in Int /\ n \in Nat /\ ty.signed \in BOOLEAN
  BY WordFacts, TypeRange
<1>2. ASSUME v < w PROVE \E i \in 1 .. n : BelowAt(ty, v, w, i)
  <2> DEFINE D == {i \in 1 .. n : bit(v, i) # bit(w, i)}
  <2>1. D # {}
    <3> SUFFICES ASSUME D = {} PROVE FALSE
      OBVIOUS
    <3>1. Bits(v, n) = Bits(w, n)
      BY DEF Bits
    <3>2. v = w
      BY <3>1, WordsDiffer
    <3> QED BY <1>1, <1>2, <3>2
  <2>2. PICK i \in D : \A j \in D : j <= i
    <3>1. D \subseteq 1 .. n
      OBVIOUS
    <3> HIDE DEF D
    <3> QED BY <1>1, <2>1, <3>1, Highest
  <2>3. i \in 1 .. n /\ bit(v, i) # bit(w, i)
    OBVIOUS
  <2>4. \A j \in i + 1 .. n : bit(v, j) = bit(w, j)
    <3> SUFFICES ASSUME NEW j \in i + 1 .. n PROVE bit(v, j) = bit(w, j)
      OBVIOUS
    <3>1. j \in 1 .. n /\ ~(j <= i)
      BY <1>1, <2>3
    <3> QED BY <2>2, <3>1
  <2>5. BelowAt(ty, v, w, i) \/ BelowAt(ty, w, v, i)
    <3> DEFINE d == bit(v, i)
               e == bit(w, i)
    <3>1. d \in Reference!Bit /\ e \in Reference!Bit
      <4>1. i - 1 \in Nat /\ (i - 1) + 1 = i
        BY <2>3
      <4> QED BY <1>1, <4>1, TopStep
    <3>2. d \in {0, 1} /\ e \in {0, 1} /\ d # e
      BY <2>3, <3>1 DEF Reference!Bit
    <3> DEFINE t == ty.signed /\ i = n
    <3>3. t \in BOOLEAN
      OBVIOUS
    <3>4. (d < e) # t \/ (e < d) # t
      <4> HIDE DEF d, e, t
      <4> QED BY ONLY <3>2, <3>3
    <3> QED BY <2>3, <2>4, <3>4 DEF BelowAt
  <2>6. ~BelowAt(ty, w, v, i)
    <3> SUFFICES ASSUME BelowAt(ty, w, v, i) PROVE FALSE
      OBVIOUS
    <3>1. w < v
      BY <2>3, BelowIsLess
    <3> QED BY ONLY <1>1, <1>2, <3>1
  <2> QED BY <2>3, <2>5, <2>6
<1> QED BY <1>2, LessBits, BelowIsLess

-----------------------------------------------------------------------------
(* Comparisons.                                                            *)

\* The digits of a truth value.
LEMMA TruthBits ==
  ASSUME NEW i \in Nat \ {0}, NEW h \in BOOLEAN
  PROVE  bit(IF h THEN 1 ELSE 0, i) = IF i = 1 /\ h THEN 1 ELSE 0
<1>1. bit(0, i) = 0
  <2>1. Reference!Zero(i) = Bits(0, i)
    BY ZeroBits
  <2>2. i \in 1 .. i
    OBVIOUS
  <2>3. Reference!Zero(i)[i] = 0 /\ Bits(0, i)[i] = bit(0, i)
    BY <2>2 DEF Reference!Zero, Bits
  <2> QED BY <2>1, <2>3
<1>2. bit(1, 1) = 1
  <2>1. pow2(1 - 1) = 1
    BY Pow2
  <2>2. 1 \div 1 = 1 /\ 1 % 2 = 1
    OBVIOUS
  <2>3. bit(1, 1) = (1 \div 1) % 2
    BY <2>1 DEF bit
  <2> QED BY <2>2, <2>3
<1>3. i > 1 => bit(1, i) = 0
  <2>1. pow2(1) = 2
    <3>1. pow2(0 + 1) = 2 * pow2(0) /\ pow2(0) = 1
      BY Pow2
    <3> QED BY <3>1
  <2>2. -pow2(1) <= 1 /\ 1 < pow2(1) /\ ~(1 < 0)
    BY <2>1
  <2>3. \A j \in Nat : j > 1 => bit(1, j) = IF 1 < 0 THEN 1 ELSE 0
    BY <2>2, SignBits
  <2> QED BY <2>2, <2>3
<1>4. CASE h
  <2>1. (IF h THEN 1 ELSE 0) = 1
    BY <1>4
  <2>2. i = 1 \/ i > 1
    OBVIOUS
  <2> QED BY <1>2, <1>3, <1>4, <2>1, <2>2
<1>5. CASE ~h
  <2>1. (IF h THEN 1 ELSE 0) = 0
    BY <1>5
  <2> QED BY <1>1, <1>5, <2>1
<1> QED BY <1>4, <1>5

\* A Bool cast to an integer type is the word one or zero.
LEMMA TruthIs ==
  ASSUME NEW ty \in IntType, NEW v, InRange(ty, v), NEW h, NEW g, h <=> g
  PROVE  Agree(castBool(ty, h), Reference!Ok(Reference!Truth(WordOf(ty, v), g)))
<1> DEFINE n == ty.bits
           a == WordOf(ty, v)
           u == IF h THEN 1 ELSE 0
<1>1. n \in Nat /\ ty \in AnyType /\ DOMAIN a.digits = 1 .. n
  BY IntTypeIsAny, TypeRange DEF WordOf
<1>2. \A i \in 1 .. n : bit(u, i) = IF i = 1 /\ h THEN 1 ELSE 0
  <2>1. \A i \in 1 .. n : i \in Nat \ {0}
    BY <1>1
  <2>2. CASE h
    <3>1. \A i \in 1 .. n : bit(IF TRUE THEN 1 ELSE 0, i) = IF i = 1 /\ TRUE THEN 1 ELSE 0
      BY <2>1, TruthBits
    <3> QED BY <2>2, <3>1
  <2>3. CASE ~h
    <3>1. \A i \in 1 .. n : bit(IF FALSE THEN 1 ELSE 0, i) = IF i = 1 /\ FALSE THEN 1 ELSE 0
      BY <2>1, TruthBits
    <3> QED BY <2>3, <3>1
  <2> QED BY <2>2, <2>3
<1>3. u \in Int
  OBVIOUS
<1>4. castBool(ty, h) = Ok(canonical(ty, u))
  BY DEF castBool
<1> HIDE DEF u
<1>5. [i \in DOMAIN a.digits |-> IF i = 1 /\ g THEN 1 ELSE 0] = Bits(u, n)
  <2>1. \A i \in 1 .. n : bit(u, i) = IF i = 1 /\ g THEN 1 ELSE 0
    BY <1>2
  <2> QED BY <1>1, <2>1 DEF Bits
<1>6. Reference!Truth(a, g) = WordOf(ty, u)
  BY <1>5, WithWord DEF Reference!Truth
<1> QED BY <1>3, <1>4, <1>6, AgreeCanonical

\* Two words of a type are the same when they denote the same value.
LEMMA SameWord ==
  ASSUME NEW ty \in AnyType, NEW v, NEW w, InRange(ty, v), InRange(ty, w)
  PROVE  WordOf(ty, v) = WordOf(ty, w) <=> v = w
<1>1. WordOf(ty, v).digits = Bits(v, ty.bits) /\ WordOf(ty, w).digits = Bits(w, ty.bits)
  BY WordFacts
<1> QED BY <1>1, WordsDiffer

\* The comparisons.
LEMMA CompareIs ==
  ASSUME NEW x \in IntValue, NEW y \in IntValue, x.type = y.type, NEW op \in CompareOp
  PROVE  Agree(castBool(x.type, compare(op, x, y)),
               Reference!Ok(Reference!Truth(WordOfInt(x),
                              Reference!Holds(op, WordOfInt(x), WordOfInt(y)))))
<1> DEFINE ty == x.type
           v == x.value
           w == y.value
           a == WordOfInt(x)
           b == WordOfInt(y)
<1>1. /\ ty \in IntType /\ ty \in AnyType /\ InRange(ty, v) /\ InRange(ty, w)
      /\ v \in Int /\ w \in Int /\ a = WordOf(ty, v) /\ b = WordOf(ty, w)
  BY PatternBits
<1>2. (a = b <=> v = w) /\ (Reference!Less(a, b) <=> v < w) /\ (Reference!Less(b, a) <=> w < v)
  BY <1>1, SameWord, LessIs
<1> HIDE DEF a, b
<1>3. /\ v > w <=> w < v
      /\ v <= w <=> ~(w < v)
      /\ v >= w <=> ~(v < w)
  <2> HIDE DEF v, w
  <2> QED BY <1>1
<1>4. compare(op, x, y) <=> Reference!Holds(op, a, b)
  <2>1. CASE op = "Equal"
    BY <1>2, <2>1 DEF Reference!Holds, compare
  <2>2. CASE op = "NotEqual"
    BY <1>2, <2>2 DEF Reference!Holds, compare
  <2>3. CASE op = "Less"
    BY <1>2, <2>3 DEF Reference!Holds, compare
  <2>4. CASE op = "LessEqual"
    BY <1>2, <1>3, <2>4 DEF Reference!Holds, compare
  <2>5. CASE op = "Greater"
    BY <1>2, <1>3, <2>5 DEF Reference!Holds, compare
  <2>6. CASE op = "GreaterEqual"
    BY <1>2, <1>3, <2>6 DEF Reference!Holds, compare
  <2> QED BY <2>1, <2>2, <2>3, <2>4, <2>5, <2>6 DEF CompareOp
<1>5. Agree(castBool(ty, compare(op, x, y)), Reference!Ok(Reference!Truth(WordOf(ty, v), Reference!Holds(op, a, b))))
  BY <1>1, <1>4, TruthIs
<1> QED BY <1>1, <1>5 DEF a, b

\* An element at one digit more than the widest type.
LEMMA WidenedIs ==
  ASSUME NEW x \in IntValue, toField(x).ok
  PROVE  LET ty == [signed |-> FALSE, bits |-> MaxBits + 1]
         IN  /\ Reference!With(WordOfInt(x), Reference!Extend(WordOfInt(x), MaxBits + 1)) = WordOf(ty, x.value)
             /\ InRange(ty, x.value) /\ ty \in AnyType
<1> DEFINE ty == [signed |-> FALSE, bits |-> MaxBits + 1]
           v == x.value
           a == WordOfInt(x)
           n == MaxBits + 1
<1>1. n \in Nat \ {0} /\ n \in Nat
  BY WidthAssumption
<1>2. ty \in AnyType
  BY <1>1 DEF AnyType
<1>3. /\ ~x.type.signed /\ v \in Nat /\ v < pow2(x.type.bits)
      /\ x.type \in AnyType /\ x.type \in IntType /\ InRange(x.type, v) /\ a = WordOf(x.type, v)
  BY ElementIs, PatternBits
<1>4. x.type.bits \in Nat /\ x.type.bits <= n /\ ~a.signed /\ a.signed \in BOOLEAN
  BY <1>3, IntTypeIsAny, WidthAssumption, TypeRange, WordFacts
<1>5. Reference!Extend(a, n) = Bits(v, n)
  BY <1>1, <1>3, WordFacts
<1>6. Reference!With(a, Bits(v, n)) = WordOf(ty, v)
  <2>1. a.signed = FALSE
    BY <1>4
  <2> DEFINE t == x.type
             ds == Bits(v, n)
  <2>2. t.signed = FALSE
    BY <1>3, TypeRange
  <2> HIDE DEF t, ds
  <2>5. Reference!With(WordOf(t, v), ds) = [signed |-> t.signed, digits |-> ds]
    <3> DEFINE f == Bits(v, t.bits)
    <3>1. WordOf(t, v) = [signed |-> t.signed, digits |-> f]
      BY DEF WordOf, Bits
    <3> HIDE DEF f
    <3> QED BY <3>1 DEF Reference!With
  <2>3. Reference!With(a, ds) = [signed |-> FALSE, digits |-> ds]
    BY <1>3, <2>2, <2>5 DEF t
  <2>4. WordOf(ty, v) = [signed |-> FALSE, digits |-> Bits(v, n)]
    BY DEF WordOf, Bits
  <2> QED BY <2>3, <2>4 DEF ds
<1>7. v < pow2(n)
  <2>1. pow2(x.type.bits) <= pow2(n) /\ pow2(n) \in Nat /\ pow2(x.type.bits) \in Nat
    BY <1>1, <1>4, PowMono, Pow2
  <2> DEFINE p == pow2(x.type.bits)
             q == pow2(n)
  <2>2. p <= q /\ p \in Nat /\ q \in Nat /\ v \in Nat /\ v < p
    BY <1>3, <2>1
  <2> HIDE DEF p, q, v
  <2>3. v < q
    BY ONLY <2>2
  <2> QED BY <2>3 DEF q
<1>8. InRange(ty, v)
  <2>1. v \in Int /\ 0 <= v /\ ~ty.signed /\ ty.bits = n
    BY <1>3
  <2> HIDE DEF ty, v
  <2> QED BY <1>2, <1>7, <2>1, UnsignedRange
<1> QED BY <1>2, <1>5, <1>6, <1>8

\* The order of two elements is that of their words at a common width.
LEMMA FieldLessIs ==
  ASSUME NEW x \in IntValue, NEW y \in IntValue
  PROVE  Agree(field_less_than(x, y), Reference!FieldLess(WordOfInt(x), WordOfInt(y)))
<1> DEFINE a == WordOfInt(x)
           b == WordOfInt(y)
<1>1. CASE ~toField(x).ok \/ ~toField(y).ok
  <2>1. field_less_than(x, y) = Fail("Type")
    BY <1>1, ElementIs DEF field_less_than
  <2>2. Reference!FieldLess(a, b) = Reference!Fail("Type")
    BY <1>1, ElementIs DEF Reference!FieldLess
  <2> QED BY <2>1, <2>2 DEF Agree, Fail
<1>2. CASE toField(x).ok /\ toField(y).ok
  <2> DEFINE ty == [signed |-> FALSE, bits |-> MaxBits + 1]
             v == x.value
             w == y.value
             n == MaxBits + 1
  <2>1. /\ Reference!With(a, Reference!Extend(a, n)) = WordOf(ty, v) /\ InRange(ty, v)
        /\ Reference!With(b, Reference!Extend(b, n)) = WordOf(ty, w) /\ InRange(ty, w)
        /\ ty \in AnyType
    BY <1>2, WidenedIs
  <2> HIDE DEF ty, n
  <2> DEFINE g == Reference!Less(WordOf(ty, v), WordOf(ty, w))
  <2>2. g <=> v < w
    BY <2>1, LessIs
  <2>3. Reference!FieldLess(a, b) = Reference!Ok(Reference!Truth(a, g))
    <3>1. Reference!Embeds(a) /\ Reference!Embeds(b)
      BY <1>2, ElementIs
    <3> QED BY <2>1, <3>1 DEF Reference!FieldLess, n
  <2>4. field_less_than(x, y) = castBool(x.type, v < w)
    BY <1>2, ElementIs DEF field_less_than
  <2>5. x.type \in IntType /\ InRange(x.type, v) /\ a = WordOf(x.type, v)
    BY PatternBits
  <2> HIDE DEF g
  <2>7. Agree(castBool(x.type, v < w), Reference!Ok(Reference!Truth(WordOf(x.type, v), g)))
    BY <2>2, <2>5, TruthIs
  <2> QED BY <2>3, <2>4, <2>5, <2>7
<1> QED BY <1>1, <1>2

-----------------------------------------------------------------------------
(* The words a for loop takes.                                             *)

\* The words from one value to another.
WordSet(ty, p, q) == {WordOf(ty, z) : z \in p .. q}

\* There are as many words as values.
LEMMA CountOfWords ==
  ASSUME NEW ty \in AnyType, NEW p \in Int, NEW q \in Int, \A z \in p .. q : InRange(ty, z)
  PROVE  Cardinality(WordSet(ty, p, q)) = IF p > q THEN 0 ELSE q - p + 1
<1> DEFINE S == p .. q
           T == WordSet(ty, p, q)
           f == [z \in S |-> WordOf(ty, z)]
<1>1. f \in [S -> T] /\ \A w \in T : \E z \in S : f[z] = w
  BY DEF WordSet
<1>2. \A z, y \in S : f[z] = f[y] => z = y
  BY SameWord
<1> HIDE DEF f
<1>3. f \in Bijection(S, T)
  <2> HIDE DEF S, T
  <2> QED BY <1>1, <1>2 DEF Bijection, Injection, IsInjective, Surjection
<1>4. ExistsBijection(S, T)
  BY <1>3 DEF ExistsBijection
<1>5. IsFiniteSet(S) /\ Cardinality(S) = IF p > q THEN 0 ELSE q - p + 1
  BY FS_Interval
<1> HIDE DEF S, T
<1>6. Cardinality(T) = Cardinality(S)
  BY <1>4, <1>5, FS_Bijection
<1> QED BY <1>5, <1>6 DEF T

\* Words counts with the same operator.
LEMMA ReferenceCount ==
  ASSUME NEW S
  PROVE  Reference!Cardinality(S) = Cardinality(S)
BY DEF Reference!Cardinality, Cardinality

\* A for loop's words are those of its counter's values, in order.
LEMMA WordsFromIs ==
  ASSUME NEW ty \in IntType, NEW v, NEW u, InRange(ty, v), InRange(ty, u), NEW inclusive \in BOOLEAN,
         NEW e, e = IF inclusive THEN u + 1 ELSE u
  PROVE  Reference!WordsFrom(WordOf(ty, v), WordOf(ty, u), inclusive)
           = [k \in 1 .. (e - v) |-> WordOf(ty, v + k - 1)]
<1> DEFINE a == WordOf(ty, v)
           b == WordOf(ty, u)
           lo == least(ty)
           hi == greatest(ty)
           ws == {w \in Reference!Same(a) : /\ ~Reference!Less(w, a)
                                            /\ Reference!Less(w, b) \/ (inclusive /\ w = b)}
           n  == Reference!Cardinality(ws)
<1>1. v \in Int /\ u \in Int /\ ty \in AnyType /\ lo \in Int /\ hi \in Int
  BY IntTypeIsAny, WordFacts, BoundsAreInts
<1>2. e \in Int
  BY <1>1
<1>3. Reference!Same(a) = {WordOf(ty, z) : z \in lo .. hi}
  BY SameIs
<1>4. lo <= v /\ v <= hi /\ lo <= u /\ u <= hi
  BY <1>1 DEF InRange
<1> HIDE DEF lo, hi
<1>5. \A z \in v .. (e - 1) : z \in lo .. hi
  BY <1>1, <1>2, <1>4
<1>6. \A z \in lo .. hi : InRange(ty, z)
  BY DEF InRange, lo, hi
<1>7. ASSUME NEW z \in lo .. hi
      PROVE  /\ ~Reference!Less(WordOf(ty, z), a)
             /\ Reference!Less(WordOf(ty, z), b) \/ (inclusive /\ WordOf(ty, z) = b)
             <=> z \in v .. (e - 1)
  <2>1. z \in Int /\ InRange(ty, z)
    BY <1>1, <1>6
  <2>2. Reference!Less(WordOf(ty, z), a) <=> z < v
    BY <1>1, <2>1, LessIs
  <2>3. Reference!Less(WordOf(ty, z), b) <=> z < u
    BY <1>1, <2>1, LessIs
  <2>4. WordOf(ty, z) = b <=> z = u
    BY <1>1, <2>1, SameWord
  <2>5. ~(z < v) /\ (z < u \/ (inclusive /\ z = u)) <=> z \in v .. (e - 1)
    BY <1>1, <2>1
  <2> HIDE DEF a, b
  <2> QED BY <2>2, <2>3, <2>4, <2>5
<1>8. ws = WordSet(ty, v, e - 1)
  <2>1. ASSUME NEW w \in ws PROVE w \in WordSet(ty, v, e - 1)
    <3>1. PICK z \in lo .. hi : w = WordOf(ty, z)
      BY <1>3
    <3>2. z \in v .. (e - 1)
      BY <1>7, <3>1
    <3> QED BY <3>1, <3>2 DEF WordSet
  <2>2. ASSUME NEW w \in WordSet(ty, v, e - 1) PROVE w \in ws
    <3>1. PICK z \in v .. (e - 1) : w = WordOf(ty, z)
      BY DEF WordSet
    <3>2. z \in lo .. hi
      BY <1>5, <3>1
    <3>3. w \in Reference!Same(a)
      BY <1>3, <3>1, <3>2
    <3> QED BY <1>7, <3>1, <3>2, <3>3
  <2> QED BY <2>1, <2>2
<1>9. ASSUME NEW z \in v .. (e - 1)
      PROVE  Reference!Cardinality({y \in ws : Reference!Less(y, WordOf(ty, z))}) = z - v
  <2>1. z \in Int /\ z \in lo .. hi /\ InRange(ty, z) /\ v <= z /\ z <= e - 1
    BY <1>1, <1>2, <1>5, <1>6
  <2> DEFINE T == {y \in WordSet(ty, v, e - 1) : Reference!Less(y, WordOf(ty, z))}
  <2>2. ASSUME NEW x \in v .. (e - 1) PROVE Reference!Less(WordOf(ty, x), WordOf(ty, z)) <=> x < z
    <3>1. InRange(ty, x)
      BY <1>5, <1>6
    <3> QED BY <1>1, <2>1, <3>1, LessIs
  <2>3. T = WordSet(ty, v, z - 1)
    <3>1. ASSUME NEW y \in T PROVE y \in WordSet(ty, v, z - 1)
      <4>1. PICK x \in v .. (e - 1) : y = WordOf(ty, x)
        BY DEF WordSet
      <4>2. x < z
        BY <2>2, <4>1
      <4>3. x \in v .. (z - 1)
        BY <1>1, <1>2, <2>1, <4>2
      <4> QED BY <4>1, <4>3 DEF WordSet
    <3>2. ASSUME NEW y \in WordSet(ty, v, z - 1) PROVE y \in T
      <4>1. PICK x \in v .. (z - 1) : y = WordOf(ty, x)
        BY DEF WordSet
      <4>2. x \in v .. (e - 1) /\ x < z
        BY <1>1, <1>2, <2>1
      <4>3. y \in WordSet(ty, v, e - 1)
        BY <4>1, <4>2 DEF WordSet
      <4>4. Reference!Less(y, WordOf(ty, z))
        BY <2>2, <4>1, <4>2
      <4> QED BY <4>3, <4>4
    <3> QED BY <3>1, <3>2
  <2>4. \A x \in v .. (z - 1) : InRange(ty, x)
    <3>1. \A x \in v .. (z - 1) : x \in v .. (e - 1)
      BY <1>1, <1>2, <2>1
    <3> QED BY <1>5, <1>6, <3>1
  <2>5. z - 1 \in Int
    BY <2>1
  <2>6. Cardinality(WordSet(ty, v, z - 1)) = IF v > z - 1 THEN 0 ELSE (z - 1) - v + 1
    BY ONLY <1>1, <2>4, <2>5, CountOfWords
  <2>7. (IF v > z - 1 THEN 0 ELSE (z - 1) - v + 1) = z - v
    BY <1>1, <2>1
  <2>8. Cardinality(T) = z - v
    BY <2>3, <2>6, <2>7
  <2>9. {y \in ws : Reference!Less(y, WordOf(ty, z))} = T
    BY <1>8
  <2> HIDE DEF T, ws
  <2> QED BY <2>8, <2>9, ReferenceCount
<1>10. 1 .. n = 1 .. (e - v)
  <2>1. \A z \in v .. (e - 1) : InRange(ty, z)
    BY <1>5, <1>6
  <2>2. e - 1 \in Int
    BY <1>2
  <2>3. Cardinality(WordSet(ty, v, e - 1)) = IF v > e - 1 THEN 0 ELSE (e - 1) - v + 1
    BY ONLY <1>1, <2>1, <2>2, CountOfWords
  <2>4. n = IF v > e - 1 THEN 0 ELSE (e - 1) - v + 1
    BY <1>8, <2>3, ReferenceCount
  <2> HIDE DEF n
  <2> QED BY <1>1, <1>2, <2>4
<1> HIDE DEF ws
<1>11. ASSUME NEW k \in 1 .. (e - v)
       PROVE  (CHOOSE w \in ws : Reference!Cardinality({y \in ws : Reference!Less(y, w)}) = k - 1)
                = WordOf(ty, v + k - 1)
  <2> DEFINE z == v + k - 1
             P(w) == Reference!Cardinality({y \in ws : Reference!Less(y, w)}) = k - 1
  <2>1. z \in v .. (e - 1) /\ z - v = k - 1
    BY <1>1, <1>2
  <2>2. WordOf(ty, z) \in ws
    BY <1>8, <2>1 DEF WordSet
  <2>3. P(WordOf(ty, z))
    <3> HIDE DEF z
    <3> QED BY <1>9, <2>1
  <2>4. ASSUME NEW w \in ws, P(w) PROVE w = WordOf(ty, z)
    <3>1. PICK x \in v .. (e - 1) : w = WordOf(ty, x)
      BY <1>8 DEF WordSet
    <3>2. x - v = k - 1
      BY <1>9, <2>4, <3>1
    <3>3. x = z
      BY <1>1, <1>2, <3>2
    <3> QED BY <3>1, <3>3
  <2> HIDE DEF P
  <2>5. (CHOOSE w \in ws : P(w)) = WordOf(ty, z)
    BY <2>2, <2>3, <2>4
  <2> QED BY <2>5 DEF P
<1>12. Reference!WordsFrom(a, b, inclusive)
         = [k \in 1 .. n |-> CHOOSE w \in ws : Reference!Cardinality({y \in ws : Reference!Less(y, w)}) = k - 1]
  BY DEF Reference!WordsFrom, ws
<1> QED BY <1>10, <1>11, <1>12

-----------------------------------------------------------------------------
(* Every operation gives the same on integers and on words.                *)

\* A word has the type of the value it denotes.
LEMMA TypeOfWord ==
  ASSUME NEW x \in IntValue
  PROVE  Reference!TypeOf(WordOfInt(x)) = x.type
<1>1. /\ x.type \in IntType /\ WordOfInt(x).signed = x.type.signed
      /\ Reference!Width(WordOfInt(x)) = x.type.bits
  BY PatternBits, WordFacts
<1> QED BY <1>1 DEF Reference!TypeOf, IntType

\* The operators of one type.
LEMMA ArithmeticIs ==
  ASSUME NEW x \in IntValue, NEW y \in IntValue, x.type = y.type, NEW op \in ArithOp
  PROVE  Agree(arithmetic(op, x, y), Reference!Binary(op, WordOfInt(x), WordOfInt(y)))
<1> DEFINE ty == x.type
           v == x.value
           w == y.value
           a == WordOfInt(x)
           b == WordOfInt(y)
<1>1. /\ ty \in IntType /\ InRange(ty, v) /\ InRange(ty, w)
      /\ a = WordOf(ty, v) /\ b = WordOf(ty, w)
  BY PatternBits
<1> HIDE DEF a, b
<1>2. CASE op = "Add"
  <2>1. arithmetic(op, x, y) = checked(ty, v + w)
    BY <1>2 DEF arithmetic
  <2>2. Reference!Binary(op, a, b) = Reference!Plus(a, b)
    BY <1>2 DEF Reference!Binary
  <2> QED BY <1>1, <2>1, <2>2, Plus DEF a, b
<1>3. CASE op = "Subtract"
  <2>1. arithmetic(op, x, y) = checked(ty, v - w)
    BY <1>3 DEF arithmetic
  <2>2. Reference!Binary(op, a, b) = Reference!Minus(a, b)
    BY <1>3 DEF Reference!Binary
  <2> QED BY <1>1, <2>1, <2>2, Minus DEF a, b
<1>4. CASE op = "Multiply"
  <2>1. arithmetic(op, x, y) = checked(ty, v * w)
    BY <1>4 DEF arithmetic
  <2>2. Reference!Binary(op, a, b) = Reference!Times(a, b)
    BY <1>4 DEF Reference!Binary
  <2> QED BY <1>1, <2>1, <2>2, Times DEF a, b
<1>5. CASE op = "Divide"
  <2>1. arithmetic(op, x, y) = Divided(ty, v, w)
    BY <1>5 DEF arithmetic
  <2>2. Reference!Binary(op, a, b) = Reference!Division("Divide", a, b)
    BY <1>5 DEF Reference!Binary
  <2> QED BY <1>1, <2>1, <2>2, Division DEF a, b
<1>6. CASE op = "Modulo"
  <2>1. arithmetic(op, x, y) = Reduced(ty, v, w)
    BY <1>6 DEF arithmetic
  <2>2. Reference!Binary(op, a, b) = Reference!Division("Modulo", a, b)
    BY <1>6 DEF Reference!Binary
  <2> QED BY <1>1, <2>1, <2>2, Division DEF a, b
<1> QED BY <1>2, <1>3, <1>4, <1>5, <1>6 DEF ArithOp

\* The operators on two operands of any types.
LEMMA OperatorIs ==
  ASSUME NEW x \in IntValue, NEW y \in IntValue, NEW op \in BinaryOp
  PROVE  Agree(eval_int_binary(op, x, y),
               IF Reference!TypeOf(WordOfInt(x)) # Reference!TypeOf(WordOfInt(y))
               THEN Reference!Fail("Type")
               ELSE Reference!Binary(op, WordOfInt(x), WordOfInt(y)))
<1> DEFINE a == WordOfInt(x)
           b == WordOfInt(y)
<1>1. Reference!TypeOf(a) = x.type /\ Reference!TypeOf(b) = y.type
  BY TypeOfWord
<1> HIDE DEF a, b
<1>2. CASE x.type # y.type
  <2>1. eval_int_binary(op, x, y) = Fail("Type")
    BY <1>2 DEF eval_int_binary
  <2> QED BY <1>1, <1>2, <2>1 DEF Agree, Fail, a, b
<1>3. CASE x.type = y.type
  <2>1. CASE op \in ArithOp
    <3>1. eval_int_binary(op, x, y) = arithmetic(op, x, y)
      BY <1>3, <2>1 DEF eval_int_binary, ArithOp, BitwiseOp, ShiftOp
    <3> QED BY <1>1, <1>3, <2>1, <3>1, ArithmeticIs DEF a, b
  <2>2. CASE op \in BitwiseOp
    <3>1. eval_int_binary(op, x, y) = bitwise(op, x, y)
      BY <1>3, <2>2 DEF eval_int_binary, ArithOp, BitwiseOp, ShiftOp
    <3>2. Reference!Binary(op, a, b)
            = Reference!Ok(Reference!With(a, [i \in DOMAIN a.digits |->
                             Reference!Logic(op, a.digits[i], b.digits[i])]))
      BY <2>2 DEF Reference!Binary, BitwiseOp
    <3> QED BY <1>1, <1>3, <2>2, <3>1, <3>2, LogicIs DEF a, b
  <2>3. CASE op \in ShiftOp
    <3>1. eval_int_binary(op, x, y) = shift(op, x, y)
      BY <1>3, <2>3 DEF eval_int_binary, ArithOp, BitwiseOp, ShiftOp
    <3>2. Reference!Binary(op, a, b) = Reference!Shift(op, a, b)
      BY <2>3 DEF Reference!Binary, ShiftOp
    <3> QED BY <1>1, <1>3, <2>3, <3>1, <3>2, Shifts DEF a, b
  <2> QED BY <2>1, <2>2, <2>3 DEF BinaryOp
<1> QED BY <1>2, <1>3

\* The comparisons on two operands of any types.
LEMMA ComparedIs ==
  ASSUME NEW x \in IntValue, NEW y \in IntValue, NEW op \in CompareOp
  PROVE  Agree(compared(op, x, y),
               IF Reference!TypeOf(WordOfInt(x)) # Reference!TypeOf(WordOfInt(y))
               THEN Reference!Fail("Type")
               ELSE Reference!Binary(op, WordOfInt(x), WordOfInt(y)))
<1> DEFINE a == WordOfInt(x)
           b == WordOfInt(y)
<1>1. Reference!TypeOf(a) = x.type /\ Reference!TypeOf(b) = y.type
  BY TypeOfWord
<1> HIDE DEF a, b
<1>2. CASE x.type # y.type
  <2>1. compared(op, x, y) = Fail("Type")
    BY <1>2 DEF compared
  <2> QED BY <1>1, <1>2, <2>1 DEF Agree, Fail, a, b
<1>3. CASE x.type = y.type
  <2>1. compared(op, x, y) = castBool(x.type, compare(op, x, y))
    BY <1>3 DEF compared
  <2>2. Reference!Binary(op, a, b) = Reference!Ok(Reference!Truth(a, Reference!Holds(op, a, b)))
    BY DEF Reference!Binary, CompareOp
  <2> QED BY <1>1, <1>3, <2>1, <2>2, CompareIs DEF a, b
<1> QED BY <1>2, <1>3

-----------------------------------------------------------------------------
\* An operation on words: that of the code on the word of its operand.
TodoOf(t) == IF "rhs" \in DOMAIN t THEN [t EXCEPT !.rhs = WordOfInt(@)] ELSE t

\* An operation with a second operand.
Paired(o, b) == [op |-> o, rhs |-> b]

\* Its second operand is mapped to the word of it.
LEMMA TodoOfPaired ==
  ASSUME NEW o, NEW b
  PROVE  /\ TodoOf(Paired(o, b)) = Paired(o, WordOfInt(b))
         /\ Paired(o, b).op = o /\ Paired(o, b).rhs = b
BY DEF TodoOf, Paired

\* The kinds of operations.
LEMMA Operations ==
  ASSUME NEW t \in Operation, t # Nothing
  PROVE  \/ \E o \in BinaryOp, b \in IntValue : t = Paired(o, b)
         \/ \E o \in CompareOp, b \in IntValue : t = Paired(o, b)
         \/ \E b \in IntValue : t = Paired("FieldLess", b)
         \/ /\ TodoOf(t) = t
            /\ \/ t.op = "Cast" /\ t.to \in IntType
               \/ t.op = "ThroughField" /\ t.to \in IntType
               \/ t.op = "Minus"
               \/ t.op = "Not"
               \/ t.op = "RangeConstraint" /\ t.bits \in 1 .. MaxBits
               \/ t.op = "Limb" /\ LimbTodo(t)
<1>1. CASE \E o \in BinaryOp \cup CompareOp, b \in IntValue : t = [op |-> o, rhs |-> b]
  BY <1>1 DEF Paired
<1>2. CASE \E o \in {"Cast", "ThroughField"}, ty \in IntType : t = [op |-> o, to |-> ty]
  <2>1. PICK o \in {"Cast", "ThroughField"}, ty \in IntType : t = [op |-> o, to |-> ty]
    BY <1>2
  <2>2. "rhs" \notin DOMAIN t /\ t.op = o /\ t.to = ty
    BY <2>1
  <2> QED BY <2>2 DEF TodoOf
<1>3. CASE \E o \in {"Minus", "Not"} : t = [op |-> o]
  <2>1. PICK o \in {"Minus", "Not"} : t = [op |-> o]
    BY <1>3
  <2>2. "rhs" \notin DOMAIN t /\ t.op = o
    BY <2>1
  <2> QED BY <2>2 DEF TodoOf
<1>4. CASE \E b \in IntValue : t = [op |-> "FieldLess", rhs |-> b]
  BY <1>4 DEF Paired
<1>5. CASE \E n \in 1 .. MaxBits : t = [op |-> "RangeConstraint", bits |-> n]
  <2>1. PICK n \in 1 .. MaxBits : t = [op |-> "RangeConstraint", bits |-> n]
    BY <1>5
  <2>2. "rhs" \notin DOMAIN t /\ t.op = "RangeConstraint" /\ t.bits = n
    BY <2>1
  <2> QED BY <2>2 DEF TodoOf
<1>6. CASE \E n \in 1 .. MaxBits :
             t \in [op : {"Limb"}, radix : Radix, big_endian : BOOLEAN, count : {n}, at : 1 .. n]
  <2>1. PICK n \in 1 .. MaxBits :
             t \in [op : {"Limb"}, radix : Radix, big_endian : BOOLEAN, count : {n}, at : 1 .. n]
    BY <1>6
  <2>2. "rhs" \notin DOMAIN t /\ t.op = "Limb"
    BY <2>1
  <2>3. LimbTodo(t)
    BY <2>1 DEF LimbTodo
  <2> QED BY <2>2, <2>3 DEF TodoOf
<1> QED BY <1>1, <1>2, <1>3, <1>4, <1>5, <1>6 DEF Operation

\* What an operation gives on the code's integers is what it gives on words.
LEMMA ResultIs ==
  ASSUME NEW t \in Operation, t # Nothing, NEW x \in IntValue
  PROVE  Agree(result(t, x), Reference!Result(TodoOf(t), WordOfInt(x)))
<1> DEFINE a == WordOfInt(x)
<1> HIDE DEF a
<1>1. CASE \E o \in BinaryOp, b \in IntValue : t = Paired(o, b)
  <2>1. PICK o \in BinaryOp, b \in IntValue : t = Paired(o, b)
    BY <1>1
  <2>2. TodoOf(t) = Paired(o, WordOfInt(b)) /\ t.op = o /\ t.rhs = b
    BY <2>1, TodoOfPaired
  <2>3. result(t, x) = eval_int_binary(o, x, b)
    BY <2>2 DEF result, BinaryOp, CompareOp, ArithOp, BitwiseOp, ShiftOp
  <2> DEFINE s == Paired(o, WordOfInt(b))
  <2>4. s.op = o /\ s.rhs = WordOfInt(b)
    BY TodoOfPaired
  <2> HIDE DEF s
  <2>5. Reference!Result(s, a)
          = IF Reference!TypeOf(a) # Reference!TypeOf(s.rhs) THEN Reference!Fail("Type")
            ELSE Reference!Binary(s.op, a, s.rhs)
    BY <2>4 DEF Reference!Result, BinaryOp, ArithOp, BitwiseOp, ShiftOp
  <2> QED BY <2>2, <2>3, <2>4, <2>5, OperatorIs DEF a, s
<1>2. CASE \E o \in CompareOp, b \in IntValue : t = Paired(o, b)
  <2>1. PICK o \in CompareOp, b \in IntValue : t = Paired(o, b)
    BY <1>2
  <2>2. TodoOf(t) = Paired(o, WordOfInt(b)) /\ t.op = o /\ t.rhs = b
    BY <2>1, TodoOfPaired
  <2>3. result(t, x) = compared(o, x, b)
    BY <2>2 DEF result, BinaryOp, CompareOp, ArithOp, BitwiseOp, ShiftOp
  <2> DEFINE s == Paired(o, WordOfInt(b))
  <2>4. s.op = o /\ s.rhs = WordOfInt(b)
    BY TodoOfPaired
  <2> HIDE DEF s
  <2>5. Reference!Result(s, a)
          = IF Reference!TypeOf(a) # Reference!TypeOf(s.rhs) THEN Reference!Fail("Type")
            ELSE Reference!Binary(s.op, a, s.rhs)
    BY <2>4 DEF Reference!Result, CompareOp
  <2> QED BY <2>2, <2>3, <2>4, <2>5, ComparedIs DEF a, s
<1>3. CASE \E b \in IntValue : t = Paired("FieldLess", b)
  <2>1. PICK b \in IntValue : t = Paired("FieldLess", b)
    BY <1>3
  <2>2. TodoOf(t) = Paired("FieldLess", WordOfInt(b)) /\ t.op = "FieldLess" /\ t.rhs = b
    BY <2>1, TodoOfPaired
  <2>3. result(t, x) = field_less_than(x, b)
    BY <2>2 DEF result, BinaryOp, CompareOp, ArithOp, BitwiseOp, ShiftOp
  <2> DEFINE s == Paired("FieldLess", WordOfInt(b))
  <2>4. s.op = "FieldLess" /\ s.rhs = WordOfInt(b)
    BY TodoOfPaired
  <2> HIDE DEF s
  <2>5. Reference!Result(s, a) = Reference!FieldLess(a, s.rhs)
    BY <2>4 DEF Reference!Result
  <2> QED BY <2>2, <2>3, <2>4, <2>5, FieldLessIs DEF a, s
<1>4. CASE TodoOf(t) = t
  <2>1. CASE t.op = "Cast" /\ t.to \in IntType
    <3>1. result(t, x) = cast(t.to, x)
      BY <2>1 DEF result, BinaryOp, CompareOp, ArithOp, BitwiseOp, ShiftOp
    <3>2. Reference!Result(t, a) = Reference!Ok(Reference!Cast(t.to, a))
      BY <2>1 DEF Reference!Result
    <3> QED BY <1>4, <2>1, <3>1, <3>2, CastIs DEF a
  <2>2. CASE t.op = "ThroughField" /\ t.to \in IntType
    <3>1. result(t, x) = throughField(t.to, x)
      BY <2>2 DEF result, BinaryOp, CompareOp, ArithOp, BitwiseOp, ShiftOp
    <3>2. Reference!Result(t, a) = IF Reference!Embeds(a) THEN Reference!Ok(Reference!Cast(t.to, a))
                                   ELSE Reference!Fail("Type")
      BY <2>2 DEF Reference!Result
    <3> QED BY <1>4, <2>2, <3>1, <3>2, ThroughFieldIs DEF a
  <2>3. CASE t.op = "Minus"
    <3>1. result(t, x) = negate(x)
      BY <2>3 DEF result, BinaryOp, CompareOp, ArithOp, BitwiseOp, ShiftOp
    <3>2. Reference!Result(t, a) = Reference!Minus(Reference!With(a, Reference!Zero(Reference!Width(a))), a)
      BY <2>3 DEF Reference!Result
    <3> QED BY <1>4, <3>1, <3>2, Negate DEF a
  <2>4. CASE t.op = "Not"
    <3>1. result(t, x) = complement(x)
      BY <2>4 DEF result, BinaryOp, CompareOp, ArithOp, BitwiseOp, ShiftOp
    <3>2. Reference!Result(t, a) = Reference!Ok(Reference!With(a, Reference!Flip(a.digits)))
      BY <2>4 DEF Reference!Result
    <3> QED BY <1>4, <3>1, <3>2, Complement DEF a
  <2>5. CASE t.op = "RangeConstraint" /\ t.bits \in 1 .. MaxBits
    <3>1. result(t, x) = apply_range_constraint(t.bits, x)
      BY <2>5 DEF result, BinaryOp, CompareOp, ArithOp, BitwiseOp, ShiftOp
    <3>2. Reference!Result(t, a) = IF ~Reference!Embeds(a) THEN Reference!Fail("Type")
                                   ELSE IF Reference!Clear(a.digits, t.bits) THEN Reference!Ok(a)
                                   ELSE Reference!Fail("AssertionFailed")
      BY <2>5 DEF Reference!Result
    <3>3. t.bits \in Nat
      BY <2>5, WidthAssumption
    <3> QED BY <1>4, <3>1, <3>2, <3>3, RangeIs DEF a
  <2>6. CASE t.op = "Limb" /\ LimbTodo(t)
    <3>1. result(t, x) = limb(t, x)
      BY <2>6 DEF result, BinaryOp, CompareOp, ArithOp, BitwiseOp, ShiftOp
    <3>2. Reference!Result(t, a) = Reference!Limb(t, a)
      BY <2>6 DEF Reference!Result
    <3> QED BY <1>4, <2>6, <3>1, <3>2, LimbIs DEF a
  <2>7. CASE \/ \E o \in BinaryOp, b \in IntValue : t = Paired(o, b)
             \/ \E o \in CompareOp, b \in IntValue : t = Paired(o, b)
             \/ \E b \in IntValue : t = Paired("FieldLess", b)
    BY <1>1, <1>2, <1>3, <2>7
  <2> QED BY <2>1, <2>2, <2>3, <2>4, <2>5, <2>6, <2>7, Operations
<1> QED BY <1>1, <1>2, <1>3, <1>4, Operations

-----------------------------------------------------------------------------
(* Initial states, operations and loops in terms of words.                 *)

\* The words of the values the counter of a loop still has to take.
Indices(ty, l) == [k \in 1 .. (l.end - l.i) |-> WordOf(ty, l.i + k - 1)]

\* A loop at its end has none left.
LEMMA IndicesEmpty ==
  ASSUME NEW ty, NEW l, l.i \in Int, l.end \in Int, l.i >= l.end
  PROVE  Indices(ty, l) = <<>>
<1> DEFINE n == l.end - l.i
           s == Indices(ty, l)
           V == {s[k] : k \in 1 .. n}
<1>1. 1 .. n = {} /\ n \in Int
  OBVIOUS
<1>2. s = [k \in 1 .. n |-> WordOf(ty, l.i + k - 1)]
  BY DEF Indices
<1> HIDE DEF n
<1>3. 1 .. 0 = 1 .. n
  BY <1>1
<1>4. s \in [1 .. 0 -> V]
  BY <1>2, <1>3
<1>5. s \in Seq(V) /\ Len(s) = 0
  <2> HIDE DEF s, V
  <2> QED BY <1>4
<1> QED BY <1>5, EmptySeq

\* An iteration takes the first of them.
LEMMA IndicesNext ==
  ASSUME NEW ty, NEW i \in Int, NEW e \in Int, i < e
  PROVE  LET s == Indices(ty, [i |-> i, end |-> e])
         IN  /\ s # <<>> /\ Head(s) = WordOf(ty, i)
             /\ Tail(s) = Indices(ty, [i |-> i + 1, end |-> e])
<1> DEFINE n == e - i
           s == Indices(ty, [i |-> i, end |-> e])
           V == {WordOf(ty, i + k - 1) : k \in 1 .. n}
           t == Indices(ty, [i |-> i + 1, end |-> e])
<1>1. n \in Nat /\ n >= 1 /\ e - (i + 1) = n - 1 /\ n - 1 \in Nat
  OBVIOUS
<1>2. s = [k \in 1 .. n |-> WordOf(ty, i + k - 1)]
  BY DEF Indices
<1>3. t = [k \in 1 .. (n - 1) |-> WordOf(ty, i + (k + 1) - 1)]
  <2>1. t = [k \in 1 .. (e - (i + 1)) |-> WordOf(ty, (i + 1) + k - 1)]
    BY DEF Indices
  <2>2. \A k \in 1 .. (n - 1) : (i + 1) + k - 1 = i + (k + 1) - 1
    OBVIOUS
  <2> HIDE DEF t
  <2> QED BY <1>1, <2>1, <2>2
<1>4. s \in Seq(V) /\ Len(s) = n /\ \A k \in 1 .. n : s[k] = WordOf(ty, i + k - 1)
  <2>1. s \in [1 .. n -> V]
    BY <1>2
  <2>2. \A k \in 1 .. n : s[k] = WordOf(ty, i + k - 1)
    BY <1>2
  <2> HIDE DEF s, V, n
  <2> QED BY <1>1, <2>1, <2>2
<1>5. s # <<>>
  <2> HIDE DEF s, n
  <2> QED BY <1>1, <1>4
<1>6. Head(s) = WordOf(ty, i)
  <2>1. 1 \in 1 .. n /\ i + 1 - 1 = i
    BY <1>1
  <2> HIDE DEF s, n
  <2>2. Head(s) = s[1]
    BY <1>4, <1>5
  <2> QED BY <1>4, <2>1, <2>2
<1>7. Tail(s) \in Seq(V) /\ Len(Tail(s)) = n - 1 /\ \A k \in 1 .. (n - 1) : Tail(s)[k] = s[k + 1]
  <2> HIDE DEF s, n, V
  <2> QED BY <1>4, <1>5, HeadTailProperties
<1>8. \A k \in 1 .. (n - 1) : Tail(s)[k] = WordOf(ty, i + (k + 1) - 1)
  <2>1. \A k \in 1 .. (n - 1) : k + 1 \in 1 .. n
    BY <1>1
  <2> HIDE DEF s, n, V
  <2> QED BY <1>4, <1>7, <2>1
<1>9. Tail(s) = [k \in 1 .. (n - 1) |-> Tail(s)[k]]
  <2> HIDE DEF s, n, V
  <2> DEFINE u == Tail(s)
  <2>1. u \in Seq(V) /\ Len(u) = n - 1
    BY <1>7
  <2> HIDE DEF u
  <2>2. u \in [1 .. (n - 1) -> V]
    BY <1>1, <2>1
  <2>3. u = [k \in 1 .. (n - 1) |-> u[k]]
    BY <2>2
  <2> QED BY <2>3 DEF u
<1>10. Tail(s) = t
  <2> HIDE DEF s, n, V, t
  <2> QED BY <1>3, <1>8, <1>9
<1> QED BY <1>5, <1>6, <1>10

\* The word of a value is a word.
LEMMA WordIsWord ==
  ASSUME NEW x \in IntValue
  PROVE  WordOfInt(x) \in Reference!Word
<1>1. /\ x.type \in IntType /\ x.type.bits \in 1 .. MaxBits /\ x.type.bits \in Nat
      /\ x.type.signed \in BOOLEAN /\ x.value \in Int
  BY PatternBits, IntTypeIsAny, TypeRange
<1>2. Bits(x.value, x.type.bits) \in [1 .. x.type.bits -> {0, 1}]
  BY <1>1, BitsAreDigits DEF Digits
<1>3. WordOfInt(x) = [signed |-> x.type.signed, digits |-> Bits(x.value, x.type.bits)]
  BY DEF WordOfInt, WordOf, Bits
<1>4. WordOfInt(x) \in [signed : BOOLEAN, digits : Reference!Digits(x.type.bits)]
  BY <1>1, <1>2, <1>3 DEF Reference!Digits, Reference!Bit
<1> QED BY <1>1, <1>4 DEF Reference!Word

\* The operations Words evaluates.
Evaluated(s) ==
  \/ \E op \in Reference!BinaryOp \cup {"FieldLess"}, b \in Reference!Word : s = [op |-> op, rhs |-> b]
  \/ \E op \in {"Cast", "ThroughField"}, ty \in Reference!WordType : s = [op |-> op, to |-> ty]
  \/ \E op \in {"Minus", "Not"} : s = [op |-> op]
  \/ \E n \in 1 .. MaxBits : s = [op |-> "RangeConstraint", bits |-> n]
  \/ \E radix \in Radix, big \in BOOLEAN, n \in 1 .. MaxBits, i \in 1 .. MaxBits :
       i <= n /\ s = [op |-> "Limb", radix |-> radix, big_endian |-> big, count |-> n, at |-> i]

\* The operations the code evaluates are operations on words.
LEMMA EvaluatedIs ==
  ASSUME NEW t \in Operation, t # Nothing
  PROVE  Evaluated(TodoOf(t)) /\ TodoOf(t) # Reference!Nothing
<1>0. Reference!WordType = IntType
  BY DEF Reference!WordType, IntType
<1>1. ASSUME NEW o \in BinaryOp \cup CompareOp \cup {"FieldLess"}, NEW b \in IntValue, t = Paired(o, b)
      PROVE  Evaluated(TodoOf(t)) /\ TodoOf(t) # Reference!Nothing
  <2>1. TodoOf(t) = Paired(o, WordOfInt(b))
    BY <1>1, TodoOfPaired
  <2>2. WordOfInt(b) \in Reference!Word
    BY WordIsWord
  <2>3. o \in Reference!BinaryOp \cup {"FieldLess"}
    BY DEF Reference!BinaryOp, BinaryOp, CompareOp, ArithOp, BitwiseOp, ShiftOp
  <2>4. Evaluated(Paired(o, WordOfInt(b)))
    BY <2>2, <2>3 DEF Evaluated, Paired
  <2>5. Paired(o, WordOfInt(b)) # Reference!Nothing
    <3>1. "rhs" \in DOMAIN Paired(o, WordOfInt(b))
      BY DEF Paired
    <3>2. "rhs" \notin DOMAIN Reference!Nothing
      BY DEF Reference!Nothing
    <3> QED BY <3>1, <3>2
  <2> QED BY <2>1, <2>4, <2>5
<1>2. CASE \E o \in {"Cast", "ThroughField"}, ty \in IntType : t = [op |-> o, to |-> ty]
  <2>1. PICK o \in {"Cast", "ThroughField"}, ty \in IntType : t = [op |-> o, to |-> ty]
    BY <1>2
  <2>2. "rhs" \notin DOMAIN t /\ "to" \in DOMAIN t /\ "to" \notin DOMAIN Reference!Nothing
    BY <2>1 DEF Reference!Nothing
  <2>3. TodoOf(t) = t /\ t # Reference!Nothing
    BY <2>2 DEF TodoOf
  <2> QED BY <1>0, <2>1, <2>3 DEF Evaluated
<1>3. CASE \E o \in {"Minus", "Not"} : t = [op |-> o]
  <2>1. PICK o \in {"Minus", "Not"} : t = [op |-> o]
    BY <1>3
  <2>2. "rhs" \notin DOMAIN t /\ t.op # "Nothing" /\ Reference!Nothing.op = "Nothing"
    BY <2>1 DEF Reference!Nothing
  <2>3. TodoOf(t) = t /\ t # Reference!Nothing
    BY <2>2 DEF TodoOf
  <2> QED BY <2>1, <2>3 DEF Evaluated
<1>4. CASE \E n \in 1 .. MaxBits : t = [op |-> "RangeConstraint", bits |-> n]
  <2>1. PICK n \in 1 .. MaxBits : t = [op |-> "RangeConstraint", bits |-> n]
    BY <1>4
  <2>2. "rhs" \notin DOMAIN t /\ t.op # "Nothing" /\ Reference!Nothing.op = "Nothing"
    BY <2>1 DEF Reference!Nothing
  <2>3. TodoOf(t) = t /\ t # Reference!Nothing
    BY <2>2 DEF TodoOf
  <2> QED BY <2>1, <2>3 DEF Evaluated
<1>5. CASE \E n \in 1 .. MaxBits :
             t \in [op : {"Limb"}, radix : Radix, big_endian : BOOLEAN, count : {n}, at : 1 .. n]
  <2>1. PICK n \in 1 .. MaxBits :
             t \in [op : {"Limb"}, radix : Radix, big_endian : BOOLEAN, count : {n}, at : 1 .. n]
    BY <1>5
  <2>2. "rhs" \notin DOMAIN t /\ t.op # "Nothing" /\ Reference!Nothing.op = "Nothing"
    BY <2>1 DEF Reference!Nothing
  <2>3. TodoOf(t) = t /\ t # Reference!Nothing
    BY <2>2 DEF TodoOf
  <2>4. t = [op |-> "Limb", radix |-> t.radix, big_endian |-> t.big_endian, count |-> n, at |-> t.at]
    BY <2>1
  <2>5. t.radix \in Radix /\ t.big_endian \in BOOLEAN /\ t.at \in 1 .. n
    BY <2>1
  <2>6. t.at \in 1 .. MaxBits /\ t.at <= n
    BY <2>5, WidthAssumption
  <2> QED BY <2>3, <2>4, <2>5, <2>6 DEF Evaluated
<1>6. CASE \E o \in BinaryOp \cup CompareOp, b \in IntValue : t = [op |-> o, rhs |-> b]
  BY <1>1, <1>6 DEF Paired
<1>7. CASE \E b \in IntValue : t = [op |-> "FieldLess", rhs |-> b]
  BY <1>1, <1>7 DEF Paired
<1> QED BY <1>2, <1>3, <1>4, <1>5, <1>6, <1>7 DEF Operation

\* No operation is no operation on words.
LEMMA TodoOfNothing == TodoOf(Nothing) = Reference!Nothing
<1>1. "rhs" \notin DOMAIN Nothing
  BY DEF Nothing
<1> QED BY <1>1 DEF TodoOf, Nothing, Reference!Nothing

\* The refinement mapping of the operation and the loop, in this state.
LEMMA Mapped == todoOfWords = TodoOf(todo) /\ indices = Indices(acc.type, loop)
BY DEF todoOfWords, TodoOf, indices, Indices

\* The same in the next state.
LEMMA MappedNext == todoOfWords' = TodoOf(todo') /\ indices' = Indices(acc'.type, loop')
BY DEF todoOfWords, TodoOf, indices, Indices

\* No loop has no words left.
LEMMA NoIndices ==
  ASSUME NEW ty
  PROVE  Indices(ty, NoLoop) = <<>>
<1>1. NoLoop.i \in Int /\ NoLoop.end \in Int /\ NoLoop.i >= NoLoop.end
  BY DEF NoLoop
<1> QED BY <1>1, IndicesEmpty

\* An initial value is an initial word.
LEMMA WordsInit == Init => Reference!Init
<1> SUFFICES ASSUME Init PROVE Reference!Init
  OBVIOUS
<1>1. WordOfInt(acc) \in Reference!Word
  BY WordIsWord DEF Init
<1>2. todoOfWords = Reference!Nothing
  BY Mapped, TodoOfNothing DEF Init
<1>3. indices = <<>>
  BY Mapped, NoIndices DEF Init
<1> QED BY <1>1, <1>2, <1>3 DEF Init, Reference!Init

-----------------------------------------------------------------------------
(* The refinement, step by step.                                           *)

\* Evaluating operands evaluates the operation on words.
LEMMA WordsEvaluate ==
  ASSUME IntInv, Evaluate
  PROVE  Reference!Evaluate
<1>1. /\ todo' \in Operation /\ todo' # Nothing
      /\ acc' = acc /\ loop' = loop /\ outcome' = outcome
  BY DEF Evaluate
<1>2. Evaluated(todoOfWords')
  BY <1>1, EvaluatedIs, MappedNext
<1>3. WordOfInt(acc)' = WordOfInt(acc) /\ indices' = indices
  BY <1>1, Mapped, MappedNext DEF WordOfInt, WordOf
<1> QED BY <1>1, <1>2, <1>3 DEF Evaluated, Reference!Evaluate

\* Applying an operation applies it to the word, with the same error.
LEMMA WordsApply ==
  ASSUME IntInv, Apply
  PROVE  Reference!Apply
<1>1. acc \in IntValue /\ todo \in Operation /\ todo # Nothing /\ todo' = Nothing /\ loop' = loop /\ loop = NoLoop
  BY DEF IntInv, Apply
<1> DEFINE r == result(todo, acc)
           w == Reference!Result(todoOfWords, WordOfInt(acc))
<1>2. todoOfWords # Reference!Nothing /\ todoOfWords' = Reference!Nothing
  BY <1>1, EvaluatedIs, TodoOfNothing, Mapped, MappedNext
<1>3. Agree(r, w)
  BY <1>1, ResultIs, Mapped
<1>4. IF r.ok THEN acc' = r.int /\ outcome' = outcome ELSE outcome' = r.error /\ acc' = acc
  BY DEF Apply
<1> HIDE DEF r, w
<1>5. indices = <<>> /\ indices' = <<>>
  BY <1>1, NoIndices, Mapped, MappedNext
<1>6. CASE r.ok
  <2>1. w = Reference!Ok(WordOfInt(r.int))
    BY <1>3, <1>6 DEF Agree
  <2>2. w.ok /\ w.word = WordOfInt(r.int)
    BY <2>1 DEF Reference!Ok
  <2>3. WordOfInt(acc)' = w.word /\ outcome' = outcome
    BY <1>4, <1>6, <2>2 DEF WordOfInt, WordOf
  <2> QED BY <1>2, <1>5, <2>2, <2>3 DEF Reference!Apply, w
<1>7. CASE ~r.ok
  <2>1. w = Reference!Fail(r.error)
    BY <1>3, <1>7 DEF Agree
  <2>2. ~w.ok /\ w.error = r.error
    BY <2>1 DEF Reference!Fail
  <2>3. WordOfInt(acc)' = WordOfInt(acc) /\ outcome' = w.error
    BY <1>4, <1>7, <2>2 DEF WordOfInt, WordOf
  <2> QED BY <1>2, <1>5, <2>2, <2>3 DEF Reference!Apply, w
<1> QED BY <1>6, <1>7

\* Entering a loop takes the words from the first index to the end.
LEMMA WordsEnterFor ==
  ASSUME IntInv, EnterFor
  PROVE  Reference!EnterFor
<1> DEFINE ty == acc.type
           v == acc.value
<1>1. PICK b \in IntValueOf(ty), inclusive \in BOOLEAN :
        loop' = [i |-> v, end |-> IF inclusive THEN b.value + 1 ELSE b.value]
  BY DEF EnterFor
<1>2. /\ outcome = "ok" /\ todo = Nothing /\ loop = NoLoop
      /\ acc' = acc /\ todo' = todo /\ outcome' = outcome
  BY DEF EnterFor, Idle
<1>3. ty \in IntType /\ InRange(ty, v) /\ WordOfInt(acc) = WordOf(ty, v)
  BY PatternBits DEF IntInv
<1> DEFINE u == b.value
           e == IF inclusive THEN u + 1 ELSE u
           a == WordOfInt(acc)
<1>4. u \in least(ty) .. greatest(ty) /\ InRange(ty, u)
  BY DEF IntValueOf, InRange
<1>5. indices = <<>> /\ todoOfWords = Reference!Nothing /\ todoOfWords' = todoOfWords
  BY <1>2, NoIndices, TodoOfNothing, Mapped, MappedNext
<1>6. indices' = Indices(ty, [i |-> v, end |-> e])
  BY <1>1, <1>2, MappedNext
<1>7. Indices(ty, [i |-> v, end |-> e]) = [k \in 1 .. (e - v) |-> WordOf(ty, v + k - 1)]
  BY DEF Indices
<1>8. Reference!WordsFrom(WordOf(ty, v), WordOf(ty, u), inclusive)
        = [k \in 1 .. (e - v) |-> WordOf(ty, v + k - 1)]
  <2> HIDE DEF ty, v, u
  <2> QED BY <1>3, <1>4, WordsFromIs
<1>9. WordOf(ty, u) \in Reference!Same(a)
  BY <1>3, <1>4, SameIs
<1>10. a' = a
  BY <1>2 DEF WordOfInt, WordOf
<1> HIDE DEF a, e, u, ty, v
<1>11. indices' = Reference!WordsFrom(a, WordOf(ty, u), inclusive)
  BY <1>3, <1>6, <1>7, <1>8 DEF a
<1>12. \E x \in Reference!Same(a), incl \in BOOLEAN : indices' = Reference!WordsFrom(a, x, incl)
  BY <1>9, <1>11
<1> QED BY <1>2, <1>5, <1>10, <1>12 DEF Reference!EnterFor, a

\* An iteration binds the next word, and may break.
LEMMA WordsIterate ==
  ASSUME IntInv, Iterate
  PROVE  Reference!Iterate
<1> DEFINE ty == acc.type
           i == loop.i
           e == loop.end
<1>1. /\ i < e /\ acc' = canonical(ty, i)
      /\ loop' = [loop EXCEPT !.i = @ + 1] \/ loop' = NoLoop
      /\ todo' = todo /\ outcome' = outcome
  BY DEF Iterate
<1>2. ty \in IntType /\ i \in Int /\ e \in Int /\ loop = [i |-> i, end |-> e]
  BY PatternBits DEF IntInv, LoopInRange
<1>3. acc'.type = ty /\ WordOfInt(acc)' = WordOf(ty, i)
  <2>1. WordOfInt(canonical(ty, i)) = WordOf(ty, i)
    BY <1>2, CanonicalWord
  <2>2. WordOfInt(acc)' = WordOfInt(acc')
    BY DEF WordOfInt, WordOf
  <2>3. canonical(ty, i).type = ty
    BY DEF canonical
  <2> QED BY <1>1, <2>1, <2>2, <2>3
<1>4. /\ indices # <<>> /\ Head(indices) = WordOf(ty, i)
      /\ Tail(indices) = Indices(ty, [i |-> i + 1, end |-> e])
  <2>1. indices = Indices(ty, [i |-> i, end |-> e])
    BY <1>2, Mapped
  <2> HIDE DEF i, e, ty
  <2> QED BY <1>1, <1>2, <2>1, IndicesNext
<1>5. indices' \in {Tail(indices), <<>>}
  <2>1. indices' = Indices(ty, loop')
    BY <1>3, MappedNext
  <2>2. CASE loop' = [loop EXCEPT !.i = @ + 1]
    <3>1. loop' = [i |-> i + 1, end |-> e]
      <4> HIDE DEF i, e
      <4>1. loop' = [[i |-> i, end |-> e] EXCEPT !.i = @ + 1]
        BY <1>2, <2>2
      <4> QED BY <4>1
    <3> QED BY <1>4, <2>1, <3>1
  <2>3. CASE loop' = NoLoop
    BY <2>1, <2>3, NoIndices
  <2> QED BY <1>1, <2>2, <2>3
<1>6. todoOfWords' = todoOfWords
  BY <1>1, Mapped, MappedNext
<1> QED BY <1>1, <1>3, <1>4, <1>5, <1>6 DEF Reference!Iterate

\* Leaving a loop that has counted to its end is no step of Words.
LEMMA WordsLeaveFor ==
  ASSUME IntInv, LeaveFor
  PROVE  Reference!vars' = Reference!vars
<1>1. /\ loop.i >= loop.end /\ loop' = NoLoop /\ acc' = acc /\ todo' = todo /\ outcome' = outcome
  BY DEF LeaveFor
<1>2. loop.i \in Int /\ loop.end \in Int
  BY DEF IntInv, LoopInRange
<1>3. indices = <<>> /\ indices' = <<>>
  BY <1>1, <1>2, NoIndices, IndicesEmpty, Mapped, MappedNext
<1>4. WordOfInt(acc)' = WordOfInt(acc) /\ todoOfWords' = todoOfWords
  BY <1>1, Mapped, MappedNext DEF WordOfInt, WordOf
<1> QED BY <1>1, <1>3, <1>4 DEF Reference!vars

\* Every step of the integers is a step of Words or a stutter.
LEMMA WordsStep == IntInv /\ [Next]_vars => [Reference!Next]_Reference!vars
<1> SUFFICES ASSUME IntInv, [Next]_vars PROVE [Reference!Next]_Reference!vars
  OBVIOUS
<1>1. CASE Evaluate
  BY <1>1, WordsEvaluate DEF Reference!Next
<1>2. CASE Apply
  BY <1>2, WordsApply DEF Reference!Next
<1>3. CASE EnterFor
  BY <1>3, WordsEnterFor DEF Reference!Next
<1>4. CASE Iterate
  BY <1>4, WordsIterate DEF Reference!Next
<1>5. CASE LeaveFor
  BY <1>5, WordsLeaveFor
<1>6. CASE UNCHANGED vars
  <2>1. acc' = acc /\ todo' = todo /\ loop' = loop /\ outcome' = outcome
    BY <1>6 DEF vars
  <2>2. WordOfInt(acc)' = WordOfInt(acc) /\ todoOfWords' = todoOfWords /\ indices' = indices
    BY <2>1, Mapped, MappedNext DEF WordOfInt, WordOf
  <2> QED BY <2>1, <2>2 DEF Reference!vars
<1> QED BY <1>1, <1>2, <1>3, <1>4, <1>5, <1>6 DEF Next

\* Unbounded integers, wrapped into their type, implement the operations on
\* two's-complement words at every width: operators, casts, the intrinsics on
\* Field elements and for loops, errors included.
THEOREM WordsImplemented == Spec => ImplementsWords
<1>1. Init => Reference!Init
  BY WordsInit
<1>2. IntInv /\ [Next]_vars => [Reference!Next]_Reference!vars
  BY WordsStep
<1> QED BY <1>1, <1>2, IntInvHolds, PTL DEF Spec, ImplementsWords, Reference!Spec
=============================================================================
