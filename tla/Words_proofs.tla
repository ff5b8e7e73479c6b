---------------------------- MODULE Words_proofs ----------------------------
(***************************************************************************)
(* What the number of a word is, for words of any size: facts about powers *)
(* of two, about the value of a set of bits and about the bits of a number *)
(* that the proofs about instructions rest on.                             *)
(***************************************************************************)
EXTENDS Words, WellFoundedInduction, TLAPS

(* A set of numbers that is not empty has a least element.                 *)
LEMMA LeastOf ==
    ASSUME NEW S \in SUBSET Nat, S # {}
    PROVE  \E x \in S : \A y \in S : x <= y
<1> DEFINE R == {ss \in Nat \X Nat : ss[1] < ss[2]}
<1>1. R = OpToRel(<, Nat)
  BY Zenon DEF OpToRel
<1>2. IsWellFoundedOn(R, Nat)
  BY <1>1, NatLessThanWellFounded, Zenon
<1>3. PICK x \in S : \A y \in S : ~(<<y, x>> \in R)
  <2> HIDE DEF R
  <2>1. QED  BY <1>2, WFMin, Zenon
<1>4. \A y \in S : ~(y < x)
  BY <1>3
<1>5. QED
  BY <1>4

(* Induction, the property given as the set of the numbers that have it.   *)
LEMMA Inductive ==
    ASSUME NEW S \in SUBSET Nat, 0 \in S, \A k \in Nat : k \in S => k + 1 \in S
    PROVE  S = Nat
<1>1. SUFFICES ASSUME Nat \ S # {} PROVE FALSE
  OBVIOUS
<1>2. PICK x \in Nat \ S : \A y \in Nat \ S : x <= y
  BY <1>1, LeastOf
<1>3. x - 1 \in Nat /\ x - 1 \notin Nat \ S
  BY <1>2
<1>4. x - 1 + 1 \in S
  BY <1>3
<1>5. QED
  BY <1>2, <1>4

(* A function on the numbers may be defined by its first value and a step. *)
Recursive(f, c, h, n) ==
    f \in [0..n -> Nat] /\ f[0] = c /\ \A k \in 0..(n - 1) : f[k + 1] = h[<<k, f[k]>>]

LEMMA RecursiveOnce ==
    ASSUME NEW h \in [Nat \X Nat -> Nat], NEW c \in Nat,
           NEW f, NEW g, NEW m \in Nat, NEW n \in Nat,
           Recursive(f, c, h, m), Recursive(g, c, h, n)
    PROVE  \A k \in Nat : k <= m /\ k <= n => f[k] = g[k]
<1> DEFINE S == {k \in Nat : k <= m /\ k <= n => f[k] = g[k]}
<1>1. 0 \in S
  BY DEF Recursive
<1>2. \A k \in Nat : k \in S => k + 1 \in S
  <2> SUFFICES ASSUME NEW k \in Nat, k \in S, k + 1 <= m, k + 1 <= n
               PROVE  f[k + 1] = g[k + 1]
    OBVIOUS
  <2>1. f[k] = g[k] /\ k \in 0..(m - 1) /\ k \in 0..(n - 1)
    OBVIOUS
  <2>2. QED
    BY <2>1 DEF Recursive
<1>3. S = Nat
  <2> HIDE DEF S
  <2>1. S \in SUBSET Nat
    BY DEF S
  <2>2. QED
    BY <1>1, <1>2, <2>1, Inductive
<1>4. QED
  BY <1>3

LEMMA RecursiveUpTo ==
    ASSUME NEW h \in [Nat \X Nat -> Nat], NEW c \in Nat
    PROVE  \A n \in Nat : \E f : Recursive(f, c, h, n)
<1> DEFINE S == {n \in Nat : \E f : Recursive(f, c, h, n)}
<1>1. 0 \in S
  <2>1. Recursive([k \in 0..0 |-> c], c, h, 0)
    BY DEF Recursive
  <2>2. QED
    BY <2>1
<1>2. \A n \in Nat : n \in S => n + 1 \in S
  <2> SUFFICES ASSUME NEW n \in Nat, n \in S PROVE \E f : Recursive(f, c, h, n + 1)
    OBVIOUS
  <2>1. PICK f : Recursive(f, c, h, n)
    OBVIOUS
  <2> DEFINE g == [k \in 0..(n + 1) |-> IF k <= n THEN f[k] ELSE h[<<n, f[n]>>]]
  <2>2. f \in [0..n -> Nat] /\ f[n] \in Nat
    BY <2>1 DEF Recursive
  <2>3. h[<<n, f[n]>>] \in Nat
    BY <2>2
  <2>4. g \in [0..(n + 1) -> Nat]
    BY <2>2, <2>3
  <2>5. g[0] = c
    BY <2>1 DEF Recursive
  <2>6. ASSUME NEW k \in 0..(n + 1 - 1) PROVE g[k + 1] = h[<<k, g[k]>>]
    <3>1. CASE k = n
      <4>1. g[n + 1] = h[<<n, f[n]>>] /\ g[n] = f[n]
        OBVIOUS
      <4> HIDE DEF g
      <4>2. QED  BY <3>1, <4>1
    <3>2. CASE k \in 0..(n - 1)
      <4>1. f[k + 1] = h[<<k, f[k]>>]
        BY <2>1, <3>2 DEF Recursive
      <4>2. g[k + 1] = f[k + 1] /\ g[k] = f[k]
        BY <3>2
      <4>3. QED
        BY <4>1, <4>2
    <3>3. QED
      BY <3>1, <3>2
  <2>7. Recursive(g, c, h, n + 1)
    <3> HIDE DEF g
    <3>1. QED  BY <2>4, <2>5, <2>6 DEF Recursive
  <2>8. QED
    BY <2>7
<1>3. S = Nat
  <2> HIDE DEF S
  <2>1. S \in SUBSET Nat
    BY DEF S
  <2>2. QED
    BY <1>1, <1>2, <2>1, Inductive
<1>4. QED
  BY <1>3

LEMMA RecursiveFunction ==
    ASSUME NEW h \in [Nat \X Nat -> Nat], NEW c \in Nat
    PROVE  \E f \in [Nat -> Nat] :
              f[0] = c /\ \A k \in Nat : f[k + 1] = h[<<k, f[k]>>]
<1> DEFINE F(n) == CHOOSE f : Recursive(f, c, h, n)
           g == [n \in Nat |-> F(n)[n]]
<1>1. \A n \in Nat : Recursive(F(n), c, h, n)
  <2> SUFFICES ASSUME NEW n \in Nat PROVE Recursive(F(n), c, h, n)
    OBVIOUS
  <2>1. \E f : Recursive(f, c, h, n)
    BY RecursiveUpTo
  <2>2. QED
    BY <2>1
<1> HIDE DEF F
<1>2. \A n \in Nat : F(n)[n] \in Nat
  BY <1>1 DEF Recursive
<1>3. g \in [Nat -> Nat]
  BY <1>2
<1>4. g[0] = c
  BY <1>1 DEF Recursive
<1>5. ASSUME NEW k \in Nat PROVE g[k + 1] = h[<<k, g[k]>>]
  <2>1. Recursive(F(k), c, h, k) /\ Recursive(F(k + 1), c, h, k + 1)
    BY <1>1
  <2>2. \A i \in Nat : i <= k /\ i <= k + 1 => F(k)[i] = F(k + 1)[i]
    BY <2>1, RecursiveOnce, k + 1 \in Nat
  <2>3. F(k)[k] = F(k + 1)[k]
    BY <2>2
  <2>4. F(k + 1)[k + 1] = h[<<k, F(k + 1)[k]>>]
    BY <2>1 DEF Recursive
  <2>5. QED
    BY <2>3, <2>4
<1>6. QED
  <2> HIDE DEF g
  <2>1. QED  BY <1>3, <1>4, <1>5

-----------------------------------------------------------------------------
(* Division and congruence.                                              *)
LEMMA DivMod ==
    ASSUME NEW a \in Int, NEW m \in Nat \ {0}
    PROVE  /\ a \div m \in Int /\ a % m \in 0..(m - 1)
           /\ a = (a \div m) * m + (a % m)
  OBVIOUS

LEMMA DivisionOnce ==
    ASSUME NEW m \in Nat \ {0}, NEW q \in Int, NEW p \in Int,
           NEW r \in 0..(m - 1), NEW s \in 0..(m - 1), q * m + r = p * m + s
    PROVE  q = p /\ r = s
<1>1. ASSUME NEW x \in Int, NEW y \in Int, x < y,
             NEW u \in 0..(m - 1), NEW v \in 0..(m - 1), x * m + u = y * m + v
      PROVE  FALSE
  <2>1. PICK j \in Nat : y = x + 1 + j
    <3>1. y - x - 1 \in Nat /\ y = x + 1 + (y - x - 1)
      BY <1>1
    <3>2. QED
      BY <3>1
  <2>2. y * m = x * m + m + j * m /\ j * m \in Nat /\ x * m \in Int
    BY <2>1
  <2>3. QED
    BY <1>1, <2>2
<1>2. ~(q < p)
  BY <1>1
<1>3. ~(p < q)
  BY <1>1
<1>4. q = p
  BY <1>2, <1>3
<1>5. QED
  <2>1. q * m \in Int
    OBVIOUS
  <2>2. QED
    BY <1>4, <2>1

LEMMA DivisionIs ==
    ASSUME NEW m \in Nat \ {0}, NEW q \in Int, NEW r \in 0..(m - 1),
           NEW a \in Int, a = q * m + r
    PROVE  a \div m = q /\ a % m = r
  BY DivMod, DivisionOnce

Congruent(a, b, m) == \E q \in Int : a = b + q * m

LEMMA CongruentMod ==
    ASSUME NEW m \in Nat \ {0}, NEW a \in Int, NEW b \in Int, Congruent(a, b, m)
    PROVE  a % m = b % m
<1>1. PICK q \in Int : a = b + q * m
  BY DEF Congruent
<1>2. PICK p \in Int, r \in 0..(m - 1) : b = p * m + r /\ r = b % m
  BY DivMod
<1>3. a = (q + p) * m + r /\ q + p \in Int
  <2>1. (q + p) * m = q * m + p * m /\ q * m \in Int /\ p * m \in Int
    OBVIOUS
  <2>2. QED
    BY <1>1, <1>2, <2>1
<1>4. PICK k \in Int : k = q + p
  BY <1>3
<1>5. a = k * m + r
  BY <1>3, <1>4
<1>6. a % m = r
  BY <1>5, DivisionIs
<1>7. QED
  BY <1>2, <1>6

LEMMA ModCongruent ==
    ASSUME NEW m \in Nat \ {0}, NEW a \in Int
    PROVE  Congruent(a, a % m, m) /\ Congruent(a % m, a, m)
<1>1. PICK p \in Int, r \in 0..(m - 1) : a = p * m + r /\ r = a % m
  BY DivMod
<1>2. a = r + p * m /\ r = a + (-p) * m /\ -p \in Int
  <2>1. p * m \in Int /\ (-p) * m = -(p * m)
    OBVIOUS
  <2>2. QED
    BY <1>1, <2>1
<1>3. QED
  BY <1>1, <1>2 DEF Congruent

LEMMA CongruentSelf ==
    ASSUME NEW a \in Int, NEW m \in Int
    PROVE  Congruent(a, a, m)
<1>1. a = a + 0 * m
  OBVIOUS
<1>2. QED
  BY <1>1 DEF Congruent

LEMMA CongruentBack ==
    ASSUME NEW m \in Int, NEW a \in Int, NEW b \in Int, Congruent(a, b, m)
    PROVE  Congruent(b, a, m)
<1>1. PICK q \in Int : a = b + q * m
  BY DEF Congruent
<1>2. b = a + (-q) * m /\ -q \in Int
  <2>1. q * m \in Int /\ (-q) * m = -(q * m)
    OBVIOUS
  <2>2. QED
    BY <1>1, <2>1
<1>3. QED
  BY <1>2 DEF Congruent

LEMMA CongruentAll ==
    ASSUME NEW m \in Int, NEW a \in Int, NEW b \in Int, NEW c \in Int,
           Congruent(a, b, m), Congruent(b, c, m)
    PROVE  Congruent(a, c, m)
<1>1. PICK q \in Int : a = b + q * m
  BY DEF Congruent
<1>2. PICK p \in Int : b = c + p * m
  BY DEF Congruent
<1>3. a = c + (q + p) * m /\ q + p \in Int
  <2>1. q * m \in Int /\ p * m \in Int /\ (q + p) * m = q * m + p * m
    OBVIOUS
  <2>2. QED
    BY <1>1, <1>2, <2>1
<1>4. QED
  BY <1>3 DEF Congruent

LEMMA CongruentSum ==
    ASSUME NEW m \in Int, NEW a \in Int, NEW b \in Int, NEW c \in Int, NEW d \in Int,
           Congruent(a, b, m), Congruent(c, d, m)
    PROVE  Congruent(a + c, b + d, m) /\ Congruent(a - c, b - d, m)
<1>1. PICK q \in Int : a = b + q * m
  BY DEF Congruent
<1>2. PICK p \in Int : c = d + p * m
  BY DEF Congruent
<1>3. /\ q * m \in Int /\ p * m \in Int
      /\ (q + p) * m = q * m + p * m /\ (q - p) * m = q * m - p * m
  OBVIOUS
<1>4. a + c = b + d + (q + p) * m /\ a - c = b - d + (q - p) * m
  BY <1>1, <1>2, <1>3
<1>5. q + p \in Int /\ q - p \in Int
  OBVIOUS
<1>6. QED
  BY <1>4, <1>5 DEF Congruent

LEMMA CongruentProduct ==
    ASSUME NEW m \in Int, NEW a \in Int, NEW b \in Int, NEW c \in Int, NEW d \in Int,
           Congruent(a, b, m), Congruent(c, d, m)
    PROVE  Congruent(a * c, b * d, m)
<1>1. PICK q \in Int : a = b + q * m
  BY DEF Congruent
<1>2. PICK p \in Int : c = d + p * m
  BY DEF Congruent
<1>3. a * c = b * d + (b * p + q * d + q * p * m) * m
  <2>1. a * c = (b + q * m) * (d + p * m)
    BY <1>1, <1>2
  <2>2. (b + q * m) * (d + p * m) = b * d + (b * p + q * d + q * p * m) * m
    OBVIOUS
  <2>3. QED
    BY <2>1, <2>2
<1>4. b * p + q * d + q * p * m \in Int
  OBVIOUS
<1>5. QED
  BY <1>3, <1>4 DEF Congruent

(* What is congruent for a modulus is so for its divisors.                 *)
LEMMA CongruentDivisor ==
    ASSUME NEW m \in Int, NEW k \in Int, NEW a \in Int, NEW b \in Int,
           Congruent(a, b, m * k)
    PROVE  Congruent(a, b, m)
<1>1. PICK q \in Int : a = b + q * (m * k)
  BY DEF Congruent
<1>2. q * (m * k) = (q * k) * m /\ q * k \in Int
  OBVIOUS
<1>3. QED
  BY <1>1, <1>2 DEF Congruent

(* A quotient of quotients.                                                *)
LEMMA DivisionTwice ==
    ASSUME NEW a \in Int, NEW m \in Nat \ {0}, NEW n \in Nat \ {0}
    PROVE  (a \div m) \div n = a \div (m * n)
<1>1. PICK p \in Int, r \in 0..(m - 1) : a = p * m + r /\ p = a \div m
  BY DivMod
<1>2. PICK q \in Int, s \in 0..(n - 1) : p = q * n + s /\ q = p \div n
  BY DivMod
<1>3. a = q * (m * n) + (s * m + r)
  <2>1. p * m = q * (m * n) + s * m
    <3>1. p * m = (q * n + s) * m
      BY <1>2
    <3>2. (q * n + s) * m = q * (m * n) + s * m
      OBVIOUS
    <3>3. QED
      BY <3>1, <3>2
  <2>2. q * (m * n) \in Int /\ s * m \in Int
    OBVIOUS
  <2>3. QED
    BY <1>1, <2>1, <2>2
<1>4. s * m + r \in 0..(m * n - 1)
  <2>1. PICK j \in Nat : n = s + 1 + j
    <3>1. n - s - 1 \in Nat /\ n = s + 1 + (n - s - 1)
      OBVIOUS
    <3>2. QED
      BY <3>1
  <2>2. m * n = s * m + m + j * m /\ s * m \in Nat /\ j * m \in Nat
    BY <2>1
  <2>3. QED
    BY <2>2
<1>5. m * n \in Nat \ {0}
  OBVIOUS
<1>6. a \div (m * n) = q
  <2> DEFINE r2 == s * m + r
             mn == m * n
  <2>1. a = q * mn + r2 /\ r2 \in 0..(mn - 1) /\ mn \in Nat \ {0}
    BY <1>3, <1>4, <1>5
  <2> HIDE DEF r2, mn
  <2>2. a \div mn = q
    BY <2>1, DivisionIs
  <2>3. QED
    BY <2>2 DEF mn
<1>7. QED
  BY <1>1, <1>2, <1>6

-----------------------------------------------------------------------------
(* Powers of two.                                                          *)
LEMMA PowerIs ==
    /\ Power \in [Nat -> Nat] /\ Power[0] = 1
    /\ \A n \in Nat : Power[n + 1] = 2 * Power[n]
<1> DEFINE h == [kx \in Nat \X Nat |-> 2 * kx[2]]
           Step(f) == [n \in Nat |-> IF n = 0 THEN 1 ELSE 2 * f[n - 1]]
<1>1. h \in [Nat \X Nat -> Nat]
  OBVIOUS
<1>2. \A k, x \in Nat : h[<<k, x>>] = 2 * x
  OBVIOUS
<1> HIDE DEF h
<1>3. PICK f \in [Nat -> Nat] : f[0] = 1 /\ \A k \in Nat : f[k + 1] = h[<<k, f[k]>>]
  <2>1. 1 \in Nat
    OBVIOUS
  <2>2. QED
    BY <1>1, <2>1, RecursiveFunction, Zenon
<1>4. \A k \in Nat : f[k + 1] = 2 * f[k]
  BY <1>2, <1>3
<1>5. f = Step(f)
  <2>1. ASSUME NEW n \in Nat PROVE f[n] = Step(f)[n]
    <3>1. CASE n = 0
      BY <1>3, <3>1
    <3>2. CASE n # 0
      <4>1. n - 1 \in Nat /\ n - 1 + 1 = n
        BY <3>2
      <4>2. QED
        BY <1>4, <4>1, <3>2
    <3>3. QED
      BY <3>1, <3>2
  <2>2. Step(f) = [n \in Nat |-> Step(f)[n]]
    OBVIOUS
  <2>3. f = [n \in Nat |-> f[n]]
    BY <1>3
  <2> HIDE DEF Step
  <2>4. QED
    BY <2>1, <2>2, <2>3
<1>6. Power = Step(Power)
  <2>1. Power = CHOOSE g : g = Step(g)
    BY DEF Power
  <2> HIDE DEF Step
  <2>2. QED
    BY <1>5, <2>1
<1>7. Power[0] = 1
  <2>1. Step(Power)[0] = 1
    OBVIOUS
  <2>2. QED
    BY <1>6, <2>1
<1>8. ASSUME NEW n \in Nat PROVE Power[n + 1] = 2 * Power[n]
  <2>1. Step(Power)[n + 1] = 2 * Power[n]
    OBVIOUS
  <2>2. QED
    BY <1>6, <2>1
<1>9. \A n \in Nat : Power[n] \in Nat
  <2> DEFINE S == {n \in Nat : Power[n] \in Nat}
  <2>1. 0 \in S
    BY <1>7
  <2>2. \A n \in Nat : n \in S => n + 1 \in S
    BY <1>8
  <2>3. S = Nat
    <3>1. S \in SUBSET Nat
      OBVIOUS
    <3> HIDE DEF S
    <3>2. QED
      BY <2>1, <2>2, <3>1, Inductive
  <2>4. QED
    BY <2>3
<1>10. Power = [n \in Nat |-> Power[n]]
  <2>1. Step(Power) = [n \in Nat |-> Step(Power)[n]]
    OBVIOUS
  <2> HIDE DEF Step
  <2>2. QED
    BY <1>6, <2>1
<1>11. QED
  BY <1>7, <1>8, <1>9, <1>10

LEMMA PowerPositive == \A n \in Nat : Power[n] \in Nat \ {0}
<1> DEFINE S == {n \in Nat : Power[n] \in Nat \ {0}}
<1>1. 0 \in S
  BY PowerIs
<1>2. \A n \in Nat : n \in S => n + 1 \in S
  BY PowerIs
<1>3. S = Nat
  <2>1. S \in SUBSET Nat
    OBVIOUS
  <2> HIDE DEF S
  <2>2. QED
    BY <1>1, <1>2, <2>1, Inductive
<1>4. QED
  BY <1>3

LEMMA PowerSum ==
    ASSUME NEW m \in Nat, NEW n \in Nat
    PROVE  Power[m + n] = Power[m] * Power[n]
<1> DEFINE S == {k \in Nat : Power[m + k] = Power[m] * Power[k]}
<1>1. 0 \in S
  BY PowerIs
<1>2. ASSUME NEW k \in Nat, k \in S PROVE k + 1 \in S
  <2>1. PICK x \in Nat, y \in Nat, z \in Nat :
           x = Power[m] /\ y = Power[k] /\ z = Power[m + k]
    BY PowerIs, m + k \in Nat
  <2>2. z = x * y
    BY <1>2, <2>1
  <2>3. Power[m + k + 1] = 2 * z /\ Power[k + 1] = 2 * y /\ m + k + 1 = m + (k + 1)
    BY <2>1, PowerIs, m + k \in Nat
  <2>4. x * (2 * y) = 2 * (x * y)
    OBVIOUS
  <2>5. QED
    BY <2>1, <2>2, <2>3, <2>4
<1>3. S = Nat
  <2>1. S \in SUBSET Nat
    OBVIOUS
  <2> HIDE DEF S
  <2>2. QED
    BY <1>1, <1>2, <2>1, Inductive
<1>4. QED
  BY <1>3

LEMMA PowerGrows ==
    ASSUME NEW m \in Nat, NEW n \in Nat
    PROVE  /\ m <= n => Power[m] <= Power[n]
           /\ m < n => 2 * Power[m] <= Power[n]
<1>1. ASSUME NEW i \in Nat, NEW j \in Nat PROVE Power[i] <= Power[i + j]
  <2>1. PICK x \in Nat, y \in Nat \ {0} : x = Power[i] /\ y = Power[j]
    BY PowerPositive
  <2>2. x <= x * y
    OBVIOUS
  <2>3. QED
    BY <2>1, <2>2, PowerSum
<1>2. ASSUME m <= n PROVE Power[m] <= Power[n]
  <2>1. n - m \in Nat /\ m + (n - m) = n
    BY <1>2
  <2>2. QED
    BY <1>1, <2>1
<1>3. ASSUME m < n PROVE 2 * Power[m] <= Power[n]
  <2>1. n - (m + 1) \in Nat /\ m + 1 + (n - (m + 1)) = n /\ m + 1 \in Nat
    BY <1>3
  <2>2. Power[m + 1] <= Power[n]
    BY <1>1, <2>1
  <2>3. QED
    BY <2>2, PowerIs
<1>4. QED
  BY <1>2, <1>3
-----------------------------------------------------------------------------
(* Words.                                                                  *)
LEMMA Sizes ==
    /\ ByteBits \in Nat \ {0} /\ Piece = 2 * ByteBits
    /\ Half32 = 4 * ByteBits /\ Dword = 8 * ByteBits
<1>1. LogDword - 3 \in Nat /\ LogDword - 3 + 1 \in Nat /\ LogDword - 3 + 1 + 1 \in Nat
      /\ LogDword = LogDword - 3 + 1 + 1 + 1
  BY LogDwordAssumption
<1>2. PICK x \in Nat \ {0} : x = Power[LogDword - 3]
  BY <1>1, PowerPositive
<1>3. Power[LogDword - 3 + 1 + 1 + 1] = 2 * (2 * (2 * x))
  BY <1>1, <1>2, PowerIs
<1>4. Dword = 8 * x
  BY <1>1, <1>3 DEF Dword
<1>5. QED
  BY <1>4 DEF Half32, Piece, ByteBits

LEMMA DwordNat == Dword \in Nat /\ Half32 \in Nat /\ Half32 < Dword /\ Half32 > 0
  BY Sizes

(* The sum of the weights of the bits below k.                             *)
LEMMA SumsIs ==
    ASSUME NEW a
    PROVE  /\ Sums(a) \in [0..Dword -> Nat] /\ Sums(a)[0] = 0
           /\ \A k \in 0..(Dword - 1) :
                 Sums(a)[k + 1] = Sums(a)[k] + (IF k \in a THEN Power[k] ELSE 0)
<1> DEFINE h == [kx \in Nat \X Nat |-> kx[2] + (IF kx[1] \in a THEN Power[kx[1]] ELSE 0)]
           Step(f) == [k \in 0..Dword |->
               IF k = 0 THEN 0
               ELSE f[k - 1] + (IF k - 1 \in a THEN Power[k - 1] ELSE 0)]
<1>1. h \in [Nat \X Nat -> Nat]
  BY PowerIs
<1>2. \A k, x \in Nat : h[<<k, x>>] = x + (IF k \in a THEN Power[k] ELSE 0)
  OBVIOUS
<1> HIDE DEF h
<1>3. PICK f \in [Nat -> Nat] : f[0] = 0 /\ \A k \in Nat : f[k + 1] = h[<<k, f[k]>>]
  <2>1. 0 \in Nat
    OBVIOUS
  <2>2. QED
    BY <1>1, <2>1, RecursiveFunction, Zenon
<1>4. \A k \in Nat : f[k + 1] = f[k] + (IF k \in a THEN Power[k] ELSE 0)
  BY <1>2, <1>3
<1> DEFINE g == [k \in 0..Dword |-> f[k]]
<1>5. g = Step(g)
  <2>1. ASSUME NEW n \in 0..Dword PROVE g[n] = Step(g)[n]
    <3>1. CASE n = 0
      BY <1>3, <3>1
    <3>2. CASE n # 0
      <4>1. n - 1 \in Nat /\ n - 1 \in 0..Dword /\ n - 1 + 1 = n
        BY <3>2, DwordNat
      <4>2. f[n] = f[n - 1] + (IF n - 1 \in a THEN Power[n - 1] ELSE 0)
        BY <1>4, <4>1
      <4>3. g[n] = f[n] /\ g[n - 1] = f[n - 1]
        BY <4>1
      <4> HIDE DEF g
      <4>4. QED
        BY <3>2, <4>2, <4>3
    <3>3. QED
      BY <3>1, <3>2
  <2>2. Step(g) = [n \in 0..Dword |-> Step(g)[n]]
    OBVIOUS
  <2>3. g = [n \in 0..Dword |-> g[n]]
    OBVIOUS
  <2> HIDE DEF Step, g
  <2>4. QED
    BY <2>1, <2>2, <2>3
<1>6. Sums(a) = Step(Sums(a))
  <2>1. Sums(a) = CHOOSE s : s = Step(s)
    BY DEF Sums
  <2> HIDE DEF Step, g
  <2>2. QED
    BY <1>5, <2>1
<1>7. Sums(a)[0] = 0
  <2>1. Step(Sums(a))[0] = 0
    BY DwordNat
  <2>2. QED
    BY <1>6, <2>1
<1>8. ASSUME NEW k \in 0..(Dword - 1)
      PROVE  Sums(a)[k + 1] = Sums(a)[k] + (IF k \in a THEN Power[k] ELSE 0)
  <2>1. k + 1 \in 0..Dword /\ k + 1 # 0 /\ k + 1 - 1 = k
    BY DwordNat
  <2>2. Step(Sums(a))[k + 1] = Sums(a)[k] + (IF k \in a THEN Power[k] ELSE 0)
    BY <2>1
  <2>3. QED
    BY <1>6, <2>2
<1>9. \A k \in Nat : k <= Dword => Sums(a)[k] \in Nat
  <2> DEFINE S == {k \in Nat : k <= Dword => Sums(a)[k] \in Nat}
  <2>1. 0 \in S
    BY <1>7
  <2>2. ASSUME NEW k \in Nat, k \in S PROVE k + 1 \in S
    <3>1. SUFFICES ASSUME k + 1 <= Dword PROVE Sums(a)[k + 1] \in Nat
      OBVIOUS
    <3>2. k \in 0..(Dword - 1) /\ Sums(a)[k] \in Nat /\ Power[k] \in Nat
      BY <2>2, <3>1, DwordNat, PowerIs
    <3>3. QED
      BY <1>8, <3>2
  <2>3. S = Nat
    <3>1. S \in SUBSET Nat
      OBVIOUS
    <3> HIDE DEF S
    <3>2. QED
      BY <2>1, <2>2, <3>1, Inductive
  <2>4. QED
    BY <2>3
<1>10. Sums(a) \in [0..Dword -> Nat]
  <2>1. Step(Sums(a)) = [n \in 0..Dword |-> Step(Sums(a))[n]]
    OBVIOUS
  <2> HIDE DEF Step
  <2>2. Sums(a) = [n \in 0..Dword |-> Sums(a)[n]]
    BY <1>6, <2>1
  <2>3. \A n \in 0..Dword : Sums(a)[n] \in Nat
    BY <1>9, DwordNat
  <2>4. QED
    BY <2>2, <2>3
<1>11. QED
  BY <1>7, <1>8, <1>10

LEMMA SumsNat ==
    ASSUME NEW a, NEW n \in 0..Dword
    PROVE  Sums(a)[n] \in Nat /\ n \in Nat /\ n <= Dword /\ Sums(a)[0] = 0
<1>1. Sums(a) \in [0..Dword -> Nat] /\ Sums(a)[0] = 0
  BY SumsIs
<1>2. QED
  BY <1>1, DwordNat

LEMMA ValueNat == \A a : Value(a) \in Nat
  BY SumsIs, DwordNat DEF Value

(* Words that have the same bits below k.                                  *)
LEMMA SumsSame ==
    ASSUME NEW a, NEW b, NEW n \in 0..Dword, \A i \in 0..(n - 1) : i \in a <=> i \in b
    PROVE  Sums(a)[n] = Sums(b)[n]
<1> DEFINE S == {k \in Nat : k <= n => Sums(a)[k] = Sums(b)[k]}
<1>1. 0 \in S
  BY SumsIs
<1>2. ASSUME NEW k \in Nat, k \in S PROVE k + 1 \in S
  <2>1. SUFFICES ASSUME k + 1 <= n PROVE Sums(a)[k + 1] = Sums(b)[k + 1]
    OBVIOUS
  <2>2. k \in 0..(Dword - 1) /\ k \in 0..(n - 1) /\ Sums(a)[k] = Sums(b)[k]
    BY <1>2, <2>1, DwordNat
  <2>3. (k \in a) <=> (k \in b)
    BY <2>2
  <2>4. QED
    BY <2>2, <2>3, SumsIs
<1>3. S = Nat
  <2>1. S \in SUBSET Nat
    OBVIOUS
  <2> HIDE DEF S
  <2>2. QED
    BY <1>1, <1>2, <2>1, Inductive
<1>4. QED
  BY <1>3

LEMMA SumsBelow ==
    ASSUME NEW a, NEW n \in 0..Dword
    PROVE  Sums(a)[n] \in 0..(Power[n] - 1)
<1> DEFINE S == {k \in Nat : k <= Dword => Sums(a)[k] < Power[k]}
<1>1. 0 \in S
  <2>1. Sums(a)[0] = 0
    BY SumsIs
  <2>2. QED
    BY <2>1, PowerIs
<1>2. ASSUME NEW k \in Nat, k \in S PROVE k + 1 \in S
  <2>1. SUFFICES ASSUME k + 1 <= Dword PROVE Sums(a)[k + 1] < Power[k + 1]
    OBVIOUS
  <2>2. k \in 0..(Dword - 1) /\ k \in 0..Dword
    BY <2>1, DwordNat
  <2>3. PICK s \in Nat, p \in Nat : s = Sums(a)[k] /\ p = Power[k] /\ s < p
    <3>1. Sums(a)[k] \in Nat /\ Power[k] \in Nat
      BY <2>2, SumsNat, PowerIs
    <3>2. QED
      BY <1>2, <2>2, <3>1
  <2>4. Power[k + 1] = 2 * p
    BY <2>3, PowerIs
  <2>5. Sums(a)[k + 1] = s + (IF k \in a THEN p ELSE 0)
    BY <2>2, <2>3, SumsIs
  <2>6. QED
    BY <2>3, <2>4, <2>5
<1>3. S = Nat
  <2>1. S \in SUBSET Nat
    OBVIOUS
  <2> HIDE DEF S
  <2>2. QED
    BY <1>1, <1>2, <2>1, Inductive
<1>4. n \in Nat /\ n <= Dword
  BY DwordNat
<1>5. Sums(a)[n] < Power[n]
  BY <1>3, <1>4
<1>6. Sums(a)[n] \in Nat /\ Power[n] \in Nat
  BY <1>4, SumsNat, PowerIs
<1>7. QED
  BY <1>5, <1>6

(* The bits from m on weigh a multiple of 2^m.                             *)
LEMMA SumsAbove ==
    ASSUME NEW a, NEW m \in 0..Dword, NEW n \in 0..Dword, m <= n
    PROVE  \E q \in Nat : Sums(a)[n] = Sums(a)[m] + q * Power[m]
<1> DEFINE Q(k) == \E q \in Nat : Sums(a)[k] = Sums(a)[m] + q * Power[m]
           S == {j \in Nat : m + j <= Dword => Q(m + j)}
<1>0. m \in Nat /\ Power[m] \in Nat /\ Sums(a)[m] \in Nat
  <2>1. m \in Nat /\ Sums(a)[m] \in Nat
    BY SumsNat
  <2>2. QED
    BY <2>1, PowerIs
<1>1. 0 \in S
  <2>1. Sums(a)[m] = Sums(a)[m] + 0 * Power[m] /\ m + 0 = m
    BY <1>0
  <2>2. QED
    BY <2>1
<1>2. ASSUME NEW j \in Nat, j \in S PROVE j + 1 \in S
  <2>1. SUFFICES ASSUME m + (j + 1) <= Dword PROVE Q(m + (j + 1))
    OBVIOUS
  <2>2. m + j \in 0..(Dword - 1) /\ m + (j + 1) = (m + j) + 1 /\ Q(m + j)
    BY <1>0, <1>2, <2>1, DwordNat
  <2>3. PICK q \in Nat : Sums(a)[m + j] = Sums(a)[m] + q * Power[m]
    BY <2>2
  <2>4. PICK x \in Nat, y \in Nat, z \in Nat : x = Power[m] /\ y = Power[j] /\ z = Sums(a)[m]
    BY <1>0, PowerIs
  <2>5. Power[m + j] = y * x
    <3>1. x * y = y * x
      OBVIOUS
    <3>2. QED
      BY <1>0, <2>4, <3>1, PowerSum
  <2>6. Sums(a)[(m + j) + 1] = z + q * x + (IF m + j \in a THEN y * x ELSE 0)
    <3>1. PICK k \in 0..(Dword - 1) : k = m + j
      BY <2>2
    <3>2. Sums(a)[k + 1] = Sums(a)[k] + (IF k \in a THEN Power[k] ELSE 0)
      BY SumsIs
    <3>3. Power[k] = y * x /\ Sums(a)[k] = z + q * x
      BY <2>3, <2>4, <2>5, <3>1
    <3>4. QED
      BY <3>1, <3>2, <3>3
  <2>7. CASE m + j \in a
    <3>1. z + q * x + y * x = z + (q + y) * x /\ q + y \in Nat
      OBVIOUS
    <3>2. Sums(a)[m + (j + 1)] = z + (q + y) * x
      BY <2>2, <2>6, <2>7, <3>1
    <3>3. QED
      BY <2>4, <3>1, <3>2
  <2>8. CASE m + j \notin a
    <3>0. q * x \in Nat
      OBVIOUS
    <3>1. Sums(a)[m + (j + 1)] = z + q * x
      BY <2>2, <2>6, <2>8, <3>0
    <3>2. QED
      BY <2>4, <3>1
  <2>9. QED
    BY <2>7, <2>8
<1>3. S = Nat
  <2>1. S \in SUBSET Nat
    OBVIOUS
  <2> HIDE DEF S
  <2>2. QED
    BY <1>1, <1>2, <2>1, Inductive
<1>4. n - m \in Nat /\ m + (n - m) = n /\ n <= Dword
  BY DwordNat
<1>5. Q(m + (n - m))
  <2>1. n - m \in S
    BY <1>3, <1>4
  <2> HIDE DEF Q
  <2>2. QED
    BY <1>4, <2>1
<1>6. QED
  BY <1>4, <1>5

(* Cutting a word at n is taking its number modulo 2^n.                    *)
LEMMA CutValue ==
    ASSUME NEW a, NEW n \in 0..Dword
    PROVE  /\ Value({i \in a : i < n}) = Sums(a)[n]
           /\ Value(a) % Power[n] = Sums(a)[n]
<1>0. n \in Nat /\ n <= Dword /\ Dword \in 0..Dword /\ Dword \in Nat
  BY DwordNat
<1> DEFINE b == {i \in a : i < n}
           S == {j \in Nat : n + j <= Dword => Sums(b)[n + j] = Sums(a)[n]}
<1>1. 0 \in S
  <2>1. \A i \in 0..(n - 1) : i \in a <=> i \in b
    BY <1>0
  <2>2. Sums(a)[n] = Sums(b)[n]
    <3> HIDE DEF b
    <3>1. QED  BY <2>1, SumsSame
  <2> HIDE DEF b
  <2>3. QED
    BY <1>0, <2>2
<1>2. ASSUME NEW j \in Nat, j \in S PROVE j + 1 \in S
  <2>1. SUFFICES ASSUME n + (j + 1) <= Dword PROVE Sums(b)[n + (j + 1)] = Sums(a)[n]
    OBVIOUS
  <2>2. n + j \in 0..(Dword - 1) /\ n + (j + 1) = (n + j) + 1 /\ n + j <= Dword
    BY <1>0, <2>1
  <2>3. n + j \notin b
    BY <1>0
  <2>4. Sums(b)[n + j] = Sums(a)[n] /\ Sums(a)[n] \in Nat
    BY <1>2, <2>2, SumsNat
  <2> HIDE DEF b
  <2>5. QED
    BY <2>2, <2>3, <2>4, SumsIs
<1>3. S = Nat
  <2>1. S \in SUBSET Nat
    OBVIOUS
  <2> HIDE DEF S
  <2>2. QED
    BY <1>1, <1>2, <2>1, Inductive
<1>4. Value(b) = Sums(a)[n]
  <2>1. Dword - n \in Nat /\ n + (Dword - n) = Dword
    BY <1>0
  <2>2. Sums(b)[n + (Dword - n)] = Sums(a)[n]
    <3>1. Dword - n \in S
      BY <1>3, <2>1
    <3> HIDE DEF b
    <3>2. QED
      BY <1>0, <2>1, <3>1
  <2> HIDE DEF b
  <2>3. QED
    BY <2>1, <2>2 DEF Value
<1>5. PICK q \in Nat : Sums(a)[Dword] = Sums(a)[n] + q * Power[n]
  BY <1>0, SumsAbove
<1>6. PICK r \in Nat, p \in Nat \ {0} : r = Sums(a)[n] /\ p = Power[n] /\ r \in 0..(p - 1)
  BY <1>0, SumsBelow, PowerPositive
<1>7. Value(a) = q * p + r /\ Value(a) \in Int
  <2>1. q * p \in Int
    OBVIOUS
  <2>2. QED
    BY <1>5, <1>6, <2>1 DEF Value
<1>8. Value(a) % p = r
  <2>1. PICK q1 \in Int, r1 \in 0..(p - 1), x \in Int :
          q1 = q /\ r1 = r /\ x = Value(a) /\ x = q1 * p + r1
    BY <1>6, <1>7
  <2>2. x % p = r1
    BY <2>1, DivisionIs
  <2>3. QED
    BY <2>1, <2>2
<1>9. QED
  BY <1>4, <1>6, <1>8

LEMMA ValueRange == \A a : Value(a) \in 0..(Power[Dword] - 1)
  BY SumsBelow, DwordNat DEF Value

(* A word without bits below n is a multiple of 2^n, and its quotient has  *)
(* the bits above as its lowest ones.                                      *)
LEMMA BitOfValue ==
    ASSUME NEW a, NEW i \in 0..(Dword - 1)
    PROVE  (Value(a) \div Power[i]) % 2 = IF i \in a THEN 1 ELSE 0
<1>1. /\ i \in 0..Dword /\ i + 1 \in 0..Dword /\ Dword \in 0..Dword
      /\ i \in Nat /\ i + 1 <= Dword
  BY DwordNat
<1>2. PICK q \in Nat : Sums(a)[Dword] = Sums(a)[i + 1] + q * Power[i + 1]
  BY <1>1, SumsAbove
<1>3. PICK p \in Nat \ {0} : p = Power[i] /\ Power[i + 1] = 2 * p
  BY <1>1, PowerPositive, PowerIs
<1>4. PICK r \in 0..(p - 1) : r = Sums(a)[i]
  BY <1>1, <1>3, SumsBelow
<1>5. PICK bit \in 0..1 : bit = IF i \in a THEN 1 ELSE 0
  OBVIOUS
<1>6. Sums(a)[i + 1] = r + bit * p
  BY <1>3, <1>4, <1>5, SumsIs
<1>7. Value(a) = (2 * q + bit) * p + r
  <2>1. (2 * q + bit) * p = q * (2 * p) + bit * p /\ q * (2 * p) \in Int /\ bit * p \in Int
    OBVIOUS
  <2>2. QED
    BY <1>2, <1>3, <1>6, <2>1 DEF Value
<1>8. Value(a) \div p = 2 * q + bit
  <2>1. PICK k \in Int : k = 2 * q + bit
    OBVIOUS
  <2>2. PICK v \in Int : v = Value(a) /\ v = k * p + r
    BY <1>7, <2>1
  <2>3. v \div p = k
    BY <2>2, DivisionIs
  <2>4. QED
    BY <2>1, <2>2, <2>3
<1>9. (2 * q + bit) % 2 = bit
  OBVIOUS
<1>10. QED
  BY <1>3, <1>5, <1>8, <1>9

(* A word is given by its number.                                          *)
LEMMA BitsetValue == \A a : Bitset(Value(a)) = a \cap Bits
  BY BitOfValue, DwordNat DEF Bitset, Bits

LEMMA ValueBitset ==
    ASSUME NEW v \in Int, NEW n \in 0..Dword
    PROVE  Sums(Bitset(v))[n] = v % Power[n]
<1> DEFINE S == {k \in Nat : k <= Dword => Sums(Bitset(v))[k] = v % Power[k]}
<1>1. 0 \in S
  <2>1. v % 1 = 0
    OBVIOUS
  <2>2. QED
    BY <2>1, SumsIs, PowerIs
<1>2. ASSUME NEW k \in Nat, k \in S PROVE k + 1 \in S
  <2>1. SUFFICES ASSUME k + 1 <= Dword PROVE Sums(Bitset(v))[k + 1] = v % Power[k + 1]
    OBVIOUS
  <2>2. k \in 0..(Dword - 1) /\ k \in Bits /\ k <= Dword
    BY <2>1, DwordNat DEF Bits
  <2>3. PICK p \in Nat \ {0} : p = Power[k] /\ Power[k + 1] = 2 * p
    BY PowerPositive, PowerIs
  <2>4. PICK q \in Int, r \in 0..(p - 1) : v = q * p + r /\ q = v \div p /\ r = v % p
    BY <2>3, DivMod
  <2>5. PICK h \in Int, bit \in 0..1 : q = h * 2 + bit /\ bit = q % 2
    <3>1. q = (q \div 2) * 2 + (q % 2) /\ q \div 2 \in Int /\ q % 2 \in 0..1
      OBVIOUS
    <3>2. QED
      BY <3>1
  <2>6. v = h * (2 * p) + (bit * p + r)
    <3>1. q * p = h * (2 * p) + bit * p
      <4>1. (h * 2 + bit) * p = h * (2 * p) + bit * p
        OBVIOUS
      <4>2. QED
        BY <2>5, <4>1
    <3>2. h * (2 * p) \in Int /\ bit * p \in Int
      OBVIOUS
    <3>3. QED
      BY <2>4, <3>1, <3>2
  <2>7. bit * p + r \in 0..(2 * p - 1)
    <3>1. bit * p = 0 \/ bit * p = p
      BY bit = 0 \/ bit = 1
    <3>2. QED
      BY <3>1
  <2>8. v % (2 * p) = bit * p + r
    <3>1. PICK m \in Nat \ {0} : m = 2 * p
      OBVIOUS
    <3>2. PICK s \in 0..(m - 1) : s = bit * p + r
      BY <2>7, <3>1
    <3>3. v = h * m + s
      BY <2>6, <3>1, <3>2
    <3>4. v % m = s
      BY <3>3, DivisionIs
    <3>5. QED
      BY <3>1, <3>2, <3>4
  <2>9. k \in Bitset(v) <=> bit = 1
    BY <2>2, <2>3, <2>4, <2>5 DEF Bitset
  <2>10. Sums(Bitset(v))[k] = r
    BY <1>2, <2>2, <2>3, <2>4
  <2>11. Sums(Bitset(v))[k + 1] = r + (IF k \in Bitset(v) THEN p ELSE 0)
    BY <2>2, <2>3, <2>10, SumsIs
  <2>12. bit * p + r = r + (IF bit = 1 THEN p ELSE 0)
    BY bit = 0 \/ bit = 1
  <2>13. QED
    BY <2>3, <2>8, <2>9, <2>11, <2>12
<1>3. S = Nat
  <2>1. S \in SUBSET Nat
    OBVIOUS
  <2> HIDE DEF S
  <2>2. QED
    BY <1>1, <1>2, <2>1, Inductive
<1>4. n \in Nat /\ n <= Dword
  BY DwordNat
<1>5. n \in S
  BY <1>3, <1>4
<1>6. QED
  BY <1>4, <1>5

(* The lowest n bits of a number are its remainder.                        *)
LEMMA LowBits ==
    ASSUME NEW v \in Int, NEW n \in 0..Dword
    PROVE  Bitset(v % Power[n]) = {i \in Bitset(v) : i < n}
<1> DEFINE b == Bitset(v)
<1>1. v % Power[n] = Value({i \in b : i < n})
  BY ValueBitset, CutValue
<1>2. {i \in b : i < n} \cap Bits = {i \in b : i < n}
  BY DEF Bitset
<1>3. QED
  BY <1>1, <1>2, BitsetValue

(* Words of numbers that are congruent agree.                              *)
LEMMA BitsetCongruent ==
    ASSUME NEW u \in Int, NEW v \in Int, NEW n \in 0..Dword, Congruent(u, v, Power[n])
    PROVE  {i \in Bitset(u) : i < n} = {i \in Bitset(v) : i < n}
<1>1. n \in Nat /\ Power[n] \in Nat \ {0}
  BY DwordNat, PowerPositive
<1>2. u % Power[n] = v % Power[n]
  BY <1>1, CongruentMod
<1>3. QED
  BY <1>2, LowBits

-----------------------------------------------------------------------------
(* The numbers of words that operations produce.                           *)
LEMMA OnlyBitsCount ==
    ASSUME NEW n \in 0..Dword, NEW a \in SUBSET (0..(n - 1))
    PROVE  Value(a) = Sums(a)[n]
<1>1. {i \in a : i < n} = a
  <2>1. \A i \in a : i < n
    <3>1. SUFFICES ASSUME NEW i \in a PROVE i < n
      OBVIOUS
    <3>2. i \in 0..(n - 1) /\ n \in Nat
      BY SumsNat
    <3>3. QED
      BY <3>2
  <2>2. QED
    BY <2>1
<1>2. QED
  BY <1>1, CutValue

LEMMA NoBits ==
    ASSUME NEW n \in 0..Dword
    PROVE  Sums({})[n] = 0 /\ Value({}) = 0
<1>1. Value({i \in {} : i < n}) = Sums({})[n]
  BY CutValue
<1>2. 0 \in 0..Dword
  BY DwordNat
<1>3. Value({i \in {} : i < 0}) = Sums({})[0]
  BY <1>2, CutValue
<1>4. {i \in {} : i < n} = {} /\ {i \in {} : i < 0} = {}
  OBVIOUS
<1>5. Sums({})[0] = 0
  BY SumsIs
<1>6. QED
  BY <1>1, <1>3, <1>4, <1>5

LEMMA AllOnes ==
    ASSUME NEW a, NEW m \in 0..Dword, NEW n \in 0..Dword, m <= n,
           \A i \in m..(n - 1) : i \in a
    PROVE  Sums(a)[n] = Sums(a)[m] + Power[n] - Power[m]
<1> DEFINE S == {j \in Nat : m + j <= n =>
                    Sums(a)[m + j] = Sums(a)[m] + Power[m + j] - Power[m]}
<1>0. m \in Nat /\ n \in Nat /\ n <= Dword /\ Sums(a)[m] \in Nat /\ Power[m] \in Nat
  <2>1. m \in Nat /\ n \in Nat /\ n <= Dword /\ Sums(a)[m] \in Nat
    BY SumsNat
  <2>2. QED
    BY <2>1, PowerIs
<1>1. 0 \in S
  <2>1. m + 0 = m
    BY <1>0
  <2>2. QED
    BY <1>0, <2>1
<1>2. ASSUME NEW j \in Nat, j \in S PROVE j + 1 \in S
  <2>1. SUFFICES ASSUME m + (j + 1) <= n
                 PROVE  Sums(a)[m + (j + 1)] = Sums(a)[m] + Power[m + (j + 1)] - Power[m]
    OBVIOUS
  <2>2. /\ m + j \in 0..(Dword - 1) /\ m + (j + 1) = (m + j) + 1 /\ m + j \in Nat
        /\ m + j \in m..(n - 1) /\ m + j <= n
    <3>1. \A x, y, z, d \in Nat : x + (y + 1) <= z /\ z <= d =>
             /\ x + y \in 0..(d - 1) /\ x + (y + 1) = (x + y) + 1 /\ x + y \in Nat
             /\ x + y \in x..(z - 1) /\ x + y <= z
      OBVIOUS
    <3>2. QED
      BY <1>0, <2>1, <3>1, DwordNat
  <2>3. m + j \in a
    BY <2>2
  <2>4. Sums(a)[m + j] = Sums(a)[m] + Power[m + j] - Power[m] /\ Power[m + j] \in Nat
    BY <1>2, <2>2, PowerIs
  <2>5. Sums(a)[(m + j) + 1] = Sums(a)[m + j] + Power[m + j]
    BY <2>2, <2>3, SumsIs
  <2>6. Power[(m + j) + 1] = 2 * Power[m + j]
    BY <2>2, PowerIs
  <2>7. QED
    BY <1>0, <2>2, <2>4, <2>5, <2>6
<1>3. S = Nat
  <2>1. S \in SUBSET Nat
    OBVIOUS
  <2> HIDE DEF S
  <2>2. QED
    BY <1>1, <1>2, <2>1, Inductive
<1>4. n - m \in Nat /\ m + (n - m) = n
  BY <1>0
<1>5. n - m \in S
  BY <1>3, <1>4
<1>6. QED
  BY <1>0, <1>4, <1>5

(* The bit t is the sign of the numbers with t + 1 bits.                   *)
LEMMA TopBit ==
    ASSUME NEW t \in 0..(Dword - 1), NEW a \in SUBSET (0..t)
    PROVE  t \in a <=> Value(a) >= Power[t]
<1>1. t \in 0..Dword /\ t + 1 \in 0..Dword /\ t \in Nat
  BY DwordNat
<1>2. a \in SUBSET (0..(t + 1 - 1))
  BY <1>1
<1>3. Value(a) = Sums(a)[t + 1]
  BY <1>1, <1>2, OnlyBitsCount
<1>4. Sums(a)[t + 1] = Sums(a)[t] + (IF t \in a THEN Power[t] ELSE 0)
  BY SumsIs
<1>5. PICK p \in Nat : p = Power[t]
  BY <1>1, PowerIs
<1>6. PICK r \in 0..(p - 1) : r = Sums(a)[t]
  BY <1>1, <1>5, SumsBelow
<1>7. QED
  BY <1>3, <1>4, <1>5, <1>6

(* Extending the sign of a number below 2^(t+1) subtracts 2^(t+1) from the *)
(* ones that have it, modulo the word.                                     *)
LEMMA SignedExtendValue ==
    ASSUME NEW t \in 0..(Dword - 1), NEW a \in SUBSET (0..t)
    PROVE  Congruent(Value(SignedExtend(a, t)),
                     IF t \in a THEN Value(a) - Power[t + 1] ELSE Value(a),
                     Power[Dword])
<1>1. /\ t \in 0..Dword /\ t + 1 \in 0..Dword /\ t \in Nat /\ t + 1 \in Nat
      /\ Dword \in 0..Dword /\ t + 1 <= Dword /\ Dword \in Nat
  BY DwordNat
<1>2. Value(a) \in Nat /\ Power[Dword] \in Nat /\ Power[t + 1] \in Nat
  BY <1>1, ValueNat, PowerIs
<1>3. CASE t \notin a
  <2>1. SignedExtend(a, t) = a
    BY <1>3 DEF SignedExtend
  <2>2. QED
    BY <1>2, <1>3, <2>1, CongruentSelf
<1>4. CASE t \in a
  <2> DEFINE b == SignedExtend(a, t)
  <2>1. b = a \cup {i \in Bits : i >= t}
    BY <1>4 DEF SignedExtend
  <2>2. \A i \in (t + 1)..(Dword - 1) : i \in b
    BY <1>1, <2>1 DEF Bits
  <2>3. \A i \in 0..(t + 1 - 1) : i \in b <=> i \in a
    <3>1. SUFFICES ASSUME NEW i \in 0..(t + 1 - 1), i \in b PROVE i \in a
      BY <2>1
    <3>2. CASE i = t
      BY <1>4, <3>2
    <3>3. CASE i # t
      <4>1. ~(i >= t)
        BY <1>1, <3>3
      <4>2. QED
        BY <2>1, <3>1, <4>1
    <3>4. QED
      BY <3>2, <3>3
  <2> HIDE DEF b
  <2>4. Sums(b)[Dword] = Sums(b)[t + 1] + Power[Dword] - Power[t + 1]
    BY <1>1, <2>2, AllOnes
  <2>5. Sums(b)[t + 1] = Sums(a)[t + 1]
    BY <1>1, <2>3, SumsSame
  <2>6. a \in SUBSET (0..(t + 1 - 1))
    BY <1>1
  <2>7. Sums(a)[t + 1] = Value(a)
    BY <1>1, <2>6, OnlyBitsCount
  <2>8. Value(b) = (Value(a) - Power[t + 1]) + 1 * Power[Dword]
    BY <1>2, <2>4, <2>5, <2>7 DEF Value
  <2>9. QED
    BY <1>4, <2>8 DEF b, Congruent
<1>5. QED
  BY <1>3, <1>4

(* Shifting left multiplies, modulo the word.                              *)
LEMMA ShlSums ==
    ASSUME NEW m \in SUBSET Bits, NEW s \in 0..Dword, NEW n \in 0..(Dword - s)
    PROVE  Sums(Shl(m, s))[s + n] = Sums(m)[n] * Power[s]
<1> DEFINE b == Shl(m, s)
           S == {j \in Nat : j <= Dword - s => Sums(b)[s + j] = Sums(m)[j] * Power[s]}
<1>0. s \in Nat /\ s <= Dword /\ Dword \in Nat /\ Power[s] \in Nat
  BY DwordNat, PowerIs
<1>1. 0 \in S
  <2>1. \A i \in 0..(s - 1) : i \in b <=> i \in {}
    BY <1>0 DEF Shl, Bits
  <2> HIDE DEF b
  <2>2. Sums(b)[s] = Sums({})[s]
    BY <2>1, SumsSame
  <2>5. Sums({})[s] = 0
    BY <1>0, NoBits
  <2>6. s + 0 = s /\ Sums(m)[0] = 0
    BY <1>0, SumsIs
  <2>7. QED
    BY <1>0, <2>2, <2>5, <2>6
<1>2. ASSUME NEW j \in Nat, j \in S PROVE j + 1 \in S
  <2>1. SUFFICES ASSUME j + 1 <= Dword - s
                 PROVE  Sums(b)[s + (j + 1)] = Sums(m)[j + 1] * Power[s]
    OBVIOUS
  <2>2. /\ s + j \in 0..(Dword - 1) /\ s + (j + 1) = (s + j) + 1 /\ j \in 0..(Dword - 1)
        /\ j <= Dword - s /\ s + j \in Bits /\ s + j - s = j /\ j \in 0..Dword
    BY <1>0, <2>1 DEF Bits
  <2>3. s + j \in b <=> j \in m
    BY <2>2 DEF Shl
  <2>4. PICK p \in Nat, x \in Nat, y \in Nat :
           p = Power[s] /\ x = Power[j] /\ y = Sums(m)[j]
    BY <2>2, <1>0, PowerIs, SumsNat
  <2>5. Power[s + j] = p * x
    BY <1>0, <2>4, PowerSum
  <2> HIDE DEF b
  <2>6. Sums(b)[s + j] = y * p
    BY <1>2, <2>2, <2>4 DEF b
  <2>7. Sums(b)[(s + j) + 1] = Sums(b)[s + j] + (IF s + j \in b THEN Power[s + j] ELSE 0)
    BY <2>2, SumsIs
  <2>8. Sums(m)[j + 1] = y + (IF j \in m THEN x ELSE 0)
    BY <2>2, <2>4, SumsIs
  <2>9. CASE j \in m
    <3>1. y * p + p * x = (y + x) * p
      OBVIOUS
    <3>2. QED
      BY <2>2, <2>3, <2>4, <2>5, <2>6, <2>7, <2>8, <2>9, <3>1
  <2>10. CASE j \notin m
    <3>1. y * p + 0 = y * p
      OBVIOUS
    <3>2. y + 0 = y
      OBVIOUS
    <3>3. QED
      BY <2>2, <2>3, <2>4, <2>6, <2>7, <2>8, <2>10, <3>1, <3>2
  <2>11. QED
    BY <2>9, <2>10
<1>3. S = Nat
  <2>1. S \in SUBSET Nat
    OBVIOUS
  <2> HIDE DEF S
  <2>2. QED
    BY <1>1, <1>2, <2>1, Inductive
<1>4. n \in Nat /\ n <= Dword - s
  BY <1>0
<1>5. n \in S
  BY <1>3, <1>4
<1>6. QED
  BY <1>4, <1>5

LEMMA ShlValue ==
    ASSUME NEW m \in SUBSET Bits, NEW s \in 0..Dword
    PROVE  Congruent(Value(Shl(m, s)), Value(m) * Power[s], Power[Dword])
<1>1. /\ s \in Nat /\ Dword \in Nat /\ Dword - s \in 0..(Dword - s) /\ Dword - s \in Nat
      /\ s + (Dword - s) = Dword /\ Dword - s \in 0..Dword /\ Dword \in 0..Dword
      /\ Dword - s <= Dword
  BY DwordNat
<1>2. Sums(Shl(m, s))[s + (Dword - s)] = Sums(m)[Dword - s] * Power[s]
  BY <1>1, ShlSums
<1>3. PICK q \in Nat : Sums(m)[Dword] = Sums(m)[Dword - s] + q * Power[Dword - s]
  BY <1>1, SumsAbove
<1>4. PICK p \in Nat, x \in Nat, y \in Nat :
         p = Power[s] /\ x = Power[Dword - s] /\ y = Sums(m)[Dword - s]
  BY <1>1, PowerIs, SumsNat
<1>5. Power[Dword] = p * x
  <2>1. Power[s + (Dword - s)] = Power[s] * Power[Dword - s]
    BY <1>1, PowerSum
  <2>2. QED
    BY <1>1, <1>4, <2>1
<1>6. y * p = (y + q * x) * p + (-q) * (p * x)
  OBVIOUS
<1>7. Value(Shl(m, s)) = Value(m) * Power[s] + (-q) * Power[Dword] /\ -q \in Int
  BY <1>1, <1>2, <1>3, <1>4, <1>5, <1>6 DEF Value
<1>8. QED
  BY <1>7 DEF Congruent

(* Words without a common bit add up.                                      *)
LEMMA UnionValue ==
    ASSUME NEW a, NEW b, a \cap b = {}
    PROVE  Value(a \cup b) = Value(a) + Value(b)
<1> DEFINE c == a \cup b
           S == {k \in Nat : k <= Dword => Sums(c)[k] = Sums(a)[k] + Sums(b)[k]}
<1>1. 0 \in S
  <2>1. Sums(a)[0] = 0 /\ Sums(b)[0] = 0 /\ Sums(c)[0] = 0
    <3> HIDE DEF c
    <3>1. QED  BY SumsIs
  <2>2. QED
    BY <2>1
<1>2. ASSUME NEW k \in Nat, k \in S PROVE k + 1 \in S
  <2>1. SUFFICES ASSUME k + 1 <= Dword PROVE Sums(c)[k + 1] = Sums(a)[k + 1] + Sums(b)[k + 1]
    OBVIOUS
  <2>2. k \in 0..(Dword - 1) /\ k \in 0..Dword /\ k <= Dword
    BY <2>1, DwordNat
  <2>3. k \in c <=> k \in a \/ k \in b
    OBVIOUS
  <2>4. ~(k \in a /\ k \in b)
    OBVIOUS
  <2> HIDE DEF c
  <2>5. PICK p \in Nat, x \in Nat, y \in Nat :
           p = Power[k] /\ x = Sums(a)[k] /\ y = Sums(b)[k] /\ Sums(c)[k] = x + y
    <3>1. Sums(a)[k] \in Nat /\ Sums(b)[k] \in Nat /\ Power[k] \in Nat
      BY <2>2, SumsNat, PowerIs
    <3>2. Sums(c)[k] = Sums(a)[k] + Sums(b)[k]
      BY <1>2, <2>2
    <3>3. QED
      BY <3>1, <3>2
  <2>6. /\ Sums(a)[k + 1] = x + (IF k \in a THEN p ELSE 0)
        /\ Sums(b)[k + 1] = y + (IF k \in b THEN p ELSE 0)
        /\ Sums(c)[k + 1] = x + y + (IF k \in c THEN p ELSE 0)
    BY <2>2, <2>5, SumsIs
  <2>7. QED
    BY <2>3, <2>4, <2>6
<1>3. S = Nat
  <2>1. S \in SUBSET Nat
    OBVIOUS
  <2> HIDE DEF S
  <2>2. QED
    BY <1>1, <1>2, <2>1, Inductive
<1>4. Dword \in S
  BY <1>3, DwordNat
<1>5. QED
  BY <1>4 DEF Value

LEMMA BitsValue == Value(Bits) = Power[Dword] - 1
<1>1. 0 \in 0..Dword /\ Dword \in 0..Dword /\ 0 <= Dword
  BY DwordNat
<1>2. \A i \in 0..(Dword - 1) : i \in Bits
  BY DEF Bits
<1>3. Sums(Bits)[Dword] = Sums(Bits)[0] + Power[Dword] - Power[0]
  BY <1>1, <1>2, AllOnes
<1>4. Sums(Bits)[0] = 0 /\ Power[0] = 1 /\ Power[Dword] \in Nat
  BY SumsIs, PowerIs, DwordNat
<1>5. QED
  BY <1>3, <1>4 DEF Value

(* ~a is -1 - a modulo the word.                                           *)
LEMMA NegateValue ==
    ASSUME NEW a \in SUBSET Bits
    PROVE  Value(Negate(a)) = Power[Dword] - 1 - Value(a)
<1>1. a \cap Negate(a) = {} /\ a \cup Negate(a) = Bits
  BY DEF Negate
<1>2. Value(Bits) = Value(a) + Value(Negate(a))
  BY <1>1, UnionValue
<1>3. Value(a) \in Nat /\ Value(Negate(a)) \in Nat /\ Power[Dword] \in Nat
  BY ValueNat, PowerIs, DwordNat
<1>4. QED
  BY <1>2, <1>3, BitsValue

LEMMA SameValue ==
    ASSUME NEW a \in SUBSET Bits, NEW b \in SUBSET Bits, Value(a) = Value(b)
    PROVE  a = b
<1>1. a \cap Bits = a /\ b \cap Bits = b
  OBVIOUS
<1>2. QED
  BY <1>1, BitsetValue

(* Shifting right divides.                                                 *)
LEMMA ShrValue ==
    ASSUME NEW a \in SUBSET Bits, NEW s \in Nat
    PROVE  Value(Shr(a, s)) = Value(a) \div Power[s]
<1>1. PICK p \in Nat \ {0} : p = Power[s]
  BY PowerPositive
<1>2. PICK v \in Nat : v = Value(a) /\ v < Power[Dword] /\ Power[Dword] \in Nat \ {0}
  BY ValueRange, ValueNat, PowerPositive, DwordNat
<1>3. PICK q \in Int, r \in 0..(p - 1) : v = q * p + r /\ q = v \div p
  <2>1. v \in Int
    OBVIOUS
  <2>2. QED
    BY <2>1, DivMod
<1>4. q \in 0..(Power[Dword] - 1)
  <2>1. v \div p \in Nat /\ v \div p <= v
    <3>1. q >= 0
      <4>1. SUFFICES ASSUME q < 0 PROVE FALSE
        OBVIOUS
      <4>2. PICK j \in Nat : q = -1 - j
        <5>1. -1 - q \in Nat /\ q = -1 - (-1 - q)
          BY <4>1
        <5>2. QED
          BY <5>1
      <4>3. q * p = -p - j * p /\ j * p \in Nat
        BY <4>2
      <4>4. QED
        BY <1>3, <4>3
    <3>2. PICK k \in Nat : p = 1 + k
      <4>1. p - 1 \in Nat /\ p = 1 + (p - 1)
        OBVIOUS
      <4>2. QED
        BY <4>1
    <3>3. q * p = q + q * k /\ q * k \in Nat
      BY <3>1, <3>2
    <3>4. QED
      BY <1>3, <3>1, <3>3
  <2>2. QED
    BY <1>2, <1>3, <2>1
<1>5. Bitset(q) = Shr(a, s)
  <2>1. ASSUME NEW i \in Bits PROVE i \in Bitset(q) <=> i + s \in a
    <3>1. i \in Nat /\ s + i \in Nat /\ s + i = i + s
      BY DwordNat DEF Bits
    <3>2. Power[i] \in Nat \ {0} /\ p * Power[i] = Power[s + i]
      BY <1>1, <3>1, PowerPositive, PowerSum
    <3>3. q \div Power[i] = v \div Power[s + i]
      <4>1. (v \div p) \div Power[i] = v \div (p * Power[i])
        BY <1>2, <3>2, DivisionTwice
      <4>2. QED
        BY <1>3, <3>2, <4>1
    <3>4. CASE s + i <= Dword - 1
      <4>1. s + i \in 0..(Dword - 1)
        BY <3>1, <3>4, DwordNat
      <4>2. (v \div Power[s + i]) % 2 = IF s + i \in a THEN 1 ELSE 0
        BY <1>2, <4>1, BitOfValue
      <4>3. QED
        BY <3>1, <3>3, <4>2 DEF Bitset
    <3>5. CASE s + i > Dword - 1
      <4>1. s + i \notin a /\ Dword <= s + i
        BY <3>1, <3>5, DwordNat DEF Bits
      <4>2. PICK m \in Nat \ {0} : m = Power[s + i]
        BY <3>1, PowerPositive
      <4>3. Power[Dword] <= m
        BY <3>1, <4>1, <4>2, PowerGrows, DwordNat
      <4>4. v = 0 * m + v /\ v \in 0..(m - 1) /\ v \in Int
        BY <1>2, <4>3
      <4>5. v \div m = 0
        BY <4>4, DivisionIs
      <4>6. QED
        BY <3>1, <3>3, <4>1, <4>2, <4>5 DEF Bitset
    <3>6. QED
      BY <3>1, <3>4, <3>5, DwordNat
  <2>2. Bitset(q) \subseteq Bits /\ Shr(a, s) = {i \in Bits : i + s \in a}
    BY DEF Bitset, Shr
  <2>3. QED
    BY <2>1, <2>2
<1>6. Value(Bitset(q)) = q
  <2>1. Dword \in 0..Dword /\ q \in Int
    BY <1>4, DwordNat
  <2>2. Value(Bitset(q)) = q % Power[Dword]
    BY <2>1, ValueBitset DEF Value
  <2>3. PICK m \in Nat \ {0} : m = Power[Dword]
    BY <1>2
  <2>4. q = 0 * m + q /\ q \in 0..(m - 1)
    BY <1>4, <2>3
  <2>5. q % m = q
    BY <2>1, <2>4, DivisionIs
  <2>6. QED
    BY <2>2, <2>3, <2>5
<1>7. QED
  BY <1>1, <1>2, <1>3, <1>5, <1>6

(* The lowest n bits decide a number modulo 2^n.                           *)
LEMMA LowCongruent ==
    ASSUME NEW a, NEW n \in 0..Dword
    PROVE  /\ Congruent(Value(a), Value({i \in a : i < n}), Power[n])
           /\ Value({i \in a : i < n}) \in 0..(Power[n] - 1)
<1>1. Value({i \in a : i < n}) = Value(a) % Power[n]
  BY CutValue
<1>2. Value(a) \in Int /\ Power[n] \in Nat \ {0}
  BY ValueNat, DwordNat, PowerPositive
<1>3. QED
  BY <1>1, <1>2, ModCongruent, DivMod

LEMMA DwordCongruent ==
    ASSUME NEW n \in 0..Dword
    PROVE  Congruent(Power[Dword], 0, Power[n])
<1>1. n \in Nat /\ Dword - n \in Nat /\ n + (Dword - n) = Dword
  BY DwordNat
<1>2. PICK x \in Nat, y \in Nat : x = Power[n] /\ y = Power[Dword - n]
  BY <1>1, PowerIs
<1>3. Power[Dword] = x * y
  BY <1>1, <1>2, PowerSum
<1>4. x * y = 0 + y * x
  OBVIOUS
<1>5. Power[Dword] = 0 + y * Power[n]
  BY <1>2, <1>3, <1>4
<1>6. QED
  BY <1>5 DEF Congruent
=============================================================================
