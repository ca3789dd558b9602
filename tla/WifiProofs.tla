----------------------------- MODULE WifiProofs -----------------------------
(***************************************************************************)
(* What Wi-Fi means for a scan and for its listener.  A scan visits every  *)
(* host of the network, on words of any width: powers of two, the bitwise  *)
(* and with a netmask, the workers' shares, the octets.  A scan that is    *)
(* built while Wi-Fi is steady is of that network.  The receiver or        *)
(* monitor of the Wi-Fi status follows the stream that Dart listens to,    *)
(* for any number of streams and changes.                                  *)
(***************************************************************************)
EXTENDS WifiAddress, WifiStatus, SequenceTheorems, FiniteSetTheorems,
        NaturalsInduction, TLAPS

-----------------------------------------------------------------------------
(* Induction and recursion on the naturals, for sets and functions *)

(* A set of naturals with 0 and the successor of each of its elements is all of
   them. *)
LEMMA Induction ==
    ASSUME NEW S \in SUBSET Nat, 0 \in S, \A n \in S : n + 1 \in S
    PROVE  \A n \in Nat : n \in S
<1> SUFFICES ASSUME NEW k \in Nat, k \notin S PROVE FALSE
  OBVIOUS
<1> DEFINE T == Nat \ S
           R == OpToRel(<, Nat)
<1>1. \A x, y \in Nat : x < y => <<x, y>> \in R
  BY DEF OpToRel
<1>2. IsWellFoundedOn(R, Nat)
  BY NatLessThanWellFounded
<1>3. T \subseteq Nat /\ T # {}
  OBVIOUS
<1> HIDE DEF R
<1>4. PICK x \in T : \A y \in T : ~(<<y, x>> \in R)
  BY <1>2, <1>3, WFMin
<1>5. x \in Nat /\ x # 0 /\ x - 1 \in Nat /\ x - 1 < x
  OBVIOUS
<1>6. x - 1 \in S
  BY <1>1, <1>4, <1>5
<1>7. (x - 1) + 1 \in S
  BY <1>6
<1> QED  BY <1>5, <1>7

(* The functions that agree with a recursion up to n *)
Iterates(S, a, step, n) ==
    {f \in [0..n -> S] : f[0] = a /\ \A i \in 0..(n - 1) : f[i + 1] = step[f[i]]}

LEMMA IteratesExist ==
    ASSUME NEW S, NEW a \in S, NEW step \in [S -> S]
    PROVE  \A n \in Nat : Iterates(S, a, step, n) # {}
<1> DEFINE G == {n \in Nat : Iterates(S, a, step, n) # {}}
<1>1. 0 \in G
  <2>1. [i \in 0..0 |-> a] \in Iterates(S, a, step, 0)
    BY DEF Iterates
  <2> QED  BY <2>1
<1>2. ASSUME NEW n \in G PROVE n + 1 \in G
  <2>1. PICK f : f \in Iterates(S, a, step, n)
    OBVIOUS
  <2> DEFINE g == [i \in 0..(n + 1) |-> IF i = n + 1 THEN step[f[n]] ELSE f[i]]
  <2>2. /\ f \in [0..n -> S] /\ f[0] = a
        /\ \A i \in 0..(n - 1) : f[i + 1] = step[f[i]]
    BY <2>1 DEF Iterates
  <2>3. f[n] \in S /\ step[f[n]] \in S
    BY <2>2
  <2>4. g \in [0..(n + 1) -> S]
    BY <2>2, <2>3
  <2>5. g[0] = a
    BY <2>2
  <2>6. ASSUME NEW i \in 0..n PROVE g[i + 1] = step[g[i]]
    <3>1. g[i] = f[i]
      OBVIOUS
    <3>2. CASE i = n
      BY <3>1, <3>2
    <3>3. CASE i # n
      <4>1. i \in 0..(n - 1) /\ i + 1 \in 0..n
        BY <3>3
      <4>2. g[i + 1] = f[i + 1]
        BY <4>1
      <4> QED  BY <2>2, <3>1, <4>1, <4>2
    <3> QED  BY <3>2, <3>3
  <2> HIDE DEF g
  <2>7. g \in Iterates(S, a, step, n + 1)
    BY <2>4, <2>5, <2>6 DEF Iterates
  <2> QED  BY <2>7
<1> HIDE DEF G
<1>3. G \in SUBSET Nat
  BY DEF G
<1>4. \A n \in Nat : n \in G
  BY <1>1, <1>2, <1>3, Induction
<1> QED  BY <1>4 DEF G

LEMMA IteratesAgree ==
    ASSUME NEW S, NEW a \in S, NEW step \in [S -> S],
           NEW m \in Nat, NEW n \in Nat,
           NEW f \in Iterates(S, a, step, m), NEW g \in Iterates(S, a, step, n)
    PROVE  \A i \in Nat : i <= m /\ i <= n => f[i] = g[i]
<1> DEFINE G == {i \in Nat : i <= m /\ i <= n => f[i] = g[i]}
<1>1. /\ f[0] = a /\ g[0] = a
      /\ \A i \in 0..(m - 1) : f[i + 1] = step[f[i]]
      /\ \A i \in 0..(n - 1) : g[i + 1] = step[g[i]]
  BY DEF Iterates
<1>2. 0 \in G
  BY <1>1
<1>3. ASSUME NEW i \in G PROVE i + 1 \in G
  <2>1. CASE i + 1 <= m /\ i + 1 <= n
    <3>1. i \in 0..(m - 1) /\ i \in 0..(n - 1)
      BY <2>1
    <3>2. f[i] = g[i]
      BY <2>1
    <3> QED  BY <1>1, <3>1, <3>2
  <2> QED  BY <2>1
<1> HIDE DEF G
<1>4. G \in SUBSET Nat
  BY DEF G
<1>5. \A i \in Nat : i \in G
  BY <1>2, <1>3, <1>4, Induction
<1> QED  BY <1>5 DEF G

(* A function can be defined by its value at 0 and how the next value comes from
   the one before. *)
LEMMA Recursion ==
    ASSUME NEW S, NEW a \in S, NEW step \in [S -> S]
    PROVE  \E f \in [Nat -> S] : f[0] = a /\ \A n \in Nat : f[n + 1] = step[f[n]]
<1> DEFINE It(n) == Iterates(S, a, step, n)
           c == [n \in Nat |-> CHOOSE f : f \in It(n)]
           r == [n \in Nat |-> c[n][n]]
<1>1. ASSUME NEW n \in Nat PROVE c[n] \in It(n)
  <2>1. It(n) # {}
    BY IteratesExist
  <2> QED  BY <2>1
<1> HIDE DEF c
<1>2. ASSUME NEW n \in Nat
      PROVE  /\ c[n] \in [0..n -> S] /\ c[n][0] = a
             /\ \A i \in 0..(n - 1) : c[n][i + 1] = step[c[n][i]]
  BY <1>1 DEF Iterates
<1>3. r \in [Nat -> S]
  BY <1>2
<1>4. r[0] = a
  BY <1>2
<1>5. ASSUME NEW n \in Nat PROVE r[n + 1] = step[r[n]]
  <2>1. c[n + 1][n + 1] = step[c[n + 1][n]]
    BY <1>2
  <2>2. c[n + 1] \in It(n + 1) /\ c[n] \in It(n) /\ n + 1 \in Nat
    BY <1>1
  <2>3. c[n + 1][n] = c[n][n]
    BY <2>2, IteratesAgree
  <2> QED  BY <2>1, <2>3
<1> HIDE DEF r
<1> QED  BY <1>3, <1>4, <1>5

-----------------------------------------------------------------------------
(* The recursive definitions of the plan have the values their equations say. *)

LEMMA TwoIsRecursive ==
    /\ Two \in [Nat -> Nat] /\ Two[0] = 1
    /\ \A k \in Nat : Two[k + 1] = 2 * Two[k]
<1> DEFINE step == [v \in Nat |-> 2 * v]
           one  == 1
           S    == Nat
<1>1. one \in S /\ step \in [S -> S]
  OBVIOUS
<1>2. PICK f \in [Nat -> S] : f[0] = one /\ \A n \in Nat : f[n + 1] = step[f[n]]
  <2> HIDE DEF step, one, S
  <2> QED  BY <1>1, Recursion
<1> DEFINE body(g) == [k \in Nat |-> IF k = 0 THEN 1 ELSE 2 * g[k - 1]]
<1>3. ASSUME NEW k \in Nat PROVE f[k] = body(f)[k]
  <2>1. CASE k = 0
    BY <1>2, <2>1
  <2>2. CASE k # 0
    <3>1. k - 1 \in Nat /\ (k - 1) + 1 = k
      BY <2>2
    <3>2. f[(k - 1) + 1] = step[f[k - 1]]
      BY <1>2, <3>1
    <3> QED  BY <2>2, <3>1, <3>2
  <2> QED  BY <2>1, <2>2
<1>4. f = body(f)
  BY <1>3
<1>5. Two = CHOOSE g : g = body(g)
  BY DEF Two
<1> HIDE DEF body
<1>6. Two = body(Two)
  BY <1>4, <1>5
<1> USE DEF body
<1>7. Two[0] = 1
  BY <1>6
<1>8. ASSUME NEW k \in Nat PROVE Two[k + 1] = 2 * Two[k]
  <2>1. k + 1 \in Nat /\ k + 1 # 0 /\ (k + 1) - 1 = k
    OBVIOUS
  <2> QED  BY <1>6, <2>1
<1>9. \A k \in Nat : k \in {n \in Nat : Two[n] \in Nat}
  <2> DEFINE G == {n \in Nat : Two[n] \in Nat}
  <2>1. 0 \in G
    BY <1>7
  <2>2. ASSUME NEW n \in G PROVE n + 1 \in G
    BY <1>8
  <2> HIDE DEF G
  <2>3. G \in SUBSET Nat
    BY DEF G
  <2>4. \A n \in Nat : n \in G
    BY <2>1, <2>2, <2>3, Induction
  <2> QED  BY <2>4 DEF G
<1>10. Two \in [Nat -> Nat]
  <2>1. Two = [k \in Nat |-> Two[k]]
    BY <1>6
  <2> QED  BY <2>1, <1>9
<1> QED  BY <1>7, <1>8, <1>10

LEMMA HalfOfNatural ==
    ASSUME NEW x \in Nat
    PROVE  x % 2 \in 0..1 /\ x \div 2 \in Nat /\ x = 2 * (x \div 2) + (x % 2)
  OBVIOUS

LEMMA BitProduct ==
    ASSUME NEW x \in Nat, NEW y \in Nat, NEW r \in Nat
    PROVE  (x % 2) * (y % 2) + 2 * r \in Nat
<1>1. x % 2 \in 0..1 /\ y % 2 \in 0..1
  BY HalfOfNatural
<1>2. (x % 2) * (y % 2) \in Nat
  BY <1>1
<1> QED  BY <1>2

(* The and of one more bit *)
NextBit(g, x, y) == (x % 2) * (y % 2) + 2 * g[x \div 2][y \div 2]

LEMMA AndIsRecursive ==
    /\ \A n \in Nat, x \in Nat, y \in Nat : And[n][x][y] \in Nat
    /\ \A x \in Nat, y \in Nat : And[0][x][y] = 0
    /\ \A n \in Nat, x \in Nat, y \in Nat :
          And[n + 1][x][y] = (x % 2) * (y % 2) + 2 * And[n][x \div 2][y \div 2]
<1> DEFINE S == [Nat -> [Nat -> Nat]]
           zero == [x \in Nat |-> [y \in Nat |-> 0]]
           next(g) == [x \in Nat |-> [y \in Nat |-> NextBit(g, x, y)]]
           step == [g \in S |-> next(g)]
<1>1. zero \in S
  OBVIOUS
<1>3. ASSUME NEW g \in S PROVE next(g) \in S
  <2>1. ASSUME NEW x \in Nat, NEW y \in Nat PROVE NextBit(g, x, y) \in Nat
    <3>1. x \div 2 \in Nat /\ y \div 2 \in Nat
      BY HalfOfNatural
    <3>2. g[x \div 2][y \div 2] \in Nat
      BY <3>1
    <3> QED  BY <3>2, BitProduct DEF NextBit
  <2> QED  BY <2>1
<1> HIDE DEF next
<1>4. step \in [S -> S]
  BY <1>3
<1> HIDE DEF S, zero
<1>5. PICK f \in [Nat -> S] : f[0] = zero /\ \A n \in Nat : f[n + 1] = step[f[n]]
  <2> HIDE DEF step
  <2> QED  BY <1>1, <1>4, Recursion
<1>6. \A n \in Nat : f[n + 1] = next(f[n])
  BY <1>5
<1> USE DEF S, zero, next
<1> DEFINE row(g, n) == [x \in Nat |-> [y \in Nat |->
                            IF n = 0 THEN 0 ELSE NextBit(g[n - 1], x, y)]]
           body(g) == [n \in Nat |-> row(g, n)]
<1>7. ASSUME NEW n \in Nat PROVE f[n] = body(f)[n]
  <2>1. CASE n = 0
    BY <1>5, <2>1
  <2>2. CASE n # 0
    <3>1. n - 1 \in Nat /\ (n - 1) + 1 = n
      BY <2>2
    <3>2. f[n] = next(f[n - 1])
      BY <1>6, <3>1
    <3> QED  BY <2>2, <3>2
  <2> QED  BY <2>1, <2>2
<1>8. f = body(f)
  BY <1>5, <1>7
<1>9. And = CHOOSE g : g = body(g)
  BY DEF And, NextBit
<1> HIDE DEF body, S, zero, next, step
<1>10. And = body(And)
  BY <1>8, <1>9
<1>11. ASSUME NEW n \in Nat, NEW x \in Nat, NEW y \in Nat
       PROVE  And[n][x][y] = IF n = 0 THEN 0 ELSE NextBit(And[n - 1], x, y)
  <2>1. And[n] = row(And, n)
    <3> HIDE DEF row
    <3> QED  BY <1>10 DEF body
  <2> QED  BY <2>1
<1>12. ASSUME NEW x \in Nat, NEW y \in Nat PROVE And[0][x][y] = 0
  BY <1>11
<1>13. ASSUME NEW n \in Nat, NEW x \in Nat, NEW y \in Nat
       PROVE  And[n + 1][x][y] = NextBit(And[n], x, y)
  <2>1. n + 1 \in Nat /\ n + 1 # 0 /\ (n + 1) - 1 = n
    OBVIOUS
  <2> QED  BY <1>11, <2>1
<1>14. \A n \in Nat : \A x \in Nat, y \in Nat : And[n][x][y] \in Nat
  <2> DEFINE G == {n \in Nat : \A x \in Nat, y \in Nat : And[n][x][y] \in Nat}
  <2>1. 0 \in G
    BY <1>12
  <2>2. ASSUME NEW n \in G PROVE n + 1 \in G
    <3> SUFFICES ASSUME NEW x \in Nat, NEW y \in Nat PROVE And[n + 1][x][y] \in Nat
      OBVIOUS
    <3>1. n \in Nat /\ And[n][x \div 2][y \div 2] \in Nat
      BY HalfOfNatural
    <3>2. NextBit(And[n], x, y) \in Nat
      BY <3>1, BitProduct DEF NextBit
    <3>3. And[n + 1][x][y] = NextBit(And[n], x, y)
      BY <3>1, <1>13
    <3> QED  BY <3>2, <3>3
  <2> HIDE DEF G
  <2>3. G \in SUBSET Nat
    BY DEF G
  <2>4. \A n \in Nat : n \in G
    BY <2>1, <2>2, <2>3, Induction
  <2> QED  BY <2>4 DEF G
<1> QED  BY <1>12, <1>13, <1>14 DEF NextBit

-----------------------------------------------------------------------------
(* Powers of two *)

LEMMA TwoPositive == \A k \in Nat : Two[k] \in Nat /\ Two[k] >= 1
<1> DEFINE G == {k \in Nat : Two[k] \in Nat /\ Two[k] >= 1}
<1>1. 0 \in G
  BY TwoIsRecursive
<1>2. ASSUME NEW k \in G PROVE k + 1 \in G
  BY TwoIsRecursive
<1> HIDE DEF G
<1>3. G \in SUBSET Nat
  BY DEF G
<1>4. \A k \in Nat : k \in G
  BY <1>1, <1>2, <1>3, Induction
<1> QED  BY <1>4 DEF G

LEMMA TwiceProduct ==
    ASSUME NEW u \in Nat, NEW v \in Nat, NEW w \in Nat, u = v * w
    PROVE  2 * u = (2 * v) * w
  OBVIOUS

LEMMA TwoAdds == \A a \in Nat, b \in Nat : Two[a + b] = Two[a] * Two[b]
<1> SUFFICES ASSUME NEW b \in Nat PROVE \A a \in Nat : Two[a + b] = Two[a] * Two[b]
  OBVIOUS
<1> DEFINE G == {a \in Nat : Two[a + b] = Two[a] * Two[b]}
<1>1. 0 \in G
  BY TwoIsRecursive, TwoPositive
<1>2. ASSUME NEW a \in G PROVE a + 1 \in G
  <2>1. a \in Nat /\ a + b \in Nat /\ (a + 1) + b = (a + b) + 1
    OBVIOUS
  <2>2. /\ Two[(a + b) + 1] = 2 * Two[a + b] /\ Two[a + 1] = 2 * Two[a]
        /\ Two[a + b] = Two[a] * Two[b]
    BY <2>1, TwoIsRecursive
  <2>3. Two[a] \in Nat /\ Two[b] \in Nat /\ Two[a + b] \in Nat
    BY <2>1, TwoPositive
  <2>4. 2 * Two[a + b] = (2 * Two[a]) * Two[b]
    BY <2>2, <2>3, TwiceProduct
  <2>5. Two[(a + 1) + b] = Two[a + 1] * Two[b]
    BY <2>1, <2>2, <2>4
  <2> QED  BY <2>5
<1> HIDE DEF G
<1>3. G \in SUBSET Nat
  BY DEF G
<1>4. \A a \in Nat : a \in G
  BY <1>1, <1>2, <1>3, Induction
<1> QED  BY <1>4 DEF G

LEMMA ProductAtLeast ==
    ASSUME NEW u \in Nat, NEW v \in Nat, u >= 1 PROVE u * v >= v
  OBVIOUS

LEMMA TwoIncreases ==
    ASSUME NEW a \in Nat, NEW b \in Nat, a <= b
    PROVE  /\ Two[b] = Two[b - a] * Two[a] /\ Two[a] <= Two[b]
<1>1. b - a \in Nat /\ (b - a) + a = b
  OBVIOUS
<1>2. Two[b] = Two[b - a] * Two[a]
  BY <1>1, TwoAdds
<1>3. Two[b - a] \in Nat /\ Two[b - a] >= 1 /\ Two[a] \in Nat
  BY <1>1, TwoPositive
<1>4. Two[b - a] * Two[a] >= Two[a]
  BY <1>3, ProductAtLeast
<1> QED  BY <1>2, <1>3, <1>4, TwoPositive

-----------------------------------------------------------------------------
(* Division *)

LEMMA Division ==
    ASSUME NEW x \in Nat, NEW D \in Nat, D >= 1
    PROVE  /\ x \div D \in Nat /\ x % D \in 0..(D - 1)
           /\ x = D * (x \div D) + (x % D)
  OBVIOUS

LEMMA QuotientsAgree ==
    ASSUME NEW D \in Nat, NEW u \in Nat, NEW v \in Nat, NEW r \in Nat, NEW s \in Nat,
           r < D, s < D, D * u + r = D * v + s
    PROVE  u = v
<1>1. ASSUME NEW a \in Nat, NEW b \in Nat, NEW c \in Nat, NEW d \in Nat,
             c < D, a < b, D * a + c = D * b + d
      PROVE  FALSE
  <2>1. b = a + 1 + (b - a - 1) /\ b - a - 1 \in Nat
    BY <1>1
  <2>2. PICK e \in Nat : b = a + 1 + e
    BY <2>1
  <2>3. D * b = D * a + D + D * e
    BY <2>2
  <2>4. D * e \in Nat
    BY <2>2
  <2>5. D * a \in Nat
    OBVIOUS
  <2> QED  BY <1>1, <2>3, <2>4, <2>5
<1>2. ~(u < v)
  BY <1>1
<1>3. ~(v < u)
  BY <1>1
<1> QED  BY <1>2, <1>3

LEMMA QuotientIs ==
    ASSUME NEW x \in Nat, NEW D \in Nat, NEW u \in Nat, NEW r \in Nat, r < D,
           x = D * u + r
    PROVE  x \div D = u /\ x % D = r
<1>1. D >= 1
  OBVIOUS
<1>2. /\ x \div D \in Nat /\ x % D \in Nat /\ x % D < D
      /\ x = D * (x \div D) + (x % D)
  BY <1>1, Division
<1> DEFINE v == x \div D
           s == x % D
<1>3. v \in Nat /\ s \in Nat /\ s < D /\ x = D * v + s
  BY <1>2
<1> HIDE DEF v, s
<1>4. v = u
  BY <1>3, QuotientsAgree
<1>5. D * v = D * u
  BY <1>4
<1>6. s = r
  BY <1>3, <1>5
<1> QED  BY <1>4, <1>6 DEF v, s

LEMMA QuotientTwice ==
    ASSUME NEW x \in Nat, NEW C \in Nat, NEW D \in Nat, C >= 1, D >= 1
    PROVE  (x \div C) \div D = x \div (C * D)
<1> DEFINE q == x \div C
           r == x % C
           u == q \div D
           s == q % D
<1>1. q \in Nat /\ r \in Nat /\ r <= C - 1 /\ x = C * q + r
  OBVIOUS
<1> HIDE DEF q, r
<1>2. u \in Nat /\ s \in Nat /\ s <= D - 1 /\ q = D * u + s
  BY <1>1
<1> HIDE DEF u, s
<1>3. C * q = C * (D * u) + C * s
  BY <1>1, <1>2
<1>4. C * (D * u) = (C * D) * u
  BY <1>2
<1>5. C * s <= C * (D - 1)
  BY <1>2
<1>6. C * (D - 1) = C * D - C
  OBVIOUS
<1>7. C * s \in Nat /\ C * D \in Nat
  BY <1>2
<1>8. C * s + r < C * D
  BY <1>1, <1>5, <1>6, <1>7
<1>9. x = (C * D) * u + (C * s + r)
  BY <1>1, <1>2, <1>3, <1>4, <1>7
<1> DEFINE P == C * D
           t == C * s + r
<1>10. P \in Nat /\ t \in Nat /\ t < P /\ x = P * u + t
  BY <1>1, <1>7, <1>8, <1>9
<1> HIDE DEF P, t
<1>11. x \div P = u
  BY <1>2, <1>10, QuotientIs
<1> QED  BY <1>11 DEF P, u, q

(* A number is below a multiple of D exactly if its quotient is below the factor. *)
LEMMA BelowMultiple ==
    ASSUME NEW x \in Nat, NEW D \in Nat, NEW e \in Nat, D >= 1
    PROVE  x < e * D <=> x \div D < e
<1> DEFINE q == x \div D
           r == x % D
<1>1. q \in Nat /\ r \in Nat /\ r <= D - 1 /\ x = D * q + r
  OBVIOUS
<1> HIDE DEF q, r
<1>2. ASSUME q < e PROVE x < e * D
  <2>1. e - q - 1 \in Nat /\ e = q + 1 + (e - q - 1)
    BY <1>1, <1>2
  <2>2. PICK d \in Nat : e = q + 1 + d
    BY <2>1
  <2>3. e * D = q * D + D + d * D /\ d * D \in Nat /\ q * D = D * q
    BY <1>1, <2>2
  <2> QED  BY <1>1, <2>3
<1>3. ASSUME x < e * D PROVE q < e
  <2>1. SUFFICES ASSUME q >= e PROVE FALSE
    BY <1>1
  <2>2. q - e \in Nat /\ q = e + (q - e)
    BY <1>1, <2>1
  <2>3. PICK d \in Nat : q = e + d
    BY <2>2
  <2>4. D * q = e * D + D * d /\ D * d \in Nat
    BY <2>3
  <2> QED  BY <1>1, <1>3, <2>4
<1> QED  BY <1>2, <1>3 DEF q

-----------------------------------------------------------------------------
(* The bitwise and with a netmask *)

LEMMA HalfOfOdd ==
    ASSUME NEW m \in Nat, NEW y \in Nat, y = 2 * m + 1 PROVE y \div 2 = m /\ y % 2 = 1
  OBVIOUS

LEMMA HalfOfEven ==
    ASSUME NEW m \in Nat, NEW y \in Nat, y = 2 * m PROVE y \div 2 = m /\ y % 2 = 0
  OBVIOUS

LEMMA HalfIsSmaller ==
    ASSUME NEW x \in Nat, NEW P \in Nat, x < 2 * P PROVE x \div 2 \in Nat /\ x \div 2 < P
  OBVIOUS

LEMMA DivideByOne == ASSUME NEW x \in Nat PROVE (x \div 1) * 1 = x
  OBVIOUS

LEMMA BitTimes ==
    ASSUME NEW x \in Nat, NEW y \in Nat
    PROVE  /\ y % 2 = 1 => (x % 2) * (y % 2) = x % 2
           /\ y % 2 = 0 => (x % 2) * (y % 2) = 0
<1>1. x % 2 \in 0..1
  BY HalfOfNatural
<1> QED  BY <1>1

LEMMA TwiceTheProduct ==
    ASSUME NEW a \in Nat, NEW b \in Nat PROVE 2 * (a * b) = a * (2 * b)
  OBVIOUS

(* What the and keeps of x, when the other number has its bits from h on set. *)
Masked(n, h, x) == And[n][x][Two[n] - Two[h]] = (x \div Two[h]) * Two[h]

(* A word and a mask of high bits: by induction on the width. *)
LEMMA AndHighBits ==
    \A n \in Nat : \A h \in 0..n : \A x \in 0..(Two[n] - 1) : Masked(n, h, x)
<1> DEFINE G == {n \in Nat : \A h \in 0..n : \A x \in 0..(Two[n] - 1) : Masked(n, h, x)}
<1>1. 0 \in G
  <2> SUFFICES ASSUME NEW h \in 0..0, NEW x \in 0..(Two[0] - 1) PROVE Masked(0, h, x)
    OBVIOUS
  <2>1. h = 0 /\ x = 0 /\ Two[0] = 1
    BY TwoIsRecursive
  <2>2. And[0][0][0] = 0
    BY AndIsRecursive
  <2>3. Two[0] - Two[0] = 0 /\ (0 \div Two[0]) * Two[0] = 0
    BY <2>1
  <2> QED  BY <2>1, <2>2, <2>3 DEF Masked
<1>2. ASSUME NEW n \in G PROVE n + 1 \in G
  <2>1. n \in Nat /\ \A h \in 0..n : \A x \in 0..(Two[n] - 1) : Masked(n, h, x)
    OBVIOUS
  <2> SUFFICES ASSUME NEW h \in 0..(n + 1), NEW x \in 0..(Two[n + 1] - 1)
               PROVE  Masked(n + 1, h, x)
    BY <2>1
  <2> HIDE DEF G
  <2> DEFINE y == Two[n + 1] - Two[h]
  <2>2. /\ Two[n] \in Nat /\ Two[n] >= 1 /\ Two[n + 1] = 2 * Two[n] /\ Two[n + 1] \in Nat
        /\ Two[h] \in Nat /\ Two[h] >= 1 /\ Two[h] <= Two[n + 1]
    <3>1. n + 1 \in Nat /\ h \in Nat /\ h <= n + 1
      BY <2>1
    <3>2. Two[h] <= Two[n + 1]
      BY <3>1, TwoIncreases
    <3> QED  BY <2>1, <3>1, <3>2, TwoIsRecursive, TwoPositive
  <2>3. x \in Nat /\ y \in Nat /\ x < 2 * Two[n]
    BY <2>2
  <2>4. x \div 2 \in Nat /\ x \div 2 \in 0..(Two[n] - 1)
    BY <2>2, <2>3, HalfIsSmaller
  <2>5. And[n + 1][x][y] = (x % 2) * (y % 2) + 2 * And[n][x \div 2][y \div 2]
    BY <2>1, <2>3, AndIsRecursive
  <2>6. CASE h = 0
    <3>1. Two[0] = 1 /\ y = 2 * (Two[n] - 1) + 1 /\ Two[n] - 1 \in Nat
      BY <2>2, <2>6, TwoIsRecursive
    <3>2. y \div 2 = Two[n] - Two[0] /\ y % 2 = 1
      BY <2>3, <3>1, HalfOfOdd
    <3>3. Masked(n, 0, x \div 2)
      BY <2>1, <2>4
    <3>4. And[n][x \div 2][y \div 2] = x \div 2
      <4>1. And[n][x \div 2][y \div 2] = ((x \div 2) \div 1) * 1
        BY <3>1, <3>2, <3>3 DEF Masked
      <4> QED  BY <2>4, <4>1, DivideByOne
    <3>5. (x % 2) * (y % 2) = x % 2
      BY <2>3, <3>2, BitTimes
    <3>6. And[n + 1][x][y] = x
      BY <2>3, <2>5, <3>4, <3>5, HalfOfNatural
    <3>7. (x \div Two[h]) * Two[h] = x
      BY <2>3, <2>6, <3>1, DivideByOne
    <3> QED  BY <3>6, <3>7 DEF Masked
  <2>7. CASE h # 0
    <3> DEFINE k == h - 1
    <3>1. k \in Nat /\ k \in 0..n /\ h = k + 1
      BY <2>1, <2>7
    <3> HIDE DEF k
    <3>2. Two[h] = 2 * Two[k] /\ Two[k] \in Nat /\ Two[k] >= 1 /\ Two[k] <= Two[n]
        <4>1. k <= n
        BY <2>1, <3>1
      <4>2. Two[k] <= Two[n]
        BY <2>1, <3>1, <4>1, TwoIncreases
      <4> QED  BY <3>1, <4>2, TwoIsRecursive, TwoPositive
    <3>3. Two[n] - Two[k] \in Nat /\ y = 2 * (Two[n] - Two[k])
      BY <2>2, <3>2
    <3>4. y \div 2 = Two[n] - Two[k] /\ y % 2 = 0
      BY <2>3, <3>3, HalfOfEven
    <3>5. Masked(n, k, x \div 2)
      BY <2>1, <2>4, <3>1
    <3>6. And[n][x \div 2][y \div 2] = ((x \div 2) \div Two[k]) * Two[k]
      BY <3>4, <3>5 DEF Masked
    <3>7. (x \div 2) \div Two[k] = x \div Two[h]
      BY <2>3, <3>2, QuotientTwice
    <3>8. (x % 2) * (y % 2) = 0
      BY <2>3, <3>4, BitTimes
    <3> DEFINE q == x \div Two[h]
    <3>9. q \in Nat
      BY <2>2, <2>3, Division
    <3>10. And[n + 1][x][y] = 2 * (q * Two[k])
      <4>1. And[n][x \div 2][y \div 2] = q * Two[k]
        BY <3>6, <3>7
      <4> HIDE DEF q, y
      <4>2. q * Two[k] \in Nat
        BY <3>2, <3>9
      <4> QED  BY <2>5, <3>8, <4>1, <4>2
    <3>11. 2 * (q * Two[k]) = q * Two[h]
      <4> HIDE DEF q
      <4> QED  BY <3>2, <3>9, TwiceTheProduct
    <3> QED  BY <3>10, <3>11 DEF Masked
  <2> QED  BY <2>6, <2>7
<1> HIDE DEF G
<1>3. G \in SUBSET Nat
  BY DEF G
<1>4. \A n \in Nat : n \in G
  BY <1>1, <1>2, <1>3, Induction
<1> QED  BY <1>4 DEF G

-----------------------------------------------------------------------------
(* The plan of both platforms *)

LEMMA WidthIsNatural == W \in Nat /\ W >= 4 /\ W \div 4 \in Nat /\ W = 4 * (W \div 4)
  BY WordAssumption

(* The distance and the size of the host part *)
LEMMA HostPart ==
    ASSUME NEW p \in Prefixes
    PROVE  /\ p \in Nat /\ p <= W /\ W - p \in Nat /\ W - p <= W
           /\ Two[W - p] \in Nat /\ Two[W - p] >= 1
           /\ Two[W] \in Nat /\ Two[W] = Two[p] * Two[W - p]
           /\ Two[p] \in Nat /\ Two[p] >= 1 /\ Two[W - p] <= Two[W]
<1>1. p \in Nat /\ p <= W /\ W \in Nat /\ W - p \in Nat /\ W - p <= W /\ W - (W - p) = p
  BY WidthIsNatural DEF Prefixes
<1> QED  BY <1>1, TwoPositive, TwoIncreases

LEMMA AllOnesShifted ==
    ASSUME NEW A \in Nat, NEW H \in Nat, A >= 1, H >= 1, H <= A
    PROVE  ((A - 1) * H) % A = A - H
<1>1. (A - 1) * H = A * H - H /\ A * (H - 1) = A * H - A
  OBVIOUS
<1>2. (A - 1) * H = A * (H - 1) + (A - H)
  BY <1>1
<1> DEFINE x == (A - 1) * H
<1>3. x \in Nat
  OBVIOUS
<1>4. H - 1 \in Nat /\ A - H \in Nat /\ A - H < A
  OBVIOUS
<1> HIDE DEF x
<1>5. x % A = A - H
  BY <1>2, <1>3, <1>4, QuotientIs DEF x
<1> QED  BY <1>5 DEF x

LEMMA IosNetmaskIs ==
    ASSUME NEW p \in Prefixes PROVE IosNetmask(p) = Two[W] - Two[W - p]
<1>1. Two[W] \in Nat /\ Two[W] >= 1
  BY HostPart, WidthIsNatural, TwoPositive
<1> QED  BY <1>1, HostPart, AllOnesShifted DEF IosNetmask

LEMMA SmallRemainder == ASSUME NEW h \in Nat, NEW w \in Nat, h < w PROVE h % w = h
  OBVIOUS

LEMMA AndroidNetmaskIs ==
    ASSUME NEW p \in Prefixes, p >= 1 PROVE AndroidNetmask(p) = Two[W] - Two[W - p]
<1>1. Two[W] \in Nat /\ Two[W] >= 1
  BY HostPart, WidthIsNatural, TwoPositive
<1>2. W - p \in Nat /\ W - p < W /\ W \in Nat
  BY HostPart, WidthIsNatural
<1>3. (W - p) % W = W - p
  BY <1>2, SmallRemainder
<1> QED  BY <1>1, <1>3, HostPart, AllOnesShifted DEF AndroidNetmask, JvmShl

LEMMA AndNetmask ==
    ASSUME NEW a \in Word, NEW p \in Prefixes
    PROVE  BitAnd(a, Two[W] - Two[W - p]) = Network(a, p)
<1>1. W \in Nat /\ W - p \in 0..W /\ a \in 0..(Two[W] - 1)
  BY HostPart, WidthIsNatural DEF Word
<1>2. Masked(W, W - p, a)
  BY <1>1, AndHighBits
<1> QED  BY <1>2 DEF Masked, BitAnd, Network

(* The hosts of the network are inside the word. *)
LEMMA NetworkFits ==
    ASSUME NEW a \in Word, NEW p \in Prefixes
    PROVE  /\ Network(a, p) \in Nat
           /\ Network(a, p) + Two[W - p] <= Two[W]
           /\ Network(a, p) <= a /\ a < Network(a, p) + Two[W - p]
<1> DEFINE H == Two[W - p]
           q == a \div H
           P == Two[p]
<1>1. H \in Nat /\ H >= 1 /\ P \in Nat /\ Two[W] = P * H /\ Two[W] \in Nat
  BY HostPart
<1>2. a \in Nat /\ a < Two[W]
  BY <1>1 DEF Word
<1> HIDE DEF H
<1>3. q \in Nat /\ a < H * q + H /\ H * q <= a
  BY <1>1, <1>2
<1>4. q < P
  BY <1>1, <1>2, BelowMultiple DEF q
<1> HIDE DEF P
<1>5. Network(a, p) = q * H
  BY DEF Network, H
<1> HIDE DEF q
<1>6. P - q - 1 \in Nat /\ P = q + 1 + (P - q - 1)
  BY <1>1, <1>3, <1>4
<1>7. PICK d \in Nat : P = q + 1 + d
  BY <1>6
<1>8. P * H = q * H + H + d * H /\ d * H \in Nat /\ q * H \in Nat /\ q * H = H * q
  BY <1>1, <1>3, <1>7
<1> QED  BY <1>1, <1>3, <1>5, <1>8 DEF H

-----------------------------------------------------------------------------
(* The workers' shares *)

LEMMA ShareOf ==
    ASSUME NEW T \in Nat, T >= 1, NEW w \in 0..(T - 1), NEW i \in Nat
    PROVE  i >= w /\ (i - w) % T = 0 <=> i % T = w
<1> DEFINE q == i \div T
           r == i % T
<1>1. q \in Nat /\ r \in Nat /\ r <= T - 1 /\ i = T * q + r
  OBVIOUS
<1> HIDE DEF q, r
<1>2. ASSUME r = w PROVE i >= w /\ (i - w) % T = 0
  <2>1. T * q \in Nat /\ i - w = T * q
    BY <1>1, <1>2
  <2> DEFINE x == i - w
  <2>2. x \in Nat /\ x = T * q + 0 /\ 0 \in Nat /\ 0 < T
    BY <2>1
  <2> HIDE DEF x
  <2>3. x % T = 0
    BY <1>1, <2>2, QuotientIs
  <2> QED  BY <1>1, <2>1, <2>3 DEF x
<1>3. ASSUME i >= w, (i - w) % T = 0 PROVE r = w
  <2> DEFINE x == i - w
             k == x \div T
  <2>1. x \in Nat
    BY <1>3
  <2>2. x % T = 0
    BY <1>3
  <2>3. i = x + w
    OBVIOUS
  <2> HIDE DEF x
  <2>4. k \in Nat /\ x = T * k
    BY <2>1, <2>2, Division
  <2> HIDE DEF k
  <2>5. w \in Nat /\ w < T /\ i = T * k + w
    BY <2>3, <2>4
  <2>6. i % T = w
    BY <2>4, <2>5, QuotientIs
  <2> QED  BY <2>6 DEF r
<1> QED  BY <1>2, <1>3 DEF r

LEMMA StridedIs ==
    ASSUME NEW T \in Nat, T >= 1, NEW n \in Int, NEW w \in 0..(T - 1)
    PROVE  \A i : i \in Strided(w, n, T) <=> i \in 0..(n - 1) /\ i % T = w
<1>1. ASSUME NEW i PROVE i \in Strided(w, n, T) <=> i \in 0..(n - 1) /\ i % T = w
  <2>1. i \in Strided(w, n, T) <=> i \in w..(n - 1) /\ (i - w) % T = 0
    BY DEF Strided
  <2>2. CASE i \in 0..(n - 1)
    <3>1. i \in Nat /\ (i \in w..(n - 1) <=> i >= w)
      BY <2>2
    <3> QED  BY <2>1, <2>2, <3>1, ShareOf
  <2>3. CASE i \notin 0..(n - 1)
    <3>1. i \notin w..(n - 1)
      BY <2>3
    <3> QED  BY <2>1, <2>3, <3>1
  <2> QED  BY <2>2, <2>3
<1> QED  BY <1>1

(* What T workers visit of the n values of f *)
Visits(T, n, f) ==
    UNION {{<<w, f[i]>> : i \in Strided(w, n, T)} : w \in 0..(T - 1)}

LEMMA VisitsAre ==
    ASSUME NEW T \in Nat, T >= 1, NEW n \in Int, NEW f
    PROVE  Visits(T, n, f) = {<<i % T, f[i]>> : i \in 0..(n - 1)}
<1>1. ASSUME NEW v \in Visits(T, n, f) PROVE v \in {<<i % T, f[i]>> : i \in 0..(n - 1)}
  <2>1. PICK w \in 0..(T - 1) : v \in {<<w, f[i]>> : i \in Strided(w, n, T)}
    BY DEF Visits
  <2>2. PICK i \in Strided(w, n, T) : v = <<w, f[i]>>
    BY <2>1
  <2> HIDE DEF Visits
  <2>3. i \in 0..(n - 1) /\ i % T = w
    BY StridedIs
  <2> QED  BY <2>2, <2>3
<1>2. ASSUME NEW i \in 0..(n - 1) PROVE <<i % T, f[i]>> \in Visits(T, n, f)
  <2>1. i \in Nat /\ i % T \in 0..(T - 1)
    BY Division
  <2> DEFINE w == i % T
  <2>w. w \in 0..(T - 1) /\ i % T = w
    BY <2>1
  <2> HIDE DEF w
  <2>2. i \in Strided(w, n, T)
    BY <2>w, StridedIs
  <2>3. <<w, f[i]>> \in {<<w, f[j]>> : j \in Strided(w, n, T)}
    BY <2>2
  <2>4. w \in 0..(T - 1)
    BY <2>1 DEF w
  <2>5. <<w, f[i]>> \in Visits(T, n, f)
    BY <2>3, <2>4 DEF Visits
  <2> QED  BY <2>5 DEF w
<1> QED  BY <1>1, <1>2

(* Each of the n values is visited, and by one worker. *)
LEMMA VisitsOnce ==
    ASSUME NEW T \in Nat, T >= 1, NEW n \in Nat, NEW f,
           \A i \in 0..(n - 1), j \in 0..(n - 1) : f[i] = f[j] => i = j
    PROVE  /\ Values(Visits(T, n, f)) = {f[i] : i \in 0..(n - 1)}
           /\ Cardinality(Visits(T, n, f)) = n
<1> DEFINE V == Visits(T, n, f)
           b == [i \in 0..(n - 1) |-> <<i % T, f[i]>>]
<1>1. V = {<<i % T, f[i]>> : i \in 0..(n - 1)}
  <2>1. n \in Int
    OBVIOUS
  <2> QED  BY <2>1, VisitsAre, Zenon
<1>2. Values(V) = {f[i] : i \in 0..(n - 1)}
  <2>1. ASSUME NEW i \in 0..(n - 1) PROVE f[i] \in Values(V)
    <3>1. <<i % T, f[i]>> \in V /\ <<i % T, f[i]>>[2] = f[i]
      BY <1>1
    <3> QED  BY <3>1 DEF Values
  <2>2. ASSUME NEW x \in Values(V) PROVE x \in {f[i] : i \in 0..(n - 1)}
    <3>1. PICK v \in V : x = v[2]
      BY DEF Values
    <3>2. PICK i \in 0..(n - 1) : v = <<i % T, f[i]>>
      BY <1>1
    <3> QED  BY <3>1, <3>2
  <2> QED  BY <2>1, <2>2
<1>3. Cardinality(V) = n
  <2>1. \A i \in 0..(n - 1) : b[i] = <<i % T, f[i]>> /\ b[i] \in V
    BY <1>1
  <2>2. \A v \in V : \E i \in 0..(n - 1) : b[i] = v
    BY <1>1
  <2>3. ASSUME NEW i \in 0..(n - 1), NEW j \in 0..(n - 1), b[i] = b[j] PROVE i = j
    <3>1. <<i % T, f[i]>> = <<j % T, f[j]>>
      BY <2>1, <2>3
    <3>2. f[i] = f[j]
      BY <3>1
    <3> QED  BY <3>2
  <2>4. b \in [0..(n - 1) -> V]
    BY <2>1
  <2> HIDE DEF b, V
  <2>5. b \in Bijection(0..(n - 1), V)
    BY <2>2, <2>3, <2>4 DEF Bijection, Injection, Surjection, IsInjective
  <2>6. IsFiniteSet(0..(n - 1)) /\ Cardinality(0..(n - 1)) = n
    BY FS_Interval
  <2>7. ExistsBijection(0..(n - 1), V)
    BY <2>5 DEF ExistsBijection
  <2> QED  BY <2>6, <2>7, FS_Bijection
<1> QED  BY <1>2, <1>3

LEMMA SubnetHostsAre ==
    ASSUME NEW a \in Word, NEW p \in Prefixes
    PROVE  /\ SubnetHosts(a, p)
                = (Network(a, p) + 1)..(Network(a, p) + Two[W - p] - 2)
           /\ SubnetHosts(a, p)
                = {Network(a, p) + 1 + i : i \in 0..(Two[W - p] - 3)}
<1> DEFINE N == Network(a, p)
           H == Two[W - p]
<1>1. N \in Nat /\ H \in Nat
  BY NetworkFits, HostPart
<1>2. SubnetHosts(a, p) = (N + 1)..((N + H - 1) - 1)
  BY DEF SubnetHosts, Broadcast
<1> HIDE DEF N, H
<1>3. (N + H - 1) - 1 = N + H - 2
  BY <1>1
<1>4. (N + 1)..(N + H - 2) = {N + 1 + i : i \in 0..(H - 3)}
  <2>1. ASSUME NEW x \in (N + 1)..(N + H - 2) PROVE x \in {N + 1 + i : i \in 0..(H - 3)}
    <3>1. x - N - 1 \in 0..(H - 3) /\ x = N + 1 + (x - N - 1)
      BY <1>1
    <3> QED  BY <3>1
  <2>2. ASSUME NEW i \in 0..(H - 3) PROVE N + 1 + i \in (N + 1)..(N + H - 2)
    BY <1>1
  <2> QED  BY <2>1, <2>2
<1>5. SubnetHosts(a, p) = (N + 1)..(N + H - 2)
  BY <1>2, <1>3
<1> QED  BY <1>4, <1>5 DEF N, H

LEMMA HowManyHosts ==
    ASSUME NEW a \in Word, NEW p \in Prefixes
    PROVE  Cardinality(SubnetHosts(a, p)) =
               IF Two[W - p] = 1 THEN 0 ELSE Two[W - p] - 2
<1> DEFINE N == Network(a, p)
           H == Two[W - p]
<1>1. N \in Nat /\ H \in Nat /\ H >= 1
  BY NetworkFits, HostPart
<1>2. SubnetHosts(a, p) = (N + 1)..(N + H - 2)
  BY SubnetHostsAre
<1> HIDE DEF N, H
<1>3. N + 1 \in Int /\ N + H - 2 \in Int
  BY <1>1
<1> DEFINE l == N + 1
           u == N + H - 2
<1> HIDE DEF l, u
<1>4. Cardinality(l..u) = IF l > u THEN 0 ELSE u - l + 1
  BY <1>3, FS_Interval DEF l, u
<1>5. (IF l > u THEN 0 ELSE u - l + 1) = IF H = 1 THEN 0 ELSE H - 2
  BY <1>1 DEF l, u
<1>6. Cardinality(l..u) = IF H = 1 THEN 0 ELSE H - 2
  BY <1>4, <1>5
<1> QED  BY <1>2, <1>6 DEF l, u, H

LEMMA Threads ==
    ASSUME NEW p \in Prefixes
    PROVE  /\ ScanThreads(p) \in Nat
           /\ p = W => ScanThreads(p) = 0 /\ Two[W - p] = 1
           /\ p # W => ScanThreads(p) >= 1 /\ Two[W - p] >= 2
<1>1. p \in Nat /\ W \in Nat /\ p <= W /\ W - p \in Nat
  BY HostPart, WidthIsNatural
<1>2. ASSUME p # W PROVE Two[W - p] >= 2
  <2>1. W - p - 1 \in Nat /\ (W - p - 1) + 1 = W - p
    BY <1>1, <1>2
  <2>2. Two[(W - p - 1) + 1] = 2 * Two[W - p - 1]
    BY <2>1, TwoIsRecursive
  <2>3. Two[W - p - 1] \in Nat /\ Two[W - p - 1] >= 1
    BY <2>1, TwoPositive
  <2> QED  BY <2>1, <2>2, <2>3
<1>3. ASSUME p = W PROVE Two[W - p] = 1
  BY <1>1, <1>3, TwoIsRecursive
<1> QED  BY <1>1, <1>2, <1>3 DEF ScanThreads

(* The workers of a plan visit each of its values once. *)
LEMMA PlanVisits ==
    ASSUME NEW a \in Word, NEW p \in Prefixes, NEW f,
           \A i \in 0..(Two[W - p] - 3), j \in 0..(Two[W - p] - 3) :
               f[i] = f[j] => i = j
    PROVE  /\ Values(Visits(ScanThreads(p), Two[W - p] - 2, f))
                = {f[i] : i \in 0..(Two[W - p] - 3)}
           /\ Cardinality(Visits(ScanThreads(p), Two[W - p] - 2, f))
                = Cardinality(SubnetHosts(a, p))
<1> DEFINE H == Two[W - p]
           T == ScanThreads(p)
           n == H - 2
<1>1. H \in Nat /\ T \in Nat
  BY HostPart, Threads
<1>2. CASE p = W
  <2>1. T = 0 /\ H = 1
    BY <1>2, Threads
  <2>2. 0..(T - 1) = {} /\ 0..(H - 3) = {}
    BY <2>1
  <2>3. Visits(T, n, f) = {}
    <3> HIDE DEF T, n
    <3> QED  BY <2>2 DEF Visits
  <2>4. Values(Visits(T, n, f)) = {} /\ Cardinality(Visits(T, n, f)) = 0
    <3> HIDE DEF T, n
    <3> QED  BY <2>3, FS_EmptySet DEF Values
  <2>5. {f[i] : i \in 0..(H - 3)} = {}
    <3> HIDE DEF H
    <3> QED  BY <2>2
  <2>6. Cardinality(SubnetHosts(a, p)) = 0
    BY <2>1, HowManyHosts
  <2> QED  BY <2>4, <2>5, <2>6
<1>3. CASE p # W
  <2>1. T >= 1 /\ H >= 2
    BY <1>3, Threads
  <2>2. n \in Nat /\ n - 1 = H - 3
    BY <1>1, <2>1
  <2>3. \A i \in 0..(n - 1), j \in 0..(n - 1) : f[i] = f[j] => i = j
    BY <2>2
  <2>4. Cardinality(SubnetHosts(a, p)) = n
    BY <1>1, <2>1, HowManyHosts
  <2> HIDE DEF T, n, H
  <2>5. /\ Values(Visits(T, n, f)) = {f[i] : i \in 0..(n - 1)}
        /\ Cardinality(Visits(T, n, f)) = n
    BY <1>1, <2>1, <2>2, <2>3, VisitsOnce
  <2> QED  BY <2>2, <2>4, <2>5 DEF T, n, H
<1> QED  BY <1>2, <1>3

-----------------------------------------------------------------------------
(* Android *)

LEMMA MinIs ==
    ASSUME NEW u \in Int, NEW v \in Int, u <= v PROVE Min({u, v}) = u
<1>1. u \in {u, v} /\ \A y \in {u, v} : u <= y
  OBVIOUS
<1>2. \A x \in {u, v} : (\A y \in {u, v} : x <= y) => x = u
  OBVIOUS
<1> QED  BY <1>1, <1>2 DEF Min

LEMMA AndroidNumberOfHostsIs ==
    ASSUME NEW p \in Prefixes, p >= 2 PROVE AndroidNumberOfHosts(p) = Two[W - p] - 2
<1>1. p \in Nat /\ W \in Nat /\ p <= W /\ W - p \in Nat
  BY HostPart, WidthIsNatural
<1>2. W - 2 \in Nat /\ W - p <= W - 2 /\ (W - 2) + 1 = W - 1 /\ W - 1 \in Nat
  BY <1>1
<1>3. Two[W - 1] = 2 * Two[W - 2]
  BY <1>2, TwoIsRecursive
<1>4. Two[W - p] <= Two[W - 2]
  BY <1>1, <1>2, TwoIncreases
<1>5. Two[W - p] \in Nat /\ Two[W - 2] \in Nat /\ Two[W - 2] >= 1
  BY <1>1, <1>2, TwoPositive
<1>6. Two[W - p] \in Int /\ MaxInt \in Int /\ Two[W - p] <= MaxInt
  BY <1>3, <1>4, <1>5 DEF MaxInt
<1> HIDE DEF MaxInt
<1>7. Min({Two[W - p], MaxInt}) = Two[W - p]
  BY <1>6, MinIs
<1> QED  BY <1>7 DEF AndroidNumberOfHosts

LEMMA AndroidAddressIs ==
    ASSUME NEW a \in Word, NEW p \in Prefixes, p >= 2, NEW i \in 0..(Two[W - p] - 3)
    PROVE  AndroidAddress(a, p, i) = Network(a, p) + 1 + i
<1> DEFINE N == Network(a, p)
           H == Two[W - p]
           A == Two[W]
           x == i + N + 1
<1>1. /\ H \in Nat /\ A \in Nat /\ N \in Nat /\ N + H <= A
  BY HostPart, NetworkFits
<1>2. p >= 1
  BY HostPart
<1>3. BitAnd(a, AndroidNetmask(p)) = N
  BY <1>2, AndroidNetmaskIs, AndNetmask
<1>4. AndroidAddress(a, p, i) = (i + N + 1) % A
  BY <1>3 DEF AndroidAddress
<1> HIDE DEF N, H, A
<1>5. x \in Nat /\ x < A /\ i \in 0..(H - 3)
  BY <1>1 DEF H
<1> HIDE DEF x
<1>6. x % A = x
  BY <1>1, <1>5, SmallRemainder
<1>7. x = N + 1 + i
  BY <1>1, <1>5 DEF x
<1> QED  BY <1>4, <1>6, <1>7 DEF x, N

LEMMA AndroidVisitsAre ==
    ASSUME NEW a \in Word, NEW p \in Prefixes, p >= 2
    PROVE  AndroidVisits(a, p) =
              Visits(ScanThreads(p), Two[W - p] - 2,
                     [i \in 0..(Two[W - p] - 3) |-> Network(a, p) + 1 + i])
<1> DEFINE H == Two[W - p]
           T == ScanThreads(p)
           n == H - 2
           f == [i \in 0..(H - 3) |-> Network(a, p) + 1 + i]
<1>1. H \in Nat /\ T \in Nat /\ AndroidNumberOfHosts(p) = n
  BY HostPart, Threads, AndroidNumberOfHostsIs
<1>2. ASSUME NEW w \in 0..(T - 1), NEW i \in Strided(w, n, T)
      PROVE  AndroidAddress(a, p, i) = f[i]
  <2>1. i \in w..(n - 1) /\ w \in Nat
    BY DEF Strided
  <2>2. i \in 0..(H - 3)
    BY <1>1, <2>1
  <2> QED  BY <2>2, AndroidAddressIs
<1>3. AndroidVisits(a, p) =
        UNION {{<<w, AndroidAddress(a, p, i)>> : i \in Strided(w, n, T)} : w \in 0..(T - 1)}
  BY <1>1 DEF AndroidVisits
<1> HIDE DEF f, n, T
<1>4. ASSUME NEW w \in 0..(T - 1)
      PROVE  {<<w, AndroidAddress(a, p, i)>> : i \in Strided(w, n, T)}
             = {<<w, f[i]>> : i \in Strided(w, n, T)}
  BY <1>2
<1>5. AndroidVisits(a, p) = Visits(T, n, f)
  BY <1>3, <1>4 DEF Visits
<1> QED  BY <1>5 DEF f, n, T

LEMMA AndroidVisitsHosts ==
    ASSUME NEW a \in Word, NEW p \in Prefixes, p >= 2
    PROVE  /\ Values(AndroidVisits(a, p)) = SubnetHosts(a, p)
           /\ Cardinality(AndroidVisits(a, p)) = Cardinality(SubnetHosts(a, p))
<1> DEFINE f == [i \in 0..(Two[W - p] - 3) |-> Network(a, p) + 1 + i]
           I == 0..(Two[W - p] - 3)
<1>1. Network(a, p) \in Nat /\ \A i \in I : i \in Int
  BY NetworkFits
<1>2. \A i \in I : f[i] = Network(a, p) + 1 + i
  OBVIOUS
<1>3. \A i \in I, j \in I : f[i] = f[j] => i = j
  BY <1>1, <1>2
<1>4. AndroidVisits(a, p) = Visits(ScanThreads(p), Two[W - p] - 2, f)
  BY AndroidVisitsAre
<1>5. {f[i] : i \in I} = SubnetHosts(a, p)
  <2>1. {f[i] : i \in I} = {Network(a, p) + 1 + i : i \in I}
    BY <1>2
  <2>2. SubnetHosts(a, p) = {Network(a, p) + 1 + i : i \in I}
    BY SubnetHostsAre
  <2> QED  BY <2>1, <2>2
<1> HIDE DEF f
<1>6. /\ Values(Visits(ScanThreads(p), Two[W - p] - 2, f)) = {f[i] : i \in I}
      /\ Cardinality(Visits(ScanThreads(p), Two[W - p] - 2, f))
           = Cardinality(SubnetHosts(a, p))
  BY <1>3, PlanVisits
<1> QED  BY <1>4, <1>5, <1>6

-----------------------------------------------------------------------------
(* iOS *)

LEMMA Octets ==
    /\ OctetBits \in Nat /\ OctetBits >= 1 /\ W = 4 * OctetBits
    /\ Two[OctetBits] \in Nat /\ Two[OctetBits] >= 1
<1>1. OctetBits \in Nat /\ OctetBits >= 1 /\ W = 4 * OctetBits
  BY WidthIsNatural DEF OctetBits
<1> QED  BY <1>1, TwoPositive

(* An octet is a remainder of what is left when the octets below it are gone. *)
LEMMA OctetsAre ==
    ASSUME NEW x \in Word, NEW B, B = Two[OctetBits],
           NEW x1, x1 = x \div B, NEW x2, x2 = x1 \div B, NEW x3, x3 = x2 \div B
    PROVE  /\ IosOctets(x)[4] = x % B /\ IosOctets(x)[3] = x1 % B
           /\ IosOctets(x)[2] = x2 % B /\ IosOctets(x)[1] = x3 % B
           /\ x1 \in Nat /\ x2 \in Nat /\ x3 \in Nat /\ x3 < B
<1> DEFINE o == OctetBits
<1>1. o \in Nat /\ B \in Nat /\ B >= 1 /\ x \in Nat
  <2>1. Two[W] \in Nat
    BY TwoPositive, WidthIsNatural
  <2> QED  BY <2>1, Octets DEF Word
<1>2. x1 \in Nat /\ x2 \in Nat /\ x3 \in Nat
  <2>1. x1 \in Nat
    BY <1>1, Division
  <2>2. x2 \in Nat
    BY <1>1, <2>1, Division
  <2> QED  BY <1>1, <2>1, <2>2, Division
<1>3. (4 - 4) * o = 0 /\ (4 - 3) * o = o /\ (4 - 2) * o = o + o /\ (4 - 1) * o = o + (o + o)
  BY <1>1
<1>4. /\ o + o \in Nat /\ o + (o + o) \in Nat /\ W = o + (o + (o + o))
  BY <1>1, Octets
<1>5. Two[0] = 1 /\ Two[o] = B /\ Two[o + o] = B * B /\ Two[o + (o + o)] = B * (B * B)
      /\ Two[W] = B * (B * (B * B))
  <2>1. Two[o + o] = B * B
    BY <1>1, TwoAdds
  <2>2. Two[o + (o + o)] = B * (B * B)
    BY <1>1, <1>4, <2>1, TwoAdds
  <2>3. Two[o + (o + (o + o))] = B * (B * (B * B))
    BY <1>1, <1>4, <2>2, TwoAdds
  <2> QED  BY <1>4, <2>1, <2>2, <2>3, TwoIsRecursive
<1> HIDE DEF o
<1> DEFINE B2 == B * B
           B3 == B * B2
           B4 == B * B3
<1>6. B2 \in Nat /\ B2 >= 1 /\ B3 \in Nat /\ B3 >= 1 /\ B4 \in Nat
  <2>1. B2 \in Nat /\ B2 >= 1
    BY <1>1, ProductAtLeast
  <2> HIDE DEF B2
  <2>2. B3 \in Nat /\ B3 >= 1
    BY <1>1, <2>1, ProductAtLeast
  <2> HIDE DEF B3
  <2> QED  BY <1>1, <2>1, <2>2
<1>7. x < B4
  <2>1. Two[W] \in Nat
    BY TwoPositive, WidthIsNatural
  <2>2. x < Two[W]
    BY <2>1 DEF Word
  <2>3. Two[W] = B4
    BY <1>5
  <2> HIDE DEF B4
  <2> QED  BY <2>2, <2>3
<1>8. x2 = x \div B2
  BY <1>1, QuotientTwice
<1> HIDE DEF B2
<1>9. x3 = x1 \div B2 /\ x3 = x \div B3
  <2>1. x3 = (x \div B2) \div B /\ (x \div B2) \div B = x \div (B2 * B)
    BY <1>1, <1>6, <1>8, QuotientTwice
  <2>2. B2 * B = B3
    BY <1>1, <1>6
  <2>3. x1 \div B2 = x \div (B * B2)
    BY <1>1, <1>6, QuotientTwice
  <2> QED  BY <2>1, <2>2, <2>3
<1>10. x3 < B
  <2> HIDE DEF B3
  <2>1. x \div B3 < B
    BY <1>1, <1>6, <1>7, BelowMultiple
  <2> QED  BY <1>9, <2>1
<1>11. \A k \in 1..4 : IosOctets(x)[k] = (x \div Two[(4 - k) * o]) % B
  BY DEF IosOctets, o
<1>12. /\ IosOctets(x)[4] = (x \div 1) % B /\ IosOctets(x)[3] = x1 % B
       /\ IosOctets(x)[2] = (x \div B2) % B /\ IosOctets(x)[1] = (x \div B3) % B
  BY <1>3, <1>5, <1>11 DEF B2
<1>13. x \div 1 = x
  BY <1>1
<1> QED  BY <1>2, <1>8, <1>9, <1>10, <1>12, <1>13

(* Two addresses with the same octets are the same. *)
LEMMA OctetsDetermine ==
    ASSUME NEW x \in Word, NEW y \in Word, IosOctets(x) = IosOctets(y)
    PROVE  x = y
<1> DEFINE B == Two[OctetBits]
           x1 == x \div B
           x2 == x1 \div B
           x3 == x2 \div B
           y1 == y \div B
           y2 == y1 \div B
           y3 == y2 \div B
<1>1. /\ IosOctets(x)[4] = x % B /\ IosOctets(x)[3] = x1 % B
      /\ IosOctets(x)[2] = x2 % B /\ IosOctets(x)[1] = x3 % B
      /\ x1 \in Nat /\ x2 \in Nat /\ x3 \in Nat /\ x3 < B
  BY OctetsAre
<1>2. /\ IosOctets(y)[4] = y % B /\ IosOctets(y)[3] = y1 % B
      /\ IosOctets(y)[2] = y2 % B /\ IosOctets(y)[1] = y3 % B
      /\ y1 \in Nat /\ y2 \in Nat /\ y3 \in Nat /\ y3 < B
  BY OctetsAre
<1>3. B \in Nat /\ B >= 1 /\ x \in Nat /\ y \in Nat
  <2>1. Two[W] \in Nat
    BY TwoPositive, WidthIsNatural
  <2> QED  BY <2>1, Octets DEF Word
<1>4. x % B = y % B /\ x1 % B = y1 % B /\ x2 % B = y2 % B /\ x3 % B = y3 % B
  BY <1>1, <1>2
<1> HIDE DEF B
<1>5. x = B * x1 + (x % B) /\ y = B * y1 + (y % B)
  BY <1>3, Division
<1> HIDE DEF x1, y1
<1>6. x1 = B * x2 + (x1 % B) /\ y1 = B * y2 + (y1 % B)
  BY <1>1, <1>2, <1>3, Division DEF x2, y2
<1> HIDE DEF x2, y2
<1>7. x2 = B * x3 + (x2 % B) /\ y2 = B * y3 + (y2 % B)
  BY <1>1, <1>2, <1>3, Division DEF x3, y3
<1> HIDE DEF x3, y3
<1>8. x3 % B = x3 /\ y3 % B = y3
  BY <1>1, <1>2, <1>3, SmallRemainder
<1>9. x3 = y3
  BY <1>4, <1>8
<1>10. x2 = y2
  BY <1>4, <1>7, <1>9
<1>11. x1 = y1
  BY <1>4, <1>6, <1>10
<1> QED  BY <1>4, <1>5, <1>11

LEMMA IosVisitsAre ==
    ASSUME NEW a \in Word, NEW p \in Prefixes
    PROVE  IosVisits(a, p) =
              Visits(ScanThreads(p), Two[W - p] - 2,
                     [i \in 0..(Two[W - p] - 3) |-> IosOctets(Network(a, p) + 1 + i)])
<1> DEFINE H == Two[W - p]
           T == ScanThreads(p)
           n == H - 2
           f == [i \in 0..(H - 3) |-> IosOctets(Network(a, p) + 1 + i)]
<1>1. H \in Nat /\ T \in Nat /\ IosNumberOfHosts(p) = n
  BY HostPart, Threads DEF IosNumberOfHosts
<1>2. ASSUME NEW w \in 0..(T - 1), NEW i \in Strided(w, n, T)
      PROVE  IosOctets(BitAnd(a, IosNetmask(p)) + 1 + i) = f[i]
  <2>1. i \in w..(n - 1) /\ w \in Nat
    BY DEF Strided
  <2>2. i \in 0..(H - 3)
    BY <1>1, <2>1
  <2>3. BitAnd(a, IosNetmask(p)) = Network(a, p)
    BY IosNetmaskIs, AndNetmask
  <2> QED  BY <2>2, <2>3
<1>3. IosVisits(a, p) =
        UNION {{<<w, IosOctets(BitAnd(a, IosNetmask(p)) + 1 + i)>> : i \in Strided(w, n, T)}
               : w \in 0..(T - 1)}
  BY <1>1 DEF IosVisits
<1> HIDE DEF f, n, T
<1>4. ASSUME NEW w \in 0..(T - 1)
      PROVE  {<<w, IosOctets(BitAnd(a, IosNetmask(p)) + 1 + i)>> : i \in Strided(w, n, T)}
             = {<<w, f[i]>> : i \in Strided(w, n, T)}
  BY <1>2
<1>5. IosVisits(a, p) = Visits(T, n, f)
  BY <1>3, <1>4 DEF Visits
<1> QED  BY <1>5 DEF f, n, T

LEMMA IosVisitsHosts ==
    ASSUME NEW a \in Word, NEW p \in Prefixes
    PROVE  /\ Values(IosVisits(a, p)) = {IosOctets(x) : x \in SubnetHosts(a, p)}
           /\ Cardinality(IosVisits(a, p)) = Cardinality(SubnetHosts(a, p))
<1> DEFINE N == Network(a, p)
           I == 0..(Two[W - p] - 3)
           f == [i \in I |-> IosOctets(N + 1 + i)]
<1>1. N \in Nat /\ Two[W - p] \in Nat /\ N + Two[W - p] <= Two[W] /\ Two[W] \in Nat
  BY NetworkFits, HostPart
<1>2. \A i \in I : f[i] = IosOctets(N + 1 + i)
  OBVIOUS
<1> HIDE DEF f
<1>3. ASSUME NEW i \in I PROVE i \in Nat /\ N + 1 + i \in Word
  BY <1>1 DEF Word
<1>4. ASSUME NEW i \in I, NEW j \in I, f[i] = f[j] PROVE i = j
  <2>1. N + 1 + i \in Word /\ N + 1 + j \in Word
        /\ IosOctets(N + 1 + i) = IosOctets(N + 1 + j)
    BY <1>2, <1>3, <1>4
  <2>2. N + 1 + i = N + 1 + j
    <3> HIDE DEF N
    <3> QED  BY <2>1, OctetsDetermine
  <2> QED  BY <1>1, <1>3, <2>2
<1>5. IosVisits(a, p) = Visits(ScanThreads(p), Two[W - p] - 2, f)
  BY IosVisitsAre DEF f
<1>6. {f[i] : i \in I} = {IosOctets(x) : x \in SubnetHosts(a, p)}
  <2>1. SubnetHosts(a, p) = {N + 1 + i : i \in I}
    BY SubnetHostsAre
  <2> HIDE DEF I, N
  <2> QED  BY <1>2, <2>1
<1>7. /\ Values(Visits(ScanThreads(p), Two[W - p] - 2, f)) = {f[i] : i \in I}
      /\ Cardinality(Visits(ScanThreads(p), Two[W - p] - 2, f))
           = Cardinality(SubnetHosts(a, p))
  BY <1>4, PlanVisits
<1> QED  BY <1>5, <1>6, <1>7

-----------------------------------------------------------------------------
(* The addresses that Android cannot encode *)

(* With a prefix longer than an octet, the half octets at the edges are made of
   whole networks. *)
LEMMA EdgeIs ==
    ASSUME NEW p \in Prefixes, p > OctetBits
    PROVE  \E e \in Nat : \E g \in Nat :
              /\ Two[3 * (W \div 4) - 1] = e * Two[W - p]
              /\ Two[W] - Two[3 * (W \div 4) - 1] = g * Two[W - p]
<1> DEFINE o == OctetBits
           H == Two[W - p]
           E == Two[3 * o - 1]
           A == Two[W]
<1>1. /\ o \in Nat /\ o >= 1 /\ W = 4 * o /\ o = W \div 4
      /\ p \in Nat /\ p <= W /\ W - p \in Nat
  BY HostPart, Octets DEF OctetBits
<1>2. 3 * o - 1 \in Nat /\ W - p <= 3 * o - 1 /\ 3 * o - 1 <= W
  BY <1>1
<1>3. E = Two[(3 * o - 1) - (W - p)] * H /\ E <= A
  BY <1>1, <1>2, TwoIncreases, WidthIsNatural
<1> DEFINE e == Two[(3 * o - 1) - (W - p)]
           P == Two[p]
<1>4. e \in Nat /\ P \in Nat /\ A = P * H /\ H \in Nat /\ H >= 1 /\ E \in Nat /\ A \in Nat
  <2>1. (3 * o - 1) - (W - p) \in Nat
    BY <1>1, <1>2
  <2> QED  BY <1>2, <2>1, HostPart, TwoPositive
<1> HIDE DEF e, P, E, A, H
<1>5. P >= e
  <2> SUFFICES ASSUME P < e PROVE FALSE
    BY <1>4
  <2>1. e - P - 1 \in Nat /\ e = P + 1 + (e - P - 1)
    BY <1>4
  <2>2. PICK d \in Nat : e = P + 1 + d
    BY <2>1
  <2>3. e * H = P * H + H + d * H /\ d * H \in Nat
    BY <1>4, <2>2
  <2> QED  BY <1>3, <1>4, <2>3 DEF e
<1>6. P - e \in Nat /\ A - E = (P - e) * H
  <2>1. E = e * H
    BY <1>3 DEF e
  <2>2. P - e \in Nat
    BY <1>4, <1>5
  <2>3. (P - e) * H = P * H - e * H
    BY <1>4, <2>2
  <2> QED  BY <1>4, <2>1, <2>2, <2>3
<1> QED  BY <1>1, <1>3, <1>4, <1>6 DEF E, A, H, e

LEMMA FitsIs ==
    ASSUME NEW x \in Word
    PROVE  FitsInThreeOctets(x) <=>
              x < Two[3 * (W \div 4) - 1] \/ ~(x < Two[W] - Two[3 * (W \div 4) - 1])
<1> DEFINE E == Two[3 * (W \div 4) - 1]
           A == Two[W]
           M == Two[W - 1]
           k == 3 * (W \div 4) - 1
<1>1. k \in Nat /\ k <= W - 1 /\ W - 1 \in Nat /\ (W - 1) + 1 = W
  BY WidthIsNatural
<1>2. E \in Nat /\ M \in Nat /\ A \in Nat
  BY <1>1, TwoPositive, WidthIsNatural
<1>3. E <= M
  BY <1>1, TwoIncreases
<1>4. A = 2 * M
  BY <1>1, TwoIsRecursive
<1>5. x \in Nat /\ x < A
  BY <1>2 DEF Word
<1>6. FitsInThreeOctets(x) <=> ToSigned(x) \in (-E)..(E - 1)
  BY DEF FitsInThreeOctets
<1>7. ToSigned(x) = IF x > M - 1 THEN x - A ELSE x
  BY DEF ToSigned, MaxInt
<1> HIDE DEF E, A, M
<1> QED  BY <1>2, <1>3, <1>4, <1>5, <1>6, <1>7 DEF E, A

LEMMA HostsShareNetwork ==
    ASSUME NEW a \in Word, NEW p \in Prefixes, NEW x \in SubnetHosts(a, p)
    PROVE  x \in Word /\ x \div Two[W - p] = a \div Two[W - p]
<1> DEFINE H == Two[W - p]
           q == a \div H
           N == Network(a, p)
<1>1. N \in Nat /\ H \in Nat /\ H >= 1 /\ N + H <= Two[W] /\ Two[W] \in Nat /\ N = q * H
  BY NetworkFits, HostPart DEF Network
<1>2. x \in (N + 1)..(N + H - 2)
  BY SubnetHostsAre
<1>3. x \in Nat /\ x - N \in Nat /\ x - N < H /\ x < Two[W] /\ x = N + (x - N)
  BY <1>1, <1>2
<1>4. a \in Nat
  BY <1>1 DEF Word
<1> HIDE DEF H
<1>5. q \in Nat
  BY <1>1, <1>4, Division
<1> HIDE DEF q, N
<1>6. x = H * q + (x - N)
  BY <1>1, <1>3, <1>5
<1>7. x \div H = q
  BY <1>1, <1>3, <1>5, <1>6, QuotientIs
<1>8. x \in Word
  BY <1>1, <1>3 DEF Word
<1> QED  BY <1>7, <1>8 DEF H, q

LEMMA ThrowsAtTheEdges ==
    ASSUME NEW a \in Word, NEW p \in Prefixes, p > OctetBits, SubnetHosts(a, p) # {}
    PROVE  AddressThrows(a, p) <=> FitsInThreeOctets(a)
<1> DEFINE H == Two[W - p]
           E == Two[3 * (W \div 4) - 1]
           A == Two[W]
<1>1. p >= 2
  BY Octets, HostPart
<1>2. Values(AndroidVisits(a, p)) = SubnetHosts(a, p)
  BY <1>1, AndroidVisitsHosts
<1>3. AddressThrows(a, p) <=> \E x \in SubnetHosts(a, p) : FitsInThreeOctets(x)
  BY <1>2 DEF AddressThrows, Values
<1>4. PICK e \in Nat : \E g \in Nat : E = e * H /\ A - E = g * H
  BY EdgeIs
<1>5. PICK g \in Nat : E = e * H /\ A - E = g * H
  BY <1>4
<1>6. H \in Nat /\ H >= 1
  BY HostPart
<1>7. ASSUME NEW x \in Word, x \div H = a \div H
      PROVE  FitsInThreeOctets(x) <=> FitsInThreeOctets(a)
  <2>1. A \in Nat
    BY TwoPositive, WidthIsNatural
  <2>2. x \in Nat /\ a \in Nat
    BY <2>1 DEF Word
  <2> HIDE DEF H, E, A
  <2>3. (x < E <=> x \div H < e) /\ (a < E <=> a \div H < e)
    BY <1>5, <1>6, <2>2, BelowMultiple
  <2>4. (x < A - E <=> x \div H < g) /\ (a < A - E <=> a \div H < g)
    BY <1>5, <1>6, <2>2, BelowMultiple
  <2>5. FitsInThreeOctets(x) <=> x < E \/ ~(x < A - E)
    BY FitsIs DEF E, A
  <2>6. FitsInThreeOctets(a) <=> a < E \/ ~(a < A - E)
    BY FitsIs DEF E, A
  <2> QED  BY <1>7, <2>3, <2>4, <2>5, <2>6
<1>8. \A x \in SubnetHosts(a, p) : FitsInThreeOctets(x) <=> FitsInThreeOctets(a)
  BY <1>7, HostsShareNetwork
<1> QED  BY <1>3, <1>8

-----------------------------------------------------------------------------
(* The walk over the addresses *)

PlanInv == ip \in Word /\ prefix \in Prefixes

LEMMA PlanInvHolds == PlanSpec => []PlanInv
<1>1. Two[W] \in Nat /\ Two[W] >= 1
  BY TwoPositive, WidthIsNatural
<1>2. PlanInit => PlanInv
  BY <1>1 DEF PlanInit, PlanInv, Word
<1>3. PlanInv /\ [NextAddress]_<<ip, prefix>> => PlanInv'
  <2> SUFFICES ASSUME PlanInv, [NextAddress]_<<ip, prefix>> PROVE PlanInv'
    OBVIOUS
  <2>1. CASE NextAddress
    <3>1. ip \in Nat /\ ip + 1 \in Nat
      BY <1>1 DEF PlanInv, Word
    <3>2. (ip + 1) % Two[W] \in 0..(Two[W] - 1)
      BY <1>1, <3>1, Division
    <3> QED  BY <2>1, <3>2 DEF NextAddress, PlanInv, Word
  <2>2. CASE UNCHANGED <<ip, prefix>>
    BY <2>2 DEF PlanInv
  <2> QED  BY <2>1, <2>2
<1> QED  BY <1>2, <1>3, PTL DEF PlanSpec

(* startScanning on Android: for every device address and every prefix length
   from 2 on, on words of any width, each host of the subnet is visited by one
   worker, and nothing else is. *)
THEOREM AndroidSubnet == PlanSpec => []AndroidVisitsSubnet
<1>1. PlanInv => AndroidVisitsSubnet
  BY AndroidVisitsHosts DEF PlanInv, AndroidVisitsSubnet
<1> QED  BY <1>1, PlanInvHolds, PTL

(* startScanning on iOS, with its octets: the same, for every prefix length. *)
THEOREM IosSubnet == PlanSpec => []IosVisitsSubnet
<1>1. PlanInv => IosVisitsSubnet
  BY IosVisitsHosts DEF PlanInv, IosVisitsSubnet
<1> QED  BY <1>1, PlanInvHolds, PTL

(* InetAddress.getByAddress throws in a scan of a subnet with a prefix longer than
   an octet exactly if the device's own address is in one of the two half octets
   whose addresses BigInteger shortens. *)
THEOREM AndroidEdges == PlanSpec => []AndroidThrowsAtTheEdges
<1>1. PlanInv => AndroidThrowsAtTheEdges
  BY ThrowsAtTheEdges DEF PlanInv, AndroidThrowsAtTheEdges
<1> QED  BY <1>1, PlanInvHolds, PTL

(* numberOfHosts and scanThreads of either platform are what the scans' own
   theorems assume of them, for every prefix length: there are workers unless there
   are no hosts. *)
THEOREM PlansFitScans ==
    \A p \in Prefixes :
        /\ AndroidNumberOfHosts(p) \in Int /\ IosNumberOfHosts(p) \in Int
        /\ ScanThreads(p) \in Nat
        /\ ScanThreads(p) = 0 => AndroidNumberOfHosts(p) <= 0 /\ IosNumberOfHosts(p) <= 0
<1> SUFFICES ASSUME NEW p \in Prefixes
             PROVE  /\ AndroidNumberOfHosts(p) \in Int /\ IosNumberOfHosts(p) \in Int
                    /\ ScanThreads(p) \in Nat
                    /\ ScanThreads(p) = 0 => /\ AndroidNumberOfHosts(p) <= 0
                                             /\ IosNumberOfHosts(p) <= 0
  OBVIOUS
<1>1. Two[W - p] \in Nat /\ ScanThreads(p) \in Nat
  BY HostPart, Threads
<1>2. MaxInt \in Int
  <2>1. W - 1 \in Nat
    BY WidthIsNatural
  <2>2. Two[W - 1] \in Nat
    BY <2>1, TwoPositive
  <2> QED  BY <2>2 DEF MaxInt
<1>3. AndroidNumberOfHosts(p) \in Int
  <2> DEFINE u == Two[W - p]
  <2> HIDE DEF u, MaxInt
  <2>1. u \in Int /\ MaxInt \in Int
    BY <1>1, <1>2 DEF u
  <2>2. CASE u <= MaxInt
    <3>1. Min({u, MaxInt}) = u
      BY <2>1, <2>2, MinIs
    <3> QED  BY <2>1, <3>1 DEF AndroidNumberOfHosts, u
  <2>3. CASE MaxInt <= u
    <3>1. Min({MaxInt, u}) = MaxInt
      BY <2>1, <2>3, MinIs
    <3>2. {MaxInt, u} = {u, MaxInt}
      OBVIOUS
    <3> QED  BY <2>1, <3>1, <3>2 DEF AndroidNumberOfHosts, u
  <2> QED  BY <2>1, <2>2, <2>3
<1>4. IosNumberOfHosts(p) \in Int
  BY <1>1 DEF IosNumberOfHosts
<1>5. ASSUME ScanThreads(p) = 0
      PROVE  AndroidNumberOfHosts(p) <= 0 /\ IosNumberOfHosts(p) <= 0
  <2>1. p = W
    BY <1>5, Threads
  <2>2. Two[W - p] = 1 /\ p >= 2
    BY <2>1, Threads, WidthIsNatural
  <2>3. AndroidNumberOfHosts(p) = Two[W - p] - 2
    BY <2>2, AndroidNumberOfHostsIs
  <2> QED  BY <2>2, <2>3 DEF IosNumberOfHosts
<1> QED  BY <1>1, <1>3, <1>4, <1>5

(* Two devices on one subnet, one of each platform, look at the same addresses. *)
THEOREM PlansAgree ==
    PlanSpec => [](prefix >= 2 => {IosOctets(x) : x \in Values(AndroidVisits(ip, prefix))}
                              = Values(IosVisits(ip, prefix)))
<1>1. PlanInv /\ prefix >= 2 =>
        {IosOctets(x) : x \in Values(AndroidVisits(ip, prefix))}
        = Values(IosVisits(ip, prefix))
  <2> SUFFICES ASSUME PlanInv, prefix >= 2
               PROVE  {IosOctets(x) : x \in Values(AndroidVisits(ip, prefix))}
                      = Values(IosVisits(ip, prefix))
    OBVIOUS
  <2>1. Values(AndroidVisits(ip, prefix)) = SubnetHosts(ip, prefix)
    BY AndroidVisitsHosts DEF PlanInv
  <2>2. Values(IosVisits(ip, prefix)) = {IosOctets(x) : x \in SubnetHosts(ip, prefix)}
    BY IosVisitsHosts DEF PlanInv
  <2> QED  BY <2>1, <2>2
<1> QED  BY <1>1, PlanInvHolds, PTL

-----------------------------------------------------------------------------
(* The scan that onListen builds *)

WifiTypeOK ==
    /\ wifiState \in States /\ lease \in Leases /\ dhcp \in Prefixes
    /\ stateChanges \in Nat
    /\ atGate.changes \in Nat /\ atGate.changes <= stateChanges

(* While nothing changes after a test that found Wi-Fi connected, what has been
   read belongs to the network that is still there. *)
ReadIsCurrent ==
    pc # "test" /\ Steady =>
        /\ wifiState = "connected"
        /\ pc \in {"readPrefix", "lookUp", "started"} => ip = lease.ip
        /\ pc = "started" => \/ source = "dhcp" /\ prefix = dhcp /\ ~Impossible(dhcp)
                             \/ source = "interface" /\ prefix = lease.prefix
                             \/ source = "kept"

WifiInv == WifiTypeOK /\ ReadIsCurrent

LEMMA WifiInit == WInit => WifiInv
<1> SUFFICES ASSUME WInit PROVE WifiInv
  OBVIOUS
<1>1. /\ wifiState \in States /\ lease \in Leases /\ stateChanges = 0 /\ pc = "test"
      /\ dhcp = IF wifiState = "connected" THEN lease.prefix ELSE 0
      /\ atGate.changes = 0
  BY DEF WInit
<1>2. lease.prefix \in Prefixes /\ 0 \in Prefixes
  BY <1>1, LeaseAssumption, WidthIsNatural DEF Prefixes
<1> QED  BY <1>1, <1>2 DEF WifiInv, WifiTypeOK, ReadIsCurrent

LEMMA WifiNext == ASSUME WifiInv, [WNext]_addressVars PROVE WifiInv'
<1> USE DEF WifiInv, WifiTypeOK
<1>1. CASE WifiStateChanges
  <2>1. /\ stateChanges' = stateChanges + 1 /\ wifiState' \in States
        /\ lease' \in IF wifiState' = "connected" THEN Leases ELSE {lease}
        /\ dhcp' \in IF wifiState' = "connected"
                      THEN DhcpPrefixes \cup {lease'.prefix} ELSE {0}
        /\ atGate' = atGate /\ pc' = pc
    BY <1>1 DEF WifiStateChanges
  <2>2. lease' \in Leases
    BY <2>1
  <2>3. lease'.prefix \in Prefixes /\ 0 \in Prefixes /\ DhcpPrefixes \subseteq Prefixes
    BY <2>2, LeaseAssumption, WidthIsNatural DEF Prefixes
  <2>4. dhcp' \in Prefixes
    BY <2>1, <2>3
  <2>5. atGate'.changes = atGate.changes
    BY <2>1
  <2>6. WifiTypeOK'
    BY <2>1, <2>2, <2>4, <2>5
  <2>7. ~(stateChanges' = atGate'.changes)
    BY <2>1, <2>5
  <2> QED  BY <2>6, <2>7 DEF ReadIsCurrent, Steady
<1>2. CASE Test
  <2>1. /\ pc = "test" /\ UNCHANGED <<wifiState, lease, dhcp, stateChanges>>
        /\ pc' = IF ConnectedOrConnecting THEN "readIp" ELSE "nowifi"
        /\ atGate'.changes = stateChanges /\ atGate'.wifi = wifiState
    BY <1>2 DEF Test, wifiVars
  <2> QED  BY <2>1 DEF ReadIsCurrent, Steady, ConnectedOrConnecting
<1>3. CASE ReadIp
  BY <1>3 DEF ReadIp, wifiVars, ReadIsCurrent, Steady, CurrentIp
<1>4. CASE ReadPrefix
  BY <1>4 DEF ReadPrefix, wifiVars, ReadIsCurrent, Steady, Impossible
<1>5. CASE NoDhcp
  BY <1>5 DEF NoDhcp, wifiVars, ReadIsCurrent, Steady
<1>6. CASE LookUp
  BY <1>6 DEF LookUp, wifiVars, ReadIsCurrent, Steady
<1>7. CASE LookUpFails
  BY <1>7 DEF LookUpFails, wifiVars, ReadIsCurrent, Steady
<1>8. CASE Stopped \/ UNCHANGED addressVars
  BY <1>8 DEF Stopped, addressVars, wifiVars, ReadIsCurrent, Steady, Impossible
<1> QED
  BY <1>1, <1>2, <1>3, <1>4, <1>5, <1>6, <1>7, <1>8 DEF WNext

(* onListen: a scan that starts with Wi-Fi connected and unchanged since the test
   visits the hosts of the network, when dhcpInfo tells the truth and when what it
   tells cannot exist, unless the look-up of the interface fails too. *)
THEOREM SteadyScan == WSpec => []SteadyScanVisitsNetwork
<1>1. ASSUME WifiInv, Started, Steady, source # "kept", CanExist(lease.prefix),
             dhcp = lease.prefix \/ ~CanExist(dhcp)
      PROVE  Values(AndroidVisits(ip, prefix)) = SubnetHosts(lease.ip, lease.prefix)
  <2>1. /\ ip = lease.ip
        /\ \/ prefix = dhcp /\ ~Impossible(dhcp)
           \/ prefix = lease.prefix
    BY <1>1 DEF WifiInv, ReadIsCurrent, Started
  <2>2. dhcp \in 0..W /\ lease.prefix \in 4..W /\ lease \in Leases
    BY <1>1 DEF WifiInv, WifiTypeOK, Prefixes, CanExist
  <2>3. prefix = lease.prefix
    <3>1. CASE prefix = dhcp /\ ~Impossible(dhcp)
      <4>1. dhcp \in 4..W
        BY <2>2, <3>1, WidthIsNatural DEF Impossible
      <4> QED  BY <1>1, <3>1, <4>1 DEF CanExist
    <3> QED  BY <2>1, <3>1
  <2>4. lease.ip \in Word /\ lease.prefix \in Prefixes /\ lease.prefix >= 2
    BY <2>2, LeaseAssumption, WidthIsNatural
  <2> QED  BY <2>1, <2>3, <2>4, AndroidVisitsHosts
<1>2. WifiInv => SteadyScanVisitsNetwork
  BY <1>1 DEF SteadyScanVisitsNetwork
<1> QED  BY <1>2, WifiInit, WifiNext, PTL DEF WSpec

-----------------------------------------------------------------------------
(* The Wi-Fi status: queues *)

LEMMA EmptyHasNoLength == ASSUME NEW s, s = <<>> PROVE Len(s) = 0
  OBVIOUS

LEMMA OneMoreThanNone == ASSUME NEW n, NEW m \in Nat, n = m - 1, n = 0 PROVE m = 1
  OBVIOUS

LEMMA TailKeepsLast ==
    ASSUME NEW S, NEW q \in Seq(S), q # <<>>
    PROVE  /\ Head(q) \in S /\ Tail(q) \in Seq(S)
           /\ Tail(q) = <<>> => q[Len(q)] = Head(q)
           /\ Tail(q) # <<>> => Tail(q)[Len(Tail(q))] = q[Len(q)]
<1>1. /\ Head(q) \in S /\ Tail(q) \in Seq(S)
      /\ Len(q) \in Nat /\ Len(q) > 0 /\ Len(Tail(q)) = Len(q) - 1
  OBVIOUS
<1>2. ASSUME Tail(q) = <<>> PROVE q[Len(q)] = Head(q)
  <2>1. Len(Tail(q)) = 0
    BY <1>2, EmptyHasNoLength
  <2>2. Len(q) = 1
    BY <1>1, <2>1, OneMoreThanNone, Zenon
  <2> QED  BY <2>2
<1>3. ASSUME Tail(q) # <<>> PROVE Tail(q)[Len(Tail(q))] = q[Len(q)]
  <2>1. Len(Tail(q)) > 0
    BY <1>1, <1>3
  <2> QED  BY <1>1, <2>1
<1> QED  BY <1>1, <1>2, <1>3

LEMMA AppendIsLast ==
    ASSUME NEW S, NEW q \in Seq(S), NEW x \in S
    PROVE  /\ Append(q, x) \in Seq(S) /\ Append(q, x) # <<>>
           /\ Append(q, x)[Len(Append(q, x))] = x
  OBVIOUS

-----------------------------------------------------------------------------
(* The invariant *)

Sinks == Streams \cup {None}

StatusTypeOK ==
    /\ calls \in Seq(Sinks)
    /\ handler \in Sinks
    /\ activeSink \in Sinks
    /\ op \in {Idle, "replace", "listen", "register", "cancel"}
    /\ monitor \in BOOLEAN

(* What the background queue is about to do with the receiver is what the active
   sink asks for. *)
MonitorFollowsSink ==
    /\ op = Idle => (monitor <=> activeSink # None)
    /\ op \in {"replace", "listen", "register"} => activeSink # None
    /\ op = "cancel" => activeSink = None
    /\ op # Idle => platform = "android"

(* The last call that is on its way asks for what Dart did last; when there is
   none, the active sink does. *)
LastCallIsHandlers ==
    attached =>
        /\ calls = <<>> => (activeSink # None <=> handler # None)
        /\ calls # <<>> => (calls[Len(calls)] # None <=> handler # None)

StatusInv == StatusTypeOK /\ MonitorFollowsSink /\ LastCallIsHandlers

LEMMA StreamIsNotNone ==
    ASSUME NEW s \in Streams PROVE s # None /\ s \in Sinks
  BY StatusAssumption DEF Streams, None, Sinks

LEMMA StatusInit == Init => StatusInv
<1> SUFFICES ASSUME Init PROVE StatusInv
  OBVIOUS
<1>1. /\ handler = None /\ calls = <<>> /\ activeSink = None /\ op = "idle"
      /\ monitor = FALSE
  BY DEF Init, Idle
<1>2. <<>> \in Seq(Sinks)
  BY EmptySeq
<1>3. None \in Sinks
  BY DEF Sinks
<1>4. StatusTypeOK
  BY <1>1, <1>2, <1>3 DEF StatusTypeOK, Idle
<1>5. MonitorFollowsSink
  BY <1>1 DEF MonitorFollowsSink, Idle
<1>6. LastCallIsHandlers
  BY <1>1 DEF LastCallIsHandlers
<1> QED  BY <1>4, <1>5, <1>6 DEF StatusInv

(* A call is put on the queue. *)
LEMMA CallKeeps ==
    ASSUME StatusInv, NEW c \in Sinks, calls' = Append(calls, c),
           handler' \in Sinks, handler' # None <=> c # None,
           UNCHANGED <<platform, activeSink, op, monitor>>
    PROVE  StatusInv'
<1>1. /\ calls' \in Seq(Sinks) /\ calls' # <<>> /\ calls'[Len(calls')] = c
  BY AppendIsLast DEF StatusInv, StatusTypeOK
<1> QED
  BY <1>1 DEF StatusInv, StatusTypeOK, MonitorFollowsSink, LastCallIsHandlers

(* A call is taken, and the active sink is what it asks for. *)
LEMMA TakeKeeps ==
    ASSUME StatusInv, calls # <<>>, calls' = Tail(calls), activeSink' = Head(calls),
           UNCHANGED <<handler, attached>>
    PROVE  /\ calls' \in Seq(Sinks) /\ activeSink' \in Sinks
           /\ LastCallIsHandlers'
<1>1. calls \in Seq(Sinks)
  BY DEF StatusInv, StatusTypeOK
<1>2. /\ Head(calls) \in Sinks /\ Tail(calls) \in Seq(Sinks)
      /\ Tail(calls) = <<>> => calls[Len(calls)] = Head(calls)
      /\ Tail(calls) # <<>> => Tail(calls)[Len(Tail(calls))] = calls[Len(calls)]
  BY <1>1, TailKeepsLast
<1> QED  BY <1>2 DEF StatusInv, LastCallIsHandlers

LEMMA StatusNext ==
    ASSUME StatusInv, [Next]_vars
    PROVE  StatusInv'
<1> USE DEF dart, channel, android, ios, Idle
<1>1. ASSUME NEW s \in Streams, Listens(s) PROVE StatusInv'
  BY <1>1, StreamIsNotNone, CallKeeps DEF Listens
<1>2. ASSUME NEW s \in Streams, Cancels(s) PROVE StatusInv'
  <2>1. None \in Sinks
    BY DEF Sinks
  <2>2. /\ calls' = Append(calls, None) /\ handler' = None
        /\ UNCHANGED <<platform, activeSink, op, monitor>>
    BY <1>2 DEF Cancels, Cancel
  <2> QED  BY <2>1, <2>2, CallKeeps
<1>3. CASE TakeListen
  <2>1. /\ calls # <<>> /\ calls' = Tail(calls) /\ activeSink' = Head(calls)
        /\ UNCHANGED <<handler, attached>>
    BY <1>3 DEF TakeListen
  <2>2. /\ platform = "android" /\ op' \in {"replace", "listen"} /\ activeSink' # None
        /\ UNCHANGED <<platform, monitor>>
    BY <1>3 DEF TakeListen, Cancel
  <2> QED
    BY <2>1, <2>2, TakeKeeps DEF StatusInv, StatusTypeOK, MonitorFollowsSink
<1>4. CASE TakeCancel
  <2>1. /\ calls # <<>> /\ calls' = Tail(calls) /\ activeSink' = Head(calls)
        /\ UNCHANGED <<handler, attached>>
    BY <1>4 DEF TakeCancel, Cancel
  <2>2. /\ platform = "android" /\ op = "idle" /\ activeSink' = None
        /\ op' = IF activeSink # None THEN "cancel" ELSE "idle"
        /\ UNCHANGED <<platform, monitor>>
    BY <1>4 DEF TakeCancel, Cancel
  <2> QED
    BY <2>1, <2>2, TakeKeeps DEF StatusInv, StatusTypeOK, MonitorFollowsSink
<1>5. CASE OnCancel \/ SetSink \/ RegisterReceiver
  <2>1. UNCHANGED <<platform, handler, calls, activeSink, attached>>
    BY <1>5 DEF OnCancel, SetSink, RegisterReceiver
  <2>2. \/ op = "replace" /\ op' = "listen" /\ ~monitor' /\ monitor' \in BOOLEAN
        \/ op = "cancel" /\ op' = "idle" /\ ~monitor' /\ monitor' \in BOOLEAN
        \/ op = "listen" /\ op' = "register" /\ monitor' = monitor
        \/ op = "register" /\ op' = "idle" /\ monitor' /\ monitor' \in BOOLEAN
    BY <1>5
    DEF OnCancel, Unregistered, SetSink, RegisterReceiver
  <2> QED
    BY <2>1, <2>2 DEF StatusInv, StatusTypeOK, MonitorFollowsSink, LastCallIsHandlers
<1>6. CASE OnListenIos
  <2>1. /\ calls # <<>> /\ calls' = Tail(calls) /\ activeSink' = Head(calls)
        /\ UNCHANGED <<handler, attached>>
    BY <1>6 DEF OnListenIos
  <2>2. /\ platform = "ios" /\ activeSink' # None /\ monitor'
        /\ UNCHANGED <<platform, op>> /\ monitor' \in BOOLEAN
    BY <1>6 DEF OnListenIos, Cancel
  <2> QED
    BY <2>1, <2>2, TakeKeeps DEF StatusInv, StatusTypeOK, MonitorFollowsSink
<1>7. CASE OnCancelIos
  <2>1. /\ calls # <<>> /\ calls' = Tail(calls) /\ activeSink' = Head(calls)
        /\ UNCHANGED <<handler, attached>>
    BY <1>7 DEF OnCancelIos, Cancel
  <2>2. /\ platform = "ios" /\ activeSink' = None /\ ~monitor'
        /\ UNCHANGED <<platform, op>> /\ monitor' \in BOOLEAN
    BY <1>7 DEF OnCancelIos
  <2> QED
    BY <2>1, <2>2, TakeKeeps DEF StatusInv, StatusTypeOK, MonitorFollowsSink
<1>8. CASE Detach
  BY <1>8
  DEF Detach, StatusInv, StatusTypeOK, MonitorFollowsSink, LastCallIsHandlers
<1>9. CASE UNCHANGED <<platform, handler, calls, activeSink, attached, op, monitor>>
  BY <1>9 DEF StatusInv, StatusTypeOK, MonitorFollowsSink, LastCallIsHandlers
<1>10. CASE Deliver \/ MainStep \/ BlockStep
            \/ WifiChanges \/ Terminating \/ UNCHANGED vars
  <2>1. UNCHANGED <<platform, handler, calls, activeSink, attached, op, monitor>>
    BY <1>10
    DEF Deliver, MainStep, OnReceive, Success,
       BlockStep, RunBlock, SendBlock, WifiChanges,
       Terminating, vars
  <2> QED  BY <2>1, <1>9
<1> QED
  BY <1>1, <1>2, <1>3, <1>4, <1>5, <1>6, <1>7, <1>8, <1>10
  DEF Next, DartStep, CallStep

(* When the calls have been handled, a receiver is registered or a monitor runs
   exactly if Dart has listened last: however its streams overlap, on both
   platforms, until the engine is detached. *)
THEOREM MonitorFollows == Spec => []MonitorFollowsHandler
<1>1. StatusInv => MonitorFollowsHandler
  BY DEF StatusInv, MonitorFollowsSink, LastCallIsHandlers,
     MonitorFollowsHandler, Handled
<1> QED  BY <1>1, StatusInit, StatusNext, PTL DEF Spec
=============================================================================
