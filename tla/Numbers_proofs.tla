--------------------------- MODULE Numbers_proofs ---------------------------
(***************************************************************************)
(* What the run of MCNumbers checks on small numbers, proved for all       *)
(* numbers, keys, groups and draws: an RSA number comes back, an RSA or a  *)
(* DSA signature verifies, isPrime errs only within Rabin's bound, and a   *)
(* strong prime is one.  First the arithmetic: residues, powers, primes,   *)
(* Fermat's little theorem by counting orbits.                             *)
(***************************************************************************)
EXTENDS MCNumbers, FiniteSetTheorems, NaturalsInduction, WellFoundedInduction, TLAPS

-----------------------------------------------------------------------------
(* Arithmetic modulo a number.                                             *)

\* What division says of its results.
LEMMA Divided ==
  ASSUME NEW x \in Int, NEW n \in Nat \ {0}
  PROVE  x \div n \in Int /\ x % n \in 0 .. (n - 1) /\ x = n * (x \div n) + (x % n)
OBVIOUS

\* A quotient and a remainder are those of division.
LEMMA DivMod ==
  ASSUME NEW n \in Nat \ {0}, NEW q \in Int, NEW r \in 0 .. (n - 1)
  PROVE  (n * q + r) \div n = q /\ (n * q + r) % n = r
OBVIOUS

\* Two integers that n does not tell apart.
Cong(x, y, n) == \E k \in Int : x = y + n * k

\* Any integer is like itself and like its remainder.
LEMMA CongMod ==
  ASSUME NEW x \in Int, NEW n \in Nat \ {0}
  PROVE  /\ Cong(x, x, n) /\ Cong(x % n, x, n) /\ Cong(x, x % n, n) /\ x % n \in 0 .. (n - 1)
         /\ x % n \in Int
<1> DEFINE q == x \div n
           r == x % n
<1>1. q \in Int /\ r \in 0 .. (n - 1) /\ x = n * q + r
  BY Divided
<1> HIDE DEF q, r
<1>2. x = r + n * q /\ x = x + n * 0 /\ r = x + n * (-q) /\ -q \in Int /\ 0 \in Int
  BY <1>1
<1>3. Cong(x, x, n) /\ Cong(x, r, n) /\ Cong(r, x, n)
  BY <1>1, <1>2 DEF Cong
<1>4. r \in Int
  BY <1>1
<1> QED BY <1>1, <1>3, <1>4 DEF r

\* A number is like itself.
LEMMA CongSelf ==
  ASSUME NEW x \in Int, NEW n \in Int
  PROVE  Cong(x, x, n)
<1>1. x = x + n * 0 /\ 0 \in Int
  OBVIOUS
<1> QED BY <1>1 DEF Cong

\* The relation is symmetric,
LEMMA CongSym ==
  ASSUME NEW x \in Int, NEW y \in Int, NEW n \in Int, Cong(x, y, n)
  PROVE  Cong(y, x, n)
<1>1. PICK k \in Int : x = y + n * k
  BY DEF Cong
<1>2. y = x + n * (-k) /\ -k \in Int
  BY <1>1
<1> QED BY <1>2 DEF Cong

\* Numbers like the same one are like each other.
LEMMA CongTrans ==
  ASSUME NEW x \in Int, NEW y \in Int, NEW z \in Int, NEW n \in Int,
         Cong(x, y, n), Cong(y, z, n)
  PROVE  Cong(x, z, n)
<1>1. PICK k \in Int : x = y + n * k
  BY DEF Cong
<1>2. PICK l \in Int : y = z + n * l
  BY DEF Cong
<1>3. x = z + n * (l + k) /\ l + k \in Int
  BY <1>1, <1>2
<1> QED BY <1>3 DEF Cong

\* Sums, differences and products of integers like each other are.
LEMMA CongAdd ==
  ASSUME NEW x \in Int, NEW y \in Int, NEW u \in Int, NEW v \in Int, NEW n \in Int,
         Cong(x, y, n), Cong(u, v, n)
  PROVE  Cong(x + u, y + v, n)
<1>1. PICK k \in Int : x = y + n * k
  BY DEF Cong
<1>2. PICK l \in Int : u = v + n * l
  BY DEF Cong
<1>3. x + u = (y + v) + n * (k + l) /\ k + l \in Int
  BY <1>1, <1>2
<1> QED BY <1>3 DEF Cong

\* Differences of numbers that are alike are alike.
LEMMA CongSub ==
  ASSUME NEW x \in Int, NEW y \in Int, NEW u \in Int, NEW v \in Int, NEW n \in Int,
         Cong(x, y, n), Cong(u, v, n)
  PROVE  Cong(x - u, y - v, n)
<1>1. PICK k \in Int : x = y + n * k
  BY DEF Cong
<1>2. PICK l \in Int : u = v + n * l
  BY DEF Cong
<1>3. x - u = (y - v) + n * (k - l) /\ k - l \in Int
  BY <1>1, <1>2
<1> QED BY <1>3 DEF Cong

\* Products of numbers that are alike are alike.
LEMMA CongMul ==
  ASSUME NEW x \in Int, NEW y \in Int, NEW u \in Int, NEW v \in Int, NEW n \in Int,
         Cong(x, y, n), Cong(u, v, n)
  PROVE  Cong(x * u, y * v, n)
<1>1. PICK k \in Int : x = y + n * k
  BY DEF Cong
<1>2. PICK l \in Int : u = v + n * l
  BY DEF Cong
<1> DEFINE h == k * v + y * l + n * k * l
<1>3. h \in Int
  OBVIOUS
<1>4. x * u = y * v + n * h
  BY <1>1, <1>2
<1> HIDE DEF h
<1> QED BY <1>3, <1>4 DEF Cong

\* One remainder.
LEMMA CongSame ==
  ASSUME NEW x \in Int, NEW y \in Int, NEW n \in Nat \ {0}
  PROVE  Cong(x, y, n) <=> x % n = y % n
<1>1. ASSUME Cong(x, y, n) PROVE x % n = y % n
  <2>1. PICK k \in Int : x = y + n * k
    BY <1>1 DEF Cong
  <2> DEFINE q == y \div n
             r == y % n
  <2>2. q \in Int /\ r \in 0 .. (n - 1) /\ y = n * q + r
    BY Divided
  <2> HIDE DEF q, r
  <2>3. x = n * (q + k) + r /\ q + k \in Int
    BY <2>1, <2>2
  <2>4. x % n = r
    BY <2>2, <2>3, DivMod
  <2> QED BY <2>4 DEF r
<1>2. ASSUME x % n = y % n PROVE Cong(x, y, n)
  <2>1. /\ Cong(x, x % n, n) /\ Cong(y % n, y, n) /\ x % n \in Int /\ y % n \in Int
    BY CongMod
  <2> QED BY <1>2, <2>1, CongTrans
<1> QED BY <1>1, <1>2

\* Remainders that are alike are equal.
LEMMA CongSmall ==
  ASSUME NEW n \in Nat \ {0}, NEW x \in 0 .. (n - 1), NEW y \in 0 .. (n - 1), Cong(x, y, n)
  PROVE  x = y
<1>1. x % n = x /\ y % n = y
  <2>1. n * 0 + x = x /\ n * 0 + y = y /\ 0 \in Int
    OBVIOUS
  <2>2. (n * 0 + x) % n = x /\ (n * 0 + y) % n = y
    BY <2>1, DivMod
  <2> QED BY <2>1, <2>2
<1>2. x \in Int /\ y \in Int
  OBVIOUS
<1>3. x % n = y % n
  BY <1>2, CongSame
<1> QED BY <1>1, <1>3

\* The remainder of a remainder is that of the integer; so in a product.
LEMMA ModMul ==
  ASSUME NEW x \in Int, NEW y \in Int, NEW n \in Nat \ {0}
  PROVE  /\ ((x % n) * y) % n = (x * y) % n
         /\ (x * (y % n)) % n = (x * y) % n
         /\ ((x % n) * (y % n)) % n = (x * y) % n
<1>1. /\ Cong(x % n, x, n) /\ x % n \in Int /\ Cong(x, x, n)
      /\ Cong(y % n, y, n) /\ y % n \in Int /\ Cong(y, y, n)
  BY CongMod
<1> DEFINE a == x % n
           c == y % n
<1>2. Cong(a, x, n) /\ a \in Int /\ Cong(c, y, n) /\ c \in Int
  BY <1>1
<1> HIDE DEF a, c
<1>3. Cong(a * y, x * y, n) /\ Cong(x * c, x * y, n) /\ Cong(a * c, x * y, n)
  BY <1>1, <1>2, CongMul
<1>4. a * y \in Int /\ x * c \in Int /\ a * c \in Int /\ x * y \in Int
  BY <1>2
<1>5. (a * y) % n = (x * y) % n /\ (x * c) % n = (x * y) % n /\ (a * c) % n = (x * y) % n
  BY <1>3, <1>4, CongSame
<1> QED BY <1>5 DEF a, c

-----------------------------------------------------------------------------
(* Induction and primitive recursion over the naturals, on sets and        *)
(* functions.                                                              *)

\* A set of naturals with 0 and with the successor of each holds them all.
LEMMA Induction ==
  ASSUME NEW S, 0 \in S, \A n \in Nat : n \in S => n + 1 \in S
  PROVE  Nat \subseteq S
<1> SUFFICES ASSUME Nat \ S # {} PROVE FALSE
  OBVIOUS
<1>1. PICK m \in Nat \ S : \A k \in Nat \ S : ~(<<k, m>> \in OpToRel(<, Nat))
  BY NatLessThanWellFounded, WFMin
<1>2. \A k \in Nat \ S : ~(k < m)
  BY <1>1 DEF OpToRel
<1>3. m - 1 \in Nat /\ (m - 1) + 1 = m /\ m - 1 < m
  <2>1. m # 0
    BY <1>1
  <2> QED BY <2>1
<1> QED BY <1>1, <1>2, <1>3

\* f is what h makes of a, step by step up to n.
Follows(f, a, h, n) == f[0] = a /\ \A i \in 0 .. (n - 1) : f[i + 1] = h[i][f[i]]

\* There is at most one such sequence.
LEMMA FollowsOnce ==
  ASSUME NEW a, NEW h, NEW n \in Nat, NEW f, NEW g, Follows(f, a, h, n), Follows(g, a, h, n)
  PROVE  \A i \in 0 .. n : f[i] = g[i]
<1> DEFINE S == {i \in Nat : i <= n => f[i] = g[i]}
<1>1. 0 \in S
  BY DEF Follows
<1>2. ASSUME NEW i \in Nat, i \in S PROVE i + 1 \in S
  <2> SUFFICES ASSUME i + 1 <= n PROVE f[i + 1] = g[i + 1]
    OBVIOUS
  <2>1. i \in 0 .. (n - 1) /\ f[i] = g[i]
    BY <1>2
  <2> QED BY <2>1 DEF Follows
<1> HIDE DEF S
<1>3. Nat \subseteq S
  BY <1>1, <1>2, Induction
<1> QED BY <1>3 DEF S

\* There is one, on all of Nat.
LEMMA PrimitiveRecursion ==
  ASSUME NEW T, NEW a \in T, NEW h \in [Nat -> [T -> T]]
  PROVE  \E f \in [Nat -> T] : \A n \in Nat : Follows(f, a, h, n)
<1> DEFINE Upto(n) == {f \in [0 .. n -> T] : Follows(f, a, h, n)}
           S == {n \in Nat : Upto(n) # {}}
<1>1. 0 \in S
  <2>1. [i \in 0 .. 0 |-> a] \in Upto(0)
    BY DEF Follows
  <2> QED BY <2>1
<1>2. ASSUME NEW n \in Nat, NEW f \in Upto(n)
      PROVE  [i \in 0 .. (n + 1) |-> IF i <= n THEN f[i] ELSE h[n][f[n]]] \in Upto(n + 1)
  <2> DEFINE g == [i \in 0 .. (n + 1) |-> IF i <= n THEN f[i] ELSE h[n][f[n]]]
  <2>1. h[n][f[n]] \in T
    OBVIOUS
  <2>2. g \in [0 .. (n + 1) -> T]
    BY <2>1
  <2>3. g[0] = a /\ \A i \in 0 .. n : g[i] = f[i]
    BY DEF Follows
  <2>4. g[n + 1] = h[n][f[n]]
    OBVIOUS
  <2>5. ASSUME NEW i \in 0 .. n PROVE g[i + 1] = h[i][g[i]]
    <3>1. CASE i = n
      BY <2>3, <2>4, <3>1
    <3>2. CASE i # n
      <4>1. i \in 0 .. (n - 1) /\ i + 1 \in 0 .. n
        BY <3>2
      <4> QED BY <2>3, <4>1 DEF Follows
    <3> QED BY <3>1, <3>2
  <2> HIDE DEF g
  <2>6. Follows(g, a, h, n + 1)
    BY <2>3, <2>5 DEF Follows
  <2> QED BY <2>2, <2>6 DEF g
<1>3. ASSUME NEW n \in Nat, n \in S PROVE n + 1 \in S
  <2>1. PICK f : f \in Upto(n)
    BY <1>3
  <2>2. Upto(n + 1) # {}
    BY <1>2, <2>1
  <2> QED BY <2>2
<1> HIDE DEF S
<1>4. Nat \subseteq S
  BY <1>1, <1>3, Induction
<1> DEFINE pick(n) == CHOOSE f : f \in Upto(n)
           F == [n \in Nat |-> pick(n)[n]]
<1>5. \A n \in Nat : pick(n) \in Upto(n)
  BY <1>4 DEF S
<1> HIDE DEF pick
<1>6. F \in [Nat -> T]
  BY <1>5
<1>7. F[0] = a
  BY <1>5 DEF Follows
<1>8. ASSUME NEW n \in Nat PROVE F[n + 1] = h[n][F[n]]
  <2> DEFINE g == pick(n + 1)
  <2>1. g[n + 1] = h[n][g[n]] /\ Follows(g, a, h, n)
    BY <1>5 DEF Follows
  <2>2. Follows(pick(n), a, h, n)
    BY <1>5
  <2>3. g[n] = pick(n)[n]
    BY <2>1, <2>2, FollowsOnce
  <2> QED BY <2>1, <2>3
<1> HIDE DEF F
<1>9. \A n \in Nat : Follows(F, a, h, n)
  BY <1>7, <1>8 DEF Follows
<1> QED BY <1>6, <1>9

-----------------------------------------------------------------------------
(* Powers.                                                                 *)

\* The powers of x are those of the recursion.
LEMMA Powers ==
  ASSUME NEW x \in Int
  PROVE  /\ Power(x) \in [Nat -> Int] /\ Power(x)[0] = 1 /\ Power(x)[1] = x
         /\ \A k \in Nat : Power(x)[k + 1] = x * Power(x)[k]
<1> DEFINE h == [i \in Nat |-> [v \in Int |-> x * v]]
           E(f) == [n \in Nat |-> IF n = 0 THEN 1 ELSE x * f[n - 1]]
<1>1. h \in [Nat -> [Int -> Int]] /\ 1 \in Int
  BY SMT
<1>2. PICK f \in [Nat -> Int] : \A n \in Nat : Follows(f, 1, h, n)
  <2> HIDE DEF h
  <2> QED BY <1>1, PrimitiveRecursion
<1>3. f[0] = 1 /\ \A n \in Nat : f[n + 1] = x * f[n]
  <2>1. ASSUME NEW n \in Nat PROVE f[n + 1] = h[n][f[n]]
    <3> HIDE DEF h
    <3>1. n + 1 \in Nat /\ n \in 0 .. ((n + 1) - 1)
      OBVIOUS
    <3>2. Follows(f, 1, h, n + 1)
      BY <1>2, <3>1
    <3> QED BY <3>1, <3>2 DEF Follows
  <2>2. f[0] = 1
    BY <1>2 DEF Follows
  <2> QED BY <1>2, <2>1, <2>2
<1>4. f = E(f)
  <2>1. \A n \in Nat : f[n] = IF n = 0 THEN 1 ELSE x * f[n - 1]
    BY <1>3
  <2>2. f = [n \in Nat |-> f[n]]
    BY <1>2
  <2> QED BY <2>1, <2>2
<1> DEFINE P == Power(x)
<1>5. P = CHOOSE g : g = E(g)
  BY DEF Power
<1>6. P = E(P)
  BY <1>4, <1>5
<1> HIDE DEF P
<1>7. \A n \in Nat : P[n] = IF n = 0 THEN 1 ELSE x * P[n - 1]
  BY <1>6
<1> DEFINE S == {n \in Nat : P[n] \in Int}
<1>8. 0 \in S
  BY <1>7
<1>9. ASSUME NEW n \in Nat PROVE P[n + 1] = x * P[n]
  <2>1. n + 1 \in Nat /\ n + 1 # 0 /\ (n + 1) - 1 = n
    OBVIOUS
  <2> QED BY <1>7, <2>1
<1>10. ASSUME NEW n \in Nat, n \in S PROVE n + 1 \in S
  BY <1>9, <1>10
<1> HIDE DEF S
<1>11. Nat \subseteq S
  BY <1>8, <1>10, Induction
<1>12. \A n \in Nat : P[n] \in Int
  BY <1>11 DEF S
<1>13. P = [n \in Nat |-> P[n]]
  BY <1>6
<1>14. P \in [Nat -> Int]
  BY <1>12, <1>13
<1>15. P[0] = 1 /\ P[1] = x
  <2>1. P[0] = 1
    BY <1>7
  <2>2. P[0 + 1] = x * P[0]
    BY <1>9
  <2> QED BY <2>1, <2>2
<1> QED BY <1>9, <1>14, <1>15 DEF P

\* Of a sum of exponents.
LEMMA PowerAdd ==
  ASSUME NEW x \in Int, NEW j \in Nat, NEW k \in Nat
  PROVE  Power(x)[j + k] = Power(x)[j] * Power(x)[k]
<1> DEFINE P == Power(x)
           S == {i \in Nat : P[j + i] = P[j] * P[i]}
<1>1. P \in [Nat -> Int] /\ P[0] = 1 /\ \A i \in Nat : P[i + 1] = x * P[i]
  BY Powers
<1> HIDE DEF P
<1>2. 0 \in S
  BY <1>1
<1>3. ASSUME NEW i \in Nat, i \in S PROVE i + 1 \in S
  <2>1. P[i + 1] = x * P[i] /\ P[(j + i) + 1] = x * P[j + i] /\ j + (i + 1) = (j + i) + 1
    BY <1>1
  <2>2. P[j + i] = P[j] * P[i] /\ P[i] \in Int /\ P[j] \in Int
    BY <1>1, <1>3
  <2> DEFINE u == P[i]
             v == P[j]
  <2>3. u \in Int /\ v \in Int /\ x * (v * u) = v * (x * u)
    BY <2>2
  <2> HIDE DEF u, v
  <2>4. P[j + (i + 1)] = P[j] * P[i + 1]
    BY <2>1, <2>2, <2>3 DEF u, v
  <2> QED BY <2>4
<1> HIDE DEF S
<1>4. k \in S
  BY <1>2, <1>3, Induction
<1> QED BY <1>4 DEF S, P

\* Of a power.
LEMMA PowerPower ==
  ASSUME NEW x \in Int, NEW j \in Nat, NEW k \in Nat
  PROVE  Power(Power(x)[j])[k] = Power(x)[j * k]
<1> DEFINE P == Power(x)
           Q == Power(P[j])
           S == {i \in Nat : Q[i] = P[j * i]}
<1>1. P \in [Nat -> Int] /\ P[0] = 1 /\ P[j] \in Int
  BY Powers
<1>2. Q[0] = 1 /\ \A i \in Nat : Q[i + 1] = P[j] * Q[i]
  BY <1>1, Powers
<1>3. \A a, c \in Nat : P[a + c] = P[a] * P[c]
  BY PowerAdd
<1> HIDE DEF P, Q
<1>4. 0 \in S
  BY <1>1, <1>2
<1>5. ASSUME NEW i \in Nat, i \in S PROVE i + 1 \in S
  <2> DEFINE m == j * i
  <2>1. m \in Nat /\ j * (i + 1) = j + m
    OBVIOUS
  <2>2. Q[i] = P[m]
    BY <1>5
  <2> HIDE DEF m
  <2>3. P[j + m] = P[j] * P[m]
    BY <1>3, <2>1
  <2>4. Q[i + 1] = P[j * (i + 1)]
    BY <1>2, <2>1, <2>2, <2>3
  <2> QED BY <2>4
<1> HIDE DEF S
<1>6. k \in S
  BY <1>4, <1>5, Induction
<1> QED BY <1>6 DEF S, P, Q

\* Of a product.
LEMMA PowerMul ==
  ASSUME NEW x \in Int, NEW y \in Int, NEW k \in Nat
  PROVE  Power(x * y)[k] = Power(x)[k] * Power(y)[k]
<1> DEFINE P == Power(x)
           Q == Power(y)
           R == Power(x * y)
           S == {i \in Nat : R[i] = P[i] * Q[i]}
<1>1. x * y \in Int
  OBVIOUS
<1>2. /\ P \in [Nat -> Int] /\ P[0] = 1 /\ \A i \in Nat : P[i + 1] = x * P[i]
      /\ Q \in [Nat -> Int] /\ Q[0] = 1 /\ \A i \in Nat : Q[i + 1] = y * Q[i]
  BY Powers
<1>3. R \in [Nat -> Int] /\ R[0] = 1 /\ \A i \in Nat : R[i + 1] = (x * y) * R[i]
  BY <1>1, Powers
<1> HIDE DEF P, Q, R
<1>4. 0 \in S
  BY <1>2, <1>3
<1>5. ASSUME NEW i \in Nat, i \in S PROVE i + 1 \in S
  <2> DEFINE u == P[i]
             v == Q[i]
  <2>1. R[i] = u * v /\ u \in Int /\ v \in Int
    BY <1>2, <1>5
  <2>2. P[i + 1] = x * u /\ Q[i + 1] = y * v /\ R[i + 1] = (x * y) * (u * v)
    BY <1>2, <1>3, <2>1
  <2> HIDE DEF u, v
  <2>3. (x * y) * (u * v) = (x * u) * (y * v)
    BY <2>1
  <2>4. R[i + 1] = P[i + 1] * Q[i + 1]
    BY <2>2, <2>3
  <2> QED BY <2>4
<1> HIDE DEF S
<1>6. k \in S
  BY <1>4, <1>5, Induction
<1> QED BY <1>6 DEF S, P, Q, R

\* Of integers that n does not tell apart.
LEMMA PowerCong ==
  ASSUME NEW x \in Int, NEW y \in Int, NEW k \in Nat, NEW n \in Int, Cong(x, y, n)
  PROVE  Cong(Power(x)[k], Power(y)[k], n)
<1> DEFINE P == Power(x)
           Q == Power(y)
           S == {i \in Nat : Cong(P[i], Q[i], n)}
<1>1. /\ P \in [Nat -> Int] /\ P[0] = 1 /\ \A i \in Nat : P[i + 1] = x * P[i]
      /\ Q \in [Nat -> Int] /\ Q[0] = 1 /\ \A i \in Nat : Q[i + 1] = y * Q[i]
  BY Powers
<1> HIDE DEF P, Q
<1>2. 0 \in S
  <2>1. 1 = 1 + n * 0
    OBVIOUS
  <2>2. Cong(1, 1, n)
    BY <2>1 DEF Cong
  <2>3. Cong(P[0], Q[0], n)
    BY <1>1, <2>2
  <2> QED BY <2>3
<1>3. ASSUME NEW i \in Nat, i \in S PROVE i + 1 \in S
  <2>1. P[i] \in Int /\ Q[i] \in Int /\ Cong(P[i], Q[i], n)
    BY <1>1, <1>3
  <2>2. Cong(x * P[i], y * Q[i], n)
    BY <2>1, CongMul
  <2> QED BY <1>1, <2>2
<1> HIDE DEF S
<1>4. k \in S
  BY <1>2, <1>3, Induction
<1> QED BY <1>4 DEF S, P, Q

\* A number that all below it hand a property on to.
LEMMA StrongInduction ==
  ASSUME NEW S, \A n \in Nat : (\A j \in 0 .. (n - 1) : j \in S) => n \in S
  PROVE  Nat \subseteq S
<1> DEFINE U == {n \in Nat : \A j \in 0 .. n : j \in S}
<1>1. 0 \in U
  <2>1. 0 \in S
    <3>1. \A j \in 0 .. (0 - 1) : j \in S
      OBVIOUS
    <3> QED BY <3>1
  <2> QED BY <2>1
<1>2. ASSUME NEW n \in Nat, n \in U PROVE n + 1 \in U
  <2>1. \A j \in 0 .. ((n + 1) - 1) : j \in S
    BY <1>2
  <2>2. n + 1 \in S
    BY <2>1
  <2>3. \A j \in 0 .. (n + 1) : j \in 0 .. n \/ j = n + 1
    OBVIOUS
  <2> QED BY <1>2, <2>2, <2>3
<1> HIDE DEF U
<1>3. Nat \subseteq U
  BY <1>1, <1>2, Induction
<1>4. \A n \in Nat : n \in 0 .. n
  OBVIOUS
<1> QED BY <1>3, <1>4 DEF U

\* A set of naturals that is not empty has a least one.
LEMMA Least ==
  ASSUME NEW S, NEW m \in Nat, m \in S
  PROVE  \E l \in Nat : l \in S /\ l <= m /\ \A j \in 0 .. (l - 1) : j \notin S
<1> SUFFICES ASSUME \A l \in Nat : l \in S /\ l <= m => \E j \in 0 .. (l - 1) : j \in S
             PROVE  FALSE
  OBVIOUS
<1> DEFINE C == {n \in Nat : n \notin S \/ n > m}
<1>1. ASSUME NEW n \in Nat, \A j \in 0 .. (n - 1) : j \in C PROVE n \in C
  <2> SUFFICES ASSUME n \in S, n <= m PROVE FALSE
    OBVIOUS
  <2>1. PICK j \in 0 .. (n - 1) : j \in S
    OBVIOUS
  <2>2. j \in C /\ j <= m
    BY <1>1, <2>1
  <2> QED BY <2>1, <2>2
<1> HIDE DEF C
<1>2. Nat \subseteq C
  BY <1>1, StrongInduction
<1> QED BY <1>2 DEF C

-----------------------------------------------------------------------------
(* What mpz_powm computes.                                                 *)

\* A product of remainders.
LEMMA SquareStep ==
  ASSUME NEW u \in Int, NEW v \in Int, NEW n \in Nat \ {0}
  PROVE  /\ ((((u % n) * (u % n)) % n) * (v % n)) % n = ((u * u) * v) % n
         /\ ((((u % n) * (u % n)) % n) * 1) % n = (u * u) % n
<1> DEFINE w == u * u
<1>1. ((u % n) * (u % n)) % n = w % n /\ w \in Int
  <2>1. ((u % n) * (u % n)) % n = (u * u) % n
    BY ModMul, Zenon
  <2>2. u * u \in Int
    OBVIOUS
  <2> QED BY <2>1, <2>2
<1> HIDE DEF w
<1>2. ((w % n) * (v % n)) % n = (w * v) % n /\ ((w % n) * 1) % n = (w * 1) % n
  <2>1. 1 \in Int
    OBVIOUS
  <2> QED BY <1>1, <2>1, ModMul, Zenon
<1>3. w * 1 = w
  BY <1>1
<1> QED BY <1>1, <1>2, <1>3 DEF w

\* Square and multiply raises to the power.
LEMMA PowmIsPower ==
  ASSUME NEW x \in Int, NEW e \in Nat, NEW n \in Nat \ {0}
  PROVE  Powm(x, e, n) = Power(x)[e] % n
<1> DEFINE P == Power(x)
           Square(v) == (v * v) % n
           E(f) == [k \in 0 .. e |->
                      IF k = 0 THEN 1 % n
                      ELSE (Square(f[k \div 2]) * (IF k % 2 = 1 THEN x % n ELSE 1)) % n]
           g == [k \in 0 .. e |-> P[k] % n]
           F == CHOOSE f : f = E(f)
<1>1. Powm(x, e, n) = F[e]
  BY DEF Powm
<1>2. P \in [Nat -> Int] /\ P[0] = 1 /\ P[1] = x
  BY Powers
<1>3. ASSUME NEW k \in 0 .. e, k # 0
      PROVE  /\ k \div 2 \in 0 .. (k - 1)
             /\ P[k] % n = (Square(P[k \div 2] % n) * (IF k % 2 = 1 THEN x % n ELSE 1)) % n
  <2> DEFINE h == k \div 2
             r == k % 2
             u == P[h]
  <2>1. h \in 0 .. (k - 1) /\ r \in 0 .. 1 /\ k = (h + h) + r /\ h \in Nat
    BY <1>3
  <2>2. u \in Int
    BY <1>2, <2>1
  <2>3. P[h + h] = u * u /\ P[(h + h) + r] = P[h + h] * P[r]
    <3> HIDE DEF h, r
    <3>1. h + h \in Nat /\ r \in Nat
      BY <2>1
    <3>2. P[h + h] = P[h] * P[h]
      BY <2>1, PowerAdd
    <3>3. P[(h + h) + r] = P[h + h] * P[r]
      BY <3>1, PowerAdd
    <3> QED BY <3>2, <3>3
  <2> HIDE DEF h, r, u, P
  <2>4. CASE r = 1
    <3>1. P[k] = (u * u) * x
      BY <1>2, <2>1, <2>3, <2>4
    <3>2. ((((u % n) * (u % n)) % n) * (x % n)) % n = ((u * u) * x) % n
      BY <2>2, SquareStep, Zenon
    <3>3. P[k] % n = (Square(u % n) * (x % n)) % n
      BY <3>1, <3>2
    <3> QED BY <2>1, <2>4, <3>3 DEF h, r, u
  <2>5. CASE r # 1
    <3>1. r = 0 /\ (u * u) * 1 = u * u
      BY <2>1, <2>2, <2>5
    <3>2. P[k] = u * u
      BY <1>2, <2>1, <2>3, <3>1
    <3>3. P[k] % n = (Square(u % n) * 1) % n
      <4>1. ((((u % n) * (u % n)) % n) * 1) % n = (u * u) % n
        BY <2>2, SquareStep, Zenon
      <4> QED BY <3>2, <4>1
    <3> QED BY <2>1, <2>5, <3>3 DEF h, r, u
  <2> QED BY <2>4, <2>5
<1> HIDE DEF P
<1>4. g = E(g)
  <2>1. ASSUME NEW k \in 0 .. e
        PROVE  g[k] = IF k = 0 THEN 1 % n
                      ELSE (Square(g[k \div 2]) * (IF k % 2 = 1 THEN x % n ELSE 1)) % n
    <3>1. CASE k = 0
      BY <1>2, <3>1
    <3>2. CASE k # 0
      <4>1. k \div 2 \in 0 .. e
        BY <1>3, <3>2
      <4>2. g[k] = P[k] % n /\ g[k \div 2] = P[k \div 2] % n
        BY <4>1
      <4> HIDE DEF g
      <4> QED BY <1>3, <3>2, <4>2
    <3> QED BY <3>1, <3>2
  <2>2. g = [k \in 0 .. e |-> g[k]]
    OBVIOUS
  <2> HIDE DEF g
  <2> QED BY <2>1, <2>2
<1>5. F = E(F)
  <2> HIDE DEF g
  <2> QED BY <1>4
<1> HIDE DEF F
<1>6. \A k \in 0 .. e : F[k] = IF k = 0 THEN 1 % n
                              ELSE (Square(F[k \div 2]) * (IF k % 2 = 1 THEN x % n ELSE 1)) % n
  <2> HIDE DEF Square
  <2> QED BY <1>5
<1> DEFINE S == {k \in Nat : k <= e => F[k] = P[k] % n}
<1>7. ASSUME NEW k \in Nat, \A j \in 0 .. (k - 1) : j \in S PROVE k \in S
  <2> SUFFICES ASSUME k <= e PROVE F[k] = P[k] % n
    OBVIOUS
  <2>1. CASE k = 0
    BY <1>2, <1>6, <2>1
  <2>2. CASE k # 0
    <3>1. k \in 0 .. e
      OBVIOUS
    <3>2. k \div 2 \in 0 .. (k - 1)
      BY <1>3, <2>2, <3>1
    <3>3. F[k \div 2] = P[k \div 2] % n
      BY <1>7, <3>2
    <3> HIDE DEF Square
    <3>4. F[k] = (Square(P[k \div 2] % n) * (IF k % 2 = 1 THEN x % n ELSE 1)) % n
      BY <1>6, <2>2, <3>1, <3>3
    <3> QED BY <1>3, <2>2, <3>1, <3>4
  <2> QED BY <2>1, <2>2
<1> HIDE DEF S
<1>8. Nat \subseteq S
  BY <1>7, StrongInduction
<1>9. F[e] = P[e] % n
  BY <1>8 DEF S
<1> QED BY <1>1, <1>9 DEF P

-----------------------------------------------------------------------------
(* Divisors, primes and inverses.                                          *)

\* d divides x.
LEMMA Divides ==
  ASSUME NEW x \in Int, NEW d \in Nat \ {0}
  PROVE  /\ x % d = 0 <=> \E k \in Int : x = d * k
         /\ x % d = 0 <=> Cong(x, 0, d)
<1> DEFINE q == x \div d
           r == x % d
<1>1. q \in Int /\ r \in 0 .. (d - 1) /\ x = d * q + r
  BY Divided
<1>2. ASSUME r = 0 PROVE \E k \in Int : x = d * k
  <2> HIDE DEF q, r
  <2>1. x = d * q
    BY <1>1, <1>2
  <2> QED BY <1>1, <2>1
<1>3. ASSUME NEW k \in Int, x = d * k PROVE r = 0
  <2>1. 0 \in 0 .. (d - 1) /\ x = d * k + 0
    BY <1>3
  <2>2. (d * k + 0) % d = 0
    BY <2>1, DivMod
  <2> QED BY <2>1, <2>2
<1>4. Cong(x, 0, d) <=> \E k \in Int : x = d * k
  BY DEF Cong
<1> QED BY <1>2, <1>3, <1>4

\* A common divisor is a multiple of x modulo n: Euclid's algorithm.
LEMMA Bezout ==
  ASSUME NEW x \in Int, NEW n \in Nat \ {0}
  PROVE  \E d \in 1 .. n : n % d = 0 /\ x % d = 0 /\ \E v \in 0 .. (n - 1) : Cong(x * v, d, n)
<1> DEFINE S == {d \in Nat : d >= 1 /\ \E v \in Int : Cong(x * v, d, n)}
<1>1. n \in S
  <2>1. x * 0 = n + n * (-1) /\ 0 \in Int /\ -1 \in Int
    OBVIOUS
  <2>2. Cong(x * 0, n, n)
    BY <2>1 DEF Cong
  <2> QED BY <2>1, <2>2
<1>2. PICK d \in Nat : d \in S /\ d <= n /\ \A j \in 0 .. (d - 1) : j \notin S
  <2> HIDE DEF S
  <2> QED BY <1>1, Least
<1>3. PICK v \in Int : Cong(x * v, d, n)
  BY <1>2
<1>4. PICK k \in Int : x * v = d + n * k
  BY <1>3 DEF Cong
<1>5. d \in 1 .. n /\ d \in Nat \ {0}
  BY <1>2
<1>6. n % d = 0
  <2> DEFINE q == n \div d
             r == n % d
  <2>1. q \in Int /\ r \in 0 .. (d - 1) /\ n = d * q + r
    BY <1>5, Divided
  <2> SUFFICES ASSUME r # 0 PROVE FALSE
    OBVIOUS
  <2> HIDE DEF q, r
  <2>2. x * (-(q * v)) = r + n * (-1 - q * k)
    <3>1. x * (-(q * v)) = -(q * (x * v))
      BY <2>1
    <3>2. q * (d + n * k) = d * q + n * (q * k)
      BY <2>1
    <3>3. x * (-(q * v)) = -((n - r) + n * (q * k))
      BY <1>4, <2>1, <3>1, <3>2
    <3> QED BY <2>1, <3>3
  <2>3. -(q * v) \in Int /\ -1 - q * k \in Int
    BY <2>1
  <2> DEFINE w == -(q * v)
  <2>4. w \in Int /\ Cong(x * w, r, n)
    BY <2>2, <2>3 DEF Cong
  <2> HIDE DEF w
  <2>5. r \in S
    <3>1. r \in Nat /\ r >= 1
      BY <2>1
    <3>2. \E u \in Int : Cong(x * u, r, n)
      BY <2>4, Zenon
    <3> QED BY <3>1, <3>2, Zenon
  <2> HIDE DEF S
  <2> QED BY <1>2, <2>1, <2>5
<1>7. x % d = 0
  <2> DEFINE q == x \div d
             r == x % d
  <2>1. q \in Int /\ r \in 0 .. (d - 1) /\ x = d * q + r
    BY <1>5, Divided
  <2> SUFFICES ASSUME r # 0 PROVE FALSE
    OBVIOUS
  <2> HIDE DEF q, r
  <2>2. x * (1 - q * v) = r + n * (-(q * k))
    <3>1. x * (1 - q * v) = x - q * (x * v)
      BY <2>1
    <3>2. q * (d + n * k) = d * q + n * (q * k)
      BY <2>1
    <3>3. x * (1 - q * v) = (x - d * q) - n * (q * k)
      BY <1>4, <2>1, <3>1, <3>2
    <3> QED BY <2>1, <3>3
  <2>3. 1 - q * v \in Int /\ -(q * k) \in Int
    BY <2>1
  <2> DEFINE w == 1 - q * v
  <2>4. w \in Int /\ Cong(x * w, r, n)
    BY <2>2, <2>3 DEF Cong
  <2> HIDE DEF w
  <2>5. r \in S
    <3>1. r \in Nat /\ r >= 1
      BY <2>1
    <3>2. \E u \in Int : Cong(x * u, r, n)
      BY <2>4, Zenon
    <3> QED BY <3>1, <3>2, Zenon
  <2> HIDE DEF S
  <2> QED BY <1>2, <2>1, <2>5
<1>8. PICK w \in 0 .. (n - 1) : Cong(x * w, d, n)
  <2> DEFINE w == v % n
  <2>1. w \in 0 .. (n - 1) /\ Cong(w, v, n) /\ Cong(x, x, n) /\ w \in Int
    BY CongMod
  <2> HIDE DEF w
  <2>2. Cong(x * w, x * v, n)
    BY <2>1, CongMul
  <2>3. x * w \in Int /\ x * v \in Int
    BY <2>1
  <2>4. Cong(x * w, d, n)
    BY <1>3, <1>5, <2>2, <2>3, CongTrans
  <2> QED BY <2>1, <2>4
<1> QED BY <1>5, <1>6, <1>7, <1>8

\* No divisor but 1 and p.
Prime(p) == p \in Nat /\ p > 1 /\ \A d \in 2 .. (p - 1) : p % d # 0

\* The integer part of the square root is there.
LEMMA SquareRoots ==
  ASSUME NEW n \in Nat
  PROVE  LET r == SquareRoot(n) IN r \in 0 .. n /\ r * r <= n /\ (r + 1) * (r + 1) > n
<1> DEFINE Is(r, m) == r * r <= m /\ (r + 1) * (r + 1) > m
           S == {m \in Nat : \E r \in 0 .. m : Is(r, m)}
<1>1. 0 \in S
  <2>1. Is(0, 0) /\ 0 \in 0 .. 0
    OBVIOUS
  <2> QED BY <2>1
<1>2. ASSUME NEW m \in Nat, m \in S PROVE m + 1 \in S
  <2>1. PICK r \in 0 .. m : Is(r, m)
    BY <1>2
  <2>2. CASE (r + 1) * (r + 1) > m + 1
    <3>1. Is(r, m + 1) /\ r \in 0 .. (m + 1)
      BY <2>1, <2>2
    <3> QED BY <3>1
  <2>3. CASE ~((r + 1) * (r + 1) > m + 1)
    <3> DEFINE s == (r + 1) * (r + 1)
               t == ((r + 1) + 1) * ((r + 1) + 1)
    <3>1. s \in Int /\ t \in Int /\ t = s + 2 * r + 3 /\ r \in Nat
      OBVIOUS
    <3>2. s = m + 1
      BY <2>1, <2>3, <3>1
    <3>3. t > m + 1 /\ r + 1 \in 0 .. (m + 1)
      BY <3>1, <3>2
    <3>4. Is(r + 1, m + 1)
      <4> HIDE DEF s, t
      <4>1. s <= m + 1 /\ t > m + 1
        BY <3>2, <3>3
      <4> QED BY <4>1 DEF s, t
    <3> HIDE DEF Is
    <3> QED BY <3>3, <3>4
  <2> QED BY <2>2, <2>3
<1> HIDE DEF S
<1>3. n \in S
  BY <1>1, <1>2, Induction
<1>4. \E r \in 0 .. n : Is(r, n)
  BY <1>3 DEF S
<1> QED BY <1>4 DEF SquareRoot

\* Trial division up to the square root finds any divisor.
LEMMA PrimeMeaning ==
  ASSUME NEW p \in Int, IsPrime(p)
  PROVE  Prime(p)
<1> DEFINE r == SquareRoot(p)
<1>1. p \in Nat /\ p > 1 /\ \A d \in 2 .. r : p % d # 0
  BY DEF IsPrime
<1>2. r \in 0 .. p /\ (r + 1) * (r + 1) > p
  BY <1>1, SquareRoots
<1> HIDE DEF r
<1>3. ASSUME NEW d \in 2 .. (p - 1), p % d = 0 PROVE FALSE
  <2>1. d \in Nat \ {0} /\ d \in Int
    OBVIOUS
  <2>2. PICK k \in Int : p = d * k
    BY <1>3, <2>1, Divides
  <2>3. d > r
    <3>1. d \notin 2 .. r
      BY <1>1, <1>3, Zenon
    <3> QED BY <1>2, <3>1
  <2>4. k > 1 /\ k < p
    <3>1. k > 0
      <4>1. k <= 0 => d * k <= 0
        BY <2>1, <2>2
      <4> QED BY <1>1, <2>2, <4>1
    <3>2. k # 1
      <4>1. d * 1 = d /\ d # p
        BY <1>1
      <4> QED BY <2>2, <4>1
    <3>3. d * k >= 2 * k
      BY <3>1
    <3> QED BY <2>2, <3>1, <3>2, <3>3
  <2>5. p % k = 0
    <3>1. p = k * d /\ k \in Nat \ {0} /\ d \in Int
      BY <2>2, <2>4
    <3> QED BY <3>1, Divides
  <2>6. k > r
    <3>1. k \in 2 .. r \/ k > r
      BY <1>2, <2>4
    <3> QED BY <1>1, <2>5, <3>1
  <2>7. d >= r + 1 /\ k >= r + 1 /\ r + 1 \in Nat
    BY <1>2, <2>3, <2>6
  <2>8. d * k >= (r + 1) * k /\ (r + 1) * k >= (r + 1) * (r + 1)
    <3>1. d * k - (r + 1) * k = (d - (r + 1)) * k
      BY <1>2
    <3>2. (r + 1) * k - (r + 1) * (r + 1) = (r + 1) * (k - (r + 1))
      BY <1>2
    <3>3. \A u, w \in Nat : u * w >= 0
      OBVIOUS
    <3>4. d - (r + 1) \in Nat /\ k \in Nat /\ k - (r + 1) \in Nat
      BY <2>4, <2>7
    <3>5. (d - (r + 1)) * k >= 0 /\ (r + 1) * (k - (r + 1)) >= 0
      BY <2>7, <3>3, <3>4
    <3> DEFINE a == d * k
               b == (r + 1) * k
               c == (r + 1) * (r + 1)
    <3>6. a \in Int /\ b \in Int /\ c \in Int /\ a - b >= 0 /\ b - c >= 0
      BY <1>2, <3>1, <3>2, <3>5
    <3> HIDE DEF a, b, c
    <3>7. a >= b /\ b >= c
      BY <3>6
    <3> QED BY <3>7 DEF a, b, c
  <2> DEFINE b == (r + 1) * k
             c == (r + 1) * (r + 1)
  <2>9. b \in Int /\ c \in Int /\ p >= b /\ b >= c /\ c > p
    BY <1>2, <2>2, <2>8
  <2> HIDE DEF b, c
  <2> QED BY <1>1, <2>9
<1> QED BY <1>1, <1>3 DEF Prime

\* Modulo a prime, what is not a multiple of it has an inverse.
LEMMA InverseThere ==
  ASSUME NEW p, Prime(p), NEW x \in Int, x % p # 0
  PROVE  \E v \in 1 .. (p - 1) : (x * v) % p = 1
<1>1. p \in Nat \ {0} /\ p > 1
  BY DEF Prime
<1>2. PICK d \in 1 .. p : p % d = 0 /\ x % d = 0 /\ \E v \in 0 .. (p - 1) : Cong(x * v, d, p)
  BY <1>1, Bezout
<1>3. d = 1
  <2>1. d # p
    BY <1>2
  <2>2. d \notin 2 .. (p - 1)
    BY <1>2 DEF Prime
  <2> QED BY <1>1, <2>1, <2>2
<1>4. PICK v \in 0 .. (p - 1) : Cong(x * v, 1, p)
  BY <1>2, <1>3
<1>5. 1 % p = 1
  <2>1. 1 \in 0 .. (p - 1) /\ 0 \in Int /\ p * 0 + 1 = 1
    BY <1>1
  <2>2. (p * 0 + 1) % p = 1
    BY <1>1, <2>1, DivMod
  <2> QED BY <2>1, <2>2
<1>6. (x * v) % p = 1
  <2>1. x * v \in Int /\ 1 \in Int
    BY <1>1
  <2> QED BY <1>1, <1>4, <1>5, <2>1, CongSame
<1>7. v # 0
  <2>1. ASSUME v = 0 PROVE FALSE
    <3>1. x * v = 0 /\ 0 = p * 0 /\ 0 \in Int
      BY <1>1, <2>1
    <3>2. (x * v) % p = 0
      BY <1>1, <3>1, Divides
    <3> QED BY <1>6, <3>2
  <2> QED BY <2>1
<1>8. v \in 1 .. (p - 1)
  BY <1>1, <1>7
<1> QED BY <1>6, <1>8

\* mpz_invert finds it.
LEMMA InvertThere ==
  ASSUME NEW x \in Int, NEW n \in Int, \E v \in 1 .. (n - 1) : (x * v) % n = 1
  PROVE  Invert(x, n) \in 1 .. (n - 1) /\ (x * Invert(x, n)) % n = 1
BY DEF Invert

\* A prime that divides a product divides a factor.
LEMMA EuclidsLemma ==
  ASSUME NEW p, Prime(p), NEW x \in Int, NEW y \in Int, (x * y) % p = 0
  PROVE  x % p = 0 \/ y % p = 0
<1> SUFFICES ASSUME x % p # 0 PROVE y % p = 0
  OBVIOUS
<1>1. p \in Nat \ {0}
  BY DEF Prime
<1>2. PICK v \in 1 .. (p - 1) : (x * v) % p = 1
  BY InverseThere
<1>3. x * v \in Int /\ x * y \in Int /\ v \in Int /\ 1 \in Int /\ 0 \in Int
  BY <1>1
<1>4. Cong(x * y, 0, p)
  BY <1>1, <1>3, Divides
<1>5. PICK k \in Int : x * y = p * k
  BY <1>1, <1>3, <1>4, Divides
<1> DEFINE q == (x * v) \div p
<1>6. q \in Int /\ x * v = p * q + 1
  <2>1. (x * v) % p = 1
    BY <1>2
  <2> DEFINE z == x * v
  <2>2. z \in Int /\ z % p = 1
    BY <1>3, <2>1
  <2> HIDE DEF z
  <2>3. z = p * (z \div p) + 1 /\ z \div p \in Int
    BY <1>1, <2>2, Divided
  <2> QED BY <2>3 DEF z
<1> HIDE DEF q
<1>7. y = p * (v * k - y * q)
  <2>1. y * (x * v) = v * (x * y)
    BY <1>3
  <2>2. y * (p * q + 1) = v * (p * k)
    BY <1>5, <1>6, <2>1
  <2>3. y * (p * q + 1) = p * (y * q) + y
    BY <1>1, <1>6
  <2>4. v * (p * k) = p * (v * k)
    BY <1>1, <1>3
  <2>5. p * (v * k - y * q) = p * (v * k) - p * (y * q)
    BY <1>1, <1>3, <1>6
  <2> DEFINE a == p * (v * k)
             b == p * (y * q)
  <2>6. a \in Int /\ b \in Int /\ b + y = a
    BY <1>1, <1>3, <1>6, <2>2, <2>3, <2>4
  <2>7. y = a - b
    <3> HIDE DEF a, b
    <3> QED BY <2>6
  <2> QED BY <2>5, <2>7
<1>8. v * k - y * q \in Int
  BY <1>3, <1>6
<1> QED BY <1>1, <1>7, <1>8, Divides

-----------------------------------------------------------------------------
(* Fermat's little theorem: the multiples of the powers of x fall into     *)
(* orbits of one size, which therefore divides p - 1.                      *)

\* Nothing that p does not divide has a power it divides.
LEMMA PowerNonzero ==
  ASSUME NEW p, Prime(p), NEW x \in Int, x % p # 0, NEW k \in Nat
  PROVE  Power(x)[k] % p \in 1 .. (p - 1)
<1> DEFINE P == Power(x)
           S == {i \in Nat : P[i] % p # 0}
<1>1. p \in Nat \ {0} /\ p > 1
  BY DEF Prime
<1>2. P \in [Nat -> Int] /\ P[0] = 1 /\ \A i \in Nat : P[i + 1] = x * P[i]
  BY Powers
<1> HIDE DEF P
<1>3. 0 \in S
  <2>1. 1 \in 0 .. (p - 1) /\ 0 \in Int /\ p * 0 + 1 = 1
    BY <1>1
  <2>2. (p * 0 + 1) % p = 1
    BY <1>1, <2>1, DivMod
  <2> QED BY <1>2, <2>1, <2>2
<1>4. ASSUME NEW i \in Nat, i \in S PROVE i + 1 \in S
  <2>1. P[i] \in Int /\ P[i] % p # 0 /\ P[i + 1] = x * P[i]
    BY <1>2, <1>4
  <2>2. (x * P[i]) % p # 0
    BY <2>1, EuclidsLemma
  <2> QED BY <2>1, <2>2
<1> HIDE DEF S
<1>5. Nat \subseteq S
  BY <1>3, <1>4, Induction
<1>6. P[k] % p # 0
  BY <1>5 DEF S
<1>7. P[k] \in Int
  BY <1>2
<1>8. P[k] % p \in 0 .. (p - 1)
  BY <1>1, <1>7, CongMod
<1>9. P[k] % p \in 1 .. (p - 1)
  <2> DEFINE r == P[k] % p
  <2>1. r \in 0 .. (p - 1) /\ r # 0
    BY <1>6, <1>8
  <2> HIDE DEF r
  <2>2. r \in 1 .. (p - 1)
    BY <1>1, <2>1
  <2> QED BY <2>2 DEF r
<1> QED BY <1>9 DEF P

\* What is not 0 modulo p may be cancelled.
LEMMA Cancel ==
  ASSUME NEW p, Prime(p), NEW x \in Int, NEW y \in Int, NEW z \in Int, x % p # 0,
         Cong(x * y, x * z, p)
  PROVE  Cong(y, z, p)
<1>1. p \in Nat \ {0} /\ x * y \in Int /\ x * z \in Int /\ y - z \in Int
  BY DEF Prime
<1>2. PICK k \in Int : x * y = x * z + p * k
  BY DEF Cong
<1>3. x * (y - z) = p * k
  <2>1. x * (y - z) = x * y - x * z
    OBVIOUS
  <2> DEFINE a == x * y
             b == x * z
             c == p * k
  <2>2. a \in Int /\ b \in Int /\ c \in Int /\ a = b + c
    BY <1>1, <1>2
  <2>3. a - b = c
    <3> HIDE DEF a, b, c
    <3> QED BY <2>2
  <2> QED BY <2>1, <2>3
<1>4. (x * (y - z)) % p = 0
  <2> DEFINE w == x * (y - z)
  <2>1. w \in Int /\ w = p * k
    BY <1>1, <1>3
  <2> HIDE DEF w
  <2>2. w % p = 0
    BY <1>1, <2>1, Divides
  <2> QED BY <2>2 DEF w
<1>5. (y - z) % p = 0
  BY <1>1, <1>4, EuclidsLemma
<1>6. PICK l \in Int : y - z = p * l
  BY <1>1, <1>5, Divides
<1>7. y = z + p * l
  <2> DEFINE c == p * l
  <2>1. c \in Int /\ y - z = c
    BY <1>1, <1>6
  <2>2. y = z + c
    <3> HIDE DEF c
    <3> QED BY <2>1
  <2> QED BY <2>2
<1> QED BY <1>7 DEF Cong

\* If two powers are alike the difference of their exponents gives 1.
LEMMA PowersApart ==
  ASSUME NEW p, Prime(p), NEW x \in Int, x % p # 0, NEW i \in Nat, NEW j \in Nat,
         NEW y \in Int, y % p # 0, Cong(Power(x)[i] * y, Power(x)[i + j] * y, p)
  PROVE  Power(x)[j] % p = 1
<1> DEFINE P == Power(x)
<1>1. p \in Nat \ {0} /\ p > 1
  BY DEF Prime
<1>2. P \in [Nat -> Int] /\ i + j \in Nat
  BY Powers
<1>3. P[i + j] = P[i] * P[j]
  BY PowerAdd
<1>4. P[i] % p # 0
  <2>1. P[i] % p \in 1 .. (p - 1)
    BY PowerNonzero
  <2> QED BY <1>1, <2>1
<1> DEFINE u == P[i]
           v == P[j]
<1>5. u \in Int /\ v \in Int
  BY <1>2
<1>6. Cong(u * y, (u * v) * y, p)
  BY <1>3
<1>7. u % p # 0
  BY <1>4
<1> HIDE DEF u, v
<1>8. u * y = y * (u * 1) /\ (u * v) * y = y * (u * v)
  BY <1>5
<1>9. u * 1 \in Int /\ u * v \in Int /\ 1 \in Int
  BY <1>5
<1>10. Cong(u * 1, u * v, p)
  <2>1. Cong(y * (u * 1), y * (u * v), p)
    BY <1>6, <1>8
  <2> QED BY <1>9, <2>1, Cancel
<1>11. Cong(1, v, p)
  BY <1>5, <1>7, <1>9, <1>10, Cancel
<1>12. 1 % p = v % p
  BY <1>1, <1>5, <1>9, <1>11, CongSame
<1>13. 1 % p = 1
  <2>1. 1 \in 0 .. (p - 1) /\ 0 \in Int /\ p * 0 + 1 = 1
    BY <1>1
  <2>2. (p * 0 + 1) % p = 1
    BY <1>1, <2>1, DivMod
  <2> QED BY <2>1, <2>2
<1> QED BY <1>12, <1>13 DEF v

\* Some power gives 1, the least of them the order of x.
IsOrder(d, x, p) ==
  d \in Nat \ {0} /\ Power(x)[d] % p = 1 /\ \A j \in 1 .. (d - 1) : Power(x)[j] % p # 1

\* Every number that p does not divide has an order.
LEMMA OrderThere ==
  ASSUME NEW p, Prime(p), NEW x \in Int, x % p # 0
  PROVE  \E d \in Nat : IsOrder(d, x, p)
<1> DEFINE P == Power(x)
           f == [k \in 0 .. (p - 1) |-> P[k] % p]
           S == {d \in Nat : d # 0 /\ P[d] % p = 1}
<1>1. p \in Nat \ {0} /\ p > 1
  BY DEF Prime
<1>2. f \in [0 .. (p - 1) -> 1 .. (p - 1)]
  <2>1. \A k \in 0 .. (p - 1) : P[k] % p \in 1 .. (p - 1)
    <3>1. \A k \in 0 .. (p - 1) : k \in Nat
      BY <1>1
    <3> QED BY <3>1, PowerNonzero, Zenon
  <2> QED BY <2>1
<1>3. /\ IsFiniteSet(0 .. (p - 1)) /\ Cardinality(0 .. (p - 1)) = p
      /\ IsFiniteSet(1 .. (p - 1)) /\ Cardinality(1 .. (p - 1)) = p - 1
  <2>1. 0 \in Int /\ 1 \in Int /\ p - 1 \in Int /\ ~(0 > p - 1) /\ ~(1 > p - 1)
        /\ (p - 1) - 0 + 1 = p /\ (p - 1) - 1 + 1 = p - 1
    BY <1>1
  <2> QED BY <2>1, FS_Interval
<1>4. PICK k, l \in 0 .. (p - 1) : k # l /\ f[k] = f[l]
  <2> HIDE DEF f
  <2>1. Cardinality(1 .. (p - 1)) < Cardinality(0 .. (p - 1))
    BY <1>1, <1>3
  <2> QED BY <1>2, <1>3, <2>1, FS_PigeonHole
<1>5. P[k] % p = P[l] % p
  BY <1>4
<1>6. P \in [Nat -> Int] /\ k \in Nat /\ l \in Nat
  <2>1. P \in [Nat -> Int]
    BY Powers
  <2>2. k \in Nat /\ l \in Nat
    BY <1>1
  <2> QED BY <2>1, <2>2
<1>7. ASSUME NEW i \in Nat, NEW j \in Nat, j # 0, P[i] % p = P[i + j] % p
      PROVE  j \in S
  <2>1. P[i] \in Int /\ P[i + j] \in Int
    BY <1>6
  <2>2. Cong(P[i], P[i + j], p)
    BY <1>1, <1>7, <2>1, CongSame
  <2>3. 1 \in Int /\ P[i] * 1 = P[i] /\ P[i + j] * 1 = P[i + j]
    BY <2>1
  <2>4. 1 % p # 0
    <3>1. 1 \in 0 .. (p - 1) /\ 0 \in Int /\ p * 0 + 1 = 1
      BY <1>1
    <3>2. (p * 0 + 1) % p = 1
      BY <1>1, <3>1, DivMod
    <3> QED BY <3>1, <3>2
  <2>5. Cong(P[i] * 1, P[i + j] * 1, p)
    BY <2>2, <2>3
  <2>6. P[j] % p = 1
    BY <2>3, <2>4, <2>5, PowersApart
  <2> QED BY <1>7, <2>6
<1>8. \E m \in Nat : m \in S
  <2> HIDE DEF S, P, f
  <2>1. CASE k < l
    <3>1. l - k \in Nat /\ l - k # 0 /\ k + (l - k) = l
      BY <1>6, <2>1
    <3>2. P[k] % p = P[k + (l - k)] % p
      BY <1>5, <3>1
    <3> QED BY <1>6, <1>7, <3>1, <3>2
  <2>2. CASE l < k
    <3>1. k - l \in Nat /\ k - l # 0 /\ l + (k - l) = k
      BY <1>6, <2>2
    <3>2. P[l] % p = P[l + (k - l)] % p
      BY <1>5, <3>1
    <3> QED BY <1>6, <1>7, <3>1, <3>2
  <2> QED BY <1>4, <1>6, <2>1, <2>2
<1>9. PICK m \in Nat : m \in S
  BY <1>8
<1>10. PICK d \in Nat : d \in S /\ d <= m /\ \A j \in 0 .. (d - 1) : j \notin S
  <2> HIDE DEF S
  <2> QED BY <1>9, Least
<1>11. d # 0 /\ P[d] % p = 1
  BY <1>10
<1>12. ASSUME NEW j \in 1 .. (d - 1) PROVE P[j] % p # 1
  <2>1. j \in 0 .. (d - 1) /\ j \in Nat /\ j # 0
    OBVIOUS
  <2> QED BY <1>10, <2>1
<1>13. IsOrder(d, x, p)
  BY <1>11, <1>12 DEF IsOrder
<1> QED BY <1>13

\* The powers of 1.
LEMMA PowerOne ==
  ASSUME NEW k \in Nat
  PROVE  Power(1)[k] = 1
<1> DEFINE P == Power(1)
           S == {i \in Nat : P[i] = 1}
<1>1. P[0] = 1 /\ \A i \in Nat : P[i + 1] = 1 * P[i]
  BY Powers
<1> HIDE DEF P
<1>2. 0 \in S /\ \A i \in Nat : i \in S => i + 1 \in S
  BY <1>1
<1> HIDE DEF S
<1>3. k \in S
  BY <1>2, Induction
<1> QED BY <1>3 DEF S, P

\* Only the remainder of an exponent by the order matters.
LEMMA OrderRepeats ==
  ASSUME NEW p, Prime(p), NEW x \in Int, NEW d, IsOrder(d, x, p), NEW j \in Nat, NEW i \in Nat
  PROVE  Cong(Power(x)[d * j], 1, p) /\ Cong(Power(x)[d * j + i], Power(x)[i], p)
<1> DEFINE P == Power(x)
<1>1. p \in Nat \ {0} /\ p > 1 /\ d \in Nat
  BY DEF Prime, IsOrder
<1>2. P \in [Nat -> Int] /\ d * j \in Nat /\ P[d] \in Int
  <2>1. P \in [Nat -> Int]
    BY Powers
  <2>2. d * j \in Nat
    BY <1>1
  <2> QED BY <1>1, <2>1, <2>2
<1>3. Cong(P[d], 1, p)
  <2>1. 1 \in 0 .. (p - 1) /\ 0 \in Int /\ p * 0 + 1 = 1
    BY <1>1
  <2>2. (p * 0 + 1) % p = 1
    BY <1>1, <2>1, DivMod
  <2>3. P[d] % p = 1 % p
    BY <2>1, <2>2 DEF IsOrder
  <2>4. 1 \in Int
    OBVIOUS
  <2> QED BY <1>1, <1>2, <2>3, <2>4, CongSame
<1>4. Cong(P[d * j], 1, p)
  <2>1. Power(P[d])[j] = P[d * j] /\ Power(1)[j] = 1
    BY <1>1, PowerPower, PowerOne
  <2>2. 1 \in Int /\ p \in Int
    BY <1>1
  <2>3. Cong(Power(P[d])[j], Power(1)[j], p)
    BY <1>2, <1>3, <2>2, PowerCong
  <2> QED BY <2>1, <2>3
<1> DEFINE m == d * j
<1>5. m \in Nat /\ Cong(P[m], 1, p) /\ P[m] \in Int /\ P[i] \in Int
  BY <1>2, <1>4
<1> HIDE DEF m
<1>6. P[m + i] = P[m] * P[i]
  BY <1>5, PowerAdd
<1> HIDE DEF P
<1>7. Cong(P[m] * P[i], 1 * P[i], p)
  <2>1. Cong(P[i], P[i], p)
    BY <1>1, <1>5, CongMod
  <2>2. 1 \in Int /\ p \in Int
    BY <1>1
  <2> QED BY <1>5, <2>1, <2>2, CongMul
<1>8. 1 * P[i] = P[i]
  BY <1>5
<1>9. Cong(P[m + i], P[i], p)
  BY <1>6, <1>7, <1>8
<1> QED BY <1>5, <1>9 DEF P, m

\* X has the multiples of its members by the powers of x.
Closed(X, x, p) ==
  X \subseteq 1 .. (p - 1) /\ \A y \in X : \A k \in Nat : (Power(x)[k] * y) % p \in X

\* An orbit in such a set has as many members as the order of x, and the rest
\* of the set is such a set again.
LEMMA OrbitThere ==
  ASSUME NEW p, Prime(p), NEW x \in Int, x % p # 0, NEW d, IsOrder(d, x, p),
         NEW X, Closed(X, x, p), NEW y \in X
  PROVE  \E O : /\ O \subseteq X /\ IsFiniteSet(O) /\ Cardinality(O) = d
                /\ Closed(X \ O, x, p)
<1> DEFINE P == Power(x)
           val(k) == (P[k] * y) % p
           O == {val(k) : k \in 0 .. (d - 1)}
           f == [k \in 0 .. (d - 1) |-> val(k)]
<1>1. p \in Nat \ {0} /\ p > 1 /\ d \in Nat \ {0}
  BY DEF Prime, IsOrder
<1>2. P \in [Nat -> Int]
  BY Powers
<1>3. y \in 1 .. (p - 1) /\ y \in Int
  BY DEF Closed
<1>4. \A z \in 1 .. (p - 1) : z % p = z
  <2>1. ASSUME NEW z \in 1 .. (p - 1) PROVE z % p = z
    <3>1. z \in 0 .. (p - 1) /\ 0 \in Int /\ p * 0 + z = z
      BY <1>1
    <3>2. (p * 0 + z) % p = z
      BY <1>1, <3>1, DivMod
    <3> QED BY <3>1, <3>2
  <2> QED BY <2>1
<1>5. y % p # 0
  BY <1>3, <1>4
<1>6. O \subseteq X
  <2>1. \A k \in 0 .. (d - 1) : k \in Nat
    BY <1>1
  <2>2. \A k \in Nat : val(k) \in X
    BY DEF Closed
  <2> HIDE DEF val
  <2> QED BY <2>1, <2>2
<1>7. ASSUME NEW i \in 0 .. (d - 1), NEW k \in 0 .. (d - 1), i < k PROVE val(i) # val(k)
  <2> SUFFICES ASSUME val(i) = val(k) PROVE FALSE
    OBVIOUS
  <2>1. i \in Nat /\ k - i \in Nat /\ i + (k - i) = k /\ k - i \in 1 .. (d - 1) /\ k \in Nat
    BY <1>1, <1>7
  <2>2. P[i] * y \in Int /\ P[k] * y \in Int
    <3>1. P[i] \in Int /\ P[k] \in Int
      BY <1>2, <2>1
    <3> QED BY <1>3, <3>1
  <2>3. Cong(P[i] * y, P[k] * y, p)
    BY <1>1, <2>2, CongSame
  <2> DEFINE j == k - i
  <2>4. j \in Nat /\ i + j = k /\ j \in 1 .. (d - 1)
    BY <2>1
  <2> HIDE DEF j
  <2>5. Cong(P[i] * y, P[i + j] * y, p)
    BY <2>3, <2>4
  <2>6. P[j] % p = 1
    BY <1>3, <1>5, <2>1, <2>4, <2>5, PowersApart
  <2> QED BY <2>4, <2>6 DEF IsOrder
<1>8. IsFiniteSet(O) /\ Cardinality(O) = d
  <2>1. f \in Bijection(0 .. (d - 1), O)
    <3>1. \A i, k \in 0 .. (d - 1) : f[i] = f[k] => i = k
      <4> SUFFICES ASSUME NEW i \in 0 .. (d - 1), NEW k \in 0 .. (d - 1), f[i] = f[k], i # k
                   PROVE  FALSE
        OBVIOUS
      <4>1. val(i) = val(k)
        OBVIOUS
      <4>2. i \in Int /\ k \in Int
        BY <1>1
      <4>3. i < k \/ k < i
        BY <4>2
      <4> HIDE DEF val, f
      <4> QED BY <1>7, <4>1, <4>3
    <3>2. f \in [0 .. (d - 1) -> O]
      <4> HIDE DEF val
      <4> QED OBVIOUS
    <3>3. \A z \in O : \E k \in 0 .. (d - 1) : f[k] = z
      <4> HIDE DEF val
      <4> QED OBVIOUS
    <3> HIDE DEF f, O
    <3>4. f \in Injection(0 .. (d - 1), O) /\ f \in Surjection(0 .. (d - 1), O)
      BY <3>1, <3>2, <3>3 DEF Injection, Surjection, IsInjective
    <3> QED BY <3>4 DEF Bijection
  <2>2. IsFiniteSet(0 .. (d - 1)) /\ Cardinality(0 .. (d - 1)) = d
    <3>1. 0 \in Int /\ d - 1 \in Int /\ ~(0 > d - 1) /\ (d - 1) - 0 + 1 = d
      BY <1>1
    <3> QED BY <3>1, FS_Interval
  <2> HIDE DEF f, O
  <2>3. ExistsBijection(0 .. (d - 1), O)
    BY <2>1 DEF ExistsBijection
  <2> QED BY <2>2, <2>3, FS_Bijection
<1>9. ASSUME NEW z \in X \ O, NEW k \in Nat PROVE (P[k] * z) % p \notin O
  <2> SUFFICES ASSUME NEW i \in 0 .. (d - 1), (P[k] * z) % p = val(i) PROVE FALSE
    OBVIOUS
  <2> DEFINE m == k * (d - 1)
             l == (m + i) % d
  <2>1. z \in 1 .. (p - 1) /\ z \in Int /\ i \in Nat /\ m \in Nat
    BY <1>1 DEF Closed
  <2>2. P[k] \in Int /\ P[i] \in Int /\ P[m] \in Int
    BY <1>2, <2>1
  <2>3. Cong(P[k] * z, P[i] * y, p)
    <3>1. P[k] * z \in Int /\ P[i] * y \in Int
      BY <1>3, <2>1, <2>2
    <3> QED BY <1>1, <3>1, CongSame
  <2>4. Cong(P[m] * (P[k] * z), P[m] * (P[i] * y), p)
    <3>1. Cong(P[m], P[m], p)
      BY <1>1, <2>2, CongMod
    <3>2. P[k] * z \in Int /\ P[i] * y \in Int /\ p \in Int
      BY <1>1, <1>3, <2>1, <2>2
    <3> QED BY <2>2, <2>3, <3>1, <3>2, CongMul
  <2>5. Cong(P[m] * (P[k] * z), z, p)
    <3>1. m + k = d * k + 0
      BY <1>1
    <3>2. P[m + k] = P[m] * P[k]
      BY <2>1, PowerAdd
    <3>3. Cong(P[d * k], 1, p)
      BY <1>1, <2>1, OrderRepeats
    <3>4. d * k + 0 = d * k
      BY <1>1
    <3> DEFINE u == P[m]
               v == P[k]
    <3>5. Cong(u * v, 1, p) /\ u \in Int /\ v \in Int
      BY <2>2, <3>1, <3>2, <3>3, <3>4
    <3> HIDE DEF u, v
    <3>6. Cong(z, z, p)
      BY <1>1, <2>1, CongMod
    <3>9. u * v \in Int /\ 1 \in Int /\ p \in Int
      BY <1>1, <3>5
    <3>7. Cong((u * v) * z, 1 * z, p)
      BY <2>1, <3>5, <3>6, <3>9, CongMul
    <3>8. (u * v) * z = u * (v * z) /\ 1 * z = z
      BY <2>1, <3>5
    <3> QED BY <3>7, <3>8 DEF u, v
  <2>6. l \in 0 .. (d - 1) /\ Cong(P[m + i], P[l], p)
    <3> DEFINE j == (m + i) \div d
               t == m + i
    <3>1. t \in Nat
      BY <2>1
    <3>2. t \div d \in Nat /\ t % d \in 0 .. (d - 1) /\ t = d * (t \div d) + (t % d)
      <4> HIDE DEF t
      <4> QED BY <1>1, <3>1
    <3>3. j \in Nat /\ l \in 0 .. (d - 1) /\ l \in Nat /\ t = d * j + l
      BY <1>1, <3>2
    <3> HIDE DEF j, l, t
    <3>4. Cong(P[d * j + l], P[l], p)
      BY <3>3, OrderRepeats
    <3> QED BY <3>3, <3>4 DEF t
  <2>7. Cong(P[m] * (P[i] * y), P[l] * y, p)
    <3>1. P[m + i] = P[m] * P[i]
      BY <2>1, PowerAdd
    <3>2. l \in Nat /\ p \in Int
      BY <1>1, <2>6
    <3>3. P[l] \in Int
      BY <1>2, <3>2
    <3> DEFINE u == P[m]
               v == P[i]
               w == P[l]
    <3>4. u \in Int /\ v \in Int /\ w \in Int /\ Cong(u * v, w, p)
      BY <2>2, <2>6, <3>1, <3>3
    <3> HIDE DEF u, v, w
    <3>5. Cong(y, y, p) /\ u * v \in Int
      BY <1>1, <1>3, <3>4, CongMod
    <3>6. Cong((u * v) * y, w * y, p)
      BY <1>3, <3>2, <3>4, <3>5, CongMul
    <3>7. (u * v) * y = u * (v * y)
      BY <1>3, <3>4
    <3> QED BY <3>6, <3>7 DEF u, v, w
  <2>8. Cong(z, P[l] * y, p)
    <3> DEFINE a == P[m] * (P[k] * z)
               c == P[m] * (P[i] * y)
               w == P[l] * y
    <3>1. l \in Nat
      BY <1>1, <2>6
    <3>2. P[l] \in Int
      BY <1>2, <3>1
    <3>3. a \in Int /\ c \in Int /\ w \in Int /\ p \in Int
      BY <1>1, <1>3, <2>1, <2>2, <3>2
    <3>4. Cong(a, c, p) /\ Cong(a, z, p) /\ Cong(c, w, p)
      BY <2>4, <2>5, <2>7
    <3> HIDE DEF a, c, w
    <3>5. Cong(z, a, p)
      BY <2>1, <3>3, <3>4, CongSym
    <3>6. Cong(z, c, p)
      BY <2>1, <3>3, <3>4, <3>5, CongTrans
    <3>7. Cong(z, w, p)
      BY <2>1, <3>3, <3>4, <3>6, CongTrans
    <3> QED BY <3>7 DEF w
  <2>9. z = val(l)
    <3>1. l \in Nat
      BY <1>1, <2>6
    <3>2. P[l] \in Int
      BY <1>2, <3>1
    <3>3. P[l] * y \in Int
      BY <1>3, <3>2
    <3>4. z % p = (P[l] * y) % p
      BY <1>1, <2>1, <2>8, <3>3, CongSame
    <3> QED BY <1>4, <2>1, <3>4
  <2>10. val(l) \in O
    <3> HIDE DEF val, l
    <3> QED BY <2>6
  <2> QED BY <2>9, <2>10
<1>10. Closed(X \ O, x, p)
  <2>1. X \ O \subseteq 1 .. (p - 1)
    BY DEF Closed
  <2>2. \A z \in X : \A k \in Nat : (P[k] * z) % p \in X
    BY DEF Closed
  <2> HIDE DEF O
  <2>3. \A z \in X \ O : \A k \in Nat : (P[k] * z) % p \in X \ O
    BY <1>9, <2>2
  <2> QED BY <2>1, <2>3 DEF Closed
<1> HIDE DEF O
<1> QED BY <1>6, <1>8, <1>10

\* So the order of x divides the size of the set.
LEMMA OrbitsDivide ==
  ASSUME NEW p, Prime(p), NEW x \in Int, x % p # 0, NEW d, IsOrder(d, x, p),
         NEW X, Closed(X, x, p)
  PROVE  Cardinality(X) \in Nat /\ \E k \in Int : Cardinality(X) = d * k
<1> DEFINE S == {n \in Nat : \A Y : Closed(Y, x, p) /\ Cardinality(Y) = n
                                      => \E k \in Int : n = d * k}
<1>1. p \in Nat \ {0} /\ p > 1 /\ d \in Nat \ {0}
  BY DEF Prime, IsOrder
<1>2. \A Y : Closed(Y, x, p) => IsFiniteSet(Y) /\ Cardinality(Y) \in Nat
  <2>1. IsFiniteSet(1 .. (p - 1))
    <3>1. 1 \in Int /\ p - 1 \in Int
      BY <1>1
    <3> QED BY <3>1, FS_Interval
  <2> SUFFICES ASSUME NEW Y, Closed(Y, x, p) PROVE IsFiniteSet(Y) /\ Cardinality(Y) \in Nat
    OBVIOUS
  <2>2. Y \subseteq 1 .. (p - 1)
    BY DEF Closed
  <2>3. IsFiniteSet(Y)
    BY <2>1, <2>2, FS_Subset
  <2> QED BY <2>3, FS_CardinalityType
<1>3. ASSUME NEW n \in Nat, \A j \in 0 .. (n - 1) : j \in S PROVE n \in S
  <2> SUFFICES ASSUME NEW Y, Closed(Y, x, p), Cardinality(Y) = n
               PROVE  \E k \in Int : n = d * k
    OBVIOUS
  <2>1. CASE Y = {}
    <3>1. n = 0
      BY <2>1, FS_EmptySet
    <3>2. n = d * 0 /\ 0 \in Int
      BY <1>1, <3>1
    <3> QED BY <3>2
  <2>2. CASE Y # {}
    <3>1. PICK y : y \in Y
      BY <2>2
    <3>2. PICK O : /\ O \subseteq Y /\ IsFiniteSet(O) /\ Cardinality(O) = d
                   /\ Closed(Y \ O, x, p)
      BY <3>1, OrbitThere
    <3>3. IsFiniteSet(Y) /\ Cardinality(Y \ O) \in Nat
      BY <1>2, <3>2
    <3>4. Cardinality(Y \ O) = n - d
      <4>1. Y \cap O = O
        BY <3>2
      <4>2. Cardinality(Y \ O) = Cardinality(Y) - Cardinality(Y \cap O)
        BY <3>3, FS_Difference
      <4> QED BY <3>2, <4>1, <4>2
    <3>5. n - d \in 0 .. (n - 1)
      BY <1>1, <3>3, <3>4
    <3>6. n - d \in S
      BY <1>3, <3>5
    <3>7. PICK k \in Int : n - d = d * k
      BY <3>2, <3>4, <3>6
    <3>8. n = d * (k + 1) /\ k + 1 \in Int
      BY <1>1, <3>7
    <3> QED BY <3>8
  <2> QED BY <2>1, <2>2
<1> HIDE DEF S
<1>4. Nat \subseteq S
  BY <1>3, StrongInduction
<1>5. Cardinality(X) \in Nat
  BY <1>2
<1> QED BY <1>4, <1>5 DEF S

\* Fermat's little theorem.
LEMMA Fermat ==
  ASSUME NEW p, Prime(p), NEW x \in Int, x % p # 0
  PROVE  Power(x)[p - 1] % p = 1 /\ Cong(Power(x)[p - 1], 1, p)
<1> DEFINE P == Power(x)
           G == 1 .. (p - 1)
<1>1. p \in Nat \ {0} /\ p > 1 /\ p - 1 \in Nat
  BY DEF Prime
<1>2. P \in [Nat -> Int]
  BY Powers
<1>3. \A z \in 1 .. (p - 1) : z % p = z
  <2>1. ASSUME NEW z \in 1 .. (p - 1) PROVE z % p = z
    <3>1. z \in 0 .. (p - 1) /\ 0 \in Int /\ p * 0 + z = z
      BY <1>1
    <3>2. (p * 0 + z) % p = z
      BY <1>1, <3>1, DivMod
    <3> QED BY <3>1, <3>2
  <2> QED BY <2>1
<1>4. PICK d \in Nat : IsOrder(d, x, p)
  BY OrderThere
<1>5. Closed(G, x, p)
  <2>1. ASSUME NEW y \in G, NEW k \in Nat PROVE (P[k] * y) % p \in G
    <3>1. P[k] \in Int /\ y \in Int
      BY <1>2
    <3>2. P[k] % p \in 1 .. (p - 1)
      BY PowerNonzero
    <3>3. P[k] % p # 0 /\ y % p # 0
      <4>1. y % p = y
        BY <1>3
      <4> QED BY <1>1, <3>2, <4>1
    <3>4. (P[k] * y) % p # 0
      BY <3>1, <3>3, EuclidsLemma
    <3> DEFINE w == P[k] * y
    <3>5. w \in Int /\ w % p # 0
      BY <3>1, <3>4
    <3> HIDE DEF w
    <3>6. w % p \in 1 .. (p - 1)
      BY <1>1, <3>5
    <3> QED BY <3>6 DEF w
  <2> QED BY <2>1 DEF Closed
<1>6. Cardinality(G) = p - 1
  <2>1. 1 \in Int /\ p - 1 \in Int /\ ~(1 > p - 1) /\ (p - 1) - 1 + 1 = p - 1
    BY <1>1
  <2> QED BY <2>1, FS_Interval
<1> HIDE DEF G
<1>7. PICK k \in Int : p - 1 = d * k
  BY <1>4, <1>5, <1>6, OrbitsDivide
<1>8. k \in Nat
  <2>1. d \in Nat \ {0}
    BY <1>4 DEF IsOrder
  <2>2. k < 0 => d * k < 0
    BY <2>1
  <2> QED BY <1>1, <1>7, <2>2
<1>9. Cong(P[d * k], 1, p)
  <2>1. 0 \in Nat
    OBVIOUS
  <2> QED BY <1>4, <1>8, <2>1, OrderRepeats
<1>10. Cong(P[p - 1], 1, p)
  BY <1>7, <1>9
<1>11. P[p - 1] % p = 1
  <2>1. 1 \in 1 .. (p - 1) /\ P[p - 1] \in Int /\ 1 \in Int
    BY <1>1, <1>2
  <2>2. P[p - 1] % p = 1 % p
    BY <1>1, <1>10, <2>1, CongSame
  <2> QED BY <1>3, <2>1, <2>2
<1> QED BY <1>10, <1>11

-----------------------------------------------------------------------------
(* DSAKey.                                                                 *)

\* Of an x with x ^ q like 1, exponents that q does not tell apart give powers
\* that p does not.
LEMMA PowerPeriod ==
  ASSUME NEW p \in Nat \ {0}, NEW q \in Nat \ {0}, NEW x \in Int, Cong(Power(x)[q], 1, p),
         NEW j \in Nat, NEW i \in Nat, Cong(j, i, q)
  PROVE  Cong(Power(x)[j], Power(x)[i], p)
<1> DEFINE P == Power(x)
<1>1. P \in [Nat -> Int]
  BY Powers
<1>2. ASSUME NEW k \in Nat, NEW l \in Nat PROVE Cong(P[q * k + l], P[l], p)
  <2>1. Power(P[q])[k] = P[q * k] /\ Power(1)[k] = 1
    BY PowerPower, PowerOne
  <2>2. P[q] \in Int /\ 1 \in Int /\ p \in Int
    BY <1>1
  <2>3. Cong(Power(P[q])[k], Power(1)[k], p)
    BY <2>2, PowerCong
  <2> DEFINE m == q * k
  <2>4. m \in Nat /\ Cong(P[m], 1, p)
    BY <2>1, <2>3
  <2> HIDE DEF m
  <2>5. P[m + l] = P[m] * P[l]
    BY <2>4, PowerAdd
  <2>6. P[m] \in Int /\ P[l] \in Int
    BY <1>1, <2>4
  <2> HIDE DEF P
  <2>7. Cong(P[l], P[l], p)
    BY <2>6, CongMod
  <2>8. Cong(P[m] * P[l], 1 * P[l], p)
    BY <2>2, <2>4, <2>6, <2>7, CongMul
  <2>9. 1 * P[l] = P[l]
    BY <2>6
  <2> QED BY <2>5, <2>8, <2>9 DEF m
<1>3. PICK k \in Int : j = i + q * k
  BY DEF Cong
<1> HIDE DEF P
<1>4. CASE k \in Nat
  <2>1. j = q * k + i
    BY <1>3
  <2> QED BY <1>2, <1>4, <2>1 DEF P
<1>5. CASE k \notin Nat
  <2>1. -k \in Nat /\ i = q * (-k) + j
    BY <1>3, <1>5
  <2>2. Cong(P[i], P[j], p)
    BY <1>2, <2>1
  <2>3. P[i] \in Int /\ P[j] \in Int /\ p \in Int
    BY <1>1
  <2> QED BY <2>2, <2>3, CongSym DEF P
<1> QED BY <1>4, <1>5

\* The equation of dsaVerify.
LEMMA EquationHolds ==
  ASSUME NEW p \in Nat \ {0}, NEW q, Prime(q), NEW g \in Int, Cong(Power(g)[q], 1, p),
         NEW x \in Nat, NEW K \in Nat, NEW c \in Int, Cong(K * c, 1, q),
         NEW m \in Int, NEW r \in Nat, NEW s \in Int, Cong(s, c * (m + x * r), q),
         NEW w \in Int, Cong(s * w, 1, q), NEW h \in Nat, Cong(h, m * w, q),
         NEW k \in Nat, Cong(k, r * w, q)
  PROVE  Cong(Power(g)[h] * Power(Power(g)[x])[k], Power(g)[K], p)
<1> DEFINE P == Power(g)
           t == m + x * r
           e == h + x * k
<1>1. q \in Nat \ {0} /\ q \in Int
  BY DEF Prime
<1>2. P \in [Nat -> Int]
  BY Powers
<1>3. x * k \in Nat /\ e \in Nat /\ x * r \in Int /\ t \in Int
  OBVIOUS
<1>4. P[h] * Power(P[x])[k] = P[e]
  <2>1. Power(P[x])[k] = P[x * k]
    BY PowerPower
  <2>2. P[h + x * k] = P[h] * P[x * k]
    BY <1>3, PowerAdd
  <2> QED BY <2>1, <2>2
<1>5. Cong(e, t * w, q)
  <2> DEFINE a == x * k
             d == x * (r * w)
             f == m * w
  <2>1. Cong(x, x, q)
    BY <1>1, CongSelf
  <2>2. Cong(a, d, q)
    BY <1>1, <2>1, CongMul
  <2>3. a \in Int /\ d \in Int /\ f \in Int /\ Cong(h, f, q)
    OBVIOUS
  <2>4. t * w = f + d
    OBVIOUS
  <2> HIDE DEF a, d, f, t
  <2>5. Cong(h + a, f + d, q)
    BY <1>1, <2>2, <2>3, CongAdd
  <2> QED BY <2>4, <2>5 DEF a
<1> HIDE DEF t
<1>6. Cong(t, K * s, q)
  <2>1. Cong(K, K, q) /\ Cong(t, t, q)
    BY <1>1, <1>3, CongSelf
  <2>2. c * t \in Int /\ K * c \in Int /\ K * s \in Int /\ 1 \in Int
    BY <1>3
  <2>3. Cong(K * s, K * (c * t), q)
    BY <1>1, <2>1, <2>2, CongMul DEF t
  <2>4. Cong((K * c) * t, 1 * t, q)
    BY <1>1, <1>3, <2>1, <2>2, CongMul
  <2>5. K * (c * t) = (K * c) * t /\ 1 * t = t /\ K * (c * t) \in Int
    BY <1>3
  <2> DEFINE a == K * s
             d == K * (c * t)
  <2>6. a \in Int /\ d \in Int /\ Cong(a, d, q) /\ Cong(d, t, q)
    BY <2>2, <2>3, <2>4, <2>5
  <2> HIDE DEF a, d
  <2>7. Cong(a, t, q)
    BY <1>1, <1>3, <2>6, CongTrans
  <2>8. Cong(t, a, q)
    BY <1>1, <1>3, <2>6, <2>7, CongSym
  <2> QED BY <2>8 DEF a
<1>7. Cong(t * w, K, q)
  <2>1. Cong(w, w, q) /\ Cong(K, K, q)
    BY <1>1, CongSelf
  <2>2. K * s \in Int /\ s * w \in Int /\ 1 \in Int
    OBVIOUS
  <2>3. Cong(t * w, (K * s) * w, q)
    BY <1>1, <1>3, <1>6, <2>1, <2>2, CongMul
  <2>4. Cong(K * (s * w), K * 1, q)
    BY <1>1, <2>1, <2>2, CongMul
  <2>5. (K * s) * w = K * (s * w) /\ K * 1 = K
    OBVIOUS
  <2> DEFINE a == t * w
             d == K * (s * w)
  <2>6. a \in Int /\ d \in Int /\ Cong(a, d, q) /\ Cong(d, K, q)
    BY <1>3, <2>2, <2>3, <2>4, <2>5
  <2> HIDE DEF a, d
  <2>7. Cong(a, K, q)
    BY <1>1, <2>6, CongTrans
  <2> QED BY <2>7 DEF a
<1>8. Cong(e, K, q)
  <2> DEFINE a == t * w
  <2>1. a \in Int /\ Cong(e, a, q) /\ Cong(a, K, q) /\ e \in Int
    BY <1>3, <1>5, <1>7
  <2> HIDE DEF a, e
  <2> QED BY <1>1, <2>1, CongTrans
<1>9. Cong(P[e], P[K], p)
  <2> HIDE DEF e
  <2> QED BY <1>1, <1>3, <1>8, PowerPeriod
<1> QED BY <1>4, <1>9

\* What dsaSign computes passes dsaVerify, unless a number of it is 0.
LEMMA SignatureFits ==
  ASSUME NEW p \in Nat, p > 1, NEW q, Prime(q), NEW g \in Nat, Powm(g, q, p) = 1,
         NEW x \in 1 .. (q - 1), NEW K \in 2 .. (q - 1), NEW m \in Int, NEW r, NEW s,
         r = Powm(g, K, p) % q, s = (Invert(K, q) * (m + (x * r))) % q, r # 0, s # 0,
         NEW w, w = Invert(s, q)
  PROVE  /\ r > 0 /\ r < q /\ s > 0 /\ s < q
         /\ r = ((Powm(g, (m * w) % q, p) * Powm(Powm(g, x, p), (r * w) % q, p)) % p) % q
<1> DEFINE P == Power(g)
           c == Invert(K, q)
           h == (m * w) % q
           k == (r * w) % q
           y == Powm(g, x, p)
<1>1. q \in Nat \ {0} /\ q > 1 /\ p \in Nat \ {0} /\ x \in Nat /\ K \in Nat /\ q \in Nat
  BY DEF Prime
<1>2. P \in [Nat -> Int]
  BY Powers
<1>3. Cong(P[q], 1, p)
  <2>1. Powm(g, q, p) = P[q] % p
    BY <1>1, PowmIsPower
  <2>2. 1 % p = 1
    <3>1. 1 \in 0 .. (p - 1) /\ 0 \in Int /\ p * 0 + 1 = 1
      BY <1>1
    <3>2. (p * 0 + 1) % p = 1
      BY <1>1, <3>1, DivMod
    <3> QED BY <3>1, <3>2
  <2>3. P[q] \in Int /\ 1 \in Int
    BY <1>1, <1>2
  <2> QED BY <1>1, <2>1, <2>2, <2>3, CongSame
<1>4. Powm(g, K, p) = P[K] % p /\ y = P[x] % p /\ P[K] \in Int /\ P[x] \in Int
  <2>1. Powm(g, K, p) = P[K] % p
    BY <1>1, PowmIsPower
  <2>2. Powm(g, x, p) = P[x] % p
    BY <1>1, PowmIsPower
  <2> QED BY <1>1, <1>2, <2>1, <2>2
<1>5. r \in 1 .. (q - 1) /\ r \in Nat
  <2> DEFINE a == P[K] % p
  <2>1. a \in Int
    BY <1>1, <1>4, CongMod
  <2>2. r = a % q
    BY <1>4
  <2> HIDE DEF a
  <2>3. a % q \in 0 .. (q - 1)
    BY <1>1, <2>1, CongMod
  <2> QED BY <1>1, <2>2, <2>3
<1>6. \A z \in 1 .. (q - 1) : z \in Int /\ z % q # 0
  <2>1. ASSUME NEW z \in 1 .. (q - 1) PROVE z % q = z
    <3>1. z \in 0 .. (q - 1) /\ 0 \in Int /\ q * 0 + z = z
      BY <1>1
    <3>2. (q * 0 + z) % q = z
      BY <1>1, <3>1, DivMod
    <3> QED BY <3>1, <3>2
  <2> QED BY <1>1, <2>1
<1>7. ASSUME NEW z \in 1 .. (q - 1)
      PROVE  Invert(z, q) \in Int /\ Cong(z * Invert(z, q), 1, q)
  <2>1. \E v \in 1 .. (q - 1) : (z * v) % q = 1
    BY <1>6, InverseThere
  <2>2. Invert(z, q) \in 1 .. (q - 1) /\ (z * Invert(z, q)) % q = 1
    <3>1. z \in Int /\ q \in Int
      BY <1>1
    <3> QED BY <2>1, <3>1, InvertThere, Zenon
  <2> DEFINE v == Invert(z, q)
  <2>3. v \in Int /\ (z * v) % q = 1
    BY <1>1, <2>2
  <2> HIDE DEF v
  <2>4. z * v \in Int
    BY <1>6, <2>3
  <2> DEFINE a == z * v
  <2>5. a \in Int /\ a % q = 1
    BY <2>3, <2>4
  <2> HIDE DEF a
  <2>6. Cong(a, a % q, q)
    BY <1>1, <2>5, CongMod
  <2>7. Cong(a, 1, q)
    BY <2>5, <2>6
  <2> QED BY <2>3, <2>7 DEF a, v
<1>8. c \in Int /\ Cong(K * c, 1, q)
  BY <1>1, <1>7
<1> HIDE DEF c
<1>9. s \in 1 .. (q - 1) /\ Cong(s, c * (m + x * r), q)
  <2> DEFINE a == c * (m + x * r)
  <2>1. a \in Int /\ s = a % q
    BY <1>1, <1>5, <1>8 DEF c
  <2> HIDE DEF a
  <2>2. a % q \in 0 .. (q - 1) /\ Cong(a % q, a, q)
    BY <1>1, <2>1, CongMod
  <2>3. s \in 0 .. (q - 1) /\ Cong(s, a, q)
    BY <2>1, <2>2
  <2>4. s \in 1 .. (q - 1)
    BY <1>1, <2>3
  <2> QED BY <2>3, <2>4 DEF a
<1>10. w \in Int /\ Cong(s * w, 1, q)
  BY <1>7, <1>9
<1>11. h \in Nat /\ k \in Nat /\ Cong(h, m * w, q) /\ Cong(k, r * w, q)
  <2> DEFINE a == m * w
             d == r * w
  <2>1. a \in Int /\ d \in Int
    BY <1>5, <1>10
  <2> HIDE DEF a, d
  <2>2. /\ a % q \in 0 .. (q - 1) /\ Cong(a % q, a, q)
        /\ d % q \in 0 .. (q - 1) /\ Cong(d % q, d, q)
    BY <1>1, <2>1, CongMod
  <2>3. a % q \in Nat /\ d % q \in Nat
    BY <1>1, <2>2
  <2> QED BY <2>2, <2>3 DEF a, d
<1> HIDE DEF h, k
<1>12. Cong(P[h] * Power(P[x])[k], P[K], p)
  <2> HIDE DEF P
  <2>1. /\ g \in Int /\ p \in Nat \ {0} /\ s \in Int /\ m \in Int
    BY <1>1, <1>9
  <2> QED BY <1>1, <1>3, <1>5, <1>8, <1>9, <1>10, <1>11, <2>1, EquationHolds DEF P
<1>13. Powm(g, h, p) = P[h] % p /\ Powm(y, k, p) = Power(y)[k] % p /\ y \in Int
  <2>1. y \in Int
    <3> DEFINE a == P[x]
    <3>1. a \in Int /\ y = a % p
      BY <1>4
    <3> HIDE DEF a, y
    <3>2. a % p \in Int
      BY <1>1, <3>1, CongMod
    <3> QED BY <3>1, <3>2
  <2> HIDE DEF y
  <2>2. Powm(g, h, p) = P[h] % p
    BY <1>1, <1>11, PowmIsPower
  <2>3. Powm(y, k, p) = Power(y)[k] % p
    BY <1>1, <1>11, <2>1, PowmIsPower
  <2> QED BY <2>1, <2>2, <2>3
<1> DEFINE a == P[h]
           b == Power(y)[k]
           d == Power(P[x])[k]
<1>14. a \in Int /\ b \in Int /\ d \in Int /\ Cong(b, d, p)
  <2>1. a \in Int
    BY <1>2, <1>11
  <2>2. Power(y) \in [Nat -> Int] /\ Power(P[x]) \in [Nat -> Int]
    BY <1>4, <1>13, Powers
  <2>3. Cong(P[x] % p, P[x], p) /\ p \in Int
    <3> DEFINE t == P[x]
    <3>1. t \in Int
      BY <1>4
    <3> HIDE DEF t
    <3>2. Cong(t % p, t, p)
      BY <1>1, <3>1, CongMod
    <3> QED BY <1>1, <3>2 DEF t
  <2>4. Cong(y, P[x], p)
    BY <1>4, <2>3
  <2> HIDE DEF y
  <2>5. Cong(Power(y)[k], Power(P[x])[k], p)
    BY <1>4, <1>11, <1>13, <2>3, <2>4, PowerCong
  <2> QED BY <1>11, <2>1, <2>2, <2>5
<1>15. ((a % p) * (b % p)) % p = P[K] % p
  <2>1. Cong(a * d, P[K], p)
    BY <1>12
  <2>2. P[K] \in Int
    BY <1>4
  <2> DEFINE e == P[K]
  <2>3. Cong(a * d, e, p) /\ e \in Int
    BY <2>1, <2>2
  <2> HIDE DEF a, b, d, e
  <2>4. a * b \in Int /\ a * d \in Int /\ p \in Int /\ Cong(a, a, p)
    BY <1>1, <1>14, CongSelf
  <2>5. Cong(a * b, a * d, p)
    BY <1>14, <2>4, CongMul
  <2>6. Cong(a * b, e, p)
    BY <2>3, <2>4, <2>5, CongTrans
  <2>7. (a * b) % p = e % p
    BY <1>1, <2>3, <2>4, <2>6, CongSame
  <2>8. ((a % p) * (b % p)) % p = (a * b) % p
    BY <1>1, <1>14, ModMul
  <2> QED BY <2>7, <2>8 DEF e
<1>16. r = ((Powm(g, h, p) * Powm(y, k, p)) % p) % q
  <2>1. Powm(g, h, p) = a % p /\ Powm(y, k, p) = b % p /\ r = (P[K] % p) % q
    BY <1>4, <1>13
  <2> HIDE DEF a, b, y, P
  <2> QED BY <1>15, <2>1, Zenon
<1>17. r > 0 /\ r < q /\ s > 0 /\ s < q
  BY <1>1, <1>5, <1>9
<1> QED BY <1>16, <1>17 DEF h, k

\* GMP is the same in each of the modules.
LEMMA DsaMpz ==
  /\ \A x, e, n : Dsa!Powm(x, e, n) = Powm(x, e, n)
  /\ \A x, n : Dsa!Invert(x, n) = Invert(x, n)
BY DEF Dsa!Powm, Powm, Dsa!Invert, Invert

\* The key object of x in a group, and the signature it makes of m with K.
DsaKey(G, x) == [y |-> Powm(G.g, x, G.p), g |-> G.g, p |-> G.p, q |-> G.q, x |-> x]

SigOf(G, x, m, K) ==
  LET r == Powm(G.g, K, G.p) % G.q
  IN [r |-> r, s |-> (Invert(K, G.q) * (m + (x * r))) % G.q]

\* The object in use belongs to a group, and so does the last signature, which
\* was made with an allowed k.
DsaInv ==
  /\ dsaobj # Dsa!NoKey =>
       \E G \in Groups : \E x \in 1 .. (G.q - 1) :
         dsaobj = DsaKey(G, x) \/ dsaobj = Dsa!Public(DsaKey(G, x))
  /\ signer # Dsa!NoKey =>
       \E G \in Groups : \E x \in 1 .. (G.q - 1) :
         /\ signer = Dsa!Public(DsaKey(G, x))
         /\ message \in Int /\ nonce \in 2 .. (G.q - 1) /\ sig = SigOf(G, x, message, nonce)

\* The invariant holds at first and is kept by every step of DSAKey.
LEMMA DsaInvHolds == Dsa!Spec => []DsaInv
<1>1. Dsa!Init => DsaInv
  BY DEF Dsa!Init, DsaInv
<1>2. DsaInv /\ [Dsa!Next]_Dsa!vars => DsaInv'
  <2> SUFFICES ASSUME DsaInv, [Dsa!Next]_Dsa!vars PROVE DsaInv'
    OBVIOUS
  <2>1. CASE UNCHANGED Dsa!vars
    BY <2>1 DEF Dsa!vars, DsaInv, Dsa!NoKey
  <2>2. ASSUME NEW G \in Groups, NEW x \in 1 .. (G.q - 1), NEW private \in BOOLEAN,
               Dsa!dsaKey_new(G, x, private)
        PROVE  DsaInv'
    <3>1. UNCHANGED <<signer, message, nonce, sig>>
      BY <2>2 DEF Dsa!dsaKey_new
    <3>2. dsaobj' = DsaKey(G, x) \/ dsaobj' = Dsa!Public(DsaKey(G, x))
      <4>1. dsaobj' = [y |-> Powm(G.g, x, G.p), g |-> G.g, p |-> G.p, q |-> G.q,
                       x |-> IF private THEN x ELSE 0]
        BY <2>2, DsaMpz DEF Dsa!dsaKey_new
      <4> QED BY <4>1 DEF DsaKey, Dsa!Public
    <3> QED BY <3>1, <3>2 DEF DsaInv, Dsa!NoKey
  <2>3. CASE Dsa!dsaKey_dealloc
    BY <2>3 DEF Dsa!dsaKey_dealloc, DsaInv, Dsa!NoKey
  <2>4. ASSUME NEW m \in Messages, Dsa!dsaKey__verify(m) PROVE DsaInv'
    BY <2>4 DEF Dsa!dsaKey__verify, DsaInv, Dsa!NoKey
  <2>5. ASSUME NEW m \in Messages, NEW K \in Ks, Dsa!dsaKey__sign(m, K) PROVE DsaInv'
    <3>1. dsaobj # Dsa!NoKey /\ dsaobj.x # 0 /\ UNCHANGED dsaobj
      BY <2>5 DEF Dsa!dsaKey__sign, Dsa!has_private
    <3>6. PICK G \in Groups : \E x \in 1 .. (G.q - 1) :
            dsaobj = DsaKey(G, x) \/ dsaobj = Dsa!Public(DsaKey(G, x))
      BY <3>1 DEF DsaInv
    <3>2. PICK x \in 1 .. (G.q - 1) : dsaobj = DsaKey(G, x) \/ dsaobj = Dsa!Public(DsaKey(G, x))
      BY <3>6
    <3>3. dsaobj = DsaKey(G, x)
      <4>1. Dsa!Public(DsaKey(G, x)).x = 0
        BY DEF DsaKey, Dsa!Public
      <4> QED BY <3>1, <3>2, <4>1
    <3>4. CASE K < 2 \/ K >= dsaobj.q
      <4>1. UNCHANGED <<signer, message, nonce, sig>>
        BY <2>5, <3>4 DEF Dsa!dsaKey__sign
      <4> QED BY <3>1, <4>1 DEF DsaInv, Dsa!NoKey
    <3>5. CASE ~(K < 2 \/ K >= dsaobj.q)
      <4>1. message' = m /\ nonce' = K /\ sig' = Dsa!dsaSign(m, K) /\ signer' = Dsa!Public(dsaobj)
        BY <2>5, <3>5 DEF Dsa!dsaKey__sign
      <4>2. m \in Int /\ K \in 2 .. (G.q - 1)
        <5>1. dsaobj.q = G.q /\ m \in Int /\ K \in Int /\ G.q \in Int
          <6>1. m \in Int /\ K \in Int
            BY GroupsAssumption
          <6>2. dsaobj.q = G.q
            BY <3>3 DEF DsaKey
          <6>3. G.q \in Int
            BY GroupsAssumption
          <6> QED BY <6>1, <6>2, <6>3
        <5> QED BY <3>5, <5>1
      <4>3. Dsa!dsaSign(m, K) = SigOf(G, x, m, K)
        <5>1. dsaobj.g = G.g /\ dsaobj.p = G.p /\ dsaobj.q = G.q /\ dsaobj.x = x
          BY <3>3 DEF DsaKey
        <5> QED BY <5>1, DsaMpz DEF Dsa!dsaSign, SigOf
      <4> QED BY <3>1, <3>2, <3>3, <4>1, <4>2, <4>3 DEF DsaInv, Dsa!NoKey, Dsa!Public
    <3> QED BY <3>4, <3>5
  <2> QED BY <2>1, <2>2, <2>3, <2>4, <2>5 DEF Dsa!Next
<1> QED BY <1>1, <1>2, PTL DEF Dsa!Spec

\* A DSA signature verifies with any object of the key that made it, unless r
\* or s is 0 (_fastmath.c:195-248), in all groups of prime order.
LEMMA DsaVerifies == DsaInv => Dsa!SignatureVerifies
<1> SUFFICES ASSUME DsaInv, signer # Dsa!NoKey, Dsa!Public(dsaobj) = signer
             PROVE  Dsa!dsaVerify(message, sig.r, sig.s) = (sig.r # 0 /\ sig.s # 0)
  BY DEF Dsa!SignatureVerifies
<1>8. PICK G \in Groups : \E x \in 1 .. (G.q - 1) :
        /\ signer = Dsa!Public(DsaKey(G, x))
        /\ message \in Int /\ nonce \in 2 .. (G.q - 1) /\ sig = SigOf(G, x, message, nonce)
  BY DEF DsaInv
<1>1. PICK x \in 1 .. (G.q - 1) :
        /\ signer = Dsa!Public(DsaKey(G, x))
        /\ message \in Int /\ nonce \in 2 .. (G.q - 1) /\ sig = SigOf(G, x, message, nonce)
  BY <1>8
<1> DEFINE p == G.p
           q == G.q
           g == G.g
           y == Powm(g, x, p)
           r == sig.r
           s == sig.s
           w == Invert(s, q)
<1>2. dsaobj.y = y /\ dsaobj.g = g /\ dsaobj.p = p /\ dsaobj.q = q
  <2>1. PICK H, z : dsaobj = [y |-> H.y, g |-> H.g, p |-> H.p, q |-> H.q, x |-> z]
    <3>1. CASE dsaobj = Dsa!NoKey
      BY <3>1 DEF Dsa!NoKey
    <3>2. CASE dsaobj # Dsa!NoKey
      <4>4. PICK F \in Groups : \E v \in 1 .. (F.q - 1) :
              dsaobj = DsaKey(F, v) \/ dsaobj = Dsa!Public(DsaKey(F, v))
        BY <3>2 DEF DsaInv
      <4>1. PICK v \in 1 .. (F.q - 1) : dsaobj = DsaKey(F, v) \/ dsaobj = Dsa!Public(DsaKey(F, v))
        BY <4>4
      <4>2. dsaobj \in {DsaKey(F, v), [DsaKey(F, v) EXCEPT !.x = 0]}
        BY <4>1 DEF Dsa!Public
      <4>3. \E z : dsaobj = [y |-> DsaKey(F, v).y, g |-> DsaKey(F, v).g, p |-> DsaKey(F, v).p,
                             q |-> DsaKey(F, v).q, x |-> z]
        BY <4>2 DEF DsaKey
      <4> QED BY <4>3
    <3> QED BY <3>1, <3>2
  <2>2. Dsa!Public(dsaobj) = [y |-> H.y, g |-> H.g, p |-> H.p, q |-> H.q, x |-> 0]
    BY <2>1 DEF Dsa!Public
  <2>3. Dsa!Public(DsaKey(G, x)) = [y |-> y, g |-> g, p |-> p, q |-> q, x |-> 0]
    BY DEF Dsa!Public, DsaKey
  <2> HIDE DEF y, g, p, q
  <2>4. H.y = y /\ H.g = g /\ H.p = p /\ H.q = q
    BY <1>1, <2>2, <2>3
  <2> QED BY <2>1, <2>4
<1>3. p \in Nat /\ p > 1 /\ g \in Nat /\ Prime(q) /\ Powm(g, q, p) = 1
  <2>1. p \in Nat /\ p > 1 /\ g \in Nat /\ q \in Nat /\ IsPrime(q) /\ Powm(g, q, p) = 1
    BY GroupsAssumption
  <2>2. Prime(q)
    BY <2>1, PrimeMeaning
  <2> QED BY <2>1, <2>2
<1>4. r = Powm(g, nonce, p) % q /\ s = (Invert(nonce, q) * (message + (x * r))) % q
  BY <1>1 DEF SigOf
<1>5. Dsa!dsaVerify(message, r, s)
        <=> /\ r > 0 /\ r < q /\ s > 0 /\ s < q
            /\ r = ((Powm(g, (message * w) % q, p) * Powm(y, (r * w) % q, p)) % p) % q
  <2> HIDE DEF p, q, g, y, r, s
  <2> QED BY <1>2, DsaMpz DEF Dsa!dsaVerify
<1>6. CASE r # 0 /\ s # 0
  <2>1. /\ r > 0 /\ r < q /\ s > 0 /\ s < q
        /\ r = ((Powm(g, (message * w) % q, p) * Powm(y, (r * w) % q, p)) % p) % q
    <3>1. message \in Int /\ x \in 1 .. (q - 1) /\ nonce \in 2 .. (q - 1)
      BY <1>1
    <3> HIDE DEF p, q, g, r, s
    <3> QED BY <1>3, <1>4, <1>6, <3>1, SignatureFits
  <2> QED BY <1>5, <1>6, <2>1
<1>7. CASE ~(r # 0 /\ s # 0)
  <2>1. ~(r > 0 /\ s > 0)
    <3> HIDE DEF r, s
    <3> QED BY <1>7
  <2>2. Dsa!dsaVerify(message, r, s) = FALSE
    <3> HIDE DEF r, s
    <3> QED BY <2>1 DEF Dsa!dsaVerify
  <2> QED BY <1>7, <2>2
<1> QED BY <1>6, <1>7

-----------------------------------------------------------------------------
(* Two primes.                                                             *)

\* 1 and what is below n are their own remainders.
LEMMA SmallMod ==
  ASSUME NEW n \in Nat \ {0}, NEW x \in 0 .. (n - 1)
  PROVE  x % n = x
<1>1. 0 \in Int /\ n * 0 + x = x
  OBVIOUS
<1>2. (n * 0 + x) % n = x
  BY <1>1, DivMod
<1> QED BY <1>1, <1>2

\* A prime does not divide another one.
LEMMA PrimesApart ==
  ASSUME NEW a, Prime(a), NEW c, Prime(c), a # c
  PROVE  a % c # 0
<1>1. a \in Nat \ {0} /\ a > 1 /\ c \in Nat \ {0} /\ c > 1
  BY DEF Prime
<1> SUFFICES ASSUME a % c = 0 PROVE FALSE
  OBVIOUS
<1>2. c <= a
  <2>1. ASSUME a < c PROVE FALSE
    <3>1. a \in 0 .. (c - 1)
      BY <1>1, <2>1
    <3>2. a % c = a
      BY <1>1, <3>1, SmallMod
    <3> QED BY <1>1, <3>2
  <2> QED BY <1>1, <2>1
<1>3. c \in 2 .. (a - 1)
  BY <1>1, <1>2
<1> QED BY <1>3 DEF Prime

\* What two primes divide their product divides.
LEMMA ProductDivides ==
  ASSUME NEW a, Prime(a), NEW c, Prime(c), a # c, NEW x \in Int, x % a = 0, x % c = 0
  PROVE  \E k \in Int : x = (a * c) * k
<1>1. a \in Nat \ {0} /\ c \in Nat \ {0} /\ a \in Int
  BY DEF Prime
<1>2. PICK k \in Int : x = a * k
  BY <1>1, Divides
<1>3. k % c = 0
  <2>1. (a * k) % c = 0
    BY <1>2
  <2>2. a % c # 0
    BY PrimesApart
  <2> QED BY <1>1, <2>1, <2>2, EuclidsLemma
<1>4. PICK l \in Int : k = c * l
  BY <1>1, <1>3, Divides
<1>5. x = (a * c) * l
  BY <1>1, <1>2, <1>4
<1> QED BY <1>5

\* The Chinese remainder theorem: what neither prime tells apart their product
\* does not.
LEMMA CongProduct ==
  ASSUME NEW a, Prime(a), NEW c, Prime(c), a # c, NEW x \in Int, NEW y \in Int
  PROVE  Cong(x, y, a * c) <=> Cong(x, y, a) /\ Cong(x, y, c)
<1>1. a \in Nat \ {0} /\ c \in Nat \ {0} /\ a \in Int /\ c \in Int
  BY DEF Prime
<1>2. ASSUME Cong(x, y, a), Cong(x, y, c) PROVE Cong(x, y, a * c)
  <2> DEFINE z == x - y
  <2>1. z \in Int /\ x = y + z
    OBVIOUS
  <2>2. PICK k \in Int : x = y + a * k
    BY <1>2 DEF Cong
  <2>3. PICK l \in Int : x = y + c * l
    BY <1>2 DEF Cong
  <2>4. z = a * k /\ z = c * l
    <3> DEFINE u == a * k
               v == c * l
    <3>1. u \in Int /\ v \in Int /\ x = y + u /\ x = y + v
      BY <1>1, <2>2, <2>3
    <3> HIDE DEF u, v
    <3>2. z = u /\ z = v
      BY <3>1
    <3> QED BY <3>2 DEF u, v
  <2> HIDE DEF z
  <2>5. z % a = 0 /\ z % c = 0
    BY <1>1, <2>1, <2>4, Divides
  <2>6. PICK j \in Int : z = (a * c) * j
    BY <2>1, <2>5, ProductDivides
  <2> QED BY <2>1, <2>6 DEF Cong
<1>3. ASSUME Cong(x, y, a * c) PROVE Cong(x, y, a) /\ Cong(x, y, c)
  <2>1. PICK k \in Int : x = y + (a * c) * k
    BY <1>3 DEF Cong
  <2>2. c * k \in Int /\ a * k \in Int /\ (a * c) * k = a * (c * k) /\ (a * c) * k = c * (a * k)
    BY <1>1
  <2>3. x = y + a * (c * k) /\ x = y + c * (a * k)
    BY <2>1, <2>2
  <2> QED BY <2>2, <2>3 DEF Cong
<1> QED BY <1>2, <1>3

\* An exponent that is 1 modulo f - 1 changes nothing modulo f.
LEMMA PowerBack ==
  ASSUME NEW f, Prime(f), f > 2, NEW t \in Nat, t % (f - 1) = 1 % (f - 1), NEW z \in Int
  PROVE  t # 0 /\ Cong(Power(z)[t], z, f)
<1> DEFINE P == Power(z)
           d == f - 1
           q == t \div d
<1>1. f \in Nat \ {0} /\ f > 2 /\ d \in Nat \ {0} /\ d > 1 /\ f \in Int /\ d \in Nat
  BY DEF Prime
<1>2. t % d = 1
  <2>1. 1 \in 0 .. (d - 1)
    BY <1>1
  <2> HIDE DEF d
  <2>2. 1 % d = 1
    BY <1>1, <2>1, SmallMod
  <2> QED BY <2>2 DEF d
<1>3. q \in Nat /\ t = d * q + 1 /\ t # 0
  <2> HIDE DEF d
  <2>1. q \in Int /\ t = d * q + 1
    BY <1>1, <1>2, Divided
  <2>2. q \in Nat
    BY <1>1
  <2>3. t # 0
    <3>1. 0 % d = 0
      BY <1>1
    <3> QED BY <1>2, <3>1
  <2> QED BY <2>1, <2>2, <2>3
<1> HIDE DEF q, d
<1>4. P \in [Nat -> Int] /\ P[1] = z
  BY Powers
<1>5. CASE z % f = 0
  <2>1. t - 1 \in Nat /\ (t - 1) + 1 = t
    BY <1>3
  <2>2. P[(t - 1) + 1] = z * P[t - 1]
    BY <2>1, Powers
  <2>3. P[t - 1] \in Int
    BY <1>4, <2>1
  <2> HIDE DEF P
  <2>4. PICK k \in Int : z = f * k
    BY <1>1, <1>5, Divides
  <2> DEFINE w == P[t - 1]
  <2>5. P[t] = z * w /\ w \in Int
    BY <2>1, <2>2, <2>3
  <2> HIDE DEF w
  <2>6. z * w = z + f * (k * w - k)
    <3>1. f * (k * w - k) = (f * k) * w - f * k
      BY <1>1, <2>5
    <3>2. f * (k * w - k) = z * w - z /\ z * w \in Int
      BY <2>4, <2>5, <3>1
    <3> DEFINE a == f * (k * w - k)
               c == z * w
    <3>3. a = c - z /\ c \in Int
      BY <3>2
    <3> HIDE DEF a, c
    <3>4. c = z + a
      BY <3>3
    <3> QED BY <3>4 DEF a, c
  <2>7. k * w - k \in Int
    BY <2>5
  <2> QED BY <1>3, <2>5, <2>6, <2>7 DEF Cong, P
<1>6. CASE z % f # 0
  <2>1. Cong(P[d], 1, f)
    BY <1>6, Fermat DEF d
  <2>2. Cong(t, 1, d)
    <3>1. t = 1 + d * q
      BY <1>1, <1>3
    <3>2. q \in Int
      BY <1>3
    <3> QED BY <3>1, <3>2 DEF Cong
  <2>3. 1 \in Nat
    OBVIOUS
  <2>4. Cong(P[t], P[1], f)
    BY <1>1, <2>1, <2>2, <2>3, PowerPeriod
  <2> QED BY <1>3, <1>4, <2>4
<1> QED BY <1>5, <1>6

-----------------------------------------------------------------------------
(* RSAKey: the arithmetic of its operations.                               *)

\* A complete private key, and one whose private exponent undoes the public
\* one.
Full(k) ==
  /\ k.p \in Primes /\ k.q \in Primes /\ k.p # k.q /\ k.n = k.p * k.q
  /\ k.e \in Nat \ {0} /\ k.d \in Nat \ {0} /\ k.u \in {0, Invert(k.p, k.q)}

FitsKey(k) == \A f \in {k.p, k.q} : (k.e * k.d) % (f - 1) = 1 % (f - 1)

\* What is known of the numbers of such a key.
LEMMA FullKey ==
  ASSUME NEW k, Full(k)
  PROVE  /\ k.p \in Nat \ {0} /\ k.p > 2 /\ Prime(k.p)
         /\ k.q \in Nat \ {0} /\ k.q > 2 /\ Prime(k.q) /\ k.p # k.q
         /\ k.n = k.p * k.q /\ k.n \in Nat \ {0} /\ k.n > 2
         /\ k.e \in Nat \ {0} /\ k.d \in Nat \ {0}
<1>1. /\ k.p \in Nat /\ k.p > 2 /\ IsPrime(k.p)
      /\ k.q \in Nat /\ k.q > 2 /\ IsPrime(k.q) /\ k.p # k.q
      /\ k.n = k.p * k.q /\ k.e \in Nat \ {0} /\ k.d \in Nat \ {0}
  BY KeysAssumption DEF Full
<1>2. Prime(k.p) /\ Prime(k.q)
  BY <1>1, PrimeMeaning
<1>3. \A a, c \in Nat : a > 2 /\ c > 2 => a * c \in Nat /\ a * c > 2
  <2>1. ASSUME NEW a \in Nat, NEW c \in Nat, a > 2, c > 2 PROVE a * c \in Nat /\ a * c > 2
    <3>1. a * c >= a * 1
      BY <2>1
    <3> QED BY <2>1, <3>1
  <2> QED BY <2>1
<1>4. k.n \in Nat /\ k.n > 2
  BY <1>1, <1>3
<1> QED BY <1>1, <1>2, <1>4

\* d after e, or e after d, gives back every number, those a factor of n
\* divides included.
LEMMA PowersReturn ==
  ASSUME NEW k, Full(k), FitsKey(k), NEW z \in Int
  PROVE  /\ Cong(Power(z)[k.e * k.d], z, k.n)
         /\ Cong(Power(Power(z)[k.e])[k.d], z, k.n)
         /\ Cong(Power(Power(z)[k.d])[k.e], z, k.n)
<1> DEFINE t == k.e * k.d
<1>1. /\ k.p > 2 /\ Prime(k.p) /\ k.q > 2 /\ Prime(k.q) /\ k.p # k.q /\ k.n = k.p * k.q
      /\ k.e \in Nat /\ k.d \in Nat
  BY FullKey
<1>2. t \in Nat /\ t % (k.p - 1) = 1 % (k.p - 1) /\ t % (k.q - 1) = 1 % (k.q - 1)
  BY <1>1 DEF FitsKey
<1>3. k.d * k.e = t
  BY <1>1
<1> HIDE DEF t
<1>4. Cong(Power(z)[t], z, k.p) /\ Cong(Power(z)[t], z, k.q)
  BY <1>1, <1>2, PowerBack
<1>5. Power(z)[t] \in Int
  BY <1>2, Powers
<1>6. Cong(Power(z)[t], z, k.n)
  BY <1>1, <1>4, <1>5, CongProduct
<1>7. Power(Power(z)[k.e])[k.d] = Power(z)[t] /\ Power(Power(z)[k.d])[k.e] = Power(z)[t]
  <2>1. Power(Power(z)[k.e])[k.d] = Power(z)[k.e * k.d]
    BY <1>1, PowerPower
  <2>2. Power(Power(z)[k.d])[k.e] = Power(z)[k.d * k.e]
    BY <1>1, PowerPower
  <2> QED BY <1>3, <2>1, <2>2 DEF t
<1> QED BY <1>6, <1>7 DEF t

\* Modulo one of the primes, the exponent of the fast way is as good as d.
LEMMA ShortExponent ==
  ASSUME NEW f, Prime(f), f > 2, NEW e \in Nat, NEW d \in Nat, NEW v \in Int,
         (e * d) % (f - 1) = 1 % (f - 1)
  PROVE  /\ Powm(v, d % (f - 1), f) \in 0 .. (f - 1)
         /\ Cong(Powm(v, d % (f - 1), f), Power(v)[d], f)
<1> DEFINE P == Power(v)
           g == f - 1
           s == d % g
           t == e * d
<1>1. f \in Nat \ {0} /\ g \in Nat \ {0} /\ g > 1 /\ f \in Int
  BY DEF Prime
<1>2. P \in [Nat -> Int]
  BY Powers
<1>3. s \in Nat /\ Cong(s, d, g)
  <2>1. d \in Int
    OBVIOUS
  <2> HIDE DEF g
  <2>2. Cong(d % g, d, g) /\ d % g \in 0 .. (g - 1)
    BY <1>1, <2>1, CongMod
  <2> QED BY <1>1, <2>2
<1>4. s # 0 /\ d # 0
  <2>1. ASSUME d % g = 0 PROVE FALSE
    <3> HIDE DEF g
    <3>7. d \in Int
      OBVIOUS
    <3>1. PICK k \in Int : d = g * k
      BY <1>1, <2>1, <3>7, Divides
    <3>2. e * d = g * (e * k) /\ e * k \in Int /\ e * d \in Int
      BY <1>1, <3>1
    <3> DEFINE w == e * d
    <3>3. w \in Int /\ \E j \in Int : w = g * j
      BY <3>2
    <3> HIDE DEF w
    <3>4. w % g = 0
      BY <1>1, <3>3, Divides
    <3>5. 1 \in 0 .. (g - 1)
      BY <1>1
    <3>6. 1 % g = 1
      BY <1>1, <3>5, SmallMod
    <3> QED BY <3>4, <3>6 DEF w, g
  <2>2. 0 % g = 0
    BY <1>1
  <2> QED BY <2>1, <2>2
<1> HIDE DEF s, g
<1>5. Cong(P[s], P[d], f)
  <2>1. CASE v % f # 0
    <3>1. Cong(P[g], 1, f)
      BY <2>1, Fermat DEF g
    <3> QED BY <1>1, <1>3, <3>1, PowerPeriod
  <2>2. CASE v % f = 0
    <3>1. ASSUME NEW k \in Nat, k # 0 PROVE Cong(P[k], 0, f)
      <4>1. k - 1 \in Nat /\ (k - 1) + 1 = k
        BY <3>1
      <4>2. P[k] = v * P[k - 1]
        <5>1. P[(k - 1) + 1] = v * P[k - 1]
          BY <4>1, Powers
        <5> QED BY <4>1, <5>1
      <4> DEFINE w == P[k - 1]
      <4>3. w \in Int /\ P[k] = v * w
        BY <1>2, <4>1, <4>2
      <4>4. PICK j \in Int : v = f * j
        BY <1>1, <2>2, Divides
      <4> HIDE DEF w, P
      <4>5. v * w = 0 + f * (j * w) /\ j * w \in Int
        BY <1>1, <4>3, <4>4
      <4> QED BY <4>3, <4>5 DEF Cong
    <3>2. Cong(P[s], 0, f) /\ Cong(P[d], 0, f)
      BY <1>3, <1>4, <3>1
    <3>3. P[s] \in Int /\ P[d] \in Int /\ 0 \in Int
      BY <1>2, <1>3
    <3> HIDE DEF P
    <3>4. Cong(0, P[d], f)
      BY <1>1, <3>2, <3>3, CongSym
    <3> QED BY <1>1, <3>2, <3>3, <3>4, CongTrans
  <2> QED BY <2>1, <2>2
<1>6. Powm(v, s, f) = P[s] % f
  BY <1>1, <1>3, PowmIsPower
<1> DEFINE a == P[s]
           c == P[d]
<1>7. a \in Int /\ c \in Int /\ Cong(a, c, f) /\ Powm(v, s, f) = a % f
  BY <1>2, <1>3, <1>5, <1>6
<1> HIDE DEF a, c
<1>8. a % f \in 0 .. (f - 1) /\ Cong(a % f, a, f) /\ a % f \in Int
  BY <1>1, <1>7, CongMod
<1>9. Cong(a % f, c, f)
  BY <1>1, <1>7, <1>8, CongTrans
<1>10. Powm(v, s, f) \in 0 .. (f - 1) /\ Cong(Powm(v, s, f), c, f)
  BY <1>7, <1>8, <1>9
<1> QED BY <1>10 DEF c, s, g

\* Garner's formula puts two remainders together.
Together(m1, m2, p, q, u) ==
  LET diff == IF m2 - m1 < 0 THEN (m2 - m1) + q ELSE m2 - m1
      h == (u * diff) % q
  IN m1 + (h * p)

\* The number put together is the one below the product with both remainders.
LEMMA Garner ==
  ASSUME NEW p, Prime(p), NEW q, Prime(q), p # q, NEW x \in Int, NEW u \in Int, Cong(p * u, 1, q),
         NEW m1 \in 0 .. (p - 1), NEW m2 \in 0 .. (q - 1), Cong(m1, x, p), Cong(m2, x, q)
  PROVE  Together(m1, m2, p, q, u) = x % (p * q)
<1> DEFINE diff == IF m2 - m1 < 0 THEN (m2 - m1) + q ELSE m2 - m1
           h == (u * diff) % q
           y == m1 + (h * p)
<1>12. Together(m1, m2, p, q, u) = y
  BY DEF Together
<1>1. p \in Nat \ {0} /\ q \in Nat \ {0} /\ p \in Int /\ q \in Int /\ m1 \in Int /\ m2 \in Int
  BY DEF Prime
<1>2. diff \in Int /\ Cong(diff, m2 - m1, q)
  <2>1. diff = (m2 - m1) + q * 1 \/ diff = (m2 - m1) + q * 0
    BY <1>1
  <2> HIDE DEF diff
  <2>2. 1 \in Int /\ 0 \in Int
    OBVIOUS
  <2>3. Cong(diff, m2 - m1, q)
    BY <2>1, <2>2 DEF Cong
  <2> QED BY <1>1, <2>1, <2>3
<1> HIDE DEF diff
<1>3. h \in 0 .. (q - 1) /\ h \in Int /\ Cong(h, u * diff, q)
  <2> DEFINE w == u * diff
  <2>1. w \in Int /\ h = w % q
    BY <1>2
  <2> HIDE DEF w
  <2>2. w % q \in 0 .. (q - 1) /\ Cong(w % q, w, q) /\ w % q \in Int
    BY <1>1, <2>1, CongMod
  <2> QED BY <2>1, <2>2 DEF w
<1> HIDE DEF h
<1>4. y \in Int /\ h * p \in Int
  BY <1>1, <1>3
<1>5. Cong(y, x, p)
  <2>1. y = m1 + p * h
    BY <1>1, <1>3
  <2>2. Cong(y, m1, p)
    BY <1>3, <2>1 DEF Cong
  <2> HIDE DEF y
  <2> QED BY <1>1, <1>4, <2>2, CongTrans
<1>6. Cong(h * p, m2 - m1, q)
  <2> DEFINE a == h * p
             b == (u * diff) * p
             c == (p * u) * diff
             g == m2 - m1
  <2>1. a \in Int /\ b \in Int /\ c \in Int /\ g \in Int /\ p * u \in Int /\ u * diff \in Int
    BY <1>1, <1>2, <1>3
  <2>2. b = c /\ 1 * diff = diff /\ 1 \in Int
    BY <1>1, <1>2
  <2>3. Cong(p, p, q) /\ Cong(diff, diff, q)
    BY <1>1, <1>2, CongSelf
  <2>4. Cong(a, b, q)
    BY <1>1, <1>3, <2>1, <2>3, CongMul
  <2>5. Cong(c, 1 * diff, q)
    BY <1>1, <1>2, <2>1, <2>2, <2>3, CongMul
  <2>6. Cong(diff, g, q)
    BY <1>2
  <2>7. Cong(a, b, q) /\ Cong(b, diff, q)
    BY <2>2, <2>4, <2>5
  <2> HIDE DEF a, b, c, g
  <2>8. Cong(a, diff, q)
    BY <1>1, <1>2, <2>1, <2>7, CongTrans
  <2>9. Cong(a, g, q)
    BY <1>1, <1>2, <2>1, <2>6, <2>8, CongTrans
  <2> QED BY <2>9 DEF a, g
<1>7. Cong(y, x, q)
  <2>1. Cong(m1, m1, q) /\ m2 - m1 \in Int
    BY <1>1, CongSelf
  <2>2. Cong(m1 + (h * p), m1 + (m2 - m1), q)
    BY <1>1, <1>4, <1>6, <2>1, CongAdd
  <2>3. m1 + (m2 - m1) = m2
    BY <1>1
  <2>4. Cong(y, m2, q)
    BY <2>2, <2>3
  <2> HIDE DEF y
  <2> QED BY <1>1, <1>4, <2>4, CongTrans
<1>8. y \in 0 .. (p * q - 1) /\ p * q \in Nat \ {0}
  <2>1. h * p >= 0 /\ (q - 1) * p - h * p = ((q - 1) - h) * p /\ ((q - 1) - h) * p >= 0
    <3>1. \A i, j \in Nat : i * j >= 0
      OBVIOUS
    <3>2. h \in Nat /\ (q - 1) - h \in Nat /\ p \in Nat /\ q - 1 \in Int
      BY <1>1, <1>3
    <3>3. h * p >= 0 /\ ((q - 1) - h) * p >= 0
      BY <3>1, <3>2
    <3>4. (q - 1) * p - h * p = ((q - 1) - h) * p
      BY <1>1, <1>3
    <3> QED BY <3>3, <3>4
  <2>2. (q - 1) * p = p * q - p
    BY <1>1
  <2> DEFINE a == h * p
             b == p * q
  <2>3. a \in Int /\ b \in Int /\ a >= 0 /\ (b - p) - a >= 0
    <3>1. a \in Int /\ b \in Int
      BY <1>1, <1>3
    <3>2. (q - 1) * p - h * p >= 0
      BY <2>1
    <3> QED BY <2>1, <2>2, <3>1, <3>2
  <2> HIDE DEF a, b
  <2>4. m1 + a \in 0 .. (b - 1) /\ b \in Nat \ {0}
    BY <1>1, <2>3
  <2> QED BY <2>4 DEF a, b
<1>9. Cong(y, x, p * q)
  <2> HIDE DEF y
  <2> QED BY <1>4, <1>5, <1>7, CongProduct
<1> DEFINE n == p * q
<1>10. n \in Nat \ {0} /\ y \in 0 .. (n - 1) /\ Cong(y, x, n)
  BY <1>8, <1>9
<1> HIDE DEF y, n
<1>11. y % n = x % n /\ y % n = y
  BY <1>4, <1>10, CongSame, SmallMod
<1> QED BY <1>11, <1>12 DEF n

\* Either way rsaDecrypt raises to the power d.
LEMMA DecryptIsPower ==
  ASSUME Full(keyobj), Fits, NEW v \in Int, v < keyobj.n
  PROVE  rsaDecrypt(v) = Power(v)[keyobj.d] % keyobj.n
<1> DEFINE p == keyobj.p
           q == keyobj.q
           d == keyobj.d
           n == keyobj.n
           e == keyobj.e
           x == Power(v)[d]
<1>1. /\ p \in Nat \ {0} /\ p > 2 /\ Prime(p) /\ q \in Nat \ {0} /\ q > 2 /\ Prime(q) /\ p # q
      /\ n = p * q /\ n \in Nat \ {0} /\ e \in Nat \ {0} /\ d \in Nat \ {0}
  BY FullKey
<1>2. (e * d) % (p - 1) = 1 % (p - 1) /\ (e * d) % (q - 1) = 1 % (q - 1)
  BY DEF Fits
<1>3. x \in Int
  BY <1>1, Powers
<1>4. CASE keyobj.u # 0
  <2> DEFINE u == keyobj.u
             m1 == Powm(v, d % (p - 1), p)
             m2 == Powm(v, d % (q - 1), q)
             diff == IF m2 - m1 < 0 THEN (m2 - m1) + q ELSE m2 - m1
             h == (u * diff) % q
  <2>1. rsaDecrypt(v) = m1 + (h * p)
    <3>1. rsaDecrypt(v) = Fast(v)
      BY <1>1, <1>4 DEF rsaDecrypt
    <3> QED BY <3>1 DEF Fast
  <2>2. u \in Int /\ Cong(p * u, 1, q)
    <3>1. u = Invert(p, q) /\ Invert(p, q) # 0
      BY <1>4 DEF Full
    <3>2. \E w \in 1 .. (q - 1) : (p * w) % q = 1
      BY <3>1 DEF Invert
    <3>3. p \in Int /\ q \in Int
      BY <1>1
    <3>4. u \in 1 .. (q - 1) /\ (p * u) % q = 1
      <4>1. Invert(p, q) \in 1 .. (q - 1) /\ (p * Invert(p, q)) % q = 1
        BY <3>2, <3>3, InvertThere, Zenon
      <4> QED BY <3>1, <4>1
    <3> HIDE DEF u
    <3> DEFINE a == p * u
    <3>5. u \in Int /\ a \in Int /\ a % q = 1
      BY <3>3, <3>4
    <3> HIDE DEF a
    <3>6. Cong(a, a % q, q)
      BY <1>1, <3>5, CongMod
    <3> QED BY <3>5, <3>6 DEF a
  <2>3. m1 \in 0 .. (p - 1) /\ Cong(m1, x, p)
    <3> HIDE DEF p, d, e
    <3> QED BY <1>1, <1>2, ShortExponent
  <2>4. m2 \in 0 .. (q - 1) /\ Cong(m2, x, q)
    <3> HIDE DEF q, d, e
    <3> QED BY <1>1, <1>2, ShortExponent
  <2>5. m1 + (h * p) = x % (p * q)
    <3>1. m1 + (h * p) = Together(m1, m2, p, q, u)
      BY DEF Together
    <3>2. Prime(p) /\ Prime(q) /\ p # q
      BY <1>1
    <3> HIDE DEF m1, m2, x, p, q, u, h
    <3>3. Together(m1, m2, p, q, u) = x % (p * q)
      BY <1>3, <2>2, <2>3, <2>4, <3>2, Garner
    <3> QED BY <3>1, <3>3
  <2> QED BY <1>1, <2>1, <2>5
<1>5. CASE keyobj.u = 0
  <2>1. rsaDecrypt(v) = Powm(v, d, n)
    BY <1>1, <1>5 DEF rsaDecrypt
  <2>2. d \in Nat
    BY <1>1
  <2> HIDE DEF n, d
  <2>3. Powm(v, d, n) = x % n
    BY <1>1, <2>2, PowmIsPower
  <2> QED BY <2>1, <2>3 DEF n, d
<1> QED BY <1>4, <1>5

\* The public operation of a complete key.
LEMMA EncryptIsPower ==
  ASSUME Full(keyobj), NEW v \in Int, v < keyobj.n
  PROVE  rsaEncrypt(v) = Power(v)[keyobj.e] % keyobj.n
<1>1. keyobj.n \in Nat \ {0} /\ keyobj.e \in Nat
  BY FullKey
<1>2. rsaEncrypt(v) = Powm(v, keyobj.e, keyobj.n)
  BY <1>1 DEF rsaEncrypt
<1> QED BY <1>1, <1>2, PowmIsPower

\* Raising to e and to d, reduced, are inverses of each other.
LEMMA RootAndPower ==
  ASSUME NEW k, Full(k), FitsKey(k), NEW v \in 0 .. (k.n - 1), NEW s \in 0 .. (k.n - 1)
  PROVE  (v = Power(s)[k.e] % k.n) <=> (s = Power(v)[k.d] % k.n)
<1> DEFINE n == k.n
           e == k.e
           d == k.d
<1>1. n \in Nat \ {0} /\ e \in Nat /\ d \in Nat /\ n \in Int
  BY FullKey
<1>2. v \in Int /\ s \in Int
  BY <1>1
<1>3. Power(s)[e] \in Int /\ Power(v)[d] \in Int
  BY <1>1, <1>2, Powers
<1>4. ASSUME NEW x \in 0 .. (n - 1), NEW y \in 0 .. (n - 1), NEW i \in Nat, NEW j \in Nat,
             x = Power(y)[i] % n, Cong(Power(Power(y)[i])[j], y, n)
      PROVE  y = Power(x)[j] % n
  <2> DEFINE u == Power(y)[i]
             w == Power(x)[j]
             t == Power(u)[j]
  <2>1. x \in Int /\ y \in Int
    BY <1>1
  <2>2. u \in Int
    BY <2>1, Powers
  <2>3. w \in Int /\ t \in Int
    BY <2>1, <2>2, Powers
  <2>4. Cong(x, u, n)
    <3> HIDE DEF u
    <3>1. Cong(u % n, u, n)
      BY <1>1, <2>2, CongMod
    <3> QED BY <1>4, <3>1 DEF u
  <2>5. Cong(w, t, n)
    <3> HIDE DEF u, n
    <3> QED BY <1>1, <2>1, <2>2, <2>4, PowerCong
  <2>6. Cong(t, y, n)
    BY <1>4
  <2> HIDE DEF u, w, t, n
  <2>7. Cong(w, y, n)
    BY <1>1, <2>1, <2>3, <2>5, <2>6, CongTrans
  <2>8. w % n = y % n /\ y % n = y
    <3>1. w % n = y % n
      BY <1>1, <2>1, <2>3, <2>7, CongSame
    <3>2. y % n = y
      BY <1>1, SmallMod
    <3> QED BY <3>1, <3>2
  <2> QED BY <2>8 DEF w
<1>5. Cong(Power(Power(s)[e])[d], s, n) /\ Cong(Power(Power(v)[d])[e], v, n)
  BY <1>2, PowersReturn
<1>6. v \in 0 .. (n - 1) /\ s \in 0 .. (n - 1)
  OBVIOUS
<1> HIDE DEF n, e, d
<1>7. v = Power(s)[e] % n => s = Power(v)[d] % n
  BY <1>1, <1>4, <1>5, <1>6
<1>8. s = Power(v)[d] % n => v = Power(s)[e] % n
  BY <1>1, <1>4, <1>5, <1>6
<1> QED BY <1>7, <1>8 DEF n, e, d

\* Of all signatures of a number exactly one verifies.
LEMMA OneSignature ==
  ASSUME Full(keyobj), Fits, num \in Nat
  PROVE  VerifiesOneSignature
<1> DEFINE n == keyobj.n
           e == keyobj.e
           d == keyobj.d
<1> SUFFICES ASSUME num < n, NEW s \in 0 .. (n + 1)
             PROVE  rsaVerify(num, s) = (s = Powm(num, d, n))
  BY DEF VerifiesOneSignature
<1>1. n \in Nat \ {0} /\ d \in Nat /\ n \in Int
  BY FullKey
<1>2. Powm(num, d, n) = Power(num)[d] % n /\ Power(num)[d] % n \in 0 .. (n - 1)
  <2>5. num \in Int
    OBVIOUS
  <2>6. Power(num) \in [Nat -> Int]
    BY <2>5, Powers
  <2>1. num \in Int /\ Power(num)[d] \in Int
    BY <1>1, <2>5, <2>6
  <2> DEFINE a == Power(num)[d]
  <2>2. a \in Int
    BY <2>1
  <2>3. Powm(num, d, n) = a % n
    BY <1>1, <2>1, PowmIsPower
  <2> HIDE DEF a
  <2>4. a % n \in 0 .. (n - 1)
    BY <1>1, <2>2, CongMod
  <2> QED BY <2>3, <2>4 DEF a
<1>3. CASE s >= n
  <2>1. rsaEncrypt(s) = Error
    BY <1>3 DEF rsaEncrypt
  <2>2. rsaVerify(num, s) = (num = s)
    BY <2>1 DEF rsaVerify
  <2>3. num # s /\ s # Powm(num, d, n)
    BY <1>1, <1>2, <1>3
  <2> QED BY <2>2, <2>3
<1>4. CASE s < n
  <2>1. s \in Int /\ s \in 0 .. (n - 1) /\ num \in 0 .. (n - 1)
    BY <1>1, <1>4
  <2>2. rsaEncrypt(s) = Power(s)[e] % n
    BY <1>4, <2>1, EncryptIsPower
  <2>3. rsaEncrypt(s) # Error
    <3> DEFINE a == Power(s)[e]
    <3>1. e \in Nat
      BY FullKey
    <3>2. a \in Int
      BY <2>1, <3>1, Powers
    <3> HIDE DEF a
    <3>3. a % n \in 0 .. (n - 1)
      BY <1>1, <3>2, CongMod
    <3> QED BY <1>1, <2>2, <3>3 DEF Error, a
  <2>4. rsaVerify(num, s) = (num = Power(s)[e] % n)
    BY <2>2, <2>3 DEF rsaVerify
  <2>5. FitsKey(keyobj)
    BY DEF Fits, FitsKey
  <2>6. (num = Power(s)[e] % n) <=> (s = Power(num)[d] % n)
    BY <2>1, <2>5, RootAndPower
  <2> QED BY <1>2, <2>4, <2>6
<1> QED BY <1>1, <1>3, <1>4

-----------------------------------------------------------------------------
(* Numbers on their way through Python.                                    *)

\* The powers of two grow.
LEMMA TwoPowers ==
  ASSUME NEW k \in Nat
  PROVE  /\ Power(2)[k] \in Nat \ {0} /\ k < Power(2)[k]
         /\ \A j \in Nat : Power(2)[k] <= Power(2)[k + j]
<1> DEFINE P == Power(2)
           S == {i \in Nat : P[i] \in Nat /\ i < P[i]}
           U == {j \in Nat : P[k] <= P[k + j]}
<1>1. P \in [Nat -> Int] /\ P[0] = 1 /\ \A i \in Nat : P[i + 1] = 2 * P[i]
  <2>1. 2 \in Int
    OBVIOUS
  <2> QED BY <2>1, Powers
<1> HIDE DEF P
<1>2. 0 \in S
  BY <1>1
<1>3. ASSUME NEW i \in Nat, i \in S PROVE i + 1 \in S
  <2>1. P[i] \in Nat /\ i < P[i] /\ P[i + 1] = 2 * P[i]
    BY <1>1, <1>3
  <2> QED BY <2>1
<1> HIDE DEF S
<1>4. Nat \subseteq S
  BY <1>2, <1>3, Induction
<1>5. \A i \in Nat : P[i] \in Nat /\ i < P[i]
  BY <1>4 DEF S
<1>6. 0 \in U
  <2>1. k + 0 = k /\ P[k] \in Nat
    BY <1>5
  <2> QED BY <2>1
<1>7. ASSUME NEW j \in Nat, j \in U PROVE j + 1 \in U
  <2>1. k + j \in Nat /\ k + (j + 1) = (k + j) + 1
    OBVIOUS
  <2>2. P[k] <= P[k + j] /\ P[k] \in Nat /\ P[k + j] \in Nat /\ P[(k + j) + 1] = 2 * P[k + j]
    BY <1>1, <1>5, <1>7, <2>1
  <2> QED BY <2>1, <2>2
<1> HIDE DEF U
<1>8. Nat \subseteq U
  BY <1>6, <1>7, Induction
<1>9. P[k] \in Nat \ {0} /\ k < P[k]
  BY <1>5
<1> QED BY <1>8, <1>9 DEF U, P

\* mpz_sizeinbase says how many bits a number has at the most.
LEMMA SizeThere ==
  ASSUME NEW n \in Nat
  PROVE  SizeInBase2(n) \in 1 .. (n + 1) /\ n < Power(2)[SizeInBase2(n)]
<1> DEFINE P == Power(2)
           S == {b \in Nat : b >= 1 /\ n < P[b]}
           Is(b) == n < P[b] /\ (b > 1 => n >= P[b - 1])
<1>1. \A b \in Nat : P[b] \in Nat /\ b < P[b]
  BY TwoPowers
<1> HIDE DEF P
<1>2. n + 1 \in S
  <2>1. n + 1 \in Nat
    OBVIOUS
  <2>2. P[n + 1] \in Nat /\ n + 1 < P[n + 1]
    BY <1>1, <2>1
  <2> QED BY <2>1, <2>2
<1>3. PICK b \in Nat : b \in S /\ b <= n + 1 /\ \A j \in 0 .. (b - 1) : j \notin S
  <2>1. n + 1 \in Nat
    OBVIOUS
  <2> HIDE DEF S
  <2> QED BY <1>2, <2>1, Least
<1>4. b \in 1 .. (n + 1) /\ Is(b)
  <2>1. b >= 1 /\ n < P[b]
    BY <1>3
  <2>2. ASSUME b > 1 PROVE n >= P[b - 1]
    <3>1. b - 1 \in Nat /\ b - 1 \in 0 .. (b - 1) /\ b - 1 >= 1
      BY <2>2
    <3>2. P[b - 1] \in Nat
      BY <1>1, <3>1
    <3> QED BY <1>3, <3>1, <3>2
  <2> QED BY <1>3, <2>1, <2>2
<1>5. SizeInBase2(n) = CHOOSE c \in 1 .. (n + 1) : Is(c)
  BY DEF SizeInBase2, P
<1>6. SizeInBase2(n) \in 1 .. (n + 1) /\ Is(SizeInBase2(n))
  <2> HIDE DEF Is
  <2> QED BY <1>4, <1>5
<1> QED BY <1>6 DEF P

\* mpz_scan1 finds a bit of a number other than 0, and none below it.
LEMMA Scan1There ==
  ASSUME NEW n \in Nat \ {0}
  PROVE  /\ Scan1(n) \in 0 .. n /\ n % Power(2)[Scan1(n)] = 0
         /\ (n \div Power(2)[Scan1(n)]) % 2 = 1
<1> DEFINE P == Power(2)
           Is(m, b) == m % P[b] = 0 /\ (m \div P[b]) % 2 = 1
           S == {m \in Nat : m # 0 => \E b \in 0 .. m : Is(m, b)}
<1>1. P[0] = 1 /\ \A b \in Nat : P[b + 1] = 2 * P[b] /\ P[b] \in Nat \ {0}
  <2>1. 2 \in Int
    OBVIOUS
  <2> QED BY <2>1, Powers, TwoPowers
<1> HIDE DEF P
<1>2. ASSUME NEW m \in Nat, \A j \in 0 .. (m - 1) : j \in S PROVE m \in S
  <2> SUFFICES ASSUME m # 0 PROVE \E b \in 0 .. m : Is(m, b)
    OBVIOUS
  <2>1. CASE m % 2 = 1
    <3>1. m % 1 = 0 /\ m \div 1 = m
      OBVIOUS
    <3>2. Is(m, 0) /\ 0 \in 0 .. m
      BY <1>1, <2>1, <3>1
    <3> QED BY <3>2
  <2>2. CASE m % 2 # 1
    <3> DEFINE h == m \div 2
    <3>1. h \in 0 .. (m - 1) /\ h # 0 /\ m = 2 * h /\ h \in Nat
      BY <2>2
    <3> HIDE DEF h
    <3>2. h \in S
      BY <1>2, <3>1
    <3>3. PICK b \in 0 .. h : Is(h, b)
      BY <3>1, <3>2
    <3> DEFINE q == h \div P[b]
    <3>4. b \in Nat /\ P[b] \in Nat \ {0} /\ P[b + 1] = 2 * P[b]
      BY <1>1, <3>1
    <3>5. q \in Int /\ h = P[b] * q + 0 /\ q % 2 = 1
      <4>1. h = P[b] * (h \div P[b]) + (h % P[b]) /\ h \div P[b] \in Int
        <5> DEFINE a == P[b]
        <5>1. a \in Nat \ {0} /\ h \in Int
          BY <3>1, <3>4
        <5> HIDE DEF a
        <5>2. h = a * (h \div a) + (h % a) /\ h \div a \in Int
          BY <5>1, Divided
        <5> QED BY <5>2 DEF a
      <4> QED BY <3>3, <4>1
    <3> HIDE DEF q
    <3>6. m = P[b + 1] * q + 0
      <4>1. 2 * (P[b] * q) = (2 * P[b]) * q
        BY <3>4, <3>5
      <4>2. P[b] * q \in Int
        BY <3>4, <3>5
      <4> DEFINE w == P[b] * q
      <4>3. w \in Int /\ h = w
        BY <3>5, <4>2
      <4> HIDE DEF w
      <4>4. m = 2 * w + 0
        BY <3>1, <4>3
      <4> QED BY <3>4, <4>1, <4>4 DEF w
    <3>7. P[b + 1] \in Nat \ {0} /\ 0 \in 0 .. (P[b + 1] - 1)
      BY <3>4
    <3>8. m \div P[b + 1] = q /\ m % P[b + 1] = 0
      <4>1. (P[b + 1] * q + 0) \div P[b + 1] = q /\ (P[b + 1] * q + 0) % P[b + 1] = 0
        BY <3>5, <3>7, DivMod
      <4> QED BY <3>6, <4>1
    <3>9. Is(m, b + 1) /\ b + 1 \in 0 .. m
      BY <3>1, <3>5, <3>8
    <3> QED BY <3>9
  <2> QED BY <2>1, <2>2
<1> HIDE DEF S
<1>3. Nat \subseteq S
  BY <1>2, StrongInduction
<1>4. \E b \in 0 .. n : Is(n, b)
  BY <1>3 DEF S
<1>5. Scan1(n) = CHOOSE c \in 0 .. n : Is(n, c)
  BY DEF Scan1, P
<1>6. Scan1(n) \in 0 .. n /\ Is(n, Scan1(n))
  <2> HIDE DEF Is
  <2> QED BY <1>4, <1>5
<1> QED BY <1>6 DEF P

\* The remainder by a product, digit after digit.
LEMMA MixedMod ==
  ASSUME NEW v \in Nat, NEW a \in Nat \ {0}, NEW c \in Nat \ {0}
  PROVE  v % (a * c) = (v % a) + ((v \div a) % c) * a
<1> DEFINE q == v \div a
           r == v % a
<1>1. q \in Int /\ r \in 0 .. (a - 1) /\ v = a * q + r
  BY Divided
<1> HIDE DEF q, r
<1> DEFINE t == q \div c
           s == q % c
<1>2. t \in Int /\ s \in 0 .. (c - 1) /\ q = c * t + s
  BY <1>1, Divided
<1> HIDE DEF t, s
<1> DEFINE w == r + s * a
           n == a * c
<1>3. v = n * t + w
  <2>1. a * (c * t + s) = (a * c) * t + s * a
    BY <1>2
  <2>2. v = (a * (c * t + s)) + r
    BY <1>1, <1>2
  <2> DEFINE x == (a * c) * t
             y == s * a
  <2>3. x \in Int /\ y \in Int /\ v = (x + y) + r
    BY <1>2, <2>1, <2>2
  <2>4. v = x + (r + y)
    <3> HIDE DEF x, y
    <3> QED BY <1>1, <2>3
  <2> QED BY <2>4
<1>4. n \in Nat \ {0} /\ w \in 0 .. (n - 1)
  <2>1. s \in Nat /\ (c - 1) - s \in Nat /\ r \in Nat /\ r < a
    BY <1>1, <1>2
  <2>2. \A i, j \in Nat : i * j \in Nat
    OBVIOUS
  <2>3. s * a \in Nat /\ ((c - 1) - s) * a \in Nat
    BY <2>1, <2>2
  <2>4. ((c - 1) - s) * a = n - a - s * a /\ n \in Nat \ {0}
    BY <1>2
  <2> DEFINE y == s * a
  <2>5. y \in Nat /\ (n - a) - y \in Nat /\ n \in Nat \ {0}
    BY <2>3, <2>4
  <2> HIDE DEF y, n
  <2>6. r + y \in 0 .. (n - 1)
    BY <2>1, <2>5
  <2> QED BY <2>5, <2>6 DEF y
<1> HIDE DEF w, n
<1>5. (n * t + w) % n = w
  BY <1>2, <1>4, DivMod
<1> QED BY <1>3, <1>5 DEF w, n, s, q, r

\* mpzToLongObj and longObjToMPZ undo each other.
LEMMA LongRoundTrip ==
  ASSUME NEW v \in Nat
  PROVE  Returned(v) = v
<1> DEFINE P == Power(2)
           B == P[SHIFT]
           W(i) == P[SHIFT * i]
           size == (SizeInBase2(Abs(v)) + SHIFT - 1) \div SHIFT
           digit == [i \in 1 .. size |-> (Abs(v) \div P[SHIFT * (i - 1)]) % B]
           used == CHOOSE i \in 0 .. size :
                     (i > 0 => digit[i] # 0) /\ \A k \in (i + 1) .. size : digit[k] = 0
           long == mpzToLongObj(v)
<1>1. Abs(v) = v /\ SHIFT \in Nat \ {0}
  BY ShiftAssumption DEF Abs
<1>2. long = [size |-> used * Sgn(v), digit |-> SubSeq(digit, 1, used)]
  BY DEF mpzToLongObj
<1>3. \A i \in Nat : W(i) \in Nat \ {0} /\ SHIFT * i \in Nat
  BY <1>1, TwoPowers
<1>4. B \in Nat \ {0} /\ P[0] = 1
  <2>1. 2 \in Int
    OBVIOUS
  <2> QED BY <1>1, <2>1, Powers, TwoPowers
<1>5. W(0) = 1 /\ \A i \in Nat : W(i + 1) = W(i) * B
  <2>1. SHIFT * 0 = 0
    BY <1>1
  <2>2. ASSUME NEW i \in Nat PROVE W(i + 1) = W(i) * B
    <3>1. SHIFT * (i + 1) = SHIFT * i + SHIFT
      BY <1>1
    <3> DEFINE j == SHIFT * i
    <3>2. j \in Nat /\ SHIFT \in Nat /\ 2 \in Int
      BY <1>1, <1>3
    <3> HIDE DEF j
    <3>3. P[j + SHIFT] = P[j] * P[SHIFT]
      BY <3>2, PowerAdd
    <3> QED BY <3>1, <3>3 DEF j
  <2> QED BY <1>4, <2>1, <2>2
<1>6. size \in Nat /\ v < W(size)
  <2> DEFINE z == SizeInBase2(v)
  <2>1. z \in Nat \ {0} /\ v < P[z]
    BY SizeThere
  <2>2. size = (z + SHIFT - 1) \div SHIFT
    BY <1>1
  <2> HIDE DEF z, size
  <2>3. size \in Nat /\ SHIFT * size >= z
    BY <1>1, <2>1, <2>2
  <2> DEFINE j == SHIFT * size
  <2>4. j \in Nat /\ j - z \in Nat /\ z + (j - z) = j
    BY <1>3, <2>1, <2>3
  <2> HIDE DEF j
  <2>5. P[z] <= P[z + (j - z)]
    BY <2>1, <2>4, TwoPowers
  <2>6. P[z] \in Nat /\ P[j] \in Nat
    BY <2>1, <2>4, TwoPowers
  <2> QED BY <2>1, <2>3, <2>4, <2>5, <2>6 DEF j
<1>7. \A i \in 1 .. size : digit[i] = (v \div W(i - 1)) % B
  BY <1>1
<1>8. digit \in [1 .. size -> Nat]
  <2>1. ASSUME NEW i \in 1 .. size PROVE (Abs(v) \div P[SHIFT * (i - 1)]) % B \in Nat
    <3> DEFINE a == W(i - 1)
    <3>1. a \in Nat \ {0}
      <4>1. i - 1 \in Nat
        BY <1>6
      <4> QED BY <1>3, <4>1
    <3> HIDE DEF a, B
    <3>2. v \div a \in Int
      BY <3>1
    <3> DEFINE c == v \div a
    <3>3. c \in Int
      BY <3>2
    <3> HIDE DEF c
    <3>4. c % B \in Nat
      BY <1>4, <3>3
    <3> QED BY <1>1, <3>4 DEF a, c
  <2> HIDE DEF B, size
  <2> QED BY <2>1
<1> HIDE DEF P, B, W, size, digit
<1>9. \A i \in Nat : i < size => v % W(i + 1) = (v % W(i)) + digit[i + 1] * W(i)
  <2> SUFFICES ASSUME NEW i \in Nat, i < size
               PROVE  v % W(i + 1) = (v % W(i)) + digit[i + 1] * W(i)
    OBVIOUS
  <2>1. i + 1 \in 1 .. size /\ (i + 1) - 1 = i
    BY <1>6
  <2>2. digit[i + 1] = (v \div W(i)) % B
    <3>1. digit[i + 1] = (v \div W((i + 1) - 1)) % B
      BY <1>7, <2>1
    <3> QED BY <2>1, <3>1
  <2> DEFINE a == W(i)
  <2>3. a \in Nat \ {0} /\ W(i + 1) = a * B
    BY <1>3, <1>5
  <2> HIDE DEF a
  <2>4. v % (a * B) = (v % a) + ((v \div a) % B) * a
    BY <1>4, <2>3, MixedMod
  <2> QED BY <2>2, <2>3, <2>4 DEF a
<1>10. /\ used \in 0 .. size /\ (used > 0 => digit[used] # 0)
       /\ \A k \in (used + 1) .. size : digit[k] = 0
  <2> DEFINE Last0(i) == (i > 0 => digit[i] # 0) /\ \A k \in (i + 1) .. size : digit[k] = 0
             S == {i \in Nat : i <= size /\ \A k \in (i + 1) .. size : digit[k] = 0}
  <2>1. size \in S
    BY <1>6
  <2>2. PICK i \in Nat : i \in S /\ i <= size /\ \A j \in 0 .. (i - 1) : j \notin S
    <3> HIDE DEF S
    <3> QED BY <1>6, <2>1, Least
  <2>3. Last0(i) /\ i \in 0 .. size
    <3>1. ASSUME i > 0, digit[i] = 0 PROVE FALSE
      <4>1. i - 1 \in 0 .. (i - 1) /\ i - 1 \in Nat
        BY <3>1
      <4>2. i - 1 \in S
        <5>1. ASSUME NEW k \in ((i - 1) + 1) .. size PROVE digit[k] = 0
          <6>1. k = i \/ k \in (i + 1) .. size
            BY <1>6
          <6> QED BY <2>2, <3>1, <6>1
        <5>2. i - 1 <= size
          BY <1>6, <2>2
        <5> QED BY <4>1, <5>1, <5>2
      <4> HIDE DEF S
      <4> QED BY <2>2, <4>1, <4>2
    <3> QED BY <1>6, <2>2, <3>1
  <2>4. used \in 0 .. size /\ Last0(used)
    <3>1. used = CHOOSE u1 \in 0 .. size : Last0(u1)
      OBVIOUS
    <3> HIDE DEF Last0, used
    <3> QED BY <2>3, <3>1
  <2> HIDE DEF used
  <2> QED BY <2>4
<1> HIDE DEF used
<1>11. v % W(used) = v
  <2> DEFINE S == {i \in Nat : used + i <= size => v % W(used + i) = v % W(used)}
  <2>1. 0 \in S
    <3>1. used + 0 = used
      BY <1>6, <1>10
    <3> QED BY <3>1
  <2>2. ASSUME NEW i \in Nat, i \in S PROVE i + 1 \in S
    <3> SUFFICES ASSUME used + (i + 1) <= size PROVE v % W(used + (i + 1)) = v % W(used)
      OBVIOUS
    <3> DEFINE j == used + i
    <3>1. j \in Nat /\ j < size /\ used + (i + 1) = j + 1 /\ j + 1 \in (used + 1) .. size
      BY <1>6, <1>10
    <3>2. v % W(j) = v % W(used)
      <4>1. j <= size
        BY <1>6, <3>1
      <4> QED BY <2>2, <4>1
    <3> HIDE DEF j
    <3>3. digit[j + 1] = 0 /\ v % W(j + 1) = (v % W(j)) + digit[j + 1] * W(j)
      BY <1>9, <1>10, <3>1
    <3>4. v % W(j + 1) = v % W(j)
      <4> DEFINE a == W(j)
      <4>1. a \in Nat \ {0} /\ 0 * a = 0
        BY <1>3, <3>1
      <4> HIDE DEF a
      <4>2. v % a \in Int /\ (v % a) + 0 = v % a
        BY <4>1
      <4> QED BY <3>3, <4>1, <4>2 DEF a
    <3> QED BY <3>1, <3>2, <3>4
  <2> HIDE DEF S
  <2>3. Nat \subseteq S
    BY <2>1, <2>2, Induction
  <2>4. size - used \in Nat /\ used + (size - used) = size
    BY <1>6, <1>10
  <2>5. v % W(size) = v % W(used)
    <3>1. size - used \in S /\ used + (size - used) <= size
      BY <1>6, <2>3, <2>4
    <3>2. v % W(used + (size - used)) = v % W(used)
      BY <3>1 DEF S
    <3> QED BY <2>4, <3>2
  <2> DEFINE a == W(size)
  <2>6. a \in Nat \ {0} /\ v < a
    BY <1>3, <1>6
  <2> HIDE DEF a
  <2>7. v % a = v
    BY <2>6, SmallMod
  <2> QED BY <2>5, <2>7 DEF a
<1>12. CASE v = 0
  <2>1. long.size = 0
    BY <1>2, <1>6, <1>10, <1>12 DEF Sgn
  <2> DEFINE m0 == [i \in 0 .. 0 |-> 0]
             E(m) == [i \in 0 .. 0 |-> IF i = 0 THEN 0
                        ELSE m[i - 1] + (long.digit[i] * P[SHIFT * (i - 1)])]
             M == CHOOSE m : m = E(m)
  <2> HIDE DEF long
  <2>2. longObjToMPZ(long) = M[0] * (-1)
    BY <2>1 DEF longObjToMPZ, P
  <2>3. m0 = E(m0)
    OBVIOUS
  <2>4. M = E(M)
    <3> HIDE DEF m0, E
    <3> QED BY <2>3
  <2>5. M[0] = 0
    <3> HIDE DEF M
    <3> QED BY <2>4
  <2> HIDE DEF M
  <2>6. longObjToMPZ(long) = 0
    BY <2>2, <2>5
  <2> QED BY <1>12, <2>6 DEF Returned, long
<1>13. CASE v # 0
  <2>1. used > 0
    <3>1. ASSUME used = 0 PROVE FALSE
      <4>1. v % 1 = 0
        OBVIOUS
      <4>2. v % W(0) = 0
        BY <1>5, <4>1
      <4> QED BY <1>11, <1>13, <3>1, <4>2
    <3> QED BY <1>6, <1>10, <3>1
  <2>2. long.size = used
    BY <1>2, <1>6, <1>10, <1>13 DEF Sgn
  <2>3. \A i \in 1 .. used : long.digit[i] = digit[i]
    <3>1. long.digit = SubSeq(digit, 1, used)
      <4> DEFINE s == SubSeq(digit, 1, used)
      <4>1. long = [size |-> used * Sgn(v), digit |-> s]
        BY <1>2
      <4> HIDE DEF s, long
      <4>2. long.digit = s
        BY <4>1
      <4> QED BY <4>2 DEF s
    <3>2. digit \in Seq(Nat) /\ Len(digit) = size
      BY <1>6, <1>8
    <3> HIDE DEF long
    <3> QED BY <1>6, <1>10, <2>1, <3>1, <3>2
  <2> HIDE DEF long
  <2> DEFINE m0 == [i \in 0 .. used |-> v % W(i)]
             E(m) == [i \in 0 .. used |-> IF i = 0 THEN 0
                        ELSE m[i - 1] + (long.digit[i] * P[SHIFT * (i - 1)])]
             M == CHOOSE m : m = E(m)
  <2>4. longObjToMPZ(long) = M[used] * 1
    <3>1. long.size > 0 /\ 1 * long.size = used
      BY <1>6, <1>10, <2>1, <2>2
    <3> QED BY <3>1 DEF longObjToMPZ, P
  <2>5. m0 = E(m0)
    <3>1. ASSUME NEW i \in 0 .. used
          PROVE  v % W(i) = IF i = 0 THEN 0 ELSE m0[i - 1] + (long.digit[i] * P[SHIFT * (i - 1)])
      <4>1. CASE i = 0
        <5>1. v % 1 = 0
          OBVIOUS
        <5> QED BY <1>5, <4>1, <5>1
      <4>2. CASE i # 0
        <5>1. i - 1 \in Nat /\ i - 1 < size /\ (i - 1) + 1 = i /\ i \in 1 .. used
              /\ i - 1 \in 0 .. used
          BY <1>6, <1>10, <4>2
        <5>2. v % W((i - 1) + 1) = (v % W(i - 1)) + digit[(i - 1) + 1] * W(i - 1)
          BY <1>9, <5>1
        <5>3. long.digit[i] = digit[i] /\ m0[i - 1] = v % W(i - 1)
          BY <2>3, <5>1
        <5>4. W(i - 1) = P[SHIFT * (i - 1)]
          BY DEF W
        <5> HIDE DEF m0
        <5> QED BY <4>2, <5>1, <5>2, <5>3, <5>4
      <4> QED BY <4>1, <4>2
    <3> QED BY <3>1
  <2>6. M = E(M)
    <3> HIDE DEF m0, E
    <3> QED BY <2>5
  <2>7. \A i \in 0 .. used : M[i] = IF i = 0 THEN 0
                                   ELSE M[i - 1] + (long.digit[i] * P[SHIFT * (i - 1)])
    <3> HIDE DEF M
    <3> QED BY <2>6
  <2>8. \A i \in 0 .. used : m0[i] = IF i = 0 THEN 0
                                   ELSE m0[i - 1] + (long.digit[i] * P[SHIFT * (i - 1)])
    <3> HIDE DEF m0
    <3> QED BY <2>5
  <2> HIDE DEF M
  <2> DEFINE S == {i \in Nat : i <= used => M[i] = m0[i]}
  <2>9. 0 \in S
    <3>1. 0 \in 0 .. used
      BY <1>6, <1>10
    <3>2. M[0] = 0 /\ m0[0] = 0
      <4> HIDE DEF m0
      <4> QED BY <2>7, <2>8, <3>1
    <3> HIDE DEF m0
    <3> QED BY <3>2
  <2>10. ASSUME NEW i \in Nat, i \in S PROVE i + 1 \in S
    <3> HIDE DEF m0
    <3> SUFFICES ASSUME i + 1 <= used PROVE M[i + 1] = m0[i + 1]
      OBVIOUS
    <3>1. i + 1 \in 0 .. used /\ i + 1 # 0 /\ (i + 1) - 1 = i /\ M[i] = m0[i]
      BY <1>6, <1>10, <2>10
    <3>2. M[i + 1] = M[(i + 1) - 1] + (long.digit[i + 1] * P[SHIFT * ((i + 1) - 1)])
      BY <2>7, <3>1
    <3>3. m0[i + 1] = m0[(i + 1) - 1] + (long.digit[i + 1] * P[SHIFT * ((i + 1) - 1)])
      BY <2>8, <3>1
    <3> QED BY <3>1, <3>2, <3>3
  <2> HIDE DEF S
  <2>11. Nat \subseteq S
    BY <2>9, <2>10, Induction
  <2>12. used \in Nat /\ used \in 0 .. used
    BY <1>6, <1>10
  <2>13. M[used] = v
    <3>1. used \in S /\ used <= used
      BY <2>11, <2>12
    <3> HIDE DEF m0
    <3>2. M[used] = m0[used]
      BY <3>1 DEF S
    <3>3. m0[used] = v % W(used)
      BY <2>12 DEF m0
    <3> QED BY <1>11, <3>2, <3>3
  <2> QED BY <2>4, <2>13 DEF Returned, long
<1> QED BY <1>12, <1>13

-----------------------------------------------------------------------------
(* factorize_N_from_D.                                                     *)

\* mpz_gcd returns the greatest of the common divisors.
LEMMA GcdThere ==
  ASSUME NEW x \in Nat \ {0}, NEW n \in Nat \ {0}
  PROVE  /\ Gcd(x, n) \in Nat \ {0} /\ x % Gcd(x, n) = 0 /\ n % Gcd(x, n) = 0
         /\ \A d \in Nat \ {0} : x % d = 0 /\ n % d = 0 => d <= Gcd(x, n)
<1> DEFINE Common(d) == x % d = 0 /\ n % d = 0
           least == IF x < n THEN x ELSE n
           Is(d) == Common(d) /\ \A c \in (d + 1) .. least : ~Common(c)
           S == {d \in Nat : d >= 1 /\ \A c \in (d + 1) .. least : ~Common(c)}
<1>1. least \in Nat \ {0} /\ least <= x /\ least <= n
  OBVIOUS
<1>2. ASSUME NEW d \in Nat \ {0}, Common(d) PROVE d <= least
  <2>1. ASSUME NEW z \in Nat \ {0}, z % d = 0 PROVE d <= z
    BY <2>1
  <2> QED BY <1>2, <2>1
<1>3. Common(1)
  OBVIOUS
<1> HIDE DEF Common, least
<1>4. least \in S
  BY <1>1
<1>5. PICK d \in Nat : d \in S /\ d <= least /\ \A j \in 0 .. (d - 1) : j \notin S
  <2> HIDE DEF S
  <2>1. least \in Nat
    BY <1>1
  <2> QED BY <1>4, <2>1, Least
<1>6. d \in 1 .. least /\ Is(d)
  <2>1. d \in 1 .. least /\ \A c \in (d + 1) .. least : ~Common(c)
    BY <1>1, <1>5
  <2>2. ASSUME ~Common(d) PROVE FALSE
    <3>1. d # 1
      BY <1>3, <2>2
    <3>2. d - 1 \in Nat /\ d - 1 >= 1 /\ d - 1 \in 0 .. (d - 1)
      BY <1>1, <2>1, <3>1
    <3>3. ASSUME NEW c \in ((d - 1) + 1) .. least PROVE ~Common(c)
      <4>1. c = d \/ c \in (d + 1) .. least
        BY <1>1
      <4> QED BY <2>1, <2>2, <4>1
    <3>4. d - 1 \in S
      BY <3>2, <3>3
    <3> HIDE DEF S
    <3> QED BY <1>5, <3>2, <3>4
  <2> QED BY <2>1, <2>2
<1> DEFINE g == Gcd(x, n)
<1>7. g = CHOOSE c \in 1 .. least : Is(c)
  BY DEF Gcd, Common, least
<1>8. g \in 1 .. least /\ Is(g)
  <2> HIDE DEF Is, g
  <2> QED BY <1>6, <1>7
<1> HIDE DEF g
<1>9. g \in Nat \ {0} /\ Common(g)
  BY <1>1, <1>8
<1>10. ASSUME NEW c \in Nat \ {0}, Common(c) PROVE c <= g
  <2>1. c <= least
    BY <1>2, <1>10
  <2>2. c \notin (g + 1) .. least
    BY <1>8, <1>10
  <2> QED BY <1>1, <1>9, <2>1, <2>2
<1> QED BY <1>9, <1>10 DEF Common, g

\* With a product of two primes of which only one divides x, that one.
LEMMA OneFactor ==
  ASSUME NEW a, Prime(a), NEW c, Prime(c), NEW x \in Nat \ {0}, x % a = 0, x % c # 0
  PROVE  Gcd(x, a * c) = a
<1> DEFINE n == a * c
           g == Gcd(x, n)
<1>1. a \in Nat \ {0} /\ c \in Nat \ {0} /\ a \in Int /\ c \in Int
  BY DEF Prime
<1>2. n \in Nat \ {0} /\ n = a * c /\ n = c * a /\ n \in Int
  BY <1>1
<1> HIDE DEF n
<1>3. /\ g \in Nat \ {0} /\ x % g = 0 /\ n % g = 0
      /\ \A d \in Nat \ {0} : x % d = 0 /\ n % d = 0 => d <= g
  BY <1>2, GcdThere
<1> HIDE DEF g
<1>4. n % a = 0 /\ n % c = 0
  BY <1>1, <1>2, Divides
<1>5. a <= g
  BY <1>1, <1>3, <1>4
<1>6. PICK k \in Int : n = g * k
  BY <1>2, <1>3, Divides
<1>7. g % c # 0
  <2> SUFFICES ASSUME g % c = 0 PROVE FALSE
    OBVIOUS
  <2>1. g \in Int /\ x \in Int
    BY <1>3
  <2>2. PICK i \in Int : g = c * i
    BY <1>1, <2>1, Divides
  <2>3. PICK j \in Int : x = g * j
    BY <1>3, <2>1, Divides
  <2>4. x = c * (i * j) /\ i * j \in Int
    BY <1>1, <2>2, <2>3
  <2>5. x % c = 0
    BY <1>1, <2>1, <2>4, Divides
  <2> QED BY <2>5
<1>8. k % c = 0
  <2>1. (g * k) % c = 0
    BY <1>4, <1>6
  <2>2. g \in Int
    BY <1>3
  <2> QED BY <1>7, <2>1, <2>2, EuclidsLemma
<1>9. PICK l \in Int : k = c * l
  BY <1>1, <1>8, Divides
<1>10. a = g * l
  <2>1. g * (c * l) = c * (g * l) /\ g * l \in Int
    BY <1>1, <1>3
  <2> DEFINE w == g * l
  <2>2. w \in Int /\ c * a = c * w
    BY <1>2, <1>6, <1>9, <2>1
  <2> HIDE DEF w
  <2>3. a = w
    BY <1>1, <2>2
  <2> QED BY <2>3 DEF w
<1>11. l >= 1
  <2>1. l <= 0 => g * l <= 0
    BY <1>3
  <2> QED BY <1>1, <1>10, <2>1
<1>12. g <= a
  <2>1. g * l >= g * 1
    BY <1>3, <1>11
  <2> QED BY <1>3, <1>10, <2>1
<1>13. g = a
  BY <1>1, <1>3, <1>5, <1>12
<1> QED BY <1>13 DEF g, n

\* A root of 1 modulo n other than 1 and -1 splits n.
LEMMA RootSplits ==
  ASSUME NEW a, Prime(a), NEW c, Prime(c), a # c, NEW n, n = a * c, n > 2,
         NEW x \in 0 .. (n - 1), x # 1, x # n - 1, Powm(x, 2, n) = 1
  PROVE  Gcd(x + 1, n) \in {a, c}
<1>1. a \in Nat \ {0} /\ c \in Nat \ {0} /\ n \in Nat \ {0} /\ n = c * a /\ x \in Int
  BY DEF Prime
<1>2. x * x \in Int /\ Cong(x * x, 1, n)
  <2>1. 2 \in Nat /\ 1 \in Nat /\ x \in Int
    BY <1>1
  <2>2. Power(x)[1 + 1] = x * Power(x)[1] /\ Power(x)[1] = x
    BY <2>1, Powers
  <2>3. Powm(x, 2, n) = Power(x)[2] % n
    BY <1>1, <2>1, PowmIsPower
  <2>4. (x * x) % n = 1 /\ 1 + 1 = 2
    BY <2>2, <2>3
  <2> DEFINE z == x * x
  <2>5. z \in Int /\ z % n = 1
    BY <2>1, <2>4
  <2> HIDE DEF z
  <2>6. Cong(z, z % n, n)
    BY <1>1, <2>5, CongMod
  <2> QED BY <2>5, <2>6 DEF z
<1>3. Cong(x * x, 1, a) /\ Cong(x * x, 1, c)
  <2>1. 1 \in Int
    OBVIOUS
  <2> QED BY <1>2, <2>1, CongProduct
<1>4. ASSUME NEW f, Prime(f), Cong(x * x, 1, f) PROVE Cong(x, 1, f) \/ (x + 1) % f = 0
  <2>1. f \in Nat \ {0} /\ x - 1 \in Int /\ x + 1 \in Int
    BY <1>1, <1>4 DEF Prime
  <2>2. PICK k \in Int : x * x = 1 + f * k
    BY <1>4 DEF Cong
  <2>3. (x - 1) * (x + 1) = f * k
    <3>1. (x - 1) * (x + 1) = x * x - 1
      BY <1>1
    <3> DEFINE w == f * k
    <3>2. w \in Int /\ x * x = 1 + w
      BY <2>1, <2>2
    <3> HIDE DEF w
    <3>3. x * x - 1 = w
      BY <3>2
    <3> QED BY <3>1, <3>3 DEF w
  <2>4. ((x - 1) * (x + 1)) % f = 0
    <3> DEFINE w == (x - 1) * (x + 1)
    <3>1. w \in Int /\ w = f * k
      BY <2>1, <2>3
    <3> HIDE DEF w
    <3>2. w % f = 0
      BY <2>1, <3>1, Divides
    <3> QED BY <3>2 DEF w
  <2>5. (x - 1) % f = 0 \/ (x + 1) % f = 0
    BY <1>4, <2>1, <2>4, EuclidsLemma
  <2>6. ASSUME (x - 1) % f = 0 PROVE Cong(x, 1, f)
    <3>1. PICK j \in Int : x - 1 = f * j
      BY <2>1, <2>6, Divides
    <3> DEFINE w == f * j
    <3>2. w \in Int /\ x - 1 = w
      BY <2>1, <3>1
    <3> HIDE DEF w
    <3>3. x = 1 + w
      BY <1>1, <3>2
    <3> QED BY <3>3 DEF Cong, w
  <2> QED BY <2>5, <2>6
<1>5. ~(Cong(x, 1, a) /\ Cong(x, 1, c))
  <2> SUFFICES ASSUME Cong(x, 1, a), Cong(x, 1, c) PROVE FALSE
    OBVIOUS
  <2>1. 1 \in Int /\ 1 \in 0 .. (n - 1)
    BY <1>1
  <2>2. Cong(x, 1, a * c)
    BY <1>1, <2>1, CongProduct
  <2>3. x = 1
    BY <1>1, <2>1, <2>2, CongSmall
  <2> QED BY <2>3
<1>6. ~((x + 1) % a = 0 /\ (x + 1) % c = 0)
  <2> SUFFICES ASSUME (x + 1) % a = 0, (x + 1) % c = 0 PROVE FALSE
    OBVIOUS
  <2>1. x + 1 \in Int
    BY <1>1
  <2>2. PICK k \in Int : x + 1 = (a * c) * k
    BY <2>1, ProductDivides
  <2>3. x + 1 = n * k /\ x + 1 \in 1 .. n
    BY <1>1, <2>2
  <2>4. k = 1
    <3>1. k >= 1
      <4>1. k <= 0 => n * k <= 0
        BY <1>1
      <4> QED BY <1>1, <2>3, <4>1
    <3>2. k >= 2 => n * k >= n * 2
      BY <1>1
    <3> QED BY <1>1, <2>3, <3>1, <3>2
  <2>5. x + 1 = n
    BY <1>1, <2>3, <2>4
  <2> QED BY <1>1, <2>5
<1>7. x + 1 \in Nat \ {0}
  BY <1>1
<1>8. CASE (x + 1) % a = 0 /\ (x + 1) % c # 0
  BY <1>7, <1>8, OneFactor
<1>9. CASE (x + 1) % c = 0 /\ (x + 1) % a # 0
  BY <1>1, <1>7, <1>9, OneFactor
<1>10. (x + 1) % a = 0 \/ (x + 1) % c = 0
  BY <1>3, <1>4, <1>5
<1> QED BY <1>6, <1>8, <1>9, <1>10

-----------------------------------------------------------------------------
(* RSAKey: a number and what became of it.                                 *)

\* The powers of a natural number are natural.
LEMMA NatPowers ==
  ASSUME NEW x \in Nat, NEW k \in Nat
  PROVE  Power(x)[k] \in Nat
<1> DEFINE P == Power(x)
           S == {i \in Nat : P[i] \in Nat}
<1>1. P[0] = 1 /\ \A i \in Nat : P[i + 1] = x * P[i]
  <2>1. x \in Int
    OBVIOUS
  <2> QED BY <2>1, Powers
<1> HIDE DEF P
<1>2. 0 \in S
  BY <1>1
<1>3. ASSUME NEW i \in Nat, i \in S PROVE i + 1 \in S
  <2>1. P[i] \in Nat /\ P[i + 1] = x * P[i]
    BY <1>1, <1>3
  <2>2. x * P[i] \in Nat
    BY <2>1
  <2> QED BY <2>1, <2>2
<1> HIDE DEF S
<1>4. Nat \subseteq S
  BY <1>2, <1>3, Induction
<1> QED BY <1>4 DEF S, P

\* z is g, encrypted l times more often than decrypted: as many decryptions
\* as bring the level to -MaxLevel make the same of z as MaxLevel make of g.
Related(z, g, l, k) ==
  /\ z \in Nat /\ g \in Nat /\ l \in (-MaxLevel) .. MaxLevel
  /\ z = g \/ (z < k.n /\ g < k.n)
  /\ Cong(Power(z)[Power(k.d)[MaxLevel + l]], Power(g)[Power(k.d)[MaxLevel]], k.n)

\* Encryption keeps it.
LEMMA RelatedEncrypt ==
  ASSUME NEW k, Full(k), FitsKey(k), NEW z, NEW g, NEW l, Related(z, g, l, k),
         l < MaxLevel, z < k.n
  PROVE  /\ Related(Power(z)[k.e] % k.n, g, l + 1, k)
         /\ Power(z)[k.e] % k.n \in 0 .. (k.n - 1)
<1> DEFINE n == k.n
           e == k.e
           d == k.d
           D == Power(d)
           u == Power(z)[e]
           w == u % n
           i == MaxLevel + l
           a == D[i]
           c == Power(g)[D[MaxLevel]]
<1>1. n \in Nat \ {0} /\ n \in Int /\ e \in Nat /\ d \in Nat
  BY FullKey
<1>2. /\ z \in Nat /\ z \in Int /\ g \in Nat /\ g \in Int /\ l \in (-MaxLevel) .. MaxLevel
      /\ MaxLevel \in Nat /\ g < n
  BY <1>1, KeysAssumption DEF Related
<1>3. i \in Nat /\ MaxLevel + (l + 1) = i + 1
  BY <1>2
<1>4. a \in Nat /\ D[MaxLevel] \in Nat /\ D[i + 1] = d * a /\ d * a \in Nat
  <2>1. D[i + 1] = d * D[i]
    <3>1. d \in Int
      BY <1>1
    <3> HIDE DEF d
    <3> QED BY <1>3, <3>1, Powers
  <2>2. a \in Nat
    BY <1>1, <1>3, NatPowers
  <2>3. D[MaxLevel] \in Nat
    BY <1>1, <1>2, NatPowers
  <2>4. d * a \in Nat
    <3> HIDE DEF d, a
    <3> QED BY <1>1, <2>2
  <2> QED BY <2>1, <2>2, <2>3, <2>4
<1>5. u \in Int /\ w \in Int /\ w \in 0 .. (n - 1) /\ Cong(w, u, n) /\ c \in Int
  <2>1. u \in Int /\ c \in Int
    BY <1>1, <1>2, <1>4, Powers
  <2> HIDE DEF u
  <2>2. w \in Int /\ w \in 0 .. (n - 1) /\ Cong(w, u, n)
    BY <1>1, <2>1, CongMod
  <2> QED BY <2>1, <2>2
<1>6. Cong(Power(w)[d * a], Power(u)[d * a], n)
  <2> HIDE DEF w, u, a, d, n
  <2> QED BY <1>1, <1>4, <1>5, PowerCong
<1>7. Power(u)[d * a] = Power(Power(u)[d])[a]
  <2> HIDE DEF u, a, d
  <2> QED BY <1>1, <1>4, <1>5, PowerPower
<1>8. Cong(Power(u)[d], z, n) /\ Power(u)[d] \in Int
  <2>1. Cong(Power(u)[d], z, n)
    BY <1>2, PowersReturn
  <2> HIDE DEF u, d
  <2> QED BY <1>1, <1>5, <2>1, Powers
<1>9. Cong(Power(Power(u)[d])[a], Power(z)[a], n)
  <2> DEFINE x == Power(u)[d]
  <2>1. x \in Int /\ Cong(x, z, n)
    BY <1>8
  <2> HIDE DEF x, a, n
  <2>2. Cong(Power(x)[a], Power(z)[a], n)
    BY <1>1, <1>2, <1>4, <2>1, PowerCong
  <2> QED BY <2>2 DEF x
<1>10. Cong(Power(z)[a], c, n)
  BY DEF Related
<1>11. Cong(Power(w)[D[MaxLevel + (l + 1)]], c, n)
  <2> DEFINE r == Power(w)[d * a]
             s == Power(u)[d * a]
             t == Power(z)[a]
  <2>1. r \in Int /\ s \in Int /\ t \in Int
    <3>1. Power(w) \in [Nat -> Int] /\ Power(u) \in [Nat -> Int] /\ Power(z) \in [Nat -> Int]
      BY <1>2, <1>5, Powers
    <3> HIDE DEF w, u, a, d
    <3> QED BY <1>4, <3>1
  <2>2. Cong(r, s, n) /\ Cong(s, t, n) /\ Cong(t, c, n)
    BY <1>6, <1>7, <1>9, <1>10
  <2>3. Power(w)[D[MaxLevel + (l + 1)]] = r
    BY <1>3, <1>4
  <2> HIDE DEF r, s, t, c, n
  <2>4. Cong(r, t, n)
    BY <1>1, <2>1, <2>2, CongTrans
  <2>5. Cong(r, c, n)
    BY <1>1, <1>5, <2>1, <2>2, <2>4, CongTrans
  <2> QED BY <2>3, <2>5
<1>12. w \in Nat /\ w < n /\ l + 1 \in (-MaxLevel) .. MaxLevel
  <2> HIDE DEF w, n
  <2> QED BY <1>1, <1>2, <1>5
<1>13. Related(w, g, l + 1, k)
  <2> HIDE DEF w
  <2> QED BY <1>2, <1>11, <1>12 DEF Related
<1> QED BY <1>5, <1>13

\* Decryption keeps it.
LEMMA RelatedDecrypt ==
  ASSUME NEW k, Full(k), NEW z, NEW g, NEW l, Related(z, g, l, k),
         l > -MaxLevel, z < k.n
  PROVE  /\ Related(Power(z)[k.d] % k.n, g, l - 1, k)
         /\ Power(z)[k.d] % k.n \in 0 .. (k.n - 1)
<1> DEFINE n == k.n
           d == k.d
           D == Power(d)
           u == Power(z)[d]
           w == u % n
           i == MaxLevel + (l - 1)
           a == D[i]
           c == Power(g)[D[MaxLevel]]
<1>1. n \in Nat \ {0} /\ n \in Int /\ d \in Nat
  BY FullKey
<1>2. /\ z \in Nat /\ z \in Int /\ g \in Nat /\ g \in Int /\ l \in (-MaxLevel) .. MaxLevel
      /\ MaxLevel \in Nat /\ g < n
  BY <1>1, KeysAssumption DEF Related
<1>3. i \in Nat /\ MaxLevel + l = i + 1
  BY <1>2
<1>4. a \in Nat /\ D[MaxLevel] \in Nat /\ D[i + 1] = d * a
  <2>1. D[i + 1] = d * D[i]
    <3>1. d \in Int
      BY <1>1
    <3> HIDE DEF d, i
    <3> QED BY <1>3, <3>1, Powers
  <2>2. a \in Nat
    <3> HIDE DEF i
    <3> QED BY <1>1, <1>3, NatPowers
  <2>3. D[MaxLevel] \in Nat
    BY <1>1, <1>2, NatPowers
  <2> QED BY <2>1, <2>2, <2>3
<1>5. u \in Int /\ w \in Int /\ w \in 0 .. (n - 1) /\ Cong(w, u, n) /\ c \in Int
  <2>1. u \in Int /\ c \in Int
    BY <1>1, <1>2, <1>4, Powers
  <2> HIDE DEF u
  <2>2. w \in Int /\ w \in 0 .. (n - 1) /\ Cong(w, u, n)
    BY <1>1, <2>1, CongMod
  <2> QED BY <2>1, <2>2
<1>6. Cong(Power(w)[a], Power(u)[a], n)
  <2> HIDE DEF w, u, a, n
  <2> QED BY <1>1, <1>4, <1>5, PowerCong
<1>7. Power(u)[a] = Power(z)[d * a]
  <2> HIDE DEF a, d
  <2> QED BY <1>1, <1>2, <1>4, PowerPower
<1>8. Cong(Power(z)[D[i + 1]], c, n)
  BY <1>3 DEF Related
<1>9. Cong(Power(w)[a], c, n)
  <2> DEFINE r == Power(w)[a]
             s == Power(u)[a]
  <2>1. r \in Int /\ s \in Int
    BY <1>4, <1>5, Powers
  <2>2. Cong(r, s, n) /\ Cong(s, c, n)
    BY <1>4, <1>6, <1>7, <1>8
  <2> HIDE DEF r, s, c, n
  <2> QED BY <1>1, <1>5, <2>1, <2>2, CongTrans DEF r
<1>10. w \in Nat /\ w < n /\ l - 1 \in (-MaxLevel) .. MaxLevel
  <2> HIDE DEF w, n
  <2> QED BY <1>1, <1>2, <1>5
<1>11. Related(w, g, l - 1, k)
  <2> HIDE DEF w
  <2> QED BY <1>2, <1>9, <1>10 DEF Related
<1> QED BY <1>5, <1>11

\* Decryption loses nothing, so at level 0 the number is the one given.
LEMMA RelatedReturns ==
  ASSUME NEW k, Full(k), FitsKey(k), NEW z, NEW g, Related(z, g, 0, k)
  PROVE  z = g
<1> DEFINE n == k.n
           e == k.e
           d == k.d
           D == Power(d)
<1> SUFFICES ASSUME z < n, g < n PROVE z = g
  BY DEF Related
<1>1. n \in Nat \ {0} /\ n \in Int /\ d \in Nat /\ d \in Int /\ e \in Nat
  BY FullKey
<1>2. z \in Nat /\ z \in Int /\ g \in Nat /\ g \in Int /\ MaxLevel \in Nat
  BY KeysAssumption DEF Related
<1>3. \A i \in Nat : D[i] \in Nat /\ D[i + 1] = d * D[i]
  <2>1. \A i \in Nat : D[i + 1] = d * D[i]
    BY <1>1, Powers
  <2>2. \A i \in Nat : D[i] \in Nat
    BY <1>1, NatPowers
  <2> QED BY <2>1, <2>2
<1>4. D[0] = 1
  BY <1>1, Powers
<1>5. \A x \in Int : Cong(Power(Power(x)[d])[e], x, n)
  BY PowersReturn
<1> HIDE DEF n, d, e, D
<1> DEFINE S == {i \in Nat : Cong(Power(z)[D[i]], Power(g)[D[i]], n) => Cong(z, g, n)}
<1>6. 0 \in S
  <2>1. Power(z)[1] = z /\ Power(g)[1] = g
    BY <1>2, Powers
  <2> QED BY <1>4, <2>1
<1>7. ASSUME NEW i \in Nat, i \in S PROVE i + 1 \in S
  <2> DEFINE b == D[i]
             x == Power(z)[b]
             y == Power(g)[b]
  <2>1. b \in Nat /\ D[i + 1] = d * b
    BY <1>3
  <2> HIDE DEF b
  <2>2. x \in Int /\ y \in Int
    BY <1>2, <2>1, Powers
  <2>9. b \in Nat /\ d \in Nat
    BY <1>1, <2>1
  <2>10. Power(z)[b * d] = Power(x)[d]
    BY <1>2, <2>9, PowerPower, Zenon
  <2>11. Power(g)[b * d] = Power(y)[d]
    BY <1>2, <2>9, PowerPower, Zenon
  <2>3. Power(z)[b * d] = Power(x)[d] /\ Power(g)[b * d] = Power(y)[d]
    BY <2>10, <2>11
  <2>4. d * b = b * d
    BY <1>1, <2>1
  <2>5. ASSUME Cong(Power(x)[d], Power(y)[d], n) PROVE Cong(x, y, n)
    <3> DEFINE s == Power(x)[d]
               t == Power(y)[d]
    <3> HIDE DEF x, y
    <3>1. s \in Int /\ t \in Int /\ Cong(s, t, n)
      BY <1>1, <2>2, <2>5, Powers
    <3>2. Cong(Power(s)[e], x, n) /\ Cong(Power(t)[e], y, n)
      BY <1>5, <2>2
    <3> HIDE DEF s, t
    <3>3. Cong(Power(s)[e], Power(t)[e], n)
      BY <1>1, <3>1, PowerCong
    <3>4. Power(s)[e] \in Int /\ Power(t)[e] \in Int
      BY <1>1, <3>1, Powers
    <3> DEFINE v == Power(s)[e]
               w == Power(t)[e]
    <3>5. v \in Int /\ w \in Int /\ Cong(v, x, n) /\ Cong(w, y, n) /\ Cong(v, w, n)
      BY <3>2, <3>3, <3>4
    <3> HIDE DEF v, w
    <3>6. Cong(x, v, n)
      BY <1>1, <2>2, <3>5, CongSym
    <3>7. Cong(x, w, n)
      BY <1>1, <2>2, <3>5, <3>6, CongTrans
    <3> QED BY <1>1, <2>2, <3>5, <3>7, CongTrans
  <2>6. Cong(x, y, n) => Cong(z, g, n)
    BY <1>7 DEF b
  <2> HIDE DEF x, y
  <2>7. Cong(Power(z)[D[i + 1]], Power(g)[D[i + 1]], n) => Cong(z, g, n)
    BY <2>1, <2>3, <2>4, <2>5, <2>6
  <2> QED BY <2>7
<1> HIDE DEF S
<1>8. Nat \subseteq S
  BY <1>6, <1>7, Induction
<1>9. Cong(Power(z)[D[MaxLevel]], Power(g)[D[MaxLevel]], n)
  <2>1. MaxLevel + 0 = MaxLevel
    BY <1>2
  <2> QED BY <2>1 DEF Related, D, d, n
<1>10. Cong(z, g, n)
  BY <1>2, <1>8, <1>9 DEF S
<1>11. z \in 0 .. (n - 1) /\ g \in 0 .. (n - 1)
  BY <1>1, <1>2
<1> QED BY <1>1, <1>10, <1>11, CongSmall

-----------------------------------------------------------------------------
(* RSAKey: the invariant, and what a number comes back to.                 *)

\* Blinding multiplies by a power of the factor.
LEMMA BlindStep ==
  ASSUME NEW k, Full(k), NEW v \in Int, NEW b \in Int
  PROVE  /\ (v * Powm(b, k.e, k.n)) % k.n \in 0 .. (k.n - 1)
         /\ Cong((v * Powm(b, k.e, k.n)) % k.n, v * Power(b)[k.e], k.n)
<1> DEFINE n == k.n
           e == k.e
           r == Power(b)[e]
           s == Powm(b, e, n)
<1>1. n \in Nat \ {0} /\ n \in Int /\ e \in Nat
  BY FullKey
<1> HIDE DEF n, e
<1>2. r \in Int /\ s = r % n
  BY <1>1, Powers, PowmIsPower
<1> HIDE DEF r, s
<1>3. s \in Int /\ Cong(s, r, n)
  BY <1>1, <1>2, CongMod
<1>4. v * s \in Int /\ v * r \in Int
  BY <1>2, <1>3
<1>5. Cong(v * s, v * r, n)
  <2>1. Cong(v, v, n)
    BY <1>1, CongSelf
  <2> QED BY <1>1, <1>2, <1>3, <2>1, CongMul
<1> DEFINE x == v * s
           y == v * r
<1>6. x \in Int /\ y \in Int /\ Cong(x, y, n)
  BY <1>4, <1>5
<1> HIDE DEF x, y
<1>7. x % n \in 0 .. (n - 1) /\ x % n \in Int /\ Cong(x % n, x, n)
  BY <1>1, <1>6, CongMod
<1>8. Cong(x % n, y, n)
  BY <1>1, <1>6, <1>7, CongTrans
<1>9. (v * s) % n \in 0 .. (n - 1) /\ Cong((v * s) % n, v * r, n)
  BY <1>7, <1>8 DEF x, y
<1> QED BY <1>9 DEF s, r, n, e

\* Decryption of a blinded number leaves the factor itself.
LEMMA BlindedDecrypt ==
  ASSUME NEW k, Full(k), FitsKey(k), NEW z \in Int, NEW b \in Int, NEW v \in Int,
         Cong(v, z * Power(b)[k.e], k.n)
  PROVE  Cong(Power(v)[k.d] % k.n, (Power(z)[k.d] % k.n) * b, k.n)
<1> DEFINE n == k.n
           e == k.e
           d == k.d
           B == Power(b)[e]
           x == Power(z)[d]
           y == Power(B)[d]
           w == Power(v)[d]
<1>1. n \in Nat \ {0} /\ n \in Int /\ e \in Nat /\ d \in Nat
  BY FullKey
<1>2. Cong(Power(Power(b)[e])[d], b, n)
  BY PowersReturn
<1>3. Cong(v, z * B, n)
  OBVIOUS
<1> HIDE DEF n, e, d
<1>4. B \in Int
  BY <1>1, Powers
<1>5. Cong(y, b, n)
  BY <1>2
<1> HIDE DEF B
<1>6. x \in Int /\ y \in Int /\ w \in Int
  BY <1>1, <1>4, Powers
<1>7. z * B \in Int
  BY <1>4
<1>8. Cong(w, Power(z * B)[d], n)
  BY <1>1, <1>3, <1>7, PowerCong
<1>9. Power(z * B)[d] = x * y
  BY <1>1, <1>4, PowerMul
<1>10. Cong(w, x * y, n)
  BY <1>8, <1>9
<1> HIDE DEF x, y, w
<1>11. x % n \in Int /\ w % n \in Int /\ Cong(w % n, w, n) /\ Cong(x, x % n, n)
  BY <1>1, <1>6, CongMod
<1> DEFINE X == x % n
           W == w % n
<1>12. X \in Int /\ W \in Int /\ Cong(W, w, n) /\ Cong(x, X, n)
  BY <1>11
<1>13. Cong(W, X * b, n)
  <2> HIDE DEF X, W
  <2>1. x * y \in Int /\ X * b \in Int
    BY <1>6, <1>12
  <2>2. Cong(x * y, X * b, n)
    BY <1>1, <1>5, <1>6, <1>12, CongMul
  <2>3. Cong(W, x * y, n)
    BY <1>1, <1>6, <1>10, <1>12, <2>1, CongTrans
  <2> QED BY <1>1, <1>12, <2>1, <2>2, <2>3, CongTrans
<1> QED BY <1>13 DEF w, x, n, d

\* v is z taken b times, and w the inverse of b.
TakenTimes(v, z, b, n) == Cong(v, z * b, n)
Inverts(w, b, n) == (b * w) % n = 1

\* The inverse of the factor takes it away.
LEMMA Unblinded ==
  ASSUME NEW n \in Nat, n > 1, NEW z \in 0 .. (n - 1), NEW b \in Int, NEW v \in Int,
         TakenTimes(v, z, b, n), NEW w \in Int, Inverts(w, b, n)
  PROVE  (v * w) % n = z
<1>0. Cong(v, z * b, n) /\ (b * w) % n = 1
  BY DEF TakenTimes, Inverts
<1>1. n \in Nat \ {0} /\ n \in Int /\ z \in Int /\ v * w \in Int /\ z * b \in Int /\ b * w \in Int
  OBVIOUS
<1>2. Cong(v * w, (z * b) * w, n)
  <2>1. Cong(w, w, n)
    BY <1>1, CongSelf
  <2> QED BY <1>0, <1>1, <2>1, CongMul
<1>3. (z * b) * w = z * (b * w)
  OBVIOUS
<1> DEFINE t == b * w
           x == v * w
<1>4. Cong(t, 1, n)
  <2>1. t \in Int /\ t % n = 1
    BY <1>0, <1>1
  <2> HIDE DEF t
  <2>2. Cong(t, t % n, n)
    BY <1>1, <2>1, CongMod
  <2> QED BY <2>1, <2>2
<1>5. t \in Int /\ x \in Int /\ Cong(x, z * t, n)
  BY <1>1, <1>2, <1>3
<1> HIDE DEF t, x
<1>6. z * t \in Int /\ z * 1 = z
  BY <1>1, <1>5
<1>7. Cong(z * t, z, n)
  <2>1. Cong(z, z, n)
    BY <1>1, CongSelf
  <2>2. Cong(z * t, z * 1, n)
    BY <1>1, <1>4, <1>5, <2>1, CongMul
  <2> QED BY <1>6, <2>2
<1>8. Cong(x, z, n)
  BY <1>1, <1>5, <1>6, <1>7, CongTrans
<1>9. x % n = z % n
  BY <1>1, <1>5, <1>8, CongSame
<1>10. z % n = z
  BY <1>1, SmallMod
<1> QED BY <1>9, <1>10 DEF x

\* A key with no factors in it yet.
HalfKey(k) ==
  \E a \in Primes, c \in Primes, e \in Exponents, d \in Nat \ {0} :
    a # c /\ k = [n |-> a * c, e |-> e, d |-> d, p |-> 0, q |-> 0, u |-> 0]

\* What factorize_N_from_D finds makes it a key with its factors.
LEMMA FactorsFound ==
  ASSUME HalfKey(keyobj), NEW b \in Nat, NEW j \in Nat,
         NEW f, f = Factor(Powm(b, j, keyobj.n)), f # 0
  PROVE  Full(WithU([keyobj EXCEPT !.p = f, !.q = keyobj.n \div f]))
<1>1. PICK a \in Primes, c \in Primes, e \in Exponents, d \in Nat \ {0} :
        a # c /\ keyobj = [n |-> a * c, e |-> e, d |-> d, p |-> 0, q |-> 0, u |-> 0]
  BY DEF HalfKey
<1> DEFINE n == keyobj.n
           x == Powm(b, j, n)
<1>2. a \in Nat /\ a > 2 /\ Prime(a) /\ c \in Nat /\ c > 2 /\ Prime(c) /\ e \in Nat \ {0}
  BY KeysAssumption, PrimeMeaning
<1>3. n = a * c /\ keyobj = [n |-> n, e |-> e, d |-> d, p |-> 0, q |-> 0, u |-> 0]
  BY <1>1
<1>4. n \in Nat \ {0} /\ n > 2 /\ n \div a = c /\ n \div c = a
  <2>1. a \in Nat \ {0} /\ c \in Nat \ {0} /\ a \in Int /\ c \in Int /\ 0 \in 0 .. (a - 1)
        /\ 0 \in 0 .. (c - 1)
    BY <1>2
  <2>2. (a * c + 0) \div a = c /\ (c * a + 0) \div c = a
    BY <2>1, DivMod
  <2>3. a * c + 0 = n /\ c * a + 0 = n
    BY <1>3, <2>1
  <2>4. n \in Nat \ {0} /\ n > 2
    BY <1>2, <1>3
  <2> QED BY <2>2, <2>3, <2>4
<1>5. x \in 0 .. (n - 1)
  <2> HIDE DEF n
  <2>1. b \in Int /\ n \in Nat \ {0}
    BY <1>4
  <2>2. Power(b)[j] \in Int
    BY <2>1, Powers
  <2>3. x = Power(b)[j] % n
    BY <2>1, PowmIsPower, Zenon
  <2> DEFINE y == Power(b)[j]
  <2>4. y \in Int /\ x = y % n
    BY <2>2, <2>3
  <2> HIDE DEF y, x
  <2> QED BY <2>1, <2>4, CongMod
<1>6. x # 1 /\ x # n - 1 /\ Powm(x, 2, n) = 1 /\ f = Gcd(x + 1, n)
  BY DEF Factor, Root
<1> HIDE DEF x
<1>7. f \in {a, c}
  <2> HIDE DEF n
  <2> QED BY <1>1, <1>2, <1>3, <1>4, <1>5, <1>6, RootSplits
<1> DEFINE g == n \div f
           k == [keyobj EXCEPT !.p = f, !.q = g]
           K == WithU(k)
<1>8. (f = a /\ g = c) \/ (f = c /\ g = a)
  BY <1>4, <1>7
<1> HIDE DEF g
<1>9. k = [n |-> n, e |-> e, d |-> d, p |-> f, q |-> g, u |-> 0]
  <2> DEFINE h == [keyobj EXCEPT !.p = f]
  <2>1. k = [h EXCEPT !.q = g]
    OBVIOUS
  <2> HIDE DEF n
  <2>2. h = [n |-> n, e |-> e, d |-> d, p |-> f, q |-> 0, u |-> 0]
    BY <1>3
  <2> HIDE DEF h
  <2> QED BY <2>1, <2>2
<1>10. K = [n |-> n, e |-> e, d |-> d, p |-> f, q |-> g, u |-> Invert(f, g)]
  BY <1>9 DEF WithU
<1>11. n = f * g /\ f \in Primes /\ g \in Primes /\ f # g
  <2>1. a * c = c * a
    BY <1>2
  <2> QED BY <1>1, <1>3, <1>8, <2>1
<1> HIDE DEF n
<1>12. Full(K)
  BY <1>2, <1>10, <1>11 DEF Full
<1> QED BY <1>12 DEF g, n

\* The keys that are generated.
LEMMA GeneratedKeys ==
  ASSUME NEW k \in Generated
  PROVE  \E a \in Primes, c \in Primes, e \in Exponents, d \in Nat :
           a # c /\ k = [n |-> a * c, e |-> e, d |-> d, p |-> a, q |-> c, u |-> Invert(a, c)]
<1>1. PICK t \in Primes \X Primes \X Exponents : t[1] # t[2] /\ k = Key(t[1], t[2], t[3])
  BY DEF Generated
<1> DEFINE a == t[1]
           c == t[2]
           e == t[3]
           T == Totient(a, c)
           d == Invert(e, T)
<1>2. a \in Primes /\ c \in Primes /\ e \in Exponents
  OBVIOUS
<1>3. k = [n |-> a * c, e |-> e, d |-> d, p |-> a, q |-> c, u |-> Invert(a, c)]
  BY <1>1 DEF Key
<1>4. T \in Int
  BY <1>2, KeysAssumption DEF Totient
<1> HIDE DEF T
<1>5. d \in Nat
  BY <1>4 DEF Invert
<1> HIDE DEF d
<1> QED BY <1>1, <1>2, <1>3, <1>5

\* A private exponent alone, where one was given.
LEMMA PrivateKeys ==
  ASSUME NEW k \in Generated, NEW d \in Nat
  PROVE  \E a \in Primes, c \in Primes, e \in Exponents :
           /\ a # c
           /\ PrivateOnly(k, d) = [n |-> a * c, e |-> e, d |-> d, p |-> 0, q |-> 0, u |-> 0]
<1>1. PICK a \in Primes, c \in Primes, e \in Exponents, dd \in Nat :
        a # c /\ k = [n |-> a * c, e |-> e, d |-> dd, p |-> a, q |-> c, u |-> Invert(a, c)]
  BY GeneratedKeys
<1> DEFINE n == a * c
           u == Invert(a, c)
           k1 == [k EXCEPT !.d = d]
           k2 == [k1 EXCEPT !.p = 0]
           k3 == [k2 EXCEPT !.q = 0]
           k4 == [k3 EXCEPT !.u = 0]
<1>2. k = [n |-> n, e |-> e, d |-> dd, p |-> a, q |-> c, u |-> u]
  BY <1>1
<1> HIDE DEF n, u
<1>3. PrivateOnly(k, d) = k4
  BY DEF PrivateOnly
<1>4. k1 = [n |-> n, e |-> e, d |-> d, p |-> a, q |-> c, u |-> u]
  BY <1>2
<1> HIDE DEF k1
<1>5. k2 = [n |-> n, e |-> e, d |-> d, p |-> 0, q |-> c, u |-> u]
  BY <1>4
<1> HIDE DEF k2
<1>6. k3 = [n |-> n, e |-> e, d |-> d, p |-> 0, q |-> 0, u |-> u]
  BY <1>5
<1> HIDE DEF k3
<1>7. k4 = [n |-> n, e |-> e, d |-> d, p |-> 0, q |-> 0, u |-> 0]
  BY <1>6
<1> HIDE DEF k4
<1> QED BY <1>1, <1>3, <1>7 DEF n

\* What a key that was constructed is like: it has no private exponent, or not
\* its factors yet, or all of it.
LEMMA NewKeys ==
  ASSUME NEW k \in Generated
  PROVE  /\ k.d # 0 => Full(WithU(k)) /\ k.p # 0
         /\ Public(k).d = 0
         /\ NoU(k).d # 0 => Full(WithU(NoU(k))) /\ NoU(k).p # 0
         /\ \A d \in BadD \cup {k.d} : /\ PrivateOnly(k, d).d # 0 => HalfKey(PrivateOnly(k, d))
                                       /\ PrivateOnly(k, d).p = 0
<1>1. PICK a \in Primes, c \in Primes, e \in Exponents, d \in Nat :
        a # c /\ k = [n |-> a * c, e |-> e, d |-> d, p |-> a, q |-> c, u |-> Invert(a, c)]
  BY GeneratedKeys
<1> DEFINE n == a * c
           u == Invert(a, c)
<1>2. n = a * c /\ k = [n |-> n, e |-> e, d |-> d, p |-> a, q |-> c, u |-> u]
  BY <1>1
<1>3. a # 0 /\ e \in Nat \ {0}
  BY KeysAssumption
<1>4. u = Invert(a, c)
  OBVIOUS
<1> HIDE DEF n, u
<1>5. NoU(k) = [n |-> n, e |-> e, d |-> d, p |-> a, q |-> c, u |-> 0]
  BY <1>2 DEF NoU
<1>6. WithU(k) = [n |-> n, e |-> e, d |-> d, p |-> a, q |-> c, u |-> u]
  BY <1>2, <1>4 DEF WithU
<1>7. WithU(NoU(k)) = [n |-> n, e |-> e, d |-> d, p |-> a, q |-> c, u |-> u]
  <2> DEFINE m == NoU(k)
  <2> HIDE DEF m
  <2>1. m.u = 0 /\ WithU(m) = [m EXCEPT !.u = u]
    BY <1>4, <1>5 DEF WithU, m
  <2> QED BY <1>5, <2>1 DEF m
<1>8. Full([n |-> n, e |-> e, d |-> d, p |-> a, q |-> c, u |-> u]) \/ d = 0
  BY <1>1, <1>2, <1>3, <1>4 DEF Full
<1>9. k.d # 0 => Full(WithU(k)) /\ k.p # 0
  BY <1>2, <1>3, <1>6, <1>8
<1>10. NoU(k).d # 0 => Full(WithU(NoU(k))) /\ NoU(k).p # 0
  BY <1>3, <1>5, <1>7, <1>8
<1>11. Public(k).d = 0
  BY <1>2 DEF Public
<1>12. ASSUME NEW x \in BadD \cup {k.d}
       PROVE  /\ PrivateOnly(k, x).d # 0 => HalfKey(PrivateOnly(k, x))
              /\ PrivateOnly(k, x).p = 0
  <2>1. x \in Nat
    BY <1>2, KeysAssumption
  <2>2. PICK b \in Primes, t \in Primes, s \in Exponents :
          b # t /\ PrivateOnly(k, x) = [n |-> b * t, e |-> s, d |-> x, p |-> 0, q |-> 0, u |-> 0]
    BY <2>1, PrivateKeys
  <2> DEFINE m == PrivateOnly(k, x)
  <2> HIDE DEF m
  <2>3. m = [n |-> b * t, e |-> s, d |-> x, p |-> 0, q |-> 0, u |-> 0]
    BY <2>2 DEF m
  <2>4. m.d # 0 => HalfKey(m)
    BY <2>1, <2>2, <2>3 DEF HalfKey
  <2>5. m.p = 0
    BY <2>3
  <2> QED BY <2>4, <2>5 DEF m
<1> QED BY <1>9, <1>10, <1>11, <1>12

\* The number the caller has, taken t times a number related to the one it
\* began with.
Masked(t) ==
  \E z \in 0 .. (keyobj.n - 1) :
    /\ Related(z, given, level, keyobj)
    /\ num \in 0 .. (keyobj.n - 1) /\ blind \in 1 .. (keyobj.n - 2)
    /\ Cong(num, z * t, keyobj.n)

\* The inductive invariant: a key with a private exponent has all its parts by
\* the time it is used, and, if the exponent fits, what the caller has is
\* related to what it began with, but for the blinding.
RsaInv ==
  /\ phase \in {"new", "factorize", "failed", "ready", "blinded", "unblind"}
  /\ phase \in {"new", "factorize", "failed"} => num = 0 /\ given = 0 /\ level = 0 /\ blind = 0
  /\ phase = "factorize" => HalfKey(keyobj) /\ base \in Nat /\ pow \in Nat
  /\ phase \in {"blinded", "unblind"} => keyobj.d # 0
  /\ phase \in {"ready", "blinded", "unblind"} /\ keyobj.d # 0 => Full(keyobj)
  /\ phase = "ready" => blind = 0
  /\ phase = "ready" /\ keyobj.d # 0 /\ FitsKey(keyobj) => Related(num, given, level, keyobj)
  /\ phase = "blinded" /\ FitsKey(keyobj) => Masked(Power(blind)[keyobj.e])
  /\ phase = "unblind" /\ FitsKey(keyobj) => Masked(blind)

\* A number is related to itself.
LEMMA RelatedSelf ==
  ASSUME NEW k, Full(k), NEW v \in Nat
  PROVE  Related(v, v, 0, k)
<1> DEFINE D == Power(k.d)[MaxLevel]
           x == Power(v)[D]
<1>1. k.n \in Int /\ k.d \in Nat /\ MaxLevel \in Nat
  BY FullKey, KeysAssumption
<1>2. D \in Nat
  BY <1>1, NatPowers
<1>3. MaxLevel + 0 = MaxLevel /\ 0 \in (-MaxLevel) .. MaxLevel
  BY <1>1
<1> HIDE DEF D
<1>4. x \in Int
  BY <1>2, Powers
<1>5. Cong(x, x, k.n)
  BY <1>1, <1>4, CongSelf
<1> QED BY <1>3, <1>5 DEF Related, D

\* A new key.
LEMMA NewKeyStep ==
  ASSUME RsaInv, NEW k, rsaKey_new(k), k.d # 0 /\ k.p # 0 => Full(WithU(k)),
         k.d # 0 /\ k.p = 0 => HalfKey(k)
  PROVE  RsaInv'
<1>1. phase = "new" /\ num' = 0 /\ given' = 0 /\ level' = 0 /\ blind' = 0
  BY DEF rsaKey_new, RsaInv
<1>2. CASE k.d = 0
  <2>1. phase' = "ready" /\ keyobj' = k
    BY <1>2 DEF rsaKey_new
  <2> QED BY <1>1, <1>2, <2>1 DEF RsaInv
<1>3. CASE k.d # 0 /\ k.p # 0
  <2>1. phase' = "ready" /\ keyobj' = WithU(k)
    BY <1>3 DEF rsaKey_new
  <2>2. Full(keyobj')
    BY <1>3, <2>1
  <2>3. Related(num', given', level', keyobj')
    BY <1>1, <2>2, RelatedSelf
  <2> QED BY <1>1, <2>1, <2>2, <2>3 DEF RsaInv
<1>4. CASE k.d # 0 /\ k.p = 0
  <2>1. phase' = "factorize" /\ keyobj' = k /\ base' = 2 /\ pow' = 0
    BY <1>4 DEF rsaKey_new
  <2> QED BY <1>1, <1>4, <2>1 DEF RsaInv
<1> QED BY <1>2, <1>3, <1>4

\* A turn of the search for the factors.
LEMMA FactorizeStep ==
  ASSUME RsaInv, factorize_N_from_D
  PROVE  RsaInv'
<1> DEFINE k == IF pow = 0 THEN OddPart ELSE pow
           f == Factor(Powm(base, k, keyobj.n))
<1>1. phase = "factorize" /\ HalfKey(keyobj) /\ base \in Nat /\ pow \in Nat
  BY DEF RsaInv, factorize_N_from_D
<1>2. num' = 0 /\ given' = 0 /\ level' = 0 /\ blind' = 0
  BY <1>1 DEF RsaInv, factorize_N_from_D
<1>3. OddPart \in Nat /\ ktot \in Nat
  <2>1. PICK a \in Primes, c \in Primes, e \in Exponents, d \in Nat \ {0} :
          keyobj = [n |-> a * c, e |-> e, d |-> d, p |-> 0, q |-> 0, u |-> 0]
    BY <1>1 DEF HalfKey
  <2>2. keyobj.e = e /\ keyobj.d = d /\ e \in Nat \ {0}
    BY <2>1, KeysAssumption
  <2>3. ktot \in Nat
    <3>1. ktot = (e * d) - 1
      BY <2>2 DEF ktot
    <3>2. e * d \in Nat \ {0}
      BY <2>2
    <3> QED BY <3>1, <3>2
  <2>4. CASE ktot = 0
    BY <2>4 DEF OddPart
  <2>5. CASE ktot # 0
    <3> DEFINE t == Power(2)[Scan1(ktot)]
    <3>1. Scan1(ktot) \in Nat
      BY <2>3, <2>5, Scan1There
    <3>2. t \in Nat \ {0}
      BY <3>1, TwoPowers
    <3>3. OddPart = ktot \div t
      BY <2>5 DEF OddPart
    <3> HIDE DEF t
    <3> QED BY <2>3, <3>2, <3>3
  <2> QED BY <2>3, <2>4, <2>5
<1>4. k \in Nat
  BY <1>1, <1>3
<1>5. f # 0 => Full(WithU([keyobj EXCEPT !.p = f, !.q = keyobj.n \div f]))
  <2> HIDE DEF k
  <2> QED BY <1>1, <1>4, FactorsFound
<1>6. \/ phase' = "failed"
      \/ /\ phase' = phase /\ keyobj' = keyobj /\ base' \in {base, base + 2}
         /\ pow' \in {0, Doubled(k)}
      \/ /\ phase' = "ready" /\ f # 0
         /\ keyobj' = WithU([keyobj EXCEPT !.p = f, !.q = keyobj.n \div f])
  <2>1. base \in Int /\ Last \in Int /\ k \in Int /\ ktot \in Int
    BY <1>1, <1>3, <1>4 DEF Last
  <2> DEFINE A == base >= Last
             B == base < Last /\ k >= ktot
             C == base < Last /\ k < ktot /\ f = 0
             D == base < Last /\ k < ktot /\ f # 0
  <2> HIDE DEF k
  <2>2. (A => ~B /\ ~C /\ ~D) /\ (B => ~A /\ ~C /\ ~D) /\ (C => ~A /\ ~B /\ ~D)
        /\ (D => ~A /\ ~B /\ ~C) /\ (A \/ B \/ C \/ D)
    <3> HIDE DEF f
    <3> QED BY <2>1
  <2>3. (CASE A -> /\ phase' = "failed" /\ keyobj' = NoKey
                   /\ base' = 0 /\ pow' = 0
           [] B -> base' = base + 2 /\ pow' = 0 /\ UNCHANGED <<phase, keyobj>>
           [] C -> pow' = Doubled(k) /\ UNCHANGED <<phase, keyobj, base>>
           [] D -> /\ phase' = "ready" /\ base' = 0 /\ pow' = 0
                   /\ keyobj' = WithU([keyobj EXCEPT !.p = f, !.q = keyobj.n \div f]))
    BY DEF factorize_N_from_D, k
  <2>4. D => f # 0
    OBVIOUS
  <2> HIDE DEF A, B, C, D, f
  <2>5. CASE A
    BY <2>2, <2>3, <2>5
  <2>6. CASE B
    BY <2>2, <2>3, <2>6
  <2>7. CASE C
    BY <2>2, <2>3, <2>7
  <2>8. CASE D
    BY <2>2, <2>3, <2>4, <2>8
  <2> QED BY <2>2, <2>5, <2>6, <2>7, <2>8
<1> HIDE DEF k, f
<1>7. CASE phase' = "failed"
  BY <1>2, <1>7 DEF RsaInv
<1>8. CASE /\ phase' = phase /\ keyobj' = keyobj /\ base' \in {base, base + 2}
           /\ pow' \in {0, Doubled(k)}
  <2>1. base' \in Nat /\ pow' \in Nat
    BY <1>1, <1>4, <1>8 DEF Doubled
  <2>2. phase' = "factorize" /\ HalfKey(keyobj')
    BY <1>1, <1>8
  <2> QED BY <1>2, <2>1, <2>2 DEF RsaInv
<1>9. CASE /\ phase' = "ready" /\ f # 0
           /\ keyobj' = WithU([keyobj EXCEPT !.p = f, !.q = keyobj.n \div f])
  <2>1. Full(keyobj')
    BY <1>5, <1>9
  <2>2. Related(num', given', level', keyobj')
    BY <1>2, <2>1, RelatedSelf
  <2> QED BY <1>2, <1>9, <2>1, <2>2 DEF RsaInv
<1> QED BY <1>6, <1>7, <1>8, <1>9

\* The operations on a key keep it; with an exponent that fits, they keep what
\* relates the caller's number to the one it began with.
LEMMA BeginStep ==
  ASSUME RsaInv, NEW v \in Nat, Begin(v)
  PROVE  RsaInv'
<1>1. phase = "ready" /\ phase' = "ready" /\ keyobj' = keyobj /\ blind' = 0
      /\ num' = v /\ given' = v /\ level' = 0
  BY DEF Begin, RsaInv
<1>2. keyobj.d # 0 => Full(keyobj)
  BY <1>1 DEF RsaInv
<1>3. keyobj.d # 0 => Related(v, v, 0, keyobj)
  BY <1>2, RelatedSelf
<1> QED BY <1>1, <1>2, <1>3 DEF RsaInv

\* Encryption raises the level of the number at hand by one.
LEMMA EncryptStep ==
  ASSUME RsaInv, rsaKey__encrypt
  PROVE  RsaInv'
<1> DEFINE r == rsaEncrypt(num)
<1>1. phase = "ready" /\ phase' = "ready" /\ keyobj' = keyobj /\ blind' = 0 /\ level < MaxLevel
      /\ r # Error /\ num' = Returned(r) /\ given' = given /\ level' = level + 1
  BY DEF rsaKey__encrypt, RsaInv
<1>2. keyobj.d # 0 => Full(keyobj)
  BY <1>1 DEF RsaInv
<1>3. ASSUME keyobj.d # 0, FitsKey(keyobj) PROVE Related(num', given', level', keyobj)
  <2>1. Full(keyobj) /\ Related(num, given, level, keyobj)
    BY <1>1, <1>2, <1>3 DEF RsaInv
  <2>2. num \in Nat /\ num \in Int /\ keyobj.n \in Nat
    BY <2>1, FullKey DEF Related
  <2>3. num < keyobj.n
    BY <1>1, <2>2 DEF rsaEncrypt
  <2>4. r = Power(num)[keyobj.e] % keyobj.n
    BY <2>1, <2>2, <2>3, EncryptIsPower
  <2> HIDE DEF r
  <2>5. Related(r, given, level + 1, keyobj) /\ r \in 0 .. (keyobj.n - 1)
    BY <1>1, <1>3, <2>1, <2>3, <2>4, RelatedEncrypt
  <2>6. Returned(r) = r
    BY <2>5, <2>2, LongRoundTrip
  <2> QED BY <1>1, <2>5, <2>6
<1> QED BY <1>1, <1>2, <1>3 DEF RsaInv

\* Decryption, of a number that is blinded as of one that is not.
LEMMA DecryptStep ==
  ASSUME RsaInv, rsaKey__decrypt
  PROVE  RsaInv'
<1> DEFINE r == rsaDecrypt(num)
           n == keyobj.n
           d == keyobj.d
           e == keyobj.e
<1>1. phase \in {"ready", "blinded"} /\ level > -MaxLevel /\ r # Error /\ num' = Returned(r)
      /\ phase' = (IF phase = "blinded" THEN "unblind" ELSE phase)
      /\ keyobj' = keyobj /\ blind' = blind /\ given' = given /\ level' = level - 1
  BY DEF rsaKey__decrypt
<1>2. keyobj.d # 0 => Full(keyobj)
  BY <1>1 DEF RsaInv
<1>3. ASSUME keyobj.d # 0, FitsKey(keyobj), num \in Nat
      PROVE  num < n /\ r = Power(num)[d] % n /\ r \in 0 .. (n - 1) /\ num' = r
  <2>1. Full(keyobj) /\ Fits
    BY <1>2, <1>3 DEF FitsKey, Fits
  <2>2. n \in Nat \ {0} /\ num \in Int /\ d \in Nat
    BY <1>3, <2>1, FullKey
  <2>3. num < n
    BY <1>1, <2>2 DEF rsaDecrypt
  <2>4. r = Power(num)[d] % n
    BY <2>1, <2>2, <2>3, DecryptIsPower
  <2> HIDE DEF r
  <2> DEFINE x == Power(num)[d]
  <2>5. x \in Int /\ r = x % n
    BY <2>2, <2>4, Powers
  <2> HIDE DEF x
  <2>6. r \in 0 .. (n - 1)
    BY <2>2, <2>5, CongMod
  <2>7. Returned(r) = r
    BY <2>2, <2>6, LongRoundTrip
  <2> QED BY <1>1, <2>3, <2>4, <2>6, <2>7
<1> HIDE DEF r
<1>4. CASE phase = "ready"
  <2>1. phase' = "ready" /\ blind' = 0
    BY <1>1, <1>4 DEF RsaInv
  <2>2. ASSUME keyobj.d # 0, FitsKey(keyobj) PROVE Related(num', given', level', keyobj)
    <3>1. Full(keyobj) /\ Related(num, given, level, keyobj)
      BY <1>2, <1>4, <2>2 DEF RsaInv
    <3>2. num \in Nat
      BY <3>1 DEF Related
    <3>3. num < n /\ num' = Power(num)[d] % n
      BY <1>3, <2>2, <3>2
    <3>4. Related(Power(num)[d] % n, given, level - 1, keyobj)
      BY <1>1, <3>1, <3>3, RelatedDecrypt
    <3> QED BY <1>1, <3>3, <3>4
  <2> QED BY <1>1, <1>2, <2>1, <2>2 DEF RsaInv
<1>5. CASE phase = "blinded"
  <2>1. phase' = "unblind" /\ keyobj.d # 0
    BY <1>1, <1>5 DEF RsaInv
  <2>2. ASSUME FitsKey(keyobj)
        PROVE  \E z \in 0 .. (n - 1) :
                 /\ Related(z, given, level - 1, keyobj)
                 /\ num' \in 0 .. (n - 1) /\ blind \in 1 .. (n - 2) /\ Cong(num', z * blind, n)
    <3>1. Full(keyobj) /\ Masked(Power(blind)[e])
      BY <1>2, <1>5, <2>1, <2>2 DEF RsaInv
    <3>2. PICK z \in 0 .. (n - 1) :
            /\ Related(z, given, level, keyobj)
            /\ num \in 0 .. (n - 1) /\ blind \in 1 .. (n - 2)
            /\ Cong(num, z * Power(blind)[e], n)
      BY <3>1 DEF Masked
    <3>3. n \in Nat \ {0} /\ z \in Int /\ z < n /\ blind \in Int /\ num \in Nat /\ num \in Int
      BY <3>1, <3>2, FullKey
    <3>4. num' = Power(num)[d] % n /\ num' \in 0 .. (n - 1)
      BY <1>3, <2>1, <2>2, <3>3
    <3>5. /\ Related(Power(z)[d] % n, given, level - 1, keyobj)
          /\ Power(z)[d] % n \in 0 .. (n - 1)
      BY <1>1, <3>1, <3>2, <3>3, RelatedDecrypt
    <3>6. Cong(Power(num)[d] % n, (Power(z)[d] % n) * blind, n)
      BY <2>2, <3>1, <3>2, <3>3, BlindedDecrypt
    <3> QED BY <3>2, <3>4, <3>5, <3>6
  <2>3. FitsKey(keyobj) => Masked(blind)'
    BY <1>1, <2>2 DEF Masked
  <2> QED BY <1>1, <1>2, <2>1, <2>3 DEF RsaInv
<1> QED BY <1>1, <1>4, <1>5

\* Blinding takes the number times a power of the factor.
LEMMA BlindingStep ==
  ASSUME RsaInv, NEW b \in Int, rsaKey__blind(b)
  PROVE  RsaInv'
<1> DEFINE r == rsaBlind(num, b)
           n == keyobj.n
<1>1. phase = "ready" /\ keyobj.d # 0 /\ b \in 1 .. (n - 2) /\ r # Error /\ num' = Returned(r)
      /\ phase' = "blinded" /\ blind' = b /\ keyobj' = keyobj /\ given' = given /\ level' = level
  BY DEF rsaKey__blind
<1>2. Full(keyobj)
  BY <1>1 DEF RsaInv
<1>3. ASSUME FitsKey(keyobj) PROVE Masked(Power(blind)[keyobj.e])'
  <2>1. Related(num, given, level, keyobj)
    BY <1>1, <1>3 DEF RsaInv
  <2>2. num \in Nat /\ num \in Int /\ n \in Nat \ {0}
    BY <1>2, <2>1, FullKey DEF Related
  <2>3. r = (num * Powm(b, keyobj.e, n)) % n /\ num < n
    BY <1>1, <2>2 DEF rsaBlind
  <2>4. r \in 0 .. (n - 1) /\ Cong(r, num * Power(b)[keyobj.e], n)
    BY <1>2, <2>2, <2>3, BlindStep
  <2> HIDE DEF r
  <2>5. Returned(r) = r
    BY <2>2, <2>4, LongRoundTrip
  <2>6. num \in 0 .. (n - 1)
    BY <2>2, <2>3
  <2> QED BY <1>1, <2>1, <2>4, <2>5, <2>6 DEF Masked
<1> QED BY <1>1, <1>2, <1>3 DEF RsaInv

\* Unblinding takes the factor away again.
LEMMA UnblindStep ==
  ASSUME RsaInv, rsaKey__unblind
  PROVE  RsaInv'
<1> DEFINE r == rsaUnBlind(num, blind)
           n == keyobj.n
<1>1. phase = "unblind" /\ phase' = "ready" /\ blind' = 0 /\ keyobj' = keyobj
      /\ \/ num' = 0 /\ given' = 0 /\ level' = 0
         \/ r # Error /\ num' = Returned(r) /\ given' = given /\ level' = level
  BY DEF rsaKey__unblind
<1>2. keyobj.d # 0 /\ Full(keyobj)
  BY <1>1 DEF RsaInv
<1>3. ASSUME FitsKey(keyobj) PROVE Related(num', given', level', keyobj)
  <2>1. CASE num' = 0 /\ given' = 0 /\ level' = 0
    BY <1>2, <2>1, RelatedSelf
  <2>2. CASE r # Error /\ num' = Returned(r) /\ given' = given /\ level' = level
    <3>1. Masked(blind)
      BY <1>1, <1>3 DEF RsaInv
    <3>2. PICK z \in 0 .. (n - 1) :
            /\ Related(z, given, level, keyobj)
            /\ num \in 0 .. (n - 1) /\ blind \in 1 .. (n - 2) /\ Cong(num, z * blind, n)
      BY <3>1 DEF Masked
    <3> DEFINE w == Invert(blind, n)
    <3>3. n \in Nat /\ n > 1 /\ blind \in Int /\ num \in Int /\ num < n /\ blind < n /\ z \in Nat
      BY <1>2, <3>2, FullKey
    <3>4. w # 0 /\ r = (num * w) % n
      BY <2>2, <3>3 DEF rsaUnBlind
    <3>5. w \in Int /\ (blind * w) % n = 1
      <4>1. \E x \in 1 .. (n - 1) : (blind * x) % n = 1
        BY <3>4 DEF Invert
      <4>2. Invert(blind, n) \in 1 .. (n - 1) /\ (blind * Invert(blind, n)) % n = 1
        <5> HIDE DEF n
        <5>1. n \in Int
          BY <3>3
        <5> QED BY <3>3, <4>1, <5>1, InvertThere, Zenon
      <4> QED BY <3>3, <4>2
    <3> HIDE DEF w, r
    <3>6. r = z
      <4>1. (num * w) % n = z
        <5> HIDE DEF n
        <5>1. z \in 0 .. (n - 1) /\ TakenTimes(num, z, blind, n) /\ Inverts(w, blind, n)
          BY <3>2, <3>5 DEF TakenTimes, Inverts
        <5>2. n \in Nat /\ n > 1 /\ blind \in Int /\ num \in Int /\ w \in Int
          BY <3>3, <3>5
        <5> DEFINE g == blind
                   v == num
        <5>3. /\ n \in Nat /\ n > 1 /\ z \in 0 .. (n - 1) /\ g \in Int /\ v \in Int
              /\ TakenTimes(v, z, g, n) /\ w \in Int /\ Inverts(w, g, n)
          BY <5>1, <5>2
        <5> HIDE DEF g, v
        <5>4. (v * w) % n = z
          BY <5>3, Unblinded, Zenon
        <5> QED BY <5>4 DEF v
      <4> QED BY <3>4, <4>1
    <3>7. Returned(r) = z
      BY <3>3, <3>6, LongRoundTrip
    <3> QED BY <2>2, <3>2, <3>7
  <2> QED BY <1>1, <2>1, <2>2
<1> QED BY <1>1, <1>2, <1>3 DEF RsaInv

\* An object is dropped.
LEMMA DeallocStep ==
  ASSUME RsaInv, rsaKey_dealloc
  PROVE  RsaInv'
<1>1. phase' = "new" /\ num' = 0 /\ given' = 0 /\ level' = 0 /\ blind' = 0
  BY DEF rsaKey_dealloc, RsaInv
<1> QED BY <1>1 DEF RsaInv

\* The steps of the program, seen by the RSA key, are those of RSAKey.
LEMMA RsaInvHolds == MCSpec => []RsaInv
<1>1. MCInit => RsaInv
  BY DEF MCInit, Init, RsaInv
<1>2. RsaInv /\ [MCNext]_allVars => RsaInv'
  <2> SUFFICES ASSUME RsaInv, [MCNext]_allVars PROVE RsaInv'
    OBVIOUS
  <2>1. Next \/ UNCHANGED vars
    BY DEF MCNext, RSAStep, DSAStep, TestStep, StrongStep, allVars
  <2>2. CASE UNCHANGED vars
    BY <2>2 DEF vars, RsaInv, Masked
  <2>3. ASSUME NEW k \in Generated,
               \/ rsaKey_new(k) \/ rsaKey_new(Public(k)) \/ rsaKey_new(NoU(k))
               \/ \E d \in BadD \cup {k.d} : rsaKey_new(PrivateOnly(k, d))
        PROVE  RsaInv'
    <3>1. CASE rsaKey_new(k)
      BY <3>1, NewKeys, NewKeyStep
    <3>2. CASE rsaKey_new(Public(k))
      BY <3>2, NewKeys, NewKeyStep
    <3>3. CASE rsaKey_new(NoU(k))
      BY <3>3, NewKeys, NewKeyStep
    <3>4. CASE \E d \in BadD \cup {k.d} : rsaKey_new(PrivateOnly(k, d))
      BY <3>4, NewKeys, NewKeyStep
    <3> QED BY <2>3, <3>1, <3>2, <3>3, <3>4
  <2>4. CASE factorize_N_from_D
    BY <2>4, FactorizeStep
  <2>5. CASE rsaKey_dealloc
    BY <2>5, DeallocStep
  <2>6. ASSUME NEW v \in Numbers, Begin(v) \/ rsaKey__blind(v) PROVE RsaInv'
    <3>1. v \in Nat /\ v \in Int
      BY KeysAssumption
    <3> QED BY <2>6, <3>1, BeginStep, BlindingStep
  <2>7. CASE rsaKey__encrypt
    BY <2>7, EncryptStep
  <2>8. CASE rsaKey__decrypt
    BY <2>8, DecryptStep
  <2>9. CASE rsaKey__unblind
    BY <2>9, UnblindStep
  <2> QED BY <2>1, <2>2, <2>3, <2>4, <2>5, <2>6, <2>7, <2>8, <2>9 DEF Next
<1> QED BY <1>1, <1>2, PTL DEF MCSpec

\* ReturnsToGiven holds for every set of odd primes, exponents and numbers:
\* the decryption of _fastmath.c, by the factors or without them, undoes its
\* encryption, blinded or not (_fastmath.c, rsaEncrypt to rsaUnBlind).
THEOREM ReturnsToGivenHolds == MCSpec => []ReturnsToGiven
<1>1. RsaInv => ReturnsToGiven
  <2> SUFFICES ASSUME RsaInv, phase = "ready", keyobj.d # 0, Fits, blind = 0, level = 0
               PROVE  num = given
    BY DEF ReturnsToGiven
  <2>1. FitsKey(keyobj)
    BY DEF Fits, FitsKey
  <2>2. Full(keyobj) /\ Related(num, given, 0, keyobj)
    BY <2>1 DEF RsaInv
  <2> QED BY <2>1, <2>2, RelatedReturns
<1> QED BY <1>1, RsaInvHolds, PTL

\* SignatureVerifies holds for every group whose order is prime, every message
\* and every k, and for all RSA keys: dsaVerify accepts what dsaSign made, and
\* rsaVerify one signature of a number and no other.
THEOREM SignatureVerifiesHolds == MCSpec => []SignatureVerifies
<1>1. RsaInv => VerifiesOneSignature
  <2> SUFFICES ASSUME RsaInv, phase = "ready", keyobj.d # 0, Fits PROVE VerifiesOneSignature
    BY DEF VerifiesOneSignature
  <2>1. FitsKey(keyobj)
    BY DEF Fits, FitsKey
  <2>2. Full(keyobj) /\ num \in Nat
    BY <2>1 DEF RsaInv, Related
  <2> QED BY <2>2, OneSignature
<1>2. MCInit => Dsa!Init
  BY DEF MCInit
<1>3. [MCNext]_allVars => [Dsa!Next]_Dsa!vars
  BY DEF MCNext, RSAStep, DSAStep, TestStep, StrongStep, allVars, dsaVars, Dsa!vars
<1>4. MCSpec => Dsa!Spec
  BY <1>2, <1>3, PTL DEF MCSpec, Dsa!Spec
<1>5. RsaInv /\ DsaInv => SignatureVerifies
  BY <1>1, DsaVerifies DEF SignatureVerifies
<1> QED BY <1>4, <1>5, RsaInvHolds, DsaInvHolds, PTL

-----------------------------------------------------------------------------
(* StrongPrime: the search keeps both remainders.                          *)

\* The arithmetic of StrongPrime is the same.
LEMMA StrongMpz ==
  /\ \A x : Strong!IsPrime(x) <=> IsPrime(x)
  /\ \A x, n : Strong!Invert(x, n) = Invert(x, n)
  /\ \A x : Strong!Power(x) = Power(x)
BY DEF Strong!IsPrime, IsPrime, Strong!SquareRoot, SquareRoot, Strong!Invert, Invert,
       Strong!Power, Power

\* The inverses of two primes, one of the other, make a number that is 1
\* modulo the first of them and -1 modulo the second.
LEMMA SignedInverses ==
  ASSUME NEW a, Prime(a), NEW c, Prime(c), a # c
  PROVE  LET r == (Invert(c, a) * c) - (Invert(a, c) * a)
         IN r \in Int /\ Cong(r, 1, a) /\ Cong(r, -1, c)
<1> DEFINE u == Invert(c, a)
           v == Invert(a, c)
<1>1. a \in Nat \ {0} /\ c \in Nat \ {0} /\ a \in Int /\ c \in Int
  BY DEF Prime
<1>2. c % a # 0 /\ a % c # 0
  BY PrimesApart
<1>3. u \in Int /\ (c * u) % a = 1
  <2>1. \E x \in 1 .. (a - 1) : (c * x) % a = 1
    BY <1>1, <1>2, InverseThere
  <2>2. Invert(c, a) \in 1 .. (a - 1) /\ (c * Invert(c, a)) % a = 1
    BY <1>1, <2>1, InvertThere, Zenon
  <2> QED BY <1>1, <2>2
<1>4. v \in Int /\ (a * v) % c = 1
  <2>1. \E x \in 1 .. (c - 1) : (a * x) % c = 1
    BY <1>1, <1>2, InverseThere
  <2>2. Invert(a, c) \in 1 .. (c - 1) /\ (a * Invert(a, c)) % c = 1
    BY <1>1, <2>1, InvertThere, Zenon
  <2> QED BY <1>1, <2>2
<1> HIDE DEF u, v
<1> DEFINE s == c * u
           t == a * v
<1>5. s \in Int /\ t \in Int /\ s % a = 1 /\ t % c = 1
  BY <1>1, <1>3, <1>4
<1>6. (u * c) - (v * a) = s - t
  BY <1>1, <1>3, <1>4
<1>7. PICK i \in Int : s = 1 + a * i
  <2> HIDE DEF s
  <2>1. Cong(s, s % a, a)
    BY <1>1, <1>5, CongMod
  <2> QED BY <1>5, <2>1 DEF Cong
<1>8. PICK j \in Int : t = 1 + c * j
  <2> HIDE DEF t
  <2>1. Cong(t, t % c, c)
    BY <1>1, <1>5, CongMod
  <2> QED BY <1>5, <2>1 DEF Cong
<1>9. Cong(s - t, 1, a)
  <2>1. s - t = 1 + a * (i - v) /\ i - v \in Int
    BY <1>1, <1>4, <1>7
  <2> QED BY <2>1 DEF Cong
<1>10. Cong(s - t, -1, c)
  <2>1. s - t = (-1) + c * (u - j) /\ u - j \in Int
    BY <1>1, <1>3, <1>8
  <2> QED BY <2>1 DEF Cong
<1> HIDE DEF s, t
<1>11. s - t \in Int
  BY <1>5
<1> QED BY <1>6, <1>9, <1>10, <1>11 DEF u, v

\* X moved to a number with given remainders modulo two primes keeps them from
\* step to step.
LEMMA Moved ==
  ASSUME NEW a, Prime(a), NEW c, Prime(c), NEW x \in Int, NEW r \in Int
  PROVE  LET z == x + (r - (x % (a * c)))
         IN z \in Int /\ Cong(z, r, a) /\ Cong(z, r, c)
<1> DEFINE m == a * c
           w == x \div m
<1>1. a \in Nat \ {0} /\ c \in Nat \ {0} /\ a \in Int /\ c \in Int
  BY DEF Prime
<1>2. m \in Nat \ {0}
  BY <1>1
<1> DEFINE z == x + (r - (x % m))
<1>3. w \in Int /\ z = r + m * w /\ z \in Int
  <2> HIDE DEF m
  <2>1. w \in Int /\ x % m \in 0 .. (m - 1) /\ x = m * w + (x % m)
    BY <1>2, Divided
  <2> DEFINE y == x % m
             g == m * w
  <2>2. y \in Int /\ g \in Int /\ x = g + y
    BY <1>2, <2>1
  <2> HIDE DEF y, g
  <2>3. x + (r - y) = r + g /\ x + (r - y) \in Int
    BY <2>2
  <2> QED BY <2>1, <2>3 DEF y, g
<1> HIDE DEF w, z
<1>4. m * w = a * (c * w) /\ m * w = c * (a * w) /\ c * w \in Int /\ a * w \in Int
  BY <1>1, <1>3
<1>5. Cong(z, r, a) /\ Cong(z, r, c)
  BY <1>3, <1>4 DEF Cong
<1> QED BY <1>3, <1>5 DEF z

\* One step of the search for X.
LEMMA NextKeeps ==
  ASSUME NEW a, Prime(a), NEW c, Prime(c), NEW x \in Int, NEW r \in Int, NEW s \in Int,
         Cong(x, r, a), Cong(x, s, c)
  PROVE  x + (a * c) \in Int /\ Cong(x + (a * c), r, a) /\ Cong(x + (a * c), s, c)
<1>1. a \in Nat \ {0} /\ c \in Nat \ {0} /\ a \in Int /\ c \in Int
  BY DEF Prime
<1>2. PICK i \in Int : x = r + a * i
  BY DEF Cong
<1>3. PICK j \in Int : x = s + c * j
  BY DEF Cong
<1>4. x + (a * c) = r + a * (i + c) /\ i + c \in Int
  BY <1>1, <1>2
<1>5. x + (a * c) = s + c * (j + a) /\ j + a \in Int
  BY <1>1, <1>3
<1> DEFINE y == x + (a * c)
<1>6. y \in Int
  BY <1>1
<1>7. y = r + a * (i + c) /\ i + c \in Int /\ y = s + c * (j + a) /\ j + a \in Int
  BY <1>4, <1>5
<1> HIDE DEF y
<1>8. Cong(y, r, a)
  BY <1>7 DEF Cong
<1>9. Cong(y, s, c)
  BY <1>7 DEF Cong
<1> QED BY <1>6, <1>8, <1>9 DEF y

\* A number like 1 or -1 is one more, or one less, than a multiple.
LEMMA OneOff ==
  ASSUME NEW p, Prime(p), NEW x \in Int
  PROVE  /\ Cong(x, 1, p) => (x - 1) % p = 0
         /\ Cong(x, -1, p) => (x + 1) % p = 0
<1>1. p \in Nat \ {0}
  BY DEF Prime
<1>2. ASSUME Cong(x, 1, p) PROVE (x - 1) % p = 0
  <2>1. PICK i \in Int : x = 1 + p * i
    BY <1>2 DEF Cong
  <2> DEFINE y == x - 1
  <2>2. y \in Int /\ y = p * i
    BY <1>1, <2>1
  <2> HIDE DEF y
  <2>3. y % p = 0
    BY <1>1, <2>2, Divides
  <2> QED BY <2>3 DEF y
<1>3. ASSUME Cong(x, -1, p) PROVE (x + 1) % p = 0
  <2>1. PICK i \in Int : x = (-1) + p * i
    BY <1>3 DEF Cong
  <2> DEFINE y == x + 1
  <2>2. y \in Int /\ y = p * i
    BY <1>1, <2>1
  <2> HIDE DEF y
  <2>3. y % p = 0
    BY <1>1, <2>2, Divides
  <2> QED BY <2>3 DEF y
<1> QED BY <1>2, <1>3

\* The inductive invariant of getStrongPrime: while no draw has failed, what
\* TestField found is prime, and X differs from 1 and from -1 by a multiple of
\* the one and of the other.
StrongInv ==
  /\ search \in {"idle", "draw", "field", "combine", "search", "return"}
  /\ search = "field" =>
       /\ starts \in [1 .. 2 -> Nat] /\ nth \in 1 .. 2 /\ place \in Nat
       /\ factors \in [1 .. 2 -> Int] /\ bigX \in Int
       /\ ~noNumber /\ nth = 2 => IsPrime(factors[1])
  /\ search = "combine" => bigX \in Int
  /\ search \in {"combine", "search", "return"} =>
       /\ factors \in [1 .. 2 -> Int]
       /\ ~noNumber => IsPrime(factors[1]) /\ IsPrime(factors[2])
  /\ search \in {"search", "return"} /\ ~noNumber /\ factors[1] # factors[2] =>
       bigX \in Int /\ Cong(bigX, 1, factors[1]) /\ Cong(bigX, -1, factors[2])
  /\ search = "return" /\ ~noNumber => IsPrime(bigX) /\ Strong!Possible(bigX)

\* A draw.
LEMMA StrongDraw ==
  ASSUME NEW x \in Xs, NEW y1 \in Strong!getRandomNBitInteger(YBits),
         NEW y2 \in Strong!getRandomNBitInteger(YBits), Strong!Draw(x, y1, y2)
  PROVE  StrongInv'
<1>1. ASSUME NEW z \in Strong!getRandomNBitInteger(YBits) PROVE z \in Nat
  <2>1. PICK r \in Strong!RandomIntegers(YBits) : z = r + Strong!Power(2)[YBits]
    BY DEF Strong!getRandomNBitInteger
  <2>2. r \in Nat
    BY DEF Strong!RandomIntegers
  <2>3. Strong!Power(2)[YBits] \in Nat
    BY StrongMpz, SearchAssumption, TwoPowers
  <2> QED BY <2>1, <2>2, <2>3
<1>2. y1 \in Nat /\ y2 \in Nat /\ x \in Int
  BY <1>1, SearchAssumption
<1>3. /\ search' = "field" /\ bigX' = x /\ starts' = <<y1, y2>> /\ factors' = <<0, 0>>
      /\ nth' = 1 /\ place' = 0
  BY DEF Strong!Draw
<1>4. starts' \in [1 .. 2 -> Nat] /\ factors' \in [1 .. 2 -> Int]
  BY <1>2, <1>3
<1> QED BY <1>2, <1>3, <1>4 DEF StrongInv

\* The end of a call.
LEMMA StrongReturns ==
  ASSUME NEW v, Strong!Return(v)
  PROVE  StrongInv'
BY DEF Strong!Return, StrongInv

\* A turn of the search for the factors of X - 1 and X + 1.
LEMMA StrongField ==
  ASSUME StrongInv, Strong!TestField
  PROVE  StrongInv'
<1> DEFINE candidate == starts[nth] + place
           Found == /\ factors' = [factors EXCEPT ![nth] = candidate] /\ place' = 0
                    /\ IF nth = 1 THEN nth' = 2 /\ UNCHANGED search
                                  ELSE search' = "combine" /\ UNCHANGED nth
           Turn == place' = place + 1 /\ UNCHANGED <<search, factors, nth, noNumber>>
<1>1. /\ search = "field" /\ starts \in [1 .. 2 -> Nat] /\ nth \in 1 .. 2 /\ place \in Nat
      /\ factors \in [1 .. 2 -> Int] /\ bigX \in Int
      /\ (~noNumber /\ nth = 2 => IsPrime(factors[1]))
  BY DEF StrongInv, Strong!TestField
<1>2. UNCHANGED <<exponent, bigX, starts, prime>>
  BY DEF Strong!TestField
<1>3. \/ Turn
      \/ Found /\ (noNumber' = TRUE \/ (IsPrime(candidate) /\ noNumber' = noNumber))
  BY StrongMpz DEF Strong!TestField
<1>4. candidate \in Int
  BY <1>1
<1> HIDE DEF candidate
<1>5. CASE Turn
  BY <1>1, <1>2, <1>5 DEF StrongInv
<1>6. CASE Found /\ (noNumber' = TRUE \/ (IsPrime(candidate) /\ noNumber' = noNumber))
  <2>1. factors' \in [1 .. 2 -> Int] /\ factors'[nth] = candidate
        /\ (nth = 2 => factors'[1] = factors[1])
    BY <1>1, <1>4, <1>6
  <2>2. CASE nth = 1
    <3>1. search' = "field" /\ nth' = 2 /\ place' = 0
      BY <1>1, <1>6, <2>2
    <3>2. ~noNumber' => IsPrime(factors'[1])
      BY <1>6, <2>1, <2>2
    <3> QED BY <1>1, <1>2, <2>1, <3>1, <3>2 DEF StrongInv
  <2>3. CASE nth = 2
    <3>1. search' = "combine"
      BY <1>6, <2>3
    <3>2. ~noNumber' => IsPrime(factors'[1]) /\ IsPrime(factors'[2])
      BY <1>1, <1>6, <2>1, <2>3
    <3> QED BY <1>1, <1>2, <2>1, <3>1, <3>2 DEF StrongInv
  <2> QED BY <1>1, <2>2, <2>3
<1> QED BY <1>3, <1>5, <1>6

\* X is moved to where both remainders are right.
LEMMA StrongCombine ==
  ASSUME StrongInv, Strong!Combine
  PROVE  StrongInv'
<1> DEFINE a == factors[1]
           c == factors[2]
           r == (Invert(c, a) * c) - (Invert(a, c) * a)
           z == bigX + (r - (bigX % (a * c)))
<1>1. /\ search = "combine" /\ search' = "search" /\ bigX \in Int /\ factors \in [1 .. 2 -> Int]
      /\ UNCHANGED <<exponent, starts, factors, nth, place, prime, noNumber>>
      /\ (~noNumber => IsPrime(a) /\ IsPrime(c))
  BY DEF StrongInv, Strong!Combine
<1>2. bigX' = z
  BY StrongMpz DEF Strong!Combine, Strong!R, Strong!increment
<1>3. ASSUME ~noNumber, a # c PROVE z \in Int /\ Cong(z, 1, a) /\ Cong(z, -1, c)
  <2>1. Prime(a) /\ Prime(c)
    BY <1>1, <1>3, PrimeMeaning
  <2>2. r \in Int /\ Cong(r, 1, a) /\ Cong(r, -1, c)
    BY <1>3, <2>1, SignedInverses
  <2> HIDE DEF r, a, c
  <2>3. z \in Int /\ Cong(z, r, a) /\ Cong(z, r, c)
    BY <1>1, <2>1, <2>2, Moved
  <2> HIDE DEF z
  <2>4. a \in Int /\ c \in Int
    BY <2>1 DEF Prime
  <2>5. Cong(z, 1, a)
    BY <2>2, <2>3, <2>4, CongTrans
  <2>6. Cong(z, -1, c)
    <3>1. -1 \in Int
      OBVIOUS
    <3> QED BY <2>2, <2>3, <2>4, <3>1, CongTrans
  <2> QED BY <2>3, <2>5, <2>6
<1> HIDE DEF z
<1> QED BY <1>1, <1>2, <1>3 DEF StrongInv

\* A turn of the search for X.
LEMMA StrongSearch ==
  ASSUME StrongInv, Strong!Search
  PROVE  StrongInv'
<1> DEFINE a == factors[1]
           c == factors[2]
<1>1. /\ search = "search" /\ factors \in [1 .. 2 -> Int]
      /\ (~noNumber => IsPrime(a) /\ IsPrime(c))
      /\ (~noNumber /\ a # c => bigX \in Int /\ Cong(bigX, 1, a) /\ Cong(bigX, -1, c))
      /\ UNCHANGED <<exponent, starts, factors, nth, place, prime>>
  BY DEF StrongInv, Strong!Search
<1>2. CASE /\ Strong!Possible(bigX) /\ Strong!IsPrime(bigX)
           /\ search' = "return" /\ UNCHANGED <<bigX, noNumber>>
  <2>1. IsPrime(bigX') /\ Strong!Possible(bigX)'
    BY <1>1, <1>2, StrongMpz DEF Strong!Possible
  <2> QED BY <1>1, <1>2, <2>1 DEF StrongInv
<1>3. CASE noNumber' = TRUE /\ search' = "return"
  BY <1>1, <1>3 DEF StrongInv
<1>4. CASE bigX' = Strong!NextX(bigX) /\ UNCHANGED <<search, noNumber>>
  <2>1. bigX' = bigX + (a * c)
    BY <1>4 DEF Strong!NextX, Strong!increment
  <2>2. ASSUME ~noNumber, a # c PROVE bigX' \in Int /\ Cong(bigX', 1, a) /\ Cong(bigX', -1, c)
    <3>1. Prime(a) /\ Prime(c) /\ bigX \in Int /\ Cong(bigX, 1, a) /\ Cong(bigX, -1, c)
      BY <1>1, <2>2, PrimeMeaning
    <3>2. 1 \in Int /\ -1 \in Int
      OBVIOUS
    <3> HIDE DEF a, c
    <3> QED BY <2>1, <3>1, <3>2, NextKeeps
  <2> QED BY <1>1, <1>4, <2>2 DEF StrongInv
<1> QED BY <1>2, <1>3, <1>4 DEF Strong!Search

\* The invariant of getStrongPrime holds at first and is kept by every step.
LEMMA StrongInvHolds == MCSpec => []StrongInv
<1>1. MCInit => StrongInv
  BY DEF MCInit, Strong!Init, StrongInv
<1>2. StrongInv /\ [MCNext]_allVars => StrongInv'
  <2> SUFFICES ASSUME StrongInv, [MCNext]_allVars PROVE StrongInv'
    OBVIOUS
  <2>1. Strong!Next \/ UNCHANGED searchVars
    BY DEF MCNext, RSAStep, DSAStep, TestStep, StrongStep, allVars
  <2>2. CASE UNCHANGED searchVars
    BY <2>2 DEF searchVars, StrongInv, Strong!Possible
  <2>3. ASSUME NEW E \in Es, Strong!getStrongPrime(E) PROVE StrongInv'
    BY <2>3 DEF StrongInv, Strong!getStrongPrime
  <2>4. ASSUME NEW x \in Xs \cap Strong!getRandomRange(lower_bound, upper_bound),
               NEW y1 \in Strong!getRandomNBitInteger(YBits),
               NEW y2 \in Strong!getRandomNBitInteger(YBits), Strong!Draw(x, y1, y2)
        PROVE  StrongInv'
    BY <2>4, StrongDraw
  <2>5. CASE Strong!DrawFails
    BY <2>5, StrongReturns DEF Strong!DrawFails
  <2>6. CASE Strong!TestField
    BY <2>6, StrongField
  <2>7. CASE Strong!FieldEnds
    BY <2>7, StrongReturns DEF Strong!FieldEnds
  <2>8. CASE Strong!Combine
    BY <2>8, StrongCombine
  <2>9. CASE Strong!Search
    BY <2>9, StrongSearch
  <2>10. CASE Strong!SearchEnds
    BY <2>10, StrongReturns DEF Strong!SearchEnds
  <2>11. CASE Strong!ReturnPrime
    BY <2>11, StrongReturns DEF Strong!ReturnPrime
  <2> QED BY <2>1, <2>2, <2>3, <2>4, <2>5, <2>6, <2>7, <2>8, <2>9, <2>10, <2>11
          DEF Strong!Next, Strong!Working
<1> QED BY <1>1, <1>2, PTL DEF MCSpec

\* PrimeIsStrong holds for all bounds, draws, exponents and tables: what
\* getStrongPrime returns without an exception is prime, its two neighbours
\* have the prime factors found first, and it fits its exponent
\* (_fastmath.c:1512-1663).
THEOREM PrimeIsStrongHolds == MCSpec => []PrimeIsStrong
<1>1. StrongInv => PrimeIsStrong
  <2> SUFFICES ASSUME StrongInv, search = "return", ~noNumber, factors[1] # factors[2]
               PROVE  /\ IsPrime(bigX) /\ (bigX - 1) % factors[1] = 0
                      /\ (bigX + 1) % factors[2] = 0
                      /\ IsPrime(factors[1]) /\ IsPrime(factors[2])
                      /\ Strong!Possible(bigX)
    BY StrongMpz DEF PrimeIsStrong, Strong!PrimeIsStrong, Strong!Possible
  <2>1. /\ IsPrime(bigX) /\ IsPrime(factors[1]) /\ IsPrime(factors[2]) /\ Strong!Possible(bigX)
        /\ factors \in [1 .. 2 -> Int]
        /\ bigX \in Int /\ Cong(bigX, 1, factors[1]) /\ Cong(bigX, -1, factors[2])
    BY DEF StrongInv
  <2>2. Prime(factors[1]) /\ Prime(factors[2])
    BY <2>1, PrimeMeaning
  <2> QED BY <2>1, <2>2, OneOff
<1> QED BY <1>1, StrongInvHolds, PTL

-----------------------------------------------------------------------------
(* Rabin's bound: signs modulo the factors of an odd number.               *)

\* A modulus that divides another tells no more apart.
LEMMA CongFactor ==
  ASSUME NEW x \in Int, NEW y \in Int, NEW a \in Int, NEW c \in Int, Cong(x, y, a * c)
  PROVE  Cong(x, y, a) /\ Cong(x, y, c)
<1>1. PICK k \in Int : x = y + (a * c) * k
  BY DEF Cong
<1>2. x = y + a * (c * k) /\ x = y + c * (a * k) /\ c * k \in Int /\ a * k \in Int
  BY <1>1
<1>3. Cong(x, y, a)
  BY <1>2 DEF Cong
<1>4. Cong(x, y, c)
  BY <1>2 DEF Cong
<1> QED BY <1>3, <1>4

\* A sign is 1 or -1; a modulus above 2 tells them apart.
Signs == {1, -1}

\* The signs differ modulo more than 2.
LEMMA SignsApart ==
  ASSUME NEW n \in Nat, n > 2, NEW s \in Signs, NEW t \in Signs, Cong(s, t, n)
  PROVE  s = t
<1> SUFFICES ASSUME s # t PROVE FALSE
  OBVIOUS
<1>1. PICK k \in Int : s = t + n * k
  BY DEF Cong
<1>2. n * k = 2 \/ n * k = -2
  BY <1>1 DEF Signs
<1>3. CASE k >= 1
  <2>1. n * (k - 1) >= 0
    BY <1>3
  <2>2. n * k >= n
    BY <2>1
  <2> QED BY <1>2, <2>2
<1>4. CASE k <= -1
  <2>1. n * ((-k) - 1) >= 0
    BY <1>4
  <2>2. n * k <= -n
    BY <2>1
  <2> QED BY <1>2, <2>2
<1>5. CASE k = 0
  BY <1>2, <1>5
<1> QED BY <1>3, <1>4, <1>5

\* The powers of a sign.
LEMMA SignPowers ==
  ASSUME NEW k \in Nat
  PROVE  /\ \A s \in Signs : Power(s)[k] \in Signs
         /\ k % 2 = 0 => Power(-1)[k] = 1
         /\ k % 2 = 1 => Power(-1)[k] = -1
<1> DEFINE P == Power(-1)
           S == {i \in Nat : (i % 2 = 0 => P[i] = 1) /\ (i % 2 = 1 => P[i] = -1)}
<1>1. P[0] = 1 /\ \A i \in Nat : P[i + 1] = (-1) * P[i]
  <2>1. -1 \in Int
    OBVIOUS
  <2> QED BY <2>1, Powers
<1> HIDE DEF P
<1>2. 0 \in S
  BY <1>1
<1>3. ASSUME NEW i \in Nat, i \in S PROVE i + 1 \in S
  <2>1. P[i + 1] = (-1) * P[i]
    BY <1>1
  <2>2. CASE i % 2 = 0
    <3>1. (i + 1) % 2 = 1 /\ P[i] = 1
      BY <1>3, <2>2
    <3> QED BY <2>1, <3>1
  <2>3. CASE i % 2 = 1
    <3>1. (i + 1) % 2 = 0 /\ P[i] = -1
      BY <1>3, <2>3
    <3> QED BY <2>1, <3>1
  <2> QED BY <2>2, <2>3
<1> HIDE DEF S
<1>4. k \in S
  BY <1>2, <1>3, Induction
<1>5. (k % 2 = 0 => P[k] = 1) /\ (k % 2 = 1 => P[k] = -1)
  BY <1>4 DEF S
<1>6. P[k] \in Signs /\ Power(1)[k] \in Signs
  BY <1>5, PowerOne DEF Signs
<1> QED BY <1>5, <1>6 DEF P, Signs

\* So are the powers of a number like one.
LEMMA CongSignPower ==
  ASSUME NEW n \in Int, NEW x \in Int, NEW s \in Signs, Cong(x, s, n), NEW k \in Nat
  PROVE  /\ Cong(Power(x)[k], Power(s)[k], n)
         /\ \E t \in Signs : Cong(Power(x)[k], t, n)
<1>1. s \in Int
  BY DEF Signs
<1>2. Cong(Power(x)[k], Power(s)[k], n)
  BY <1>1, PowerCong
<1>3. Power(s)[k] \in Signs
  BY SignPowers
<1> QED BY <1>2, <1>3

\* A factor with a power that is a sign can be taken away.
LEMMA CancelSign ==
  ASSUME NEW n \in Int, NEW t \in Int, NEW k \in Nat \ {0}, NEW s \in Signs,
         Cong(Power(t)[k], s, n), NEW x \in Int, NEW y \in Int, Cong(x * t, y * t, n)
  PROVE  Cong(x, y, n)
<1> DEFINE r == Power(t)[k - 1]
           u == Power(t)[k]
<1>1. k - 1 \in Nat /\ (k - 1) + 1 = k /\ s \in Int
  BY DEF Signs
<1>2. r \in Int
  BY <1>1, Powers
<1>3. u = t * r
  <2>1. Power(t)[(k - 1) + 1] = t * Power(t)[k - 1]
    BY <1>1, Powers, Zenon
  <2> QED BY <1>1, <2>1
<1>4. Cong(u, s, n)
  OBVIOUS
<1> HIDE DEF r, u
<1>5. u \in Int /\ x * t \in Int /\ y * t \in Int
  BY <1>2, <1>3
<1>6. Cong((x * t) * r, (y * t) * r, n)
  <2>1. Cong(r, r, n)
    BY <1>2, CongSelf
  <2> QED BY <1>2, <1>5, <2>1, CongMul
<1>7. (x * t) * r = x * u /\ (y * t) * r = y * u
  BY <1>2, <1>3
<1> DEFINE v == x * u
           w == y * u
           a == x * s
           c == y * s
<1>8. Cong(v, w, n) /\ v \in Int /\ w \in Int /\ a \in Int /\ c \in Int
  BY <1>1, <1>5, <1>6, <1>7
<1>9. Cong(v, a, n) /\ Cong(w, c, n)
  <2>1. Cong(x, x, n) /\ Cong(y, y, n)
    BY CongSelf
  <2> QED BY <1>1, <1>4, <1>5, <2>1, CongMul
<1>10. Cong(a * s, c * s, n)
  <2> HIDE DEF v, w, a, c
  <2>1. Cong(a, v, n)
    BY <1>8, <1>9, CongSym
  <2>2. Cong(a, w, n)
    BY <1>8, <2>1, CongTrans
  <2>3. Cong(a, c, n)
    BY <1>8, <1>9, <2>2, CongTrans
  <2>4. Cong(s, s, n)
    BY <1>1, CongSelf
  <2> QED BY <1>1, <1>8, <2>3, <2>4, CongMul
<1>11. a * s = x /\ c * s = y
  BY DEF Signs
<1> QED BY <1>10, <1>11

\* A number with given remainders modulo a prime and modulo what the prime
\* does not divide.
LEMMA Remainders ==
  ASSUME NEW p, Prime(p), NEW r \in Int, r % p # 0, NEW x \in Int
  PROVE  \E t \in Int : Cong(t, x, p) /\ Cong(t, 1, r)
<1>1. p \in Nat \ {0} /\ p \in Int
  BY DEF Prime
<1>2. PICK v \in 1 .. (p - 1) : (r * v) % p = 1
  BY InverseThere
<1> DEFINE g == r * v
           t == 1 + r * (v * (x - 1))
<1>3. v \in Int /\ g \in Int /\ t \in Int /\ g % p = 1 /\ v * (x - 1) \in Int
  BY <1>1, <1>2
<1>4. Cong(t, 1, r)
  BY <1>3 DEF Cong
<1>5. Cong(t, x, p)
  <2> HIDE DEF g
  <2>1. Cong(g, g % p, p)
    BY <1>1, <1>3, CongMod
  <2>2. PICK k \in Int : g = 1 + p * k
    BY <1>3, <2>1 DEF Cong
  <2>3. t = 1 + g * (x - 1)
    BY <1>3 DEF g
  <2>4. t = x + p * (k * (x - 1)) /\ k * (x - 1) \in Int
    BY <1>1, <2>2, <2>3
  <2> HIDE DEF t
  <2> QED BY <2>4 DEF Cong
<1> QED BY <1>3, <1>4, <1>5

\* What a prime, and a number it does not divide, do not tell apart, their
\* product does not either.
LEMMA CongTogether ==
  ASSUME NEW p, Prime(p), NEW r \in Int, r % p # 0, NEW x \in Int, NEW y \in Int,
         Cong(x, y, p), Cong(x, y, r)
  PROVE  Cong(x, y, p * r)
<1>1. p \in Nat \ {0} /\ p \in Int
  BY DEF Prime
<1>2. PICK i \in Int : x = y + p * i
  BY DEF Cong
<1>3. PICK j \in Int : x = y + r * j
  BY DEF Cong
<1>4. r * j = p * i
  BY <1>1, <1>2, <1>3
<1>5. (r * j) % p = 0
  <2> DEFINE z == r * j
  <2>1. z \in Int /\ z = p * i
    BY <1>4
  <2> HIDE DEF z
  <2>2. z % p = 0
    BY <1>1, <2>1, Divides
  <2> QED BY <2>2 DEF z
<1>6. j % p = 0
  BY <1>5, EuclidsLemma
<1>7. PICK k \in Int : j = p * k
  BY <1>1, <1>6, Divides
<1>8. x = y + (p * r) * k
  BY <1>1, <1>3, <1>7
<1> QED BY <1>8 DEF Cong

\* Any number above 1 has a prime factor.
LEMMA PrimeFactor ==
  ASSUME NEW n \in Nat, n > 1
  PROVE  \E p \in Nat : Prime(p) /\ n % p = 0
<1> DEFINE S == {d \in Nat : d > 1 /\ n % d = 0}
<1>1. n \in S
  <2>1. n = n * 1 /\ n \in Nat \ {0} /\ 1 \in Int /\ n \in Int
    OBVIOUS
  <2>2. n % n = 0
    BY <2>1, Divides
  <2> QED BY <2>2
<1> HIDE DEF S
<1>2. PICK p \in Nat : p \in S /\ p <= n /\ \A j \in 0 .. (p - 1) : j \notin S
  BY <1>1, Least
<1>3. p > 1 /\ n % p = 0 /\ p \in Nat \ {0}
  BY <1>2 DEF S
<1>4. ASSUME NEW d \in 2 .. (p - 1), p % d = 0 PROVE FALSE
  <2>1. d \in Nat \ {0} /\ d > 1 /\ d \in 0 .. (p - 1)
    OBVIOUS
  <2>9. n \in Int /\ p \in Int
    OBVIOUS
  <2>10. \E i \in Int : n = p * i
    BY <1>3, <2>9, Divides, Zenon
  <2>2. PICK i \in Int : n = p * i
    BY <2>10
  <2>11. \E j \in Int : p = d * j
    BY <1>4, <2>1, <2>9, Divides, Zenon
  <2>3. PICK j \in Int : p = d * j
    BY <2>11
  <2>4. n = d * (j * i) /\ j * i \in Int
    BY <2>1, <2>2, <2>3
  <2>5. n % d = 0
    BY <2>1, <2>4, Divides
  <2>6. d \in S
    BY <2>1, <2>5 DEF S
  <2> QED BY <1>2, <2>1, <2>6
<1>5. Prime(p)
  BY <1>3, <1>4 DEF Prime
<1> QED BY <1>3, <1>5

\* What has no divisor passes the model's test for primes.
LEMMA PrimeTested ==
  ASSUME NEW p, Prime(p)
  PROVE  IsPrime(p)
<1>1. p \in Nat /\ p > 1 /\ \A d \in 2 .. (p - 1) : p % d # 0
  BY DEF Prime
<1> DEFINE r == SquareRoot(p)
<1>2. r \in 0 .. p /\ r * r <= p
  BY <1>1, SquareRoots
<1> HIDE DEF r
<1>3. r <= p - 1
  <2> SUFFICES ASSUME r = p PROVE FALSE
    BY <1>1, <1>2
  <2>1. p * p <= p
    BY <1>2
  <2>2. p * (p - 1) >= p - 1
    BY <1>1
  <2>3. p * p = p * (p - 1) + p
    BY <1>1
  <2> QED BY <1>1, <2>1, <2>2, <2>3
<1>4. \A d \in 2 .. r : p % d # 0
  BY <1>1, <1>2, <1>3
<1> QED BY <1>1, <1>4 DEF IsPrime, r

\* Where four multiples of every member of a set are all apart modulo n, the
\* set has at most a fourth of n members.
LEMMA FourCopies ==
  ASSUME NEW n \in Nat \ {0}, NEW L, IsFiniteSet(L), L \subseteq Int, NEW T \in [0 .. 3 -> Int],
         \A x \in L, y \in L, i \in 0 .. 3, j \in 0 .. 3 :
           Cong(x * T[i], y * T[j], n) => x = y /\ i = j
  PROVE  4 * Cardinality(L) <= n
<1> DEFINE D == L \X (0 .. 3)
           f == [z \in D |-> (z[1] * T[z[2]]) % n]
<1>1. \A z \in D : z[1] * T[z[2]] \in Int
  <2> SUFFICES ASSUME NEW z \in D PROVE z[1] * T[z[2]] \in Int
    OBVIOUS
  <2> DEFINE x == z[1]
             y == T[z[2]]
  <2>1. x \in Int /\ y \in Int
    OBVIOUS
  <2> HIDE DEF x, y
  <2>2. x * y \in Int
    BY <2>1
  <2> QED BY <2>2 DEF x, y
<1>2. f \in [D -> 0 .. (n - 1)]
  <2> SUFFICES ASSUME NEW z \in D PROVE (z[1] * T[z[2]]) % n \in 0 .. (n - 1)
    OBVIOUS
  <2> DEFINE v == z[1] * T[z[2]]
  <2>1. v \in Int
    BY <1>1
  <2> HIDE DEF v
  <2>2. v % n \in 0 .. (n - 1)
    BY <2>1, CongMod
  <2> QED BY <2>2 DEF v
<1>3. ASSUME NEW z \in D, NEW w \in D, f[z] = f[w] PROVE z = w
  <2> DEFINE v == z[1] * T[z[2]]
             u == w[1] * T[w[2]]
  <2>1. v \in Int /\ u \in Int /\ v % n = u % n
    BY <1>1, <1>3
  <2> HIDE DEF v, u
  <2>2. Cong(v, u, n)
    BY <2>1, CongSame
  <2>3. z[1] \in L /\ z[2] \in 0 .. 3 /\ w[1] \in L /\ w[2] \in 0 .. 3
    OBVIOUS
  <2>4. Cong(z[1] * T[z[2]], w[1] * T[w[2]], n)
    BY <2>2 DEF v, u
  <2> DEFINE a == z[1]
             c == w[1]
             i == z[2]
             j == w[2]
  <2>5. a \in L /\ c \in L /\ i \in 0 .. 3 /\ j \in 0 .. 3 /\ Cong(a * T[i], c * T[j], n)
    BY <2>3, <2>4
  <2>6. z = <<a, i>> /\ w = <<c, j>>
    OBVIOUS
  <2> HIDE DEF a, c, i, j
  <2>7. a = c /\ i = j
    BY <2>5
  <2> QED BY <2>6, <2>7
<1>4. f \in Injection(D, 0 .. (n - 1))
  BY <1>2, <1>3 DEF Injection, IsInjective
<1> HIDE DEF f
<1>5. IsFiniteSet(0 .. (n - 1)) /\ Cardinality(0 .. (n - 1)) = n
  <2>1. 0 \in Int /\ n - 1 \in Int /\ n - 1 >= 0
    OBVIOUS
  <2> QED BY <2>1, FS_Interval
<1>6. Cardinality(D) <= n
  BY <1>4, <1>5, FS_Injection
<1>7. IsFiniteSet(0 .. 3) /\ Cardinality(0 .. 3) = 4
  <2>1. 0 \in Int /\ 3 \in Int /\ ~(0 > 3) /\ (3 - 0) + 1 = 4
    OBVIOUS
  <2> QED BY <2>1, FS_Interval
<1>8. Cardinality(D) = Cardinality(L) * 4
  BY <1>7, FS_Product
<1>9. Cardinality(L) \in Nat
  BY FS_CardinalityType
<1> QED BY <1>6, <1>8, <1>9

\* Numbers that a prime p does not tell apart have p-th powers that its square
\* does not tell apart.
LEMMA SquareLift ==
  ASSUME NEW p \in Nat \ {0}, NEW x \in Int, NEW y \in Int, Cong(x, y, p)
  PROVE  Cong(Power(x)[p], Power(y)[p], p * p)
<1>1. PICK k \in Int : x = y + p * k
  BY DEF Cong
<1> DEFINE t == p * k
           P == Power(x)
           Q == Power(y)
           S == {i \in Nat : \E z \in Int :
                   P[i + 1] = (Q[i + 1] + ((i + 1) * t) * Q[i]) + (t * t) * z}
<1>2. t \in Int /\ x = y + t /\ p \in Int
  BY <1>1
<1>3. /\ P \in [Nat -> Int] /\ P[0] = 1 /\ P[1] = x /\ \A i \in Nat : P[i + 1] = x * P[i]
      /\ Q \in [Nat -> Int] /\ Q[0] = 1 /\ Q[1] = y /\ \A i \in Nat : Q[i + 1] = y * Q[i]
  BY Powers
<1> HIDE DEF t, P, Q
<1>4. 0 \in S
  <2>1. P[1] = (Q[1] + (1 * t) * Q[0]) + (t * t) * 0
    BY <1>2, <1>3
  <2>2. 0 \in Int /\ 0 + 1 = 1
    OBVIOUS
  <2> QED BY <2>1, <2>2
<1>5. ASSUME NEW i \in Nat, i \in S PROVE i + 1 \in S
  <2>1. PICK z \in Int : P[i + 1] = (Q[i + 1] + ((i + 1) * t) * Q[i]) + (t * t) * z
    BY <1>5
  <2> DEFINE j == i + 1
             u == Q[i]
             v == Q[j]
             w == (j * u) + (x * z)
  <2>2. j \in Nat /\ u \in Int /\ v \in Int /\ v = y * u /\ P[j + 1] = x * P[j] /\ Q[j + 1] = y * v
    BY <1>3
  <2>3. P[j] = (v + (j * t) * u) + (t * t) * z
    BY <2>1
  <2>4. w \in Int
    BY <1>2, <2>2
  <2>5. P[j + 1] = (Q[j + 1] + ((j + 1) * t) * v) + (t * t) * w
    <3> HIDE DEF j, u, v
    <3>1. x * ((v + (j * t) * u) + (t * t) * z)
            = ((x * v) + (j * t) * (x * u)) + (t * t) * (x * z)
      BY <1>2, <2>2
    <3>2. x * v = y * v + t * v /\ x * u = v + t * u
      BY <1>2, <2>2
    <3> DEFINE xu == x * u
               xz == x * z
    <3>3. (j * t) * (v + t * u) = (j * t) * v + (t * t) * (j * u)
      BY <1>2, <2>2
    <3>4. (t * t) * (j * u) + (t * t) * (x * z) = (t * t) * w
      BY <1>2, <2>2
    <3>5. ((j + 1) * t) * v = (j * t) * v + t * v
      BY <1>2, <2>2
    <3> QED BY <1>2, <2>2, <2>3, <3>1, <3>2, <3>3, <3>4, <3>5
  <2>6. \E zz \in Int :
          P[(i + 1) + 1] = (Q[(i + 1) + 1] + (((i + 1) + 1) * t) * Q[i + 1]) + (t * t) * zz
    BY <2>4, <2>5
  <2> QED BY <2>6
<1> HIDE DEF S
<1>6. p - 1 \in S /\ p - 1 \in Nat
  BY <1>4, <1>5, Induction
<1>7. PICK z \in Int :
        P[(p - 1) + 1] = (Q[(p - 1) + 1] + (((p - 1) + 1) * t) * Q[p - 1]) + (t * t) * z
  BY <1>6 DEF S
<1>8. (p - 1) + 1 = p
  OBVIOUS
<1> DEFINE r == Q[p - 1]
<1>9. r \in Int /\ P[p] \in Int /\ Q[p] \in Int
  BY <1>3, <1>6
<1>10. P[p] = (Q[p] + (p * t) * r) + (t * t) * z
  BY <1>7, <1>8
<1> HIDE DEF r
<1>11. (p * t) * r = (p * p) * (k * r) /\ (t * t) * z = (p * p) * ((k * k) * z)
  BY <1>9 DEF t
<1>12. (p * p) * (k * r) + (p * p) * ((k * k) * z) = (p * p) * (k * r + (k * k) * z)
       /\ k * r + (k * k) * z \in Int
  BY <1>9
<1>13. P[p] = Q[p] + (p * p) * (k * r + (k * k) * z)
  <2> DEFINE A == (p * p) * (k * r)
             B == (p * p) * ((k * k) * z)
  <2>1. A \in Int /\ B \in Int
    BY <1>9
  <2>2. P[p] = (Q[p] + A) + B
    BY <1>10, <1>11
  <2> HIDE DEF A, B
  <2>3. P[p] = Q[p] + (A + B)
    BY <1>9, <2>1, <2>2
  <2> QED BY <1>12, <2>3 DEF A, B
<1> QED BY <1>12, <1>13 DEF Cong, P, Q

\* A sign that a power has modulo n.
SignOf(x, k, s, n) == s \in Signs /\ Cong(Power(x)[k], s, n)

\* Two such powers, modulo a multiple n of the square of a prime: bases that
\* the prime does not tell apart its square does not either.
LEMMA SameBySquare ==
  ASSUME NEW p, Prime(p), p > 2, NEW m \in Nat, NEW n \in Nat \ {0}, n = (p * p) * m,
         NEW x \in Int, NEW y \in Int, NEW s, NEW t,
         SignOf(x, n - 1, s, n), SignOf(y, n - 1, t, n), Cong(x, y, p)
  PROVE  Cong(x, y, p * p)
<1> DEFINE q == p * p
           e == n - 1
           u == Power(x)[e]
           v == Power(y)[e]
<1>1. p \in Nat \ {0} /\ p \in Int /\ q \in Int /\ n \in Int /\ m \in Int /\ e \in Nat /\ e + 1 = n
  BY DEF Prime
<1>2. s \in Signs /\ t \in Signs /\ s \in Int /\ t \in Int
  BY DEF SignOf, Signs
<1>3. u \in Int /\ v \in Int
  BY <1>1, Powers
<1>4. Cong(u, s, n) /\ Cong(v, t, n)
  BY DEF SignOf
<1>5. Cong(u, s, q) /\ Cong(v, t, q)
  <2> HIDE DEF q, u, v
  <2>1. n = q * m
    BY DEF q
  <2> QED BY <1>1, <1>2, <1>3, <1>4, <2>1, CongFactor
<1>6. s = t
  <2>1. Cong(u, s, p) /\ Cong(v, t, p)
    <3> HIDE DEF u, v
    <3> QED BY <1>1, <1>2, <1>3, <1>5, CongFactor
  <2>2. Cong(u, v, p)
    BY <1>1, PowerCong
  <2> HIDE DEF u, v
  <2>3. Cong(s, u, p)
    BY <1>1, <1>2, <1>3, <2>1, CongSym
  <2>4. Cong(s, v, p)
    BY <1>1, <1>2, <1>3, <2>2, <2>3, CongTrans
  <2>5. Cong(s, t, p)
    BY <1>1, <1>2, <1>3, <2>1, <2>4, CongTrans
  <2> QED BY <1>1, <1>2, <2>5, SignsApart
<1>7. Cong(x * u, y * v, q)
  <2> DEFINE a == Power(x)[p]
             c == Power(y)[p]
             k == p * m
  <2>1. k \in Nat /\ p * k = n
    BY <1>1
  <2>2. a \in Int /\ c \in Int /\ Cong(a, c, q)
    BY <1>1, Powers, SquareLift
  <2>3. Power(a)[k] = Power(x)[p * k] /\ Power(c)[k] = Power(y)[p * k]
    BY <1>1, <2>1, PowerPower
  <2> HIDE DEF a, c, k, q
  <2>4. Cong(Power(a)[k], Power(c)[k], q)
    BY <1>1, <2>1, <2>2, PowerCong
  <2>5. Power(x)[e + 1] = x * Power(x)[e] /\ Power(y)[e + 1] = y * Power(y)[e]
    BY <1>1, Powers
  <2> QED BY <1>1, <2>1, <2>3, <2>4, <2>5
<1> HIDE DEF u, v, q
<1> DEFINE a == x * u
           c == y * v
           g == x * s
           h == y * s
<1>8. Cong(a, g, q) /\ Cong(c, h, q)
  <2>1. Cong(x, x, q) /\ Cong(y, y, q)
    BY <1>1, CongSelf
  <2> QED BY <1>1, <1>2, <1>3, <1>5, <1>6, <2>1, CongMul
<1>9. a \in Int /\ c \in Int /\ g \in Int /\ h \in Int /\ Cong(a, c, q)
  BY <1>2, <1>3, <1>7
<1>10. Cong(g, h, q)
  <2> HIDE DEF a, c, g, h
  <2>1. Cong(g, a, q)
    BY <1>1, <1>8, <1>9, CongSym
  <2>2. Cong(g, c, q)
    BY <1>1, <1>9, <2>1, CongTrans
  <2> QED BY <1>1, <1>8, <1>9, <2>2, CongTrans
<1>11. Cong(x, y, q)
  <2>1. Power(s)[1] = s
    BY <1>2, Powers
  <2>2. Cong(Power(s)[1], s, q)
    BY <1>1, <1>2, <2>1, CongSelf
  <2>3. 1 \in Nat \ {0}
    OBVIOUS
  <2> QED BY <1>1, <1>2, <1>10, <2>2, <2>3, CancelSign
<1> QED BY <1>11 DEF q

\* So a composite with a square in it has few of them.
LEMMA SquareFactor ==
  ASSUME NEW p, Prime(p), p > 2, NEW m \in Nat \ {0}, NEW n \in Nat, n = (p * p) * m,
         NEW L, IsFiniteSet(L), L \subseteq 1 .. (n - 1),
         \A x \in L : \E s : SignOf(x, n - 1, s, n)
  PROVE  4 * Cardinality(L) <= n - 1
<1> DEFINE q == p * p
           D == (0 .. (m - 1)) \X (1 .. (p - 1))
           f == [x \in L |-> <<x \div q, x % p>>]
<1>1. p \in Nat \ {0} /\ p \in Int /\ q \in Nat \ {0} /\ q \in Int /\ n = q * m /\ n \in Nat \ {0}
  BY DEF Prime
<1>2. ASSUME NEW x \in L PROVE x \div q \in 0 .. (m - 1) /\ x % p \in 1 .. (p - 1)
  <2> HIDE DEF q
  <2>1. x \in Int /\ x >= 1 /\ x < n
    BY <1>1
  <2> DEFINE d == x \div q
             r == x % q
  <2>2. d \in Int /\ r \in 0 .. (q - 1) /\ x = q * d + r
    BY <1>1, <2>1, Divided
  <2> HIDE DEF d, r
  <2>3. d >= 0
    <3> SUFFICES ASSUME d <= -1 PROVE FALSE
      BY <2>2
    <3>1. q * ((-d) - 1) >= 0
      BY <1>1, <2>2
    <3>2. q * d <= -q
      BY <1>1, <2>2, <3>1
    <3> QED BY <1>1, <2>1, <2>2, <3>2
  <2>4. d < m
    <3> SUFFICES ASSUME d >= m PROVE FALSE
      BY <2>2
    <3>1. q * (d - m) >= 0
      BY <1>1, <2>2
    <3>2. q * d >= n
      BY <1>1, <2>2, <3>1
    <3> QED BY <1>1, <2>1, <2>2, <3>2
  <2>5. x % p # 0
    <3> SUFFICES ASSUME x % p = 0 PROVE FALSE
      OBVIOUS
    <3>1. PICK s : SignOf(x, n - 1, s, n)
      OBVIOUS
    <3> DEFINE e == n - 1
               y == Power(x)[e - 1]
    <3>2. e - 1 \in Nat /\ (e - 1) + 1 = e /\ e \in Nat
      <4>1. p * p >= 9
        BY <1>1
      <4>2. q >= 9
        BY <4>1 DEF q
      <4>3. q * (m - 1) >= 0
        BY <1>1
      <4>4. n >= 9
        BY <1>1, <4>2, <4>3
      <4> QED BY <4>4
    <3>3. y \in Int /\ Power(x)[e] = x * y
      <4> DEFINE h == e - 1
      <4>1. h \in Nat /\ h + 1 = e
        BY <3>2
      <4> HIDE DEF h, e
      <4>2. Power(x)[h + 1] = x * Power(x)[h] /\ Power(x)[h] \in Int
        BY <2>1, <4>1, Powers
      <4> QED BY <4>1, <4>2 DEF h
    <3> HIDE DEF e, y
    <3>4. s \in Signs /\ s \in Int /\ Cong(x * y, s, n)
      BY <3>1, <3>3 DEF SignOf, Signs, e
    <3>5. n = p * (p * m) /\ p * m \in Int /\ x * y \in Int
      BY <1>1, <2>1, <3>3
    <3>6. Cong(x * y, s, p)
      <4> DEFINE z == x * y
                 k == p * m
      <4>1. z \in Int /\ k \in Int /\ Cong(z, s, p * k)
        BY <3>4, <3>5
      <4> HIDE DEF z, k
      <4>2. Cong(z, s, p)
        BY <1>1, <3>4, <4>1, CongFactor
      <4> QED BY <4>2 DEF z
    <3>7. PICK i \in Int : x = p * i
      BY <1>1, <2>1, Divides
    <3>8. PICK j \in Int : x * y = s + p * j
      BY <3>6 DEF Cong
    <3>9. s = p * (i * y - j) /\ i * y - j \in Int
      BY <1>1, <3>3, <3>4, <3>7, <3>8
    <3>10. PICK k \in Int : s = p * k
      BY <3>9
    <3>11. Cong(s, 0, p)
      <4>1. s = 0 + p * k
        BY <1>1, <3>10
      <4> QED BY <4>1 DEF Cong
    <3>12. Cong(s + s, 0, p)
      <4>1. s + s = 0 + p * (k + k)
        BY <1>1, <3>10
      <4> QED BY <4>1 DEF Cong
    <3>13. Cong(s, -s, p)
      <4>1. s = (-s) + p * (k + k)
        BY <1>1, <3>4, <3>10
      <4> QED BY <4>1 DEF Cong
    <3>14. -s \in Signs /\ -s # s
      BY <3>4 DEF Signs
    <3> QED BY <1>1, <3>4, <3>13, <3>14, SignsApart
  <2>6. x % p \in 0 .. (p - 1)
    BY <1>1, <2>1, CongMod
  <2> QED BY <2>2, <2>3, <2>4, <2>5, <2>6 DEF d
<1>3. f \in [L -> D]
  BY <1>2
<1>4. ASSUME NEW x \in L, NEW y \in L, f[x] = f[y] PROVE x = y
  <2>1. x \div q = y \div q /\ x % p = y % p
    BY <1>4
  <2>2. x \in Int /\ y \in Int
    BY <1>1
  <2>3. Cong(x, y, p)
    BY <1>1, <2>1, <2>2, CongSame
  <2>4. \E s, t : SignOf(x, n - 1, s, n) /\ SignOf(y, n - 1, t, n)
    OBVIOUS
  <2>5. Cong(x, y, q)
    BY <1>1, <2>2, <2>3, <2>4, SameBySquare
  <2> HIDE DEF q
  <2>6. x % q = y % q
    BY <1>1, <2>2, <2>5, CongSame
  <2> DEFINE d == x \div q
             r == x % q
             c == y \div q
             g == y % q
  <2>7. x = q * d + r /\ y = q * c + g /\ d = c /\ r = g
    BY <1>1, <2>1, <2>2, <2>6, Divided
  <2> HIDE DEF d, r, c, g
  <2> QED BY <2>7
<1>5. f \in Injection(L, D)
  BY <1>3, <1>4 DEF Injection, IsInjective
<1> HIDE DEF f
<1>6. IsFiniteSet(0 .. (m - 1)) /\ Cardinality(0 .. (m - 1)) = m
  <2> DEFINE k == m - 1
  <2>1. 0 \in Int /\ k \in Int /\ ~(0 > k) /\ (k - 0) + 1 = m
    OBVIOUS
  <2> HIDE DEF k
  <2>2. IsFiniteSet(0 .. k) /\ Cardinality(0 .. k) = m
    BY <2>1, FS_Interval
  <2> QED BY <2>2 DEF k
<1>7. IsFiniteSet(1 .. (p - 1)) /\ Cardinality(1 .. (p - 1)) = p - 1
  <2>1. 1 \in Int /\ p - 1 \in Int /\ p - 1 >= 1
    BY <1>1
  <2> QED BY <2>1, FS_Interval
<1>8. IsFiniteSet(D) /\ Cardinality(D) = m * (p - 1)
  <2> DEFINE S == 0 .. (m - 1)
             T == 1 .. (p - 1)
  <2>1. IsFiniteSet(S) /\ Cardinality(S) = m /\ IsFiniteSet(T) /\ Cardinality(T) = p - 1
        /\ D = S \X T
    BY <1>6, <1>7
  <2> HIDE DEF D, S, T
  <2>2. IsFiniteSet(S \X T) /\ Cardinality(S \X T) = Cardinality(S) * Cardinality(T)
    BY <2>1, FS_Product, Zenon
  <2> QED BY <2>1, <2>2
<1>9. Cardinality(L) <= m * (p - 1)
  BY <1>5, <1>8, FS_Injection
<1>10. 4 * (m * (p - 1)) <= n - 1
  <2>1. (p - 1) * (p - 3) >= 0
    BY <1>1
  <2>2. p * p - 1 >= 4 * (p - 1)
    BY <1>1, <2>1
  <2> DEFINE z == p * p - 1
             w == 4 * (p - 1)
  <2>3. z \in Int /\ w \in Int /\ z >= w
    BY <1>1, <2>2
  <2>4. n = m * z + m /\ 4 * (m * (p - 1)) = m * w
    BY <1>1
  <2> HIDE DEF z, w
  <2>5. m * (z - w) >= 0
    BY <2>3
  <2>6. m * z >= m * w
    BY <2>3, <2>5
  <2>7. m * z \in Int /\ m * w \in Int /\ m >= 1
    BY <2>3
  <2> QED BY <2>4, <2>6, <2>7
<1>11. Cardinality(L) \in Nat /\ m * (p - 1) \in Int
  BY <1>1, FS_CardinalityType
<1> QED BY <1>1, <1>9, <1>10, <1>11

\* Signs of powers, of products, modulo a factor, and of numbers alike.
LEMMA SignOfMul ==
  ASSUME NEW n \in Int, NEW k \in Nat, NEW x \in Int, NEW y \in Int, NEW s, NEW t,
         SignOf(x, k, s, n), SignOf(y, k, t, n)
  PROVE  SignOf(x * y, k, s * t, n)
<1>1. s \in Signs /\ t \in Signs /\ s \in Int /\ t \in Int
  BY DEF SignOf, Signs
<1>2. s * t \in Signs
  BY <1>1 DEF Signs
<1> DEFINE u == Power(x)[k]
           v == Power(y)[k]
<1>3. u \in Int /\ v \in Int
  BY Powers
<1>4. Power(x * y)[k] = u * v
  BY PowerMul
<1>5. Cong(u, s, n) /\ Cong(v, t, n)
  BY DEF SignOf
<1> HIDE DEF u, v
<1>6. Cong(u * v, s * t, n)
  BY <1>1, <1>3, <1>5, CongMul
<1> QED BY <1>2, <1>4, <1>6 DEF SignOf

\* A sign modulo a product is one modulo each factor.
LEMMA SignOfPart ==
  ASSUME NEW m \in Int, NEW q \in Int, NEW n, n = m * q, NEW k \in Nat, NEW x \in Int, NEW s,
         SignOf(x, k, s, n)
  PROVE  SignOf(x, k, s, m) /\ SignOf(x, k, s, q)
<1>1. s \in Signs /\ s \in Int /\ Power(x)[k] \in Int
  BY Powers DEF SignOf, Signs
<1>2. Cong(Power(x)[k], s, m * q)
  BY DEF SignOf
<1> DEFINE u == Power(x)[k]
<1>3. u \in Int /\ Cong(u, s, m * q)
  BY <1>1, <1>2
<1> HIDE DEF u
<1>4. Cong(u, s, m) /\ Cong(u, s, q)
  BY <1>1, <1>3, CongFactor
<1> QED BY <1>1, <1>4 DEF SignOf, u

\* Numbers that are alike have the same sign.
LEMMA SignOfLike ==
  ASSUME NEW n \in Int, NEW k \in Nat, NEW x \in Int, NEW y \in Int, NEW s,
         Cong(x, y, n), SignOf(y, k, s, n)
  PROVE  SignOf(x, k, s, n)
<1>0. Power(x)[k] \in Int /\ Power(y)[k] \in Int
  BY Powers
<1>1. s \in Signs /\ s \in Int /\ Power(x)[k] \in Int /\ Power(y)[k] \in Int
  BY <1>0 DEF SignOf, Signs
<1>2. Cong(Power(y)[k], s, n)
  BY DEF SignOf
<1>3. Cong(Power(x)[k], Power(y)[k], n)
  BY PowerCong
<1> DEFINE u == Power(x)[k]
           v == Power(y)[k]
<1>4. u \in Int /\ v \in Int /\ Cong(u, v, n) /\ Cong(v, s, n)
  BY <1>1, <1>2, <1>3
<1> HIDE DEF u, v
<1>5. Cong(u, s, n)
  BY <1>1, <1>4, CongTrans
<1> QED BY <1>1, <1>5 DEF SignOf, u

\* Numbers that are alike have one sign.
LEMMA SignOfOnce ==
  ASSUME NEW n \in Nat, n > 2, NEW k \in Nat, NEW x \in Int, NEW y \in Int, NEW s, NEW t,
         Cong(x, y, n), SignOf(x, k, s, n), SignOf(y, k, t, n)
  PROVE  s = t
<1>1. SignOf(x, k, t, n) /\ n \in Int
  BY SignOfLike
<1>2. s \in Signs /\ t \in Signs /\ s \in Int /\ t \in Int /\ Power(x)[k] \in Int
  BY Powers DEF SignOf, Signs
<1>3. Cong(Power(x)[k], s, n) /\ Cong(Power(x)[k], t, n)
  BY <1>1 DEF SignOf
<1> DEFINE u == Power(x)[k]
<1>4. u \in Int /\ Cong(u, s, n) /\ Cong(u, t, n)
  BY <1>2, <1>3
<1> HIDE DEF u
<1>5. Cong(s, u, n)
  BY <1>1, <1>2, <1>4, CongSym
<1>6. Cong(s, t, n)
  BY <1>1, <1>2, <1>4, <1>5, CongTrans
<1> QED BY <1>2, <1>6, SignsApart

\* The powers of 1.
LEMMA SignOfOne ==
  ASSUME NEW n \in Int, NEW k \in Nat, NEW x \in Int, Cong(x, 1, n)
  PROVE  SignOf(x, k, 1, n)
<1>1. SignOf(1, k, 1, n)
  <2>1. Power(1)[k] = 1 /\ 1 \in Int
    BY PowerOne
  <2>2. Cong(1, 1, n)
    BY CongSelf
  <2> QED BY <2>1, <2>2 DEF SignOf, Signs
<1>2. 1 \in Int
  OBVIOUS
<1> QED BY <1>1, <1>2, SignOfLike

\* Numbers below a product are the same if neither part tells them apart.
LEMMA SameBelow ==
  ASSUME NEW a, Prime(a), NEW r \in Nat \ {0}, r % a # 0, NEW n, n = a * r,
         NEW x \in 0 .. (n - 1), NEW y \in 0 .. (n - 1), Cong(x, y, a), Cong(x, y, r)
  PROVE  x = y
<1>1. n \in Nat \ {0} /\ r \in Int
  BY DEF Prime
<1>2. x \in Int /\ y \in Int
  OBVIOUS
<1>3. Cong(x, y, a * r)
  BY <1>1, <1>2, CongTogether
<1> QED BY <1>1, <1>3, CongSmall

\* Where the powers of the members of a set have the same sign modulo three
\* parts of n, and some power is -1, the set has few members: multiplying them
\* turns the sign modulo one part, modulo another, or modulo both.
LEMMA ThreeParts ==
  ASSUME NEW a, Prime(a), a > 2, NEW c, Prime(c), c > 2, NEW r \in Nat, r > 2,
         c % a # 0, r % a # 0, r % c # 0, a % c # 0,
         NEW n \in Nat, n = a * (c * r), n % 2 = 1,
         NEW k \in Nat \ {0}, NEW z \in Int, SignOf(z, k, -1, n),
         NEW L, IsFiniteSet(L), L \subseteq 1 .. (n - 1),
         \A x \in L : \E s : SignOf(x, k, s, n)
  PROVE  4 * Cardinality(L) <= n - 1
<1>1. a \in Nat \ {0} /\ a \in Int /\ c \in Nat \ {0} /\ c \in Int /\ r \in Nat \ {0} /\ r \in Int
      /\ c * r \in Int /\ a * r \in Int /\ n \in Int
  BY DEF Prime
<1>2. (c * r) % a # 0 /\ (a * r) % c # 0
  BY <1>1, EuclidsLemma
<1>3. n = c * (a * r) /\ n = r * (a * c) /\ a * c \in Int /\ n \in Nat \ {0} /\ c * r \in Nat \ {0}
  BY <1>1
<1>4. PICK t1 \in Int : Cong(t1, z, a) /\ Cong(t1, 1, c * r)
  BY <1>1, <1>2, Remainders
<1>5. PICK t2 \in Int : Cong(t2, z, c) /\ Cong(t2, 1, a * r)
  BY <1>1, <1>2, Remainders
<1>6. SignOf(t1, k, -1, a) /\ SignOf(t1, k, 1, c) /\ SignOf(t1, k, 1, r)
  <2>1. SignOf(z, k, -1, a)
    <3> DEFINE m == c * r
    <3>1. n = a * m /\ m \in Int
      BY <1>1, <1>3
    <3> HIDE DEF m
    <3>2. a \in Int /\ k \in Nat /\ SignOf(z, k, -1, n)
      BY <1>1
    <3> QED BY <3>1, <3>2, SignOfPart
  <2>2. Cong(t1, 1, c) /\ Cong(t1, 1, r)
    <3>1. 1 \in Int
      OBVIOUS
    <3> QED BY <1>1, <1>4, <3>1, CongFactor
  <2> QED BY <1>1, <1>4, <2>1, <2>2, SignOfLike, SignOfOne
<1>7. SignOf(t2, k, 1, a) /\ SignOf(t2, k, -1, c) /\ SignOf(t2, k, 1, r)
  <2>1. SignOf(z, k, -1, c)
    <3> DEFINE m == a * r
    <3>1. n = c * m /\ m \in Int
      BY <1>1, <1>3
    <3> HIDE DEF m
    <3>2. c \in Int /\ k \in Nat /\ SignOf(z, k, -1, n)
      BY <1>1
    <3> QED BY <3>1, <3>2, SignOfPart
  <2>2. Cong(t2, 1, a) /\ Cong(t2, 1, r)
    <3>1. 1 \in Int
      OBVIOUS
    <3> QED BY <1>1, <1>5, <3>1, CongFactor
  <2> QED BY <1>1, <1>5, <2>1, <2>2, SignOfLike, SignOfOne
<1> DEFINE t3 == t1 * t2
<1>8. t3 \in Int /\ SignOf(t3, k, -1, a) /\ SignOf(t3, k, -1, c) /\ SignOf(t3, k, 1, r)
  <2>1. (-1) * 1 = -1 /\ 1 * (-1) = -1 /\ 1 * 1 = 1
    OBVIOUS
  <2>2. SignOf(t3, k, (-1) * 1, a) /\ SignOf(t3, k, 1 * (-1), c) /\ SignOf(t3, k, 1 * 1, r)
    BY <1>1, <1>6, <1>7, SignOfMul
  <2> QED BY <2>1, <2>2
<1> HIDE DEF t3
<1> DEFINE T == [i \in 0 .. 3 |->
                   IF i = 0 THEN 1 ELSE IF i = 1 THEN t1 ELSE IF i = 2 THEN t2 ELSE t3]
           A == [i \in 0 .. 3 |-> IF i \in {1, 3} THEN -1 ELSE 1]
           C == [i \in 0 .. 3 |-> IF i \in {2, 3} THEN -1 ELSE 1]
<1>9. SignOf(1, k, 1, a) /\ SignOf(1, k, 1, c) /\ SignOf(1, k, 1, r)
  <2>1. Cong(1, 1, a) /\ Cong(1, 1, c) /\ Cong(1, 1, r)
    BY <1>1, CongSelf
  <2> QED BY <1>1, <2>1, SignOfOne
<1>10. \A i \in 0 .. 3 : /\ T[i] \in Int
                         /\ SignOf(T[i], k, A[i], a) /\ SignOf(T[i], k, C[i], c)
                         /\ SignOf(T[i], k, 1, r)
  <2> SUFFICES ASSUME NEW i \in 0 .. 3
               PROVE  /\ T[i] \in Int
                      /\ SignOf(T[i], k, A[i], a) /\ SignOf(T[i], k, C[i], c)
                      /\ SignOf(T[i], k, 1, r)
    OBVIOUS
  <2>1. i = 0 \/ i = 1 \/ i = 2 \/ i = 3
    OBVIOUS
  <2>2. CASE i = 0
    BY <1>9, <2>2
  <2>3. CASE i = 1
    BY <1>6, <2>3
  <2>4. CASE i = 2
    BY <1>7, <2>4
  <2>5. CASE i = 3
    BY <1>8, <2>5
  <2> QED BY <2>1, <2>2, <2>3, <2>4, <2>5
<1>11. \A i, j \in 0 .. 3 : A[i] = A[j] /\ C[i] = C[j] => i = j
  OBVIOUS
<1>12. \A i \in 0 .. 3 : A[i] \in Signs /\ C[i] \in Signs
  BY DEF Signs
<1>13. T \in [0 .. 3 -> Int]
  BY <1>10
<1> HIDE DEF T, A, C
<1>14. ASSUME NEW x \in L, NEW y \in L, NEW i \in 0 .. 3, NEW j \in 0 .. 3,
              Cong(x * T[i], y * T[j], n)
       PROVE  x = y /\ i = j
  <2>1. x \in Int /\ y \in Int /\ x \in 0 .. (n - 1) /\ y \in 0 .. (n - 1)
        /\ T[i] \in Int /\ T[j] \in Int
    BY <1>1, <1>10
  <2>2. PICK s : SignOf(x, k, s, n)
    OBVIOUS
  <2>3. PICK t : SignOf(y, k, t, n)
    OBVIOUS
  <2>4. s \in Signs /\ t \in Signs
    BY <2>2, <2>3 DEF SignOf
  <2>5. SignOf(x, k, s, a) /\ SignOf(x, k, s, c) /\ SignOf(x, k, s, r)
    <3>1. SignOf(x, k, s, a)
      <4> DEFINE m == c * r
      <4>1. n = a * m /\ m \in Int
        BY <1>1, <1>3
      <4> HIDE DEF m
      <4>2. a \in Int /\ k \in Nat /\ x \in Int /\ SignOf(x, k, s, n)
        BY <1>1, <2>1, <2>2
      <4> QED BY <4>1, <4>2, SignOfPart
    <3>2. SignOf(x, k, s, c)
      <4> DEFINE m == a * r
      <4>1. n = c * m /\ m \in Int
        BY <1>1, <1>3
      <4> HIDE DEF m
      <4>2. c \in Int /\ k \in Nat /\ x \in Int /\ SignOf(x, k, s, n)
        BY <1>1, <2>1, <2>2
      <4> QED BY <4>1, <4>2, SignOfPart
    <3>3. SignOf(x, k, s, r)
      <4> DEFINE m == a * c
      <4>1. n = r * m /\ m \in Int
        BY <1>1, <1>3
      <4> HIDE DEF m
      <4>2. r \in Int /\ k \in Nat /\ x \in Int /\ SignOf(x, k, s, n)
        BY <1>1, <2>1, <2>2
      <4> QED BY <4>1, <4>2, SignOfPart
    <3> QED BY <3>1, <3>2, <3>3
  <2>6. SignOf(y, k, t, a) /\ SignOf(y, k, t, c) /\ SignOf(y, k, t, r)
    <3>1. SignOf(y, k, t, a)
      <4> DEFINE m == c * r
      <4>1. n = a * m /\ m \in Int
        BY <1>1, <1>3
      <4> HIDE DEF m
      <4>2. a \in Int /\ k \in Nat /\ y \in Int /\ SignOf(y, k, t, n)
        BY <1>1, <2>1, <2>3
      <4> QED BY <4>1, <4>2, SignOfPart
    <3>2. SignOf(y, k, t, c)
      <4> DEFINE m == a * r
      <4>1. n = c * m /\ m \in Int
        BY <1>1, <1>3
      <4> HIDE DEF m
      <4>2. c \in Int /\ k \in Nat /\ y \in Int /\ SignOf(y, k, t, n)
        BY <1>1, <2>1, <2>3
      <4> QED BY <4>1, <4>2, SignOfPart
    <3>3. SignOf(y, k, t, r)
      <4> DEFINE m == a * c
      <4>1. n = r * m /\ m \in Int
        BY <1>1, <1>3
      <4> HIDE DEF m
      <4>2. r \in Int /\ k \in Nat /\ y \in Int /\ SignOf(y, k, t, n)
        BY <1>1, <2>1, <2>3
      <4> QED BY <4>1, <4>2, SignOfPart
    <3> QED BY <3>1, <3>2, <3>3
  <2> DEFINE v == x * T[i]
             w == y * T[j]
  <2>7. /\ SignOf(v, k, s * A[i], a) /\ SignOf(v, k, s * C[i], c) /\ SignOf(v, k, s * 1, r)
        /\ SignOf(w, k, t * A[j], a) /\ SignOf(w, k, t * C[j], c) /\ SignOf(w, k, t * 1, r)
    BY <1>1, <1>10, <2>1, <2>5, <2>6, SignOfMul
  <2>8. v \in Int /\ w \in Int /\ Cong(v, w, n)
    BY <1>14, <2>1
  <2> HIDE DEF v, w
  <2>9. Cong(v, w, a) /\ Cong(v, w, c) /\ Cong(v, w, r)
    <3>1. Cong(v, w, a)
      BY <1>1, <2>8, CongFactor
    <3>2. Cong(v, w, c)
      <4>1. c \in Int /\ a * r \in Int /\ Cong(v, w, c * (a * r))
        BY <1>1, <1>3, <2>8
      <4> QED BY <2>8, <4>1, CongFactor
    <3>3. Cong(v, w, r)
      <4>1. r \in Int /\ a * c \in Int /\ Cong(v, w, r * (a * c))
        BY <1>1, <1>3, <2>8
      <4> QED BY <2>8, <4>1, CongFactor
    <3> QED BY <3>1, <3>2, <3>3
  <2>10. s * A[i] = t * A[j] /\ s * C[i] = t * C[j] /\ s * 1 = t * 1
    <3>1. s * A[i] = t * A[j]
      BY <1>1, <2>7, <2>8, <2>9, SignOfOnce
    <3>2. s * C[i] = t * C[j]
      BY <1>1, <2>7, <2>8, <2>9, SignOfOnce
    <3>3. s * 1 = t * 1
      BY <1>1, <2>7, <2>8, <2>9, SignOfOnce
    <3> QED BY <3>1, <3>2, <3>3
  <2>11. i = j
    <3>1. s = t /\ s # 0
      BY <2>4, <2>10 DEF Signs
    <3>2. A[i] = A[j] /\ C[i] = C[j]
      BY <1>12, <2>4, <2>10, <3>1 DEF Signs
    <3> QED BY <1>11, <3>2
  <2> DEFINE u == T[i]
  <2>12. u \in Int /\ Cong(x * u, y * u, a) /\ Cong(x * u, y * u, c) /\ Cong(x * u, y * u, r)
    BY <2>1, <2>9, <2>11 DEF v, w
  <2>13. /\ A[i] \in Signs /\ Cong(Power(u)[k], A[i], a)
         /\ C[i] \in Signs /\ Cong(Power(u)[k], C[i], c)
         /\ 1 \in Signs /\ Cong(Power(u)[k], 1, r)
    BY <1>10 DEF SignOf
  <2> HIDE DEF u
  <2>14. Cong(x, y, a) /\ Cong(x, y, c) /\ Cong(x, y, r)
    BY <1>1, <2>1, <2>12, <2>13, CancelSign
  <2>15. Cong(x, y, c * r)
    BY <1>1, <2>1, <2>14, CongTogether
  <2>16. x = y
    BY <1>2, <1>3, <2>1, <2>14, <2>15, SameBelow
  <2> QED BY <2>11, <2>16
<1>15. L \subseteq Int
  BY <1>1
<1>16. 4 * Cardinality(L) <= n
  BY <1>3, <1>13, <1>14, <1>15, FourCopies
<1>17. 4 * Cardinality(L) # n
  <2>1. Cardinality(L) \in Nat
    BY FS_CardinalityType
  <2> QED BY <2>1
<1>18. Cardinality(L) \in Nat
  BY FS_CardinalityType
<1> QED BY <1>1, <1>16, <1>17, <1>18

\* The polynomials over the integers with leading coefficient 1, by degree.
Monics(F) ==
  /\ F \in [Nat -> SUBSET [Int -> Int]]
  /\ F[0] = {[x \in Int |-> 1]}
  /\ \A k \in Nat : F[k + 1] = {[x \in Int |-> x * z[1][x] + z[2]] : z \in F[k] \X Int}

\* There are such polynomials.
LEMMA MonicsThere == \E F : Monics(F)
<1> DEFINE T == SUBSET [Int -> Int]
           one == {[x \in Int |-> 1]}
           N(s) == {[x \in Int |-> x * z[1][x] + z[2]] : z \in s \X Int}
           h == [k \in Nat |-> [s \in T |-> N(s)]]
<1>1. one \in T
  OBVIOUS
<1>2. ASSUME NEW s \in T PROVE N(s) \in T
  <2> SUFFICES ASSUME NEW z \in s \X Int PROVE [x \in Int |-> x * z[1][x] + z[2]] \in [Int -> Int]
    OBVIOUS
  <2>1. z[1] \in [Int -> Int] /\ z[2] \in Int
    OBVIOUS
  <2> DEFINE g == z[1]
             c == z[2]
  <2>2. g \in [Int -> Int] /\ c \in Int
    BY <2>1
  <2> HIDE DEF g, c
  <2>3. \A x \in Int : x * g[x] + c \in Int
    BY <2>2
  <2> QED BY <2>3 DEF g, c
<1> HIDE DEF N
<1>3. h \in [Nat -> [T -> T]]
  BY <1>2
<1> HIDE DEF T, one, h
<1>4. PICK f \in [Nat -> T] : \A n \in Nat : Follows(f, one, h, n)
  BY <1>1, <1>3, PrimitiveRecursion
<1>5. f[0] = one
  <2>1. Follows(f, one, h, 0)
    BY <1>4
  <2> QED BY <2>1 DEF Follows
<1>6. ASSUME NEW k \in Nat PROVE f[k + 1] = N(f[k])
  <2>1. Follows(f, one, h, k + 1) /\ k \in 0 .. ((k + 1) - 1)
    BY <1>4
  <2>2. f[k + 1] = h[k][f[k]]
    BY <2>1 DEF Follows
  <2>3. f[k] \in T
    BY <1>4
  <2>4. h[k][f[k]] = N(f[k])
    BY <2>3 DEF h
  <2> QED BY <2>2, <2>4
<1>7. Monics(f)
  BY <1>4, <1>5, <1>6 DEF Monics, T, one, N
<1> QED BY <1>7

\* A member of the next degree.
LEMMA MonicNext ==
  ASSUME NEW F, Monics(F), NEW k \in Nat
  PROVE  /\ \A g \in F[k], c \in Int : [x \in Int |-> x * g[x] + c] \in F[k + 1]
         /\ \A f \in F[k + 1] : \E g \in F[k], c \in Int : f = [x \in Int |-> x * g[x] + c]
         /\ F[k] \subseteq [Int -> Int]
<1>1. F[k + 1] = {[x \in Int |-> x * z[1][x] + z[2]] : z \in F[k] \X Int}
  BY DEF Monics
<1>2. F[k] \subseteq [Int -> Int]
  BY DEF Monics
<1>3. ASSUME NEW g \in F[k], NEW c \in Int PROVE [x \in Int |-> x * g[x] + c] \in F[k + 1]
  <2> DEFINE z == <<g, c>>
  <2>1. z \in F[k] \X Int /\ z[1] = g /\ z[2] = c
    OBVIOUS
  <2>2. [x \in Int |-> x * z[1][x] + z[2]] \in F[k + 1]
    BY <1>1, <2>1
  <2> QED BY <2>1, <2>2
<1>4. ASSUME NEW f \in F[k + 1]
      PROVE  \E g \in F[k], c \in Int : f = [x \in Int |-> x * g[x] + c]
  <2>1. PICK z \in F[k] \X Int : f = [x \in Int |-> x * z[1][x] + z[2]]
    BY <1>1
  <2>2. z[1] \in F[k] /\ z[2] \in Int
    OBVIOUS
  <2> QED BY <2>1, <2>2
<1> QED BY <1>2, <1>3, <1>4

\* The differences of a polynomial have a linear factor.
LEMMA MonicDivides ==
  ASSUME NEW F, Monics(F), NEW k \in Nat
  PROVE  \A f \in F[k + 1], a \in Int :
           \E g \in F[k] : \A x \in Int : f[x] - f[a] = (x - a) * g[x]
<1> DEFINE D(i) == \A f \in F[i + 1], a \in Int :
                     \E g \in F[i] : \A x \in Int : f[x] - f[a] = (x - a) * g[x]
           S == {i \in Nat : D(i)}
<1>1. 0 \in S
  <2> SUFFICES ASSUME NEW f \in F[0 + 1], NEW a \in Int
               PROVE  \E g \in F[0] : \A x \in Int : f[x] - f[a] = (x - a) * g[x]
    OBVIOUS
  <2>0. 0 \in Nat
    OBVIOUS
  <2>1. PICK g \in F[0], c \in Int : f = [x \in Int |-> x * g[x] + c]
    BY <2>0, MonicNext
  <2>2. g = [x \in Int |-> 1]
    BY DEF Monics
  <2>3. \A x \in Int : f[x] = x * 1 + c /\ g[x] = 1
    BY <2>1, <2>2
  <2>4. \A x \in Int : f[x] - f[a] = (x - a) * g[x]
    BY <2>3
  <2> QED BY <2>4
<1>2. ASSUME NEW i \in Nat, D(i) PROVE D(i + 1)
  <2> SUFFICES ASSUME NEW f \in F[(i + 1) + 1], NEW a \in Int
               PROVE  \E g \in F[i + 1] : \A x \in Int : f[x] - f[a] = (x - a) * g[x]
    BY Zenon
  <2>1. PICK g \in F[i + 1], c \in Int : f = [x \in Int |-> x * g[x] + c]
    BY MonicNext
  <2>2. PICK h \in F[i] : \A x \in Int : g[x] - g[a] = (x - a) * h[x]
    BY <1>2
  <2>3. g \in [Int -> Int] /\ h \in [Int -> Int]
    BY MonicNext
  <2> DEFINE b == g[a]
             e == [x \in Int |-> x * h[x] + b]
  <2>4. b \in Int
    BY <2>3
  <2>5. e \in F[i + 1]
    <3>1. \A g1 \in F[i], c1 \in Int : [x \in Int |-> x * g1[x] + c1] \in F[i + 1]
      BY MonicNext
    <3> HIDE DEF b
    <3> QED BY <2>4, <3>1
  <2>6. ASSUME NEW x \in Int PROVE f[x] - f[a] = (x - a) * e[x]
    <3> DEFINE u == g[x]
               v == h[x]
    <3>1. u \in Int /\ v \in Int /\ f[x] = x * u + c /\ f[a] = a * b + c /\ e[x] = x * v + b
          /\ u - b = (x - a) * v
      BY <2>1, <2>2, <2>3
    <3> HIDE DEF u, v, b, e
    <3>2. (x * u + c) - (a * b + c) = x * (u - b) + (x - a) * b
      BY <2>4, <3>1
    <3>3. x * ((x - a) * v) + (x - a) * b = (x - a) * (x * v + b)
      BY <2>4, <3>1
    <3> QED BY <3>1, <3>2, <3>3
  <2> HIDE DEF e
  <2> QED BY <2>5, <2>6
<1>3. \A i \in Nat : i \in S => i + 1 \in S
  <2> HIDE DEF D
  <2> QED BY <1>2
<1> HIDE DEF S
<1>4. k \in S
  BY <1>1, <1>3, Induction
<1> QED BY <1>4 DEF S

\* A polynomial has no more roots modulo a prime than its degree.
LEMMA FewRoots ==
  ASSUME NEW F, Monics(F), NEW q, Prime(q), NEW k \in Nat
  PROVE  \A f \in F[k], R \in SUBSET (0 .. (q - 1)) :
           (\A x \in R : f[x] % q = 0) => Cardinality(R) <= k
<1> DEFINE D(i) == \A f \in F[i], R \in SUBSET (0 .. (q - 1)) :
                     (\A x \in R : f[x] % q = 0) => Cardinality(R) <= i
           S == {i \in Nat : D(i)}
<1>1. q \in Nat /\ q > 1 /\ q \in Nat \ {0}
  BY DEF Prime
<1>2. \A R \in SUBSET (0 .. (q - 1)) : IsFiniteSet(R) /\ Cardinality(R) \in Nat
  <2>1. 0 \in Int /\ q - 1 \in Int
    BY <1>1
  <2>2. IsFiniteSet(0 .. (q - 1))
    BY <2>1, FS_Interval
  <2> QED BY <2>2, FS_Subset, FS_CardinalityType
<1>3. 0 \in S
  <2> SUFFICES ASSUME NEW f \in F[0], NEW R \in SUBSET (0 .. (q - 1)), \A x \in R : f[x] % q = 0
               PROVE  Cardinality(R) <= 0
    OBVIOUS
  <2>1. f = [x \in Int |-> 1]
    BY DEF Monics
  <2>2. 1 % q = 1
    BY <1>1
  <2>3. R = {}
    <3> SUFFICES ASSUME NEW x \in R PROVE FALSE
      OBVIOUS
    <3>1. x \in Int
      OBVIOUS
    <3>2. f[x] = 1
      BY <2>1, <3>1
    <3> QED BY <2>2, <3>2
  <2> QED BY <2>3, FS_EmptySet
<1>4. ASSUME NEW i \in Nat, i \in S PROVE i + 1 \in S
  <2> SUFFICES ASSUME NEW f \in F[i + 1], NEW R \in SUBSET (0 .. (q - 1)),
                      \A x \in R : f[x] % q = 0
               PROVE  Cardinality(R) <= i + 1
    OBVIOUS
  <2>1. CASE R = {}
    BY <2>1, FS_EmptySet
  <2>2. CASE R # {}
    <3>1. PICK a \in R : TRUE
      BY <2>2
    <3>2. a \in Int /\ a \in 0 .. (q - 1)
      OBVIOUS
    <3>3. PICK g \in F[i] : \A x \in Int : f[x] - f[a] = (x - a) * g[x]
      BY <3>2, MonicDivides
    <3>4. f \in [Int -> Int] /\ g \in [Int -> Int]
      <4>1. i + 1 \in Nat
        OBVIOUS
      <4> QED BY <4>1, MonicNext
    <3>5. ASSUME NEW x \in R \ {a} PROVE g[x] % q = 0
      <4> DEFINE u == f[x]
                 v == f[a]
                 w == g[x]
                 y == x - a
      <4>1. x \in Int /\ x \in 0 .. (q - 1) /\ x # a
        OBVIOUS
      <4>2. u \in Int /\ v \in Int /\ w \in Int /\ u - v = y * w /\ u % q = 0 /\ v % q = 0
            /\ y \in Int
        BY <3>2, <3>3, <3>4, <4>1
      <4>3. y % q # 0
        <5> SUFFICES ASSUME y % q = 0 PROVE FALSE
          OBVIOUS
        <5>1. PICK j \in Int : y = q * j
          <6> HIDE DEF y
          <6> QED BY <1>1, <4>2, Divides
        <5>2. x = a + q * j
          BY <1>1, <3>2, <4>1, <5>1
        <5>3. Cong(x, a, q)
          BY <5>2 DEF Cong
        <5> QED BY <1>1, <3>2, <4>1, <5>3, CongSmall
      <4> HIDE DEF u, v, w, y
      <4>4. PICK j \in Int : u = q * j
        BY <1>1, <4>2, Divides
      <4>5. PICK l \in Int : v = q * l
        BY <1>1, <4>2, Divides
      <4>6. y * w = q * (j - l) /\ j - l \in Int
        BY <1>1, <4>2, <4>4, <4>5
      <4>7. (y * w) % q = 0
        <5> DEFINE z == y * w
        <5>1. z \in Int /\ \E d \in Int : z = q * d
          BY <4>2, <4>6
        <5> HIDE DEF z
        <5>2. z % q = 0
          BY <1>1, <5>1, Divides
        <5> QED BY <5>2 DEF z
      <4>8. w % q = 0
        BY <4>2, <4>3, <4>7, EuclidsLemma
      <4> QED BY <4>8 DEF w
    <3>6. R \ {a} \in SUBSET (0 .. (q - 1))
      OBVIOUS
    <3>7. Cardinality(R \ {a}) <= i
      BY <1>4, <3>5, <3>6
    <3>8. Cardinality(R \ {a}) = Cardinality(R) - 1
      BY <1>2, FS_RemoveElement
    <3> QED BY <1>2, <3>7, <3>8
  <2> QED BY <2>1, <2>2
<1> HIDE DEF S
<1>5. k \in S
  BY <1>3, <1>4, Induction
<1> QED BY <1>5 DEF S

\* Below a prime there is a number whose k-th power is not 1, if k is below
\* the prime less one.
LEMMA NotAllRoots ==
  ASSUME NEW q, Prime(q), NEW k \in Nat \ {0}, k < q - 1
  PROVE  \E w \in 1 .. (q - 1) : Power(w)[k] % q # 1
<1> SUFFICES ASSUME \A w \in 1 .. (q - 1) : Power(w)[k] % q = 1 PROVE FALSE
  OBVIOUS
<1>1. q \in Nat /\ q > 1 /\ q \in Nat \ {0} /\ q \in Int
  BY DEF Prime
<1>2. PICK F : Monics(F)
  BY MonicsThere
<1> DEFINE P(i) == [x \in Int |-> Power(x)[i]]
           S == {i \in Nat : P(i) \in F[i]}
<1>3. \A x \in Int, i \in Nat : Power(x)[0] = 1 /\ Power(x)[i] \in Int
                                /\ Power(x)[i + 1] = x * Power(x)[i]
  BY Powers
<1>4. 0 \in S
  <2>1. P(0) = [x \in Int |-> 1]
    BY <1>3
  <2> QED BY <1>2, <2>1 DEF Monics
<1>5. ASSUME NEW i \in Nat, i \in S PROVE i + 1 \in S
  <2> DEFINE g == P(i)
             h == [x \in Int |-> x * g[x] + 0]
  <2>1. g \in F[i]
    BY <1>5
  <2>2. h \in F[i + 1]
    <3> HIDE DEF g
    <3>1. 0 \in Int
      OBVIOUS
    <3> QED BY <1>2, <2>1, <3>1, MonicNext
  <2>3. \A x \in Int : h[x] = Power(x)[i + 1]
    <3> SUFFICES ASSUME NEW x \in Int PROVE x * Power(x)[i] + 0 = Power(x)[i + 1]
      OBVIOUS
    <3> DEFINE u == Power(x)[i]
    <3>1. u \in Int /\ Power(x)[i + 1] = x * u
      BY <1>3
    <3> HIDE DEF u
    <3>2. x * u + 0 = x * u
      BY <3>1
    <3> QED BY <3>1, <3>2 DEF u
  <2>4. h = P(i + 1)
    BY <2>3
  <2> QED BY <2>2, <2>4
<1> HIDE DEF S
<1>6. k - 1 \in Nat /\ k - 1 \in S /\ (k - 1) + 1 = k
  BY <1>4, <1>5, Induction
<1> DEFINE g == P(k - 1)
           f == [x \in Int |-> x * g[x] + (-1)]
<1>7. f \in F[k]
  <2>1. g \in F[k - 1]
    BY <1>6 DEF S
  <2> HIDE DEF g
  <2>2. -1 \in Int
    OBVIOUS
  <2>3. f \in F[(k - 1) + 1]
    BY <1>2, <1>6, <2>1, <2>2, MonicNext
  <2> QED BY <1>6, <2>3
<1>8. ASSUME NEW x \in 1 .. (q - 1) PROVE f[x] % q = 0
  <2> DEFINE u == Power(x)[k]
             v == Power(x)[k - 1]
  <2>1. x \in Int /\ u % q = 1
    OBVIOUS
  <2>2. u \in Int /\ v \in Int /\ u = x * v
    <3>1. Power(x)[(k - 1) + 1] = x * Power(x)[k - 1]
      BY <1>3, <1>6, <2>1
    <3> QED BY <1>3, <1>6, <2>1, <3>1
  <2>3. f[x] = x * v + (-1)
    BY <2>1
  <2> HIDE DEF u, v
  <2>4. u \in Int /\ f[x] = u + (-1)
    BY <2>2, <2>3
  <2> HIDE DEF f
  <2>5. Cong(u, u % q, q)
    BY <1>1, <2>4, CongMod
  <2>6. PICK j \in Int : u = 1 + q * j
    BY <2>1, <2>5 DEF Cong
  <2>7. f[x] = q * j /\ f[x] \in Int
    BY <1>1, <2>4, <2>6
  <2> DEFINE y == f[x]
  <2>8. y = q * j /\ y \in Int
    BY <2>7
  <2> HIDE DEF y
  <2>9. y % q = 0
    BY <1>1, <2>8, Divides
  <2> QED BY <2>9 DEF y
<1> HIDE DEF f
<1>9. Cardinality(1 .. (q - 1)) <= k
  <2>1. 1 .. (q - 1) \in SUBSET (0 .. (q - 1))
    OBVIOUS
  <2> QED BY <1>2, <1>7, <1>8, <2>1, FewRoots
<1>10. Cardinality(1 .. (q - 1)) = q - 1
  <2> DEFINE d == q - 1
  <2>1. 1 \in Int /\ d \in Int /\ ~(1 > d) /\ (d - 1) + 1 = d
    BY <1>1
  <2> HIDE DEF d
  <2>2. Cardinality(1 .. d) = d
    BY <2>1, FS_Interval
  <2> QED BY <2>2 DEF d
<1> QED BY <1>1, <1>9, <1>10

\* Where the powers of two factors are 1, those of the others are alike.
LEMMA OtherPowers ==
  ASSUME NEW c \in Nat, c > 2, NEW k \in Nat,
         NEW x \in Int, NEW y \in Int, NEW v \in Int, NEW w \in Int,
         Cong(x * v, y * w, c), SignOf(x, k, 1, c), SignOf(y, k, 1, c)
  PROVE  Cong(Power(v)[k], Power(w)[k], c)
<1> DEFINE X == Power(x)[k]
           Y == Power(y)[k]
           V == Power(v)[k]
           W == Power(w)[k]
<1>0. c \in Int /\ x * v \in Int /\ y * w \in Int /\ 1 \in Int
  OBVIOUS
<1>1. X \in Int /\ Y \in Int
  BY Powers
<1>2. V \in Int /\ W \in Int
  BY Powers
<1>3. Power(x * v)[k] = X * V /\ Power(y * w)[k] = Y * W
  BY PowerMul
<1>4. Cong(Power(x * v)[k], Power(y * w)[k], c)
  BY <1>0, PowerCong
<1>5. Cong(X, 1, c) /\ Cong(Y, 1, c)
  BY DEF SignOf
<1>6. Cong(X * V, Y * W, c)
  BY <1>3, <1>4
<1> HIDE DEF X, Y, V, W
<1>7. Cong(X * V, 1 * V, c) /\ Cong(Y * W, 1 * W, c)
  <2>1. Cong(V, V, c) /\ Cong(W, W, c)
    BY <1>0, <1>2, CongSelf
  <2> QED BY <1>0, <1>1, <1>2, <1>5, <2>1, CongMul
<1> DEFINE g == X * V
           h == Y * W
<1>8. g \in Int /\ h \in Int /\ Cong(g, h, c) /\ Cong(g, V, c) /\ Cong(h, W, c)
  <2>1. 1 * V = V /\ 1 * W = W
    BY <1>2
  <2> QED BY <1>1, <1>2, <1>6, <1>7, <2>1
<1> HIDE DEF g, h
<1>9. Cong(V, g, c)
  BY <1>0, <1>2, <1>8, CongSym
<1>10. Cong(V, h, c)
  BY <1>0, <1>2, <1>8, <1>9, CongTrans
<1>11. Cong(V, W, c)
  BY <1>0, <1>2, <1>8, <1>10, CongTrans
<1> QED BY <1>11 DEF V, W

\* Below the larger of two primes there is a number whose power to their
\* product less one is not 1.
LEMMA NotAllPass ==
  ASSUME NEW a, Prime(a), a > 2, NEW c, Prime(c), a < c
  PROVE  \E w \in 1 .. (c - 1) : w % c # 0 /\ ~Cong(Power(w)[a * c - 1], 1, c)
<1>1. a \in Nat \ {0} /\ a \in Int /\ c \in Nat \ {0} /\ c \in Int /\ c > 2
  BY DEF Prime
<1> DEFINE k == a - 1
           d == c - 1
<1>2. k \in Nat \ {0} /\ k < d /\ d \in Nat /\ a * c - 1 = k + d * a /\ d * a \in Nat
  BY <1>1
<1>3. PICK w \in 1 .. (c - 1) : Power(w)[k] % c # 1
  BY <1>1, <1>2, NotAllRoots
<1>4. w \in Int /\ w % c # 0
  <2>1. w \in 0 .. (c - 1) /\ w # 0
    OBVIOUS
  <2> QED BY <1>1, <2>1, SmallMod
<1> DEFINE u == Power(w)[k]
           v == Power(w)[d]
           x == Power(v)[a]
<1>5. Cong(v, 1, c)
  BY <1>4, Fermat
<1> HIDE DEF k, d
<1>6. u \in Int /\ v \in Int
  BY <1>2, <1>4, Powers
<1>7. x = Power(w)[d * a]
  BY <1>1, <1>2, <1>4, PowerPower
<1>8. Power(w)[k + d * a] = u * x
  <2> DEFINE m == d * a
  <2>1. m \in Nat /\ k \in Nat /\ x = Power(w)[m]
    BY <1>2, <1>7
  <2> HIDE DEF m, x
  <2>2. Power(w)[k + m] = Power(w)[k] * Power(w)[m]
    BY <1>4, <2>1, PowerAdd
  <2> QED BY <2>1, <2>2 DEF m
<1>9. x \in Int /\ Cong(x, 1, c)
  <2> HIDE DEF v
  <2>1. Cong(x, Power(1)[a], c)
    <3>1. 1 \in Int
      OBVIOUS
    <3> QED BY <1>1, <1>5, <1>6, <3>1, PowerCong
  <2>2. Power(1)[a] = 1
    BY <1>1, PowerOne
  <2>3. x \in Int
    BY <1>1, <1>6, Powers
  <2> QED BY <2>1, <2>2, <2>3
<1>10. u % c # 1
  BY <1>3
<1> HIDE DEF u, v, x
<1>11. ~Cong(u * x, 1, c)
  <2> SUFFICES ASSUME Cong(u * x, 1, c) PROVE FALSE
    OBVIOUS
  <2>1. Cong(u, u, c)
    BY <1>1, <1>6, CongSelf
  <2>2. Cong(u * x, u * 1, c)
    BY <1>1, <1>6, <1>9, <2>1, CongMul
  <2> DEFINE y == u * x
  <2>3. y \in Int /\ Cong(y, u, c) /\ Cong(y, 1, c) /\ 1 \in Int
    BY <1>6, <1>9, <2>2
  <2> HIDE DEF y
  <2>4. Cong(u, y, c)
    BY <1>1, <1>6, <2>3, CongSym
  <2>5. Cong(u, 1, c)
    BY <1>1, <1>6, <2>3, <2>4, CongTrans
  <2>6. u % c = 1 % c
    BY <1>1, <1>6, <2>3, <2>5, CongSame
  <2>7. 1 % c = 1
    BY <1>1
  <2> QED BY <1>10, <2>6, <2>7
<1>12. ~Cong(Power(w)[a * c - 1], 1, c)
  BY <1>2, <1>8, <1>11
<1> QED BY <1>4, <1>12

\* The same of the product of two primes, where only two parts can be told by
\* their signs: a number whose power to n - 1 is not 1 makes up for the third.
LEMMA TwoPrimes ==
  ASSUME NEW a, Prime(a), a > 2, NEW c, Prime(c), a < c, NEW n \in Nat, n = a * c, n % 2 = 1,
         NEW k \in Nat \ {0}, NEW l \in Nat, n - 1 = k * (2 * l),
         NEW z \in Int, SignOf(z, k, -1, n),
         NEW L, IsFiniteSet(L), L \subseteq 1 .. (n - 1),
         \A x \in L : \E s : SignOf(x, k, s, n)
  PROVE  4 * Cardinality(L) <= n - 1
<1> DEFINE E == n - 1
<1>1. a \in Nat \ {0} /\ a \in Int /\ c \in Nat \ {0} /\ c \in Int /\ c > 2 /\ n \in Int
      /\ n \in Nat \ {0}
  BY DEF Prime
<1>2. E \in Nat /\ E = k * (2 * l) /\ E = a * c - 1
  BY <1>1
<1>3. c % a # 0 /\ a % c # 0
  BY <1>1, PrimesApart
<1>4. PICK w \in 1 .. (c - 1) : w % c # 0 /\ ~Cong(Power(w)[E], 1, c)
  BY <1>2, NotAllPass
<1> HIDE DEF E
<1>5. PICK t \in Int : Cong(t, z, a) /\ Cong(t, 1, c)
  BY <1>1, <1>3, Remainders
<1>6. PICK v \in Int : Cong(v, w, c) /\ Cong(v, 1, a)
  BY <1>1, <1>3, Remainders
<1>7. SignOf(t, k, -1, a) /\ SignOf(1, k, 1, a)
  <2>1. SignOf(z, k, -1, a)
    BY <1>1, SignOfPart
  <2>2. SignOf(t, k, -1, a)
    BY <1>1, <1>5, <2>1, SignOfLike
  <2>3. Cong(1, 1, a)
    BY <1>1, CongSelf
  <2> QED BY <1>1, <2>2, <2>3, SignOfOne
<1>8. v % c # 0 /\ ~Cong(Power(v)[E], 1, c)
  <2>0. w \in Int
    OBVIOUS
  <2>1. w \in Int /\ Power(v)[E] \in Int
    BY <1>2, <2>0, Powers
  <2>2. Power(w)[E] \in Int
    BY <1>2, <2>1, Powers
  <2>3. Cong(w, v, c)
    BY <1>1, <1>6, <2>1, CongSym
  <2>4. v % c # 0
    <3>1. v % c = w % c
      BY <1>1, <1>6, <2>1, CongSame
    <3> QED BY <1>4, <3>1
  <2>5. Cong(Power(w)[E], Power(v)[E], c)
    BY <1>1, <1>2, <2>1, <2>3, PowerCong
  <2> DEFINE f == Power(w)[E]
             g == Power(v)[E]
  <2>6. f \in Int /\ g \in Int /\ Cong(f, g, c) /\ ~Cong(f, 1, c) /\ 1 \in Int
    BY <1>4, <2>1, <2>2, <2>5
  <2> HIDE DEF f, g
  <2>7. ~Cong(g, 1, c)
    BY <1>1, <2>6, CongTrans
  <2> QED BY <2>4, <2>7 DEF g
<1> DEFINE T == [i \in 0 .. 3 |->
                   IF i = 0 THEN 1 ELSE IF i = 1 THEN t ELSE IF i = 2 THEN v ELSE t * v]
           U == [i \in 0 .. 3 |-> IF i \in {1, 3} THEN t ELSE 1]
           V == [i \in 0 .. 3 |-> IF i \in {2, 3} THEN v ELSE 1]
           A == [i \in 0 .. 3 |-> IF i \in {1, 3} THEN -1 ELSE 1]
<1>9. \A i \in 0 .. 3 : /\ T[i] \in Int /\ U[i] \in Int /\ V[i] \in Int
                        /\ Cong(T[i], U[i], a) /\ Cong(T[i], V[i], c)
                        /\ SignOf(U[i], k, A[i], a) /\ V[i] % c # 0
                        /\ V[i] = 1 \/ V[i] = v
  <2> SUFFICES ASSUME NEW i \in 0 .. 3
               PROVE  /\ T[i] \in Int /\ U[i] \in Int /\ V[i] \in Int
                      /\ Cong(T[i], U[i], a) /\ Cong(T[i], V[i], c)
                      /\ SignOf(U[i], k, A[i], a) /\ V[i] % c # 0
                      /\ V[i] = 1 \/ V[i] = v
    OBVIOUS
  <2>1. 1 % c # 0 /\ 1 \in Int
    BY <1>1
  <2>2. Cong(1, 1, a) /\ Cong(1, 1, c) /\ Cong(t, t, a) /\ Cong(v, v, c)
    BY <1>1, <2>1, CongSelf
  <2>3. Cong(t * v, t, a) /\ Cong(t * v, v, c)
    <3>1. Cong(t * v, t * 1, a)
      BY <1>1, <1>6, <2>1, <2>2, CongMul
    <3>2. Cong(t * v, 1 * v, c)
      BY <1>1, <1>5, <2>1, <2>2, CongMul
    <3>3. t * 1 = t /\ 1 * v = v
      OBVIOUS
    <3> QED BY <3>1, <3>2, <3>3
  <2>4. t * v \in Int
    OBVIOUS
  <2>5. CASE i = 0
    BY <1>7, <2>1, <2>2, <2>5
  <2>6. CASE i = 1
    BY <1>5, <1>7, <2>1, <2>2, <2>6
  <2>7. CASE i = 2
    BY <1>6, <1>7, <1>8, <2>2, <2>7
  <2>8. CASE i = 3
    BY <1>7, <1>8, <2>3, <2>4, <2>8
  <2> QED BY <2>5, <2>6, <2>7, <2>8
<1>10. \A i, j \in 0 .. 3 : A[i] = A[j] /\ (V[i] = V[j]) => i = j \/ v = 1
  OBVIOUS
<1>11. v # 1
  <2>1. Power(1)[E] = 1 /\ Cong(1, 1, c)
    BY <1>1, <1>2, PowerOne, CongSelf
  <2> QED BY <1>8, <2>1
<1>12. \A i \in 0 .. 3 : A[i] \in Signs
  BY DEF Signs
<1>13. T \in [0 .. 3 -> Int]
  BY <1>9
<1> HIDE DEF T, A, U, V
<1>14. ASSUME NEW x \in L PROVE SignOf(x, E, 1, c)
  <2>1. PICK s : SignOf(x, k, s, n)
    OBVIOUS
  <2>2. x \in Int
    BY <1>1
  <2>3. SignOf(x, k, s, c)
    BY <1>1, <2>1, <2>2, SignOfPart
  <2> DEFINE X == Power(x)[k]
             m == 2 * l
  <2>4. s \in Signs /\ s \in Int /\ Cong(X, s, c)
    BY <2>3 DEF SignOf, Signs
  <2>5. m \in Nat /\ m % 2 = 0 /\ E = k * m
    BY <1>2
  <2>6. X \in Int
    BY <2>2, Powers
  <2>7. Power(X)[m] = Power(x)[k * m]
    BY <2>2, <2>5, PowerPower
  <2> HIDE DEF X, m
  <2>8. Cong(Power(X)[m], Power(s)[m], c)
    BY <1>1, <2>4, <2>5, <2>6, PowerCong
  <2>9. Power(s)[m] = 1
    <3>1. Power(-1)[m] = 1 /\ Power(1)[m] = 1
      BY <2>5, SignPowers, PowerOne
    <3> QED BY <2>4, <3>1 DEF Signs
  <2> QED BY <2>5, <2>7, <2>8, <2>9 DEF SignOf, Signs
<1>15. ASSUME NEW x \in L, NEW y \in L, NEW i \in 0 .. 3, NEW j \in 0 .. 3,
              Cong(x * T[i], y * T[j], n)
       PROVE  x = y /\ i = j
  <2>1. x \in Int /\ y \in Int /\ x \in 0 .. (n - 1) /\ y \in 0 .. (n - 1)
        /\ T[i] \in Int /\ T[j] \in Int /\ U[i] \in Int /\ U[j] \in Int
        /\ V[i] \in Int /\ V[j] \in Int
    BY <1>1, <1>9
  <2> DEFINE f == x * T[i]
             g == y * T[j]
             fa == x * U[i]
             ga == y * U[j]
             fc == x * V[i]
             gc == y * V[j]
  <2>2. f \in Int /\ g \in Int /\ fa \in Int /\ ga \in Int /\ fc \in Int /\ gc \in Int
    BY <2>1
  <2>3. Cong(f, fa, a) /\ Cong(g, ga, a) /\ Cong(f, fc, c) /\ Cong(g, gc, c)
    <3>1. Cong(x, x, a) /\ Cong(y, y, a) /\ Cong(x, x, c) /\ Cong(y, y, c)
      BY <1>1, <2>1, CongSelf
    <3> QED BY <1>1, <1>9, <2>1, <3>1, CongMul
  <2>4. Cong(f, g, n)
    BY <1>15
  <2> HIDE DEF f, g, fa, ga, fc, gc
  <2>5. Cong(f, g, a) /\ Cong(f, g, c)
    BY <1>1, <2>2, <2>4, CongFactor
  <2>6. Cong(fa, ga, a)
    <3>1. Cong(fa, f, a)
      BY <1>1, <2>2, <2>3, CongSym
    <3>2. Cong(fa, g, a)
      BY <1>1, <2>2, <2>5, <3>1, CongTrans
    <3> QED BY <1>1, <2>2, <2>3, <3>2, CongTrans
  <2>7. Cong(fc, gc, c)
    <3>1. Cong(fc, f, c)
      BY <1>1, <2>2, <2>3, CongSym
    <3>2. Cong(fc, g, c)
      BY <1>1, <2>2, <2>5, <3>1, CongTrans
    <3> QED BY <1>1, <2>2, <2>3, <3>2, CongTrans
  <2>8. Cong(x * V[i], y * V[j], c)
    BY <2>7 DEF fc, gc
  <2>9. Cong(x * U[i], y * U[j], a)
    BY <2>6 DEF fa, ga
  <2>10. V[i] = V[j]
    <3> SUFFICES ASSUME V[i] # V[j] PROVE FALSE
      OBVIOUS
    <3>1. (V[i] = 1 /\ V[j] = v) \/ (V[i] = v /\ V[j] = 1)
      BY <1>9
    <3>2. SignOf(x, E, 1, c) /\ SignOf(y, E, 1, c)
      BY <1>14
    <3>3. Cong(Power(V[i])[E], Power(V[j])[E], c)
      <4> DEFINE r == V[i]
                 s == V[j]
      <4>1. r \in Int /\ s \in Int /\ Cong(x * r, y * s, c)
        BY <2>1, <2>8
      <4> HIDE DEF r, s
      <4>2. Cong(Power(r)[E], Power(s)[E], c)
        BY <1>1, <1>2, <2>1, <3>2, <4>1, OtherPowers
      <4> QED BY <4>2 DEF r, s
    <3>4. Power(1)[E] = 1 /\ Power(v)[E] \in Int /\ 1 \in Int
      BY <1>2, PowerOne, Powers
    <3>5. Cong(1, Power(v)[E], c) \/ Cong(Power(v)[E], 1, c)
      BY <3>1, <3>3, <3>4
    <3>6. Cong(Power(v)[E], 1, c)
      <4> DEFINE r == Power(v)[E]
      <4>1. r \in Int /\ 1 \in Int /\ (Cong(1, r, c) \/ Cong(r, 1, c))
        BY <3>4, <3>5
      <4> HIDE DEF r
      <4>2. Cong(r, 1, c)
        BY <1>1, <4>1, CongSym
      <4> QED BY <4>2 DEF r
    <3> QED BY <1>8, <3>6
  <2>11. Cong(x, y, c)
    <3> DEFINE r == V[i]
    <3>1. r \in Int /\ r % c # 0 /\ Cong(r * x, r * y, c)
      <4>1. x * V[i] = V[i] * x /\ y * V[i] = V[i] * y
        BY <2>1
      <4> QED BY <1>9, <2>1, <2>8, <2>10, <4>1
    <3> HIDE DEF r
    <3> QED BY <2>1, <3>1, Cancel
  <2>12. PICK s : SignOf(x, k, s, n)
    OBVIOUS
  <2>13. PICK r : SignOf(y, k, r, n)
    OBVIOUS
  <2>14. SignOf(x, k, s, a) /\ SignOf(x, k, s, c) /\ SignOf(y, k, r, a) /\ SignOf(y, k, r, c)
    <3>1. SignOf(x, k, s, a) /\ SignOf(x, k, s, c)
      BY <1>1, <2>1, <2>12, SignOfPart
    <3>2. SignOf(y, k, r, a) /\ SignOf(y, k, r, c)
      BY <1>1, <2>1, <2>13, SignOfPart
    <3> QED BY <3>1, <3>2
  <2>15. s = r
    BY <1>1, <2>1, <2>11, <2>14, SignOfOnce
  <2>16. SignOf(fa, k, s * A[i], a) /\ SignOf(ga, k, s * A[j], a)
    BY <1>1, <1>9, <2>1, <2>14, <2>15, SignOfMul DEF fa, ga
  <2>17. s * A[i] = s * A[j]
    BY <1>1, <2>2, <2>6, <2>16, SignOfOnce
  <2>18. A[i] = A[j]
    <3>1. s \in Signs
      BY <2>12 DEF SignOf
    <3> QED BY <1>12, <2>17, <3>1 DEF Signs
  <2>19. i = j
    BY <1>10, <1>11, <2>10, <2>18
  <2>20. Cong(x, y, a)
    <3> DEFINE u == U[i]
    <3>1. u \in Int /\ Cong(x * u, y * u, a)
      BY <2>1, <2>9, <2>19
    <3>2. A[i] \in Signs /\ Cong(Power(u)[k], A[i], a)
      BY <1>9 DEF SignOf
    <3> HIDE DEF u
    <3> QED BY <1>1, <2>1, <3>1, <3>2, CancelSign
  <2>21. x = y
    BY <1>1, <1>3, <2>1, <2>11, <2>20, SameBelow
  <2> QED BY <2>19, <2>21
<1>16. L \subseteq Int
  BY <1>1
<1>17. 4 * Cardinality(L) <= n
  BY <1>1, <1>13, <1>15, <1>16, FourCopies
<1>18. 4 * Cardinality(L) # n /\ Cardinality(L) \in Nat
  <2>1. Cardinality(L) \in Nat
    BY FS_CardinalityType
  <2> QED BY <2>1
<1> QED BY <1>1, <1>17, <1>18

-----------------------------------------------------------------------------
(* Rabin's bound: the last square that can be -1, and how many pass.       *)

\* A sign stays a sign when its number is raised on.
LEMMA SignOfLater ==
  ASSUME NEW n \in Int, NEW k \in Nat, NEW l \in Nat, NEW x \in Int, NEW s, SignOf(x, k, s, n)
  PROVE  /\ \E t : SignOf(x, k * l, t, n)
         /\ l % 2 = 1 /\ s = -1 => SignOf(x, k * l, -1, n)
<1> DEFINE y == Power(x)[k]
<1>1. y \in Int /\ s \in Signs /\ s \in Int /\ Cong(y, s, n)
  BY Powers DEF SignOf, Signs
<1>2. Power(y)[l] = Power(x)[k * l]
  BY PowerPower
<1> HIDE DEF y
<1>3. /\ Cong(Power(y)[l], Power(s)[l], n)
      /\ \E t \in Signs : Cong(Power(y)[l], t, n)
  BY <1>1, CongSignPower
<1>4. l % 2 = 1 => Power(-1)[l] = -1
  BY SignPowers
<1>5. l % 2 = 1 /\ s = -1 => Cong(Power(y)[l], -1, n)
  BY <1>3, <1>4
<1>6. -1 \in Signs
  BY DEF Signs
<1> QED BY <1>2, <1>3, <1>5, <1>6 DEF SignOf

\* No power of a multiple of f is like -1.
LEMMA RootNonzero ==
  ASSUME NEW f, Prime(f), f > 2, NEW k \in Nat \ {0}, NEW x \in Int, SignOf(x, k, -1, f)
  PROVE  x % f # 0
<1> SUFFICES ASSUME x % f = 0 PROVE FALSE
  OBVIOUS
<1>1. f \in Nat \ {0} /\ f \in Int /\ f \in Nat
  BY DEF Prime
<1>2. k - 1 \in Nat /\ k = (k - 1) + 1
  OBVIOUS
<1> DEFINE h == k - 1
           u == Power(x)[h]
<1>3. u \in Int /\ Power(x)[k] = x * u
  <2> HIDE DEF h
  <2>1. h \in Nat /\ k = h + 1
    BY <1>2 DEF h
  <2>2. Power(x)[h] \in Int /\ Power(x)[h + 1] = x * Power(x)[h]
    BY <2>1, Powers
  <2> QED BY <2>1, <2>2
<1>4. PICK c \in Int : x = f * c
  BY <1>1, Divides
<1> HIDE DEF u
<1>5. PICK g \in Int : x * u = -1 + f * g
  BY <1>3 DEF SignOf, Cong
<1>6. f * (g - c * u) = 1
  BY <1>1, <1>3, <1>4, <1>5
<1> DEFINE w == g - c * u
<1>7. w \in Int /\ f * w = 1
  BY <1>3, <1>6
<1> HIDE DEF w
<1> QED BY <1>1, <1>7

\* Where a power to k * 2^b is like -1 modulo the prime f, f - 1 has more
\* factors 2 than b.
LEMMA DeepRoot ==
  ASSUME NEW f, Prime(f), f > 2, NEW k \in Nat \ {0}, NEW b \in Nat, NEW x \in Int,
         SignOf(x, k * Power(2)[b], -1, f)
  PROVE  \E h \in Int : f - 1 = Power(2)[b + 1] * h
<1>1. f \in Nat \ {0} /\ f \in Int /\ f \in Nat /\ f - 1 \in Nat \ {0}
  BY DEF Prime
<1> DEFINE s == Scan1(f - 1)
           S == Power(2)[s]
           u == (f - 1) \div S
<1>2. s \in Nat /\ (f - 1) % S = 0 /\ u % 2 = 1
  BY <1>1, Scan1There
<1>3. S \in Nat \ {0}
  BY <1>2, TwoPowers
<1> DEFINE d == f - 1
<1> HIDE DEF s, S
<1>4. u \in Nat /\ f - 1 = S * u
  <2>1. d \in Nat /\ d % S = 0
    BY <1>1, <1>2
  <2> HIDE DEF d
  <2>2. d \div S \in Nat /\ d = S * (d \div S)
    BY <1>3, <2>1
  <2> QED BY <2>2 DEF d
<1> HIDE DEF u, d
<1>5. CASE s > b
  <2> DEFINE r == s - (b + 1)
             B == Power(2)[b + 1]
             R == Power(2)[r]
  <2>1. r \in Nat /\ s = (b + 1) + r /\ b + 1 \in Nat /\ 2 \in Int
    BY <1>2, <1>5
  <2>2. S = B * R /\ B \in Nat /\ R \in Nat
    <3> HIDE DEF r
    <3>1. Power(2)[(b + 1) + r] = Power(2)[b + 1] * Power(2)[r]
      BY <2>1, PowerAdd, Zenon
    <3>2. B \in Nat /\ R \in Nat
      BY <2>1, TwoPowers
    <3> QED BY <2>1, <3>1, <3>2 DEF S
  <2> HIDE DEF B, R
  <2>3. f - 1 = B * (R * u) /\ R * u \in Int
    BY <1>4, <2>2
  <2> QED BY <2>3 DEF B
<1>6. CASE s <= b
  <2> DEFINE r == b - s
             B == Power(2)[b]
             R == Power(2)[r]
             K == k * B
  <2>1. r \in Nat /\ b = s + r /\ 2 \in Int
    BY <1>2, <1>6
  <2>2. B = S * R /\ B \in Nat \ {0} /\ R \in Nat
    <3> HIDE DEF r
    <3>1. Power(2)[s + r] = Power(2)[s] * Power(2)[r]
      BY <1>2, <2>1, PowerAdd
    <3>2. B \in Nat \ {0} /\ R \in Nat
      BY <2>1, TwoPowers
    <3> QED BY <2>1, <3>1, <3>2 DEF S
  <2>3. SignOf(x, K, -1, f)
    OBVIOUS
  <2> HIDE DEF B, R
  <2>4. K \in Nat \ {0}
    BY <2>2
  <2>5. K * u = (f - 1) * (k * R) /\ k * R \in Nat
    <3>1. K * u = k * ((S * R) * u)
      BY <1>3, <1>4, <2>2
    <3>2. k * ((S * R) * u) = (S * u) * (k * R)
      BY <1>3, <1>4, <2>2
    <3> QED BY <1>4, <2>2, <3>1, <3>2
  <2> DEFINE l == k * R
  <2> HIDE DEF K
  <2>6. SignOf(x, K * u, -1, f)
    BY <1>1, <1>2, <1>4, <2>3, <2>4, SignOfLater
  <2>7. x % f # 0
    BY <2>3, <2>4, RootNonzero
  <2>8. SignOf(x, f - 1, 1, f)
    <3>1. Cong(Power(x)[f - 1], 1, f)
      BY <2>7, Fermat
    <3> QED BY <3>1 DEF SignOf, Signs
  <2>9. SignOf(x, (f - 1) * l, 1, f)
    <3> DEFINE y == Power(x)[f - 1]
    <3>1. y \in Int /\ Cong(y, 1, f) /\ 1 \in Int /\ f - 1 \in Nat
      BY <1>1, <2>8, Powers DEF SignOf
    <3>2. Power(y)[l] = Power(x)[(f - 1) * l]
      BY <2>5, <3>1, PowerPower
    <3> HIDE DEF y, l
    <3>3. l \in Nat
      BY <2>5 DEF l
    <3>4. Cong(Power(y)[l], Power(1)[l], f)
      BY <1>1, <3>1, <3>3, PowerCong
    <3>5. Power(1)[l] = 1
      BY <3>3, PowerOne
    <3> QED BY <3>2, <3>4, <3>5 DEF SignOf, Signs
  <2>10. -1 = 1
    <3>1. SignOf(x, K * u, 1, f)
      BY <2>5, <2>9
    <3>2. K * u \in Nat
      BY <1>4, <2>4
    <3>3. Cong(x, x, f)
      BY <1>1, CongSelf
    <3> QED BY <1>1, <2>6, <3>1, <3>2, <3>3, SignOfOnce
  <2> QED BY <2>10
<1> QED BY <1>2, <1>5, <1>6

\* Modulo the product n of two primes no power to n - 1 is like -1.
LEMMA NoRootOfAll ==
  ASSUME NEW p, Prime(p), p > 2, NEW q, Prime(q), q > 2, NEW n \in Nat, n = p * q,
         NEW m \in Nat, m % 2 = 1, NEW b \in Nat, n - 1 = m * Power(2)[b], NEW x \in Int
  PROVE  ~SignOf(x, m * Power(2)[b], -1, n)
<1> SUFFICES ASSUME SignOf(x, m * Power(2)[b], -1, n) PROVE FALSE
  OBVIOUS
<1>1. p \in Nat \ {0} /\ p \in Int /\ q \in Nat \ {0} /\ q \in Int /\ m \in Nat \ {0}
  BY DEF Prime
<1> DEFINE D == Power(2)[b]
           C == Power(2)[b + 1]
           E == m * D
<1>2. D \in Nat \ {0} /\ C = 2 * D
  <2>1. 2 \in Int
    OBVIOUS
  <2>2. D \in Nat \ {0}
    BY TwoPowers
  <2>3. C = 2 * D
    BY <2>1, Powers
  <2> QED BY <2>2, <2>3
<1>3. E \in Nat
  BY <1>1, <1>2
<1>4. SignOf(x, E, -1, p) /\ SignOf(x, E, -1, q)
  <2> HIDE DEF E
  <2> QED BY <1>1, <1>3, SignOfPart DEF E
<1>5. PICK g \in Int : p - 1 = C * g
  BY <1>1, <1>4, DeepRoot
<1>6. PICK h \in Int : q - 1 = C * h
  BY <1>1, <1>4, DeepRoot
<1>7. n - 1 = m * D
  OBVIOUS
<1> HIDE DEF C, D, E
<1>8. n - 1 = (p - 1) * q + (q - 1)
  BY <1>1
<1>9. (p - 1) * q + (q - 1) = D * (2 * (g * q + h))
  <2>1. (p - 1) * q = (C * g) * q /\ q - 1 = C * h
    BY <1>5, <1>6
  <2>2. C \in Int /\ D \in Int /\ (C * g) * q + C * h = C * (g * q + h)
    BY <1>1, <1>2
  <2> DEFINE w == g * q + h
  <2>3. w \in Int
    BY <1>1
  <2>4. (p - 1) * q + (q - 1) = C * w
    BY <2>1, <2>2
  <2> HIDE DEF w
  <2>5. C * w = D * (2 * w)
    BY <1>2, <2>2, <2>3
  <2> QED BY <2>4, <2>5 DEF w
<1> DEFINE w == g * q + h
<1>10. w \in Int /\ m * D = D * (2 * w)
  BY <1>1, <1>7, <1>8, <1>9
<1> HIDE DEF w
<1>11. m = 2 * w
  BY <1>1, <1>2, <1>10
<1> QED BY <1>10, <1>11

\* A base that passes: its power to m is like 1, or one of the b + 1 squares
\* from there on is like -1.
Liar(x, m, b, n) ==
  \/ SignOf(x, m, 1, n)
  \/ \E j \in 0 .. b : SignOf(x, m * Power(2)[j], -1, n)

\* Past the last square that is like -1 for any number, each liar has a sign.
LEMMA LiarSign ==
  ASSUME NEW n \in Int, NEW m \in Nat, NEW b \in Nat, NEW i \in 0 .. b,
         \A j \in (i + 1) .. b : \A x \in Int : ~SignOf(x, m * Power(2)[j], -1, n),
         NEW x \in Int, Liar(x, m, b, n)
  PROVE  \E s : SignOf(x, m * Power(2)[i], s, n)
<1>1. i \in Nat /\ Power(2)[i] \in Nat
  BY TwoPowers
<1>2. CASE SignOf(x, m, 1, n)
  <2> DEFINE P == Power(2)[i]
  <2> HIDE DEF P
  <2>1. P \in Nat
    BY <1>1 DEF P
  <2>2. \E s : SignOf(x, m * P, s, n)
    BY <1>2, <2>1, SignOfLater
  <2> QED BY <2>2 DEF P
<1>3. CASE \E j \in 0 .. b : SignOf(x, m * Power(2)[j], -1, n)
  <2>1. PICK j \in 0 .. b : SignOf(x, m * Power(2)[j], -1, n)
    BY <1>3
  <2>2. j <= i
    <3>1. ~(j \in (i + 1) .. b)
      BY <2>1
    <3> QED BY <3>1
  <2> DEFINE h == i - j
             K == m * Power(2)[j]
             P == Power(2)[h]
  <2>3. h \in Nat /\ j \in Nat /\ i = j + h /\ 2 \in Int
    BY <2>2
  <2>4. Power(2)[i] = Power(2)[j] * P
    <3> HIDE DEF h
    <3> QED BY <2>3, PowerAdd
  <2>5. P \in Nat /\ Power(2)[j] \in Nat
    BY <2>3, TwoPowers
  <2> HIDE DEF h, P
  <2>6. K \in Nat
    BY <2>5
  <2>7. SignOf(x, K, -1, n)
    BY <2>1
  <2>8. m * Power(2)[i] = K * P
    <3> DEFINE J == Power(2)[j]
    <3>1. J \in Nat /\ Power(2)[i] = J * P
      BY <2>4, <2>5
    <3> HIDE DEF J
    <3>2. m * (J * P) = (m * J) * P
      BY <2>5, <3>1
    <3> QED BY <3>1, <3>2 DEF J
  <2> HIDE DEF K
  <2>9. \E s : SignOf(x, K * P, s, n)
    BY <2>5, <2>6, <2>7, SignOfLater
  <2> QED BY <2>8, <2>9
<1> QED BY <1>2, <1>3 DEF Liar

\* There is a last square that is like -1 for some number: m is odd, and so the
\* power of -1 to m is.
LEMMA LastRoot ==
  ASSUME NEW n \in Int, NEW m \in Nat, m % 2 = 1, NEW b \in Nat
  PROVE  \E i \in 0 .. b :
           /\ \E z \in Int : SignOf(z, m * Power(2)[i], -1, n)
           /\ \A j \in (i + 1) .. b : \A x \in Int : ~SignOf(x, m * Power(2)[j], -1, n)
<1> DEFINE Q(j) == \E z \in Int : SignOf(z, m * Power(2)[j], -1, n)
           S == {l \in 0 .. b : Q(b - l)}
<1>1. Q(0)
  <2>1. -1 \in Int /\ 2 \in Int /\ -1 \in Signs
    BY DEF Signs
  <2>2. Power(-1)[m] = -1 /\ Power(2)[0] = 1 /\ m * 1 = m
    <3>1. Power(-1)[m] = -1
      BY SignPowers
    <3>2. Power(2)[0] = 1
      BY <2>1, Powers
    <3> QED BY <3>1, <3>2
  <2>3. Cong(-1, -1, n)
    BY <2>1, CongSelf
  <2>4. SignOf(-1, m * Power(2)[0], -1, n)
    BY <2>1, <2>2, <2>3 DEF SignOf
  <2> QED BY <2>1, <2>4
<1> HIDE DEF Q
<1>2. b \in S
  <2>1. b - b = 0
    OBVIOUS
  <2> QED BY <1>1, <2>1
<1>3. PICK l \in Nat : l \in S /\ l <= b /\ \A j \in 0 .. (l - 1) : j \notin S
  BY <1>2, Least
<1>4. b - l \in 0 .. b /\ Q(b - l)
  BY <1>3
<1>5. \A j \in (b - l + 1) .. b : ~Q(j)
  <2> SUFFICES ASSUME NEW j \in (b - l + 1) .. b PROVE ~Q(j)
    OBVIOUS
  <2>1. b - j \in 0 .. (l - 1) /\ b - j \in 0 .. b /\ b - (b - j) = j
    BY <1>3
  <2>2. b - j \notin S
    BY <1>3, <2>1
  <2> QED BY <2>1, <2>2
<1> DEFINE i == b - l
<1>6. i \in 0 .. b /\ Q(i) /\ \A j \in (i + 1) .. b : ~Q(j)
  BY <1>4, <1>5
<1> HIDE DEF i
<1>7. \E z \in Int : SignOf(z, m * Power(2)[i], -1, n)
  BY <1>6 DEF Q
<1>8. \A j \in (i + 1) .. b : \A x \in Int : ~SignOf(x, m * Power(2)[j], -1, n)
  BY <1>6 DEF Q
<1> QED BY <1>6, <1>7, <1>8

\* A prime factor of an odd number is odd.
LEMMA OddFactor ==
  ASSUME NEW n \in Nat, n % 2 = 1, NEW p, Prime(p), NEW s \in Nat, n = p * s
  PROVE  p > 2 /\ s % 2 = 1
<1>1. p \in Nat /\ p > 1
  BY DEF Prime
<1>2. p # 2
  OBVIOUS
<1>3. s % 2 = 1
  <2> SUFFICES ASSUME s % 2 = 0 PROVE FALSE
    OBVIOUS
  <2> DEFINE h == s \div 2
  <2>1. h \in Nat /\ s = 2 * h
    OBVIOUS
  <2> HIDE DEF h
  <2>2. n = 2 * (p * h)
    BY <1>1, <2>1
  <2> DEFINE g == p * h
  <2>3. g \in Nat /\ n = 2 * g
    BY <1>1, <2>1, <2>2
  <2> HIDE DEF g
  <2> QED BY <2>3
<1> QED BY <1>1, <1>2, <1>3

\* A composite has a prime factor and another factor.
LEMMA Composite ==
  ASSUME NEW n \in Nat, n > 1, ~IsPrime(n)
  PROVE  \E p \in Nat, s \in Nat : Prime(p) /\ s > 1 /\ n = p * s
<1>1. PICK p \in Nat : Prime(p) /\ n % p = 0
  BY PrimeFactor
<1>2. p > 1
  BY <1>1 DEF Prime
<1> DEFINE s == n \div p
<1>3. s \in Nat /\ n = p * s
  BY <1>1, <1>2
<1> HIDE DEF s
<1>4. s # 0
  BY <1>2, <1>3
<1>5. s # 1
  <2> SUFFICES ASSUME s = 1 PROVE FALSE
    OBVIOUS
  <2>1. n = p
    BY <1>3
  <2> QED BY <1>1, <2>1, PrimeTested
<1> QED BY <1>1, <1>3, <1>4, <1>5

\* The numbers that pass all of their squares have a sign at n - 1.
LEMMA SignsAtLast ==
  ASSUME NEW n \in Nat, NEW m \in Nat, NEW b \in Nat, n - 1 = m * Power(2)[b],
         NEW x \in Int, Liar(x, m, b, n)
  PROVE  \E s : SignOf(x, n - 1, s, n)
<1>1. b \in 0 .. b /\ n \in Int
  OBVIOUS
<1>2. \A j \in (b + 1) .. b : \A z \in Int : ~SignOf(z, m * Power(2)[j], -1, n)
  OBVIOUS
<1>3. \E s : SignOf(x, m * Power(2)[b], s, n)
  BY <1>1, <1>2, LiarSign
<1> QED BY <1>3

\* The product of two primes: at the last square there is room for one more.
LEMMA LiarsOfTwo ==
  ASSUME NEW p, Prime(p), p > 2, NEW q, Prime(q), q > 2, p < q, NEW n \in Nat, n = p * q,
         n % 2 = 1, NEW m \in Nat, m % 2 = 1, NEW b \in Nat, n - 1 = m * Power(2)[b],
         NEW L, IsFiniteSet(L), L \subseteq 1 .. (n - 1), \A x \in L : Liar(x, m, b, n)
  PROVE  4 * Cardinality(L) <= n - 1
<1>1. PICK i \in 0 .. b :
        /\ \E z \in Int : SignOf(z, m * Power(2)[i], -1, n)
        /\ \A j \in (i + 1) .. b : \A x \in Int : ~SignOf(x, m * Power(2)[j], -1, n)
  <2>1. n \in Int
    OBVIOUS
  <2> QED BY <2>1, LastRoot
<1>2. PICK z \in Int : SignOf(z, m * Power(2)[i], -1, n)
  BY <1>1
<1>3. i # b
  <2>1. ~SignOf(z, m * Power(2)[b], -1, n)
    BY NoRootOfAll
  <2> QED BY <1>2, <2>1
<1> DEFINE k == m * Power(2)[i]
           h == b - i - 1
           l == Power(2)[h]
<1>4. h \in Nat /\ i \in Nat /\ b = i + (h + 1) /\ 2 \in Int /\ h + 1 \in Nat
  BY <1>3
<1> HIDE DEF h
<1>5. l \in Nat /\ Power(2)[i] \in Nat \ {0} /\ Power(2)[h + 1] = 2 * l
  <2>1. Power(2)[h + 1] = 2 * Power(2)[h]
    BY <1>4, Powers
  <2> QED BY <1>4, <2>1, TwoPowers
<1>6. Power(2)[b] = Power(2)[i] * (2 * l)
  BY <1>4, <1>5, PowerAdd
<1> HIDE DEF l
<1>7. k \in Nat \ {0}
  BY <1>5
<1>8. n - 1 = k * (2 * l)
  <2> DEFINE I == Power(2)[i]
  <2>1. I \in Nat /\ n - 1 = m * (I * (2 * l)) /\ k = m * I
    BY <1>5, <1>6
  <2> HIDE DEF I
  <2>2. m * (I * (2 * l)) = (m * I) * (2 * l)
    BY <1>5, <2>1
  <2> QED BY <2>1, <2>2
<1>9. \A x \in L : \E s : SignOf(x, k, s, n)
  <2> SUFFICES ASSUME NEW x \in L PROVE \E s : SignOf(x, k, s, n)
    OBVIOUS
  <2>1. x \in Int /\ Liar(x, m, b, n) /\ n \in Int
    OBVIOUS
  <2> QED BY <1>1, <2>1, LiarSign
<1>10. SignOf(z, k, -1, n)
  BY <1>2
<1> HIDE DEF k
<1> QED BY <1>5, <1>7, <1>8, <1>9, <1>10, TwoPrimes

\* Three factors that share nothing: their signs at the last square are enough.
LEMMA LiarsOfThree ==
  ASSUME NEW p, Prime(p), p > 2, NEW q, Prime(q), q > 2, p # q, NEW t \in Nat, t > 2,
         t % p # 0, t % q # 0, NEW n \in Nat, n = p * (q * t),
         n % 2 = 1, NEW m \in Nat, m % 2 = 1, NEW b \in Nat, n - 1 = m * Power(2)[b],
         NEW L, IsFiniteSet(L), L \subseteq 1 .. (n - 1), \A x \in L : Liar(x, m, b, n)
  PROVE  4 * Cardinality(L) <= n - 1
<1>1. PICK i \in 0 .. b :
        /\ \E z \in Int : SignOf(z, m * Power(2)[i], -1, n)
        /\ \A j \in (i + 1) .. b : \A x \in Int : ~SignOf(x, m * Power(2)[j], -1, n)
  <2>1. n \in Int
    OBVIOUS
  <2> QED BY <2>1, LastRoot
<1>2. PICK z \in Int : SignOf(z, m * Power(2)[i], -1, n)
  BY <1>1
<1> DEFINE k == m * Power(2)[i]
<1>3. k \in Nat \ {0}
  <2>1. i \in Nat
    OBVIOUS
  <2>2. Power(2)[i] \in Nat \ {0}
    BY <2>1, TwoPowers
  <2> QED BY <2>2
<1>4. \A x \in L : \E s : SignOf(x, k, s, n)
  <2> SUFFICES ASSUME NEW x \in L PROVE \E s : SignOf(x, k, s, n)
    OBVIOUS
  <2>1. x \in Int /\ Liar(x, m, b, n) /\ n \in Int
    OBVIOUS
  <2> QED BY <1>1, <2>1, LiarSign
<1>5. SignOf(z, k, -1, n)
  BY <1>2
<1> HIDE DEF k
<1>6. p % q # 0 /\ q % p # 0
  BY PrimesApart
<1> QED BY <1>3, <1>4, <1>5, <1>6, ThreeParts

\* Rabin's bound, which the comment on rabinMillerTest states (_fastmath.c:1326)
\* for each round: at most one number in four lets a composite through.
LEMMA LiarsFew ==
  ASSUME NEW n \in Nat, n > 2, n % 2 = 1, ~IsPrime(n),
         NEW m \in Nat, m % 2 = 1, NEW b \in Nat, n - 1 = m * Power(2)[b],
         NEW L, IsFiniteSet(L), L \subseteq 1 .. (n - 1), \A x \in L : Liar(x, m, b, n)
  PROVE  4 * Cardinality(L) <= n - 1
<1>1. PICK p \in Nat, s \in Nat : Prime(p) /\ s > 1 /\ n = p * s
  BY Composite
<1>2. p > 2 /\ s % 2 = 1
  BY <1>1, OddFactor
<1>3. \A x \in L : \E t : SignOf(x, n - 1, t, n)
  <2> SUFFICES ASSUME NEW x \in L PROVE \E t : SignOf(x, n - 1, t, n)
    OBVIOUS
  <2>1. x \in Int /\ Liar(x, m, b, n)
    OBVIOUS
  <2> QED BY <2>1, SignsAtLast
<1>4. ASSUME NEW f \in Nat, Prime(f), f > 2, NEW g \in Nat, n = (f * f) * g
      PROVE  4 * Cardinality(L) <= n - 1
  <2>1. g # 0
    BY <1>4
  <2> QED BY <1>3, <1>4, <2>1, SquareFactor
<1>5. CASE s % p = 0
  <2> DEFINE g == s \div p
  <2>1. g \in Nat /\ s = p * g
    BY <1>2, <1>5
  <2> HIDE DEF g
  <2>2. n = (p * p) * g
    BY <1>1, <2>1
  <2> QED BY <1>1, <1>2, <1>4, <2>1, <2>2
<1>6. CASE s % p # 0
  <2>1. PICK q \in Nat : Prime(q) /\ s % q = 0
    BY <1>1, PrimeFactor
  <2>2. q > 1
    BY <2>1 DEF Prime
  <2> DEFINE t == s \div q
  <2>3. t \in Nat /\ s = q * t
    BY <2>1, <2>2
  <2> HIDE DEF t
  <2>4. q > 2 /\ t % 2 = 1
    BY <1>2, <2>1, <2>3, OddFactor
  <2>5. p # q
    BY <1>6, <2>1
  <2>6. CASE t = 1
    <3>1. n = p * q /\ n = q * p
      BY <1>1, <2>3, <2>6
    <3>2. CASE p < q
      BY <1>1, <1>2, <2>1, <2>4, <3>1, <3>2, LiarsOfTwo
    <3>3. CASE q < p
      BY <1>1, <1>2, <2>1, <2>4, <3>1, <3>3, LiarsOfTwo
    <3> QED BY <2>5, <3>2, <3>3
  <2>7. CASE t # 1 /\ t % q = 0
    <3> DEFINE g == t \div q
    <3>1. g \in Nat /\ t = q * g
      BY <2>2, <2>3, <2>7
    <3> HIDE DEF g
    <3>2. n = (q * q) * (p * g) /\ p * g \in Nat
      <4>1. n = p * (q * (q * g))
        BY <1>1, <2>3, <3>1
      <4> QED BY <3>1, <4>1
    <3> QED BY <1>4, <2>1, <2>4, <3>2
  <2>8. CASE t # 1 /\ t % q # 0
    <3>1. t > 2
      BY <2>3, <2>4, <2>8
    <3>2. t % p # 0
      <4> SUFFICES ASSUME t % p = 0 PROVE FALSE
        OBVIOUS
      <4>0. p \in Nat \ {0} /\ t \in Int /\ s \in Int
        BY <1>2, <2>3
      <4>1. PICK g \in Int : t = p * g
        BY <4>0, Divides
      <4>2. s = p * (q * g) /\ q * g \in Int
        BY <2>3, <4>1
      <4>3. s % p = 0
        BY <4>0, <4>2, Divides
      <4> QED BY <1>6, <4>3
    <3>3. n = p * (q * t)
      BY <1>1, <2>3
    <3>4. /\ Prime(p) /\ p > 2 /\ Prime(q) /\ q > 2 /\ p # q /\ t \in Nat /\ t > 2
          /\ t % p # 0 /\ t % q # 0 /\ n = p * (q * t)
      BY <1>1, <1>2, <2>1, <2>3, <2>4, <2>5, <2>8, <3>1, <3>2, <3>3
    <3> QED BY <3>4, LiarsOfThree
  <2> QED BY <2>6, <2>7, <2>8
<1> QED BY <1>5, <1>6

-----------------------------------------------------------------------------
(* RabinMiller: what a round computes.                                     *)

\* The arithmetic of isPrime is that of the other parts.
LEMMA TestMpz ==
  /\ \A x : Test!IsPrime(x) <=> IsPrime(x)
  /\ \A x, e, n : Test!Powm(x, e, n) = Powm(x, e, n)
  /\ \A x : Test!Power(x) = Power(x)
  /\ \A x : Test!Scan1(x) = Scan1(x)
BY DEF Test!IsPrime, IsPrime, Test!SquareRoot, SquareRoot, Test!Powm, Powm,
       Test!Power, Power, Test!Scan1, Scan1

\* An odd number less 1 is an odd number of twos.
LEMMA TestParts ==
  ASSUME asked \in Nat, asked > 2
  PROVE  /\ Test!b \in Nat /\ Test!m \in Nat /\ Test!m % 2 = 1
         /\ asked - 1 = Test!m * Power(2)[Test!b]
<1> DEFINE d == asked - 1
           s == Scan1(d)
           S == Power(2)[s]
<1>1. d \in Nat \ {0}
  OBVIOUS
<1>2. Test!b = s
  BY TestMpz DEF Test!b
<1>3. Test!m = d \div S
  BY <1>2, TestMpz DEF Test!m
<1> HIDE DEF d
<1>4. s \in Nat /\ d % S = 0 /\ (d \div S) % 2 = 1
  BY <1>1, Scan1There
<1> HIDE DEF s
<1>5. S \in Nat \ {0}
  BY <1>4, TwoPowers
<1>6. Test!m % 2 = 1
  BY <1>3, <1>4
<1>7. d \div S \in Nat /\ d = (d \div S) * S
  <2> HIDE DEF S
  <2>1. d \in Nat /\ S \in Nat \ {0} /\ d % S = 0
    BY <1>1, <1>4, <1>5
  <2> QED BY <2>1
<1> QED BY <1>2, <1>3, <1>4, <1>6, <1>7 DEF d

\* The power of a that the loop of a round has come to after j squares.
Squared(a, m, n, j) == Power(a)[m * Power(2)[j]] % n

\* One more square is one more factor of two.
LEMMA SquaredNext ==
  ASSUME NEW a \in Int, NEW m \in Nat, NEW n \in Nat \ {0}, NEW j \in Nat
  PROVE  /\ Squared(a, m, n, j) \in 0 .. (n - 1)
         /\ Squared(a, m, n, j + 1) = (Squared(a, m, n, j) * Squared(a, m, n, j)) % n
<1> DEFINE P == Power(2)[j]
           k == m * P
           u == Power(a)[k]
<1>1. P \in Nat /\ 2 \in Int
  BY TwoPowers
<1>2. Power(2)[j + 1] = 2 * P
  BY <1>1, Powers
<1> HIDE DEF P
<1>3. k \in Nat /\ m * (2 * P) = k + k
  BY <1>1
<1>4. u \in Int
  <2> HIDE DEF k
  <2> QED BY <1>3, Powers
<1>5. Power(a)[k + k] = u * u
  <2> HIDE DEF k
  <2> QED BY <1>3, PowerAdd
<1>6. Squared(a, m, n, j) = u % n /\ Squared(a, m, n, j + 1) = (u * u) % n
  BY <1>2, <1>3, <1>5 DEF Squared, P
<1> HIDE DEF u
<1>7. ((u % n) * (u % n)) % n = (u * u) % n
  BY <1>4, ModMul, Zenon
<1>8. u % n \in 0 .. (n - 1)
  BY <1>4
<1> QED BY <1>6, <1>7, <1>8

\* At first there are no squares.
LEMMA SquaredFirst ==
  ASSUME NEW a \in Int, NEW m \in Nat, NEW n \in Nat \ {0}
  PROVE  Squared(a, m, n, 0) = Powm(a, m, n)
<1>1. 2 \in Int
  OBVIOUS
<1>2. Power(2)[0] = 1
  BY <1>1, Powers
<1>3. m * Power(2)[0] = m
  BY <1>2
<1>4. Powm(a, m, n) = Power(a)[m] % n
  BY PowmIsPower
<1> QED BY <1>3, <1>4 DEF Squared

\* What the loop of rabinMillerTest computes is that.
LEMMA SquaredLoop ==
  ASSUME NEW a \in Int, NEW m \in Nat, NEW n \in Nat \ {0}, NEW b \in Nat
  PROVE  LET squared[j \in 0 .. b] ==
               IF j = 0 THEN Powm(a, m, n) ELSE (squared[j - 1] * squared[j - 1]) % n
         IN \A j \in 0 .. b : squared[j] = Squared(a, m, n, j)
<1> DEFINE z == Powm(a, m, n)
           E(f) == [j \in 0 .. b |-> IF j = 0 THEN z ELSE (f[j - 1] * f[j - 1]) % n]
           g == [j \in 0 .. b |-> Squared(a, m, n, j)]
           F == CHOOSE f : f = E(f)
<1>1. z = Squared(a, m, n, 0)
  BY SquaredFirst
<1> HIDE DEF z
<1>2. ASSUME NEW j \in 0 .. b, j # 0
      PROVE  /\ j - 1 \in 0 .. b
             /\ Squared(a, m, n, j) = (Squared(a, m, n, j - 1) * Squared(a, m, n, j - 1)) % n
  <2> DEFINE h == j - 1
  <2>1. h \in Nat /\ h + 1 = j /\ h \in 0 .. b
    BY <1>2
  <2> HIDE DEF h
  <2>2. Squared(a, m, n, h + 1) = (Squared(a, m, n, h) * Squared(a, m, n, h)) % n
    BY <2>1, SquaredNext
  <2> QED BY <2>1, <2>2 DEF h
<1>3. g = E(g)
  <2>1. ASSUME NEW j \in 0 .. b
        PROVE  g[j] = IF j = 0 THEN z ELSE (g[j - 1] * g[j - 1]) % n
    <3>1. CASE j = 0
      BY <1>1, <3>1
    <3>2. CASE j # 0
      <4>1. g[j] = Squared(a, m, n, j) /\ g[j - 1] = Squared(a, m, n, j - 1)
        BY <1>2, <3>2
      <4> HIDE DEF g
      <4> QED BY <1>2, <3>2, <4>1
    <3> QED BY <3>1, <3>2
  <2>2. g = [j \in 0 .. b |-> g[j]]
    OBVIOUS
  <2> HIDE DEF g
  <2> QED BY <2>1, <2>2
<1>4. F = E(F)
  <2> HIDE DEF g
  <2> QED BY <1>3
<1> HIDE DEF F
<1>5. \A j \in 0 .. b : F[j] = IF j = 0 THEN z ELSE (F[j - 1] * F[j - 1]) % n
  BY <1>4
<1> DEFINE S == {j \in Nat : j \in 0 .. b => F[j] = Squared(a, m, n, j)}
<1>6. 0 \in S
  BY <1>1, <1>5
<1>7. \A j \in Nat : j \in S => j + 1 \in S
  <2> SUFFICES ASSUME NEW j \in Nat, j \in S, j + 1 \in 0 .. b
               PROVE  F[j + 1] = Squared(a, m, n, j + 1)
    OBVIOUS
  <2>1. j \in 0 .. b /\ (j + 1) - 1 = j /\ j + 1 # 0
    OBVIOUS
  <2>2. F[j] = Squared(a, m, n, j)
    BY <2>1
  <2>3. F[j + 1] = (F[j] * F[j]) % n
    BY <1>5, <2>1
  <2>4. Squared(a, m, n, j + 1) = (Squared(a, m, n, j) * Squared(a, m, n, j)) % n
    BY SquaredNext
  <2> QED BY <2>2, <2>3, <2>4
<1>8. Nat \subseteq S
  <2> HIDE DEF S
  <2> QED BY <1>6, <1>7, Induction
<1>9. \A j \in 0 .. b : F[j] = Squared(a, m, n, j)
  BY <1>8
<1> QED BY <1>9 DEF F, z

\* What a base passes by.
LEMMA PassesMeans ==
  ASSUME asked \in Nat, asked > 2, NEW a \in Int
  PROVE  Test!Passes(a) <=>
           LET S(j) == Squared(a, Test!m, asked, j)
           IN \/ S(0) \in {1, asked - 1}
              \/ \E j \in 1 .. Test!b : S(j) = asked - 1 /\ \A h \in 1 .. (j - 1) : S(h) # 1
<1> DEFINE b == Test!b
           m == Test!m
           n == asked
           squared[j \in 0 .. b] ==
             IF j = 0 THEN Powm(a, m, n) ELSE (squared[j - 1] * squared[j - 1]) % n
<1>1. b \in Nat /\ m \in Nat /\ n \in Nat \ {0}
  BY TestParts
<1>2. Test!Passes(a) <=> \/ Powm(a, m, n) \in {1, n - 1}
                         \/ \E j \in 1 .. b :
                              squared[j] = n - 1 /\ \A h \in 1 .. (j - 1) : squared[h] # 1
  BY TestMpz DEF Test!Passes
<1> HIDE DEF b, m, n
<1>3. \A j \in 0 .. b : squared[j] = Squared(a, m, n, j)
  BY <1>1, SquaredLoop
<1> HIDE DEF squared
<1>4. Powm(a, m, n) = Squared(a, m, n, 0)
  BY <1>1, SquaredFirst
<1>5. \A j \in 1 .. b : /\ squared[j] = Squared(a, m, n, j)
                        /\ \A h \in 1 .. (j - 1) : squared[h] = Squared(a, m, n, h)
  <2> SUFFICES ASSUME NEW j \in 1 .. b
               PROVE  /\ squared[j] = Squared(a, m, n, j)
                      /\ \A h \in 1 .. (j - 1) : squared[h] = Squared(a, m, n, h)
    OBVIOUS
  <2>1. j \in 0 .. b /\ \A h \in 1 .. (j - 1) : h \in 0 .. b
    BY <1>1
  <2> QED BY <1>3, <2>1
<1>6. Test!Passes(a) <=> \/ Squared(a, m, n, 0) \in {1, n - 1}
                         \/ \E j \in 1 .. b :
                              /\ Squared(a, m, n, j) = n - 1
                              /\ \A h \in 1 .. (j - 1) : Squared(a, m, n, h) # 1
  BY <1>2, <1>4, <1>5
<1> QED BY <1>6 DEF b, m, n

\* A base that passes is a liar, unless the number is prime.
LEMMA PassesLiar ==
  ASSUME NEW a \in Int, NEW m \in Nat, NEW b \in Nat, NEW n \in Nat, n > 2,
         \/ Squared(a, m, n, 0) \in {1, n - 1}
         \/ \E j \in 1 .. b : Squared(a, m, n, j) = n - 1
  PROVE  Liar(a, m, b, n)
<1>1. 1 \in Int /\ -1 \in Int /\ 2 \in Int /\ n \in Nat \ {0} /\ n \in Int
  OBVIOUS
<1>2. ASSUME NEW j \in Nat PROVE m * Power(2)[j] \in Nat /\ Power(a)[m * Power(2)[j]] \in Int
  <2> DEFINE k == m * Power(2)[j]
  <2>1. k \in Nat
    BY TwoPowers
  <2> HIDE DEF k
  <2> QED BY <2>1, Powers DEF k
<1>3. ASSUME NEW j \in Nat, Squared(a, m, n, j) = n - 1 PROVE SignOf(a, m * Power(2)[j], -1, n)
  <2> DEFINE u == Power(a)[m * Power(2)[j]]
  <2>1. u \in Int /\ u % n = n - 1
    BY <1>2, <1>3 DEF Squared
  <2> HIDE DEF u
  <2>2. u = -1 + n * ((u \div n) + 1) /\ (u \div n) + 1 \in Int
    BY <1>1, <2>1
  <2>3. Cong(u, -1, n)
    BY <2>2 DEF Cong
  <2> QED BY <2>3 DEF SignOf, Signs, u
<1>4. CASE Squared(a, m, n, 0) = 1
  <2> DEFINE u == Power(a)[m]
  <2>1. Power(2)[0] = 1 /\ m * 1 = m
    BY <1>1, Powers
  <2>2. u \in Int /\ u % n = 1
    BY <1>4, <2>1, Powers DEF Squared
  <2> HIDE DEF u
  <2>3. u = 1 + n * (u \div n) /\ u \div n \in Int
    BY <1>1, <2>2
  <2>4. Cong(u, 1, n)
    BY <2>3 DEF Cong
  <2> QED BY <2>4 DEF SignOf, Signs, u, Liar
<1>5. CASE Squared(a, m, n, 0) = n - 1
  <2>1. 0 \in 0 .. b /\ 0 \in Nat
    OBVIOUS
  <2> QED BY <1>3, <1>5, <2>1 DEF Liar
<1>6. CASE \E j \in 1 .. b : Squared(a, m, n, j) = n - 1
  <2>1. PICK j \in 1 .. b : Squared(a, m, n, j) = n - 1
    BY <1>6
  <2>2. j \in Nat /\ j \in 0 .. b
    OBVIOUS
  <2> QED BY <1>3, <2>1, <2>2 DEF Liar
<1> QED BY <1>4, <1>5, <1>6

\* 1 has two square roots modulo a prime.
LEMMA RootsOfOne ==
  ASSUME NEW p, Prime(p), p > 2, NEW y \in 0 .. (p - 1), (y * y) % p = 1
  PROVE  y \in {1, p - 1}
<1>1. p \in Nat \ {0} /\ y \in Int /\ y - 1 \in Int /\ y + 1 \in Int
  BY DEF Prime
<1>2. ((y - 1) * (y + 1)) % p = 0
  <2> DEFINE w == y * y
  <2>1. w \in Int /\ w % p = 1 /\ (y - 1) * (y + 1) = w - 1
    BY <1>1
  <2> HIDE DEF w
  <2>2. (w - 1) % p = 0
    <3> DEFINE k == w \div p
    <3>1. w = p * k + 1 /\ k \in Int
      BY <1>1, <2>1
    <3> HIDE DEF k
    <3>2. w - 1 = p * k /\ w - 1 \in Int
      BY <1>1, <2>1, <3>1
    <3> QED BY <1>1, <3>1, <3>2, Divides
  <2> QED BY <2>1, <2>2
<1>3. (y - 1) % p = 0 \/ (y + 1) % p = 0
  BY <1>1, <1>2, EuclidsLemma
<1>4. y # 0
  <2> SUFFICES ASSUME y = 0 PROVE FALSE
    OBVIOUS
  <2>1. 0 % p = 1
    OBVIOUS
  <2> QED BY <1>1, <2>1
<1>5. ASSUME (y - 1) % p = 0 PROVE y = 1
  <2>1. y - 1 \in 0 .. (p - 1)
    BY <1>1, <1>4
  <2>2. y - 1 = 0
    BY <1>1, <1>5, <2>1, SmallMod
  <2> QED BY <1>1, <2>2
<1>6. ASSUME (y + 1) % p = 0 PROVE y = p - 1
  <2> SUFFICES ASSUME y # p - 1 PROVE FALSE
    OBVIOUS
  <2>1. y + 1 \in 0 .. (p - 1)
    BY <1>1
  <2>2. y + 1 = 0
    BY <1>1, <1>6, <2>1, SmallMod
  <2> QED BY <1>1, <2>2
<1> QED BY <1>3, <1>5, <1>6

\* A prime passes with every base: the first of the squares that is 1 comes
\* after one that is -1, or is the power itself.
LEMMA PrimeSquares ==
  ASSUME NEW n, Prime(n), n > 2, NEW a \in 2 .. (n - 1), NEW m \in Nat, NEW b \in Nat,
         n - 1 = m * Power(2)[b]
  PROVE  LET S(j) == Squared(a, m, n, j)
         IN \/ S(0) \in {1, n - 1}
            \/ \E j \in 1 .. b : S(j) = n - 1 /\ \A h \in 1 .. (j - 1) : S(h) # 1
<1> DEFINE S(j) == Squared(a, m, n, j)
           T == {j \in Nat : S(j) = 1}
<1>1. n \in Nat \ {0} /\ n \in Nat /\ a \in Int
  BY DEF Prime
<1>2. b \in T
  <2>1. a % n # 0
    <3>1. a \in 0 .. (n - 1) /\ a # 0
      BY <1>1
    <3>2. a % n = a
      BY <1>1, <3>1, SmallMod
    <3> QED BY <3>1, <3>2
  <2>2. Power(a)[n - 1] % n = 1
    BY <1>1, <2>1, Fermat
  <2> QED BY <2>2 DEF Squared
<1>3. PICK l \in Nat : l \in T /\ l <= b /\ \A j \in 0 .. (l - 1) : j \notin T
  <2> HIDE DEF T
  <2> QED BY <1>2, Least
<1>4. \A j \in 0 .. (l - 1) : S(j) # 1
  BY <1>3
<1>5. S(l) = 1
  BY <1>3
<1>6. CASE l = 0
  BY <1>5, <1>6
<1>7. CASE l # 0
  <2> DEFINE k == l - 1
  <2>1. k \in Nat /\ k + 1 = l /\ k \in 0 .. (l - 1) /\ k <= b
    BY <1>3, <1>7
  <2> HIDE DEF k
  <2>2. S(k) \in 0 .. (n - 1) /\ S(k + 1) = (S(k) * S(k)) % n
    <3>1. Squared(a, m, n, k) \in 0 .. (n - 1)
      BY <1>1, <2>1, SquaredNext
    <3>2. Squared(a, m, n, k + 1) = (Squared(a, m, n, k) * Squared(a, m, n, k)) % n
      BY <1>1, <2>1, SquaredNext
    <3> QED BY <3>1, <3>2
  <2>3. S(k) # 1
    BY <1>4, <2>1
  <2>4. S(k) = n - 1
    <3> DEFINE y == S(k)
    <3>1. y \in 0 .. (n - 1) /\ (y * y) % n = 1 /\ y # 1
      BY <1>5, <2>1, <2>2, <2>3
    <3> HIDE DEF y
    <3>2. y \in {1, n - 1}
      BY <3>1, RootsOfOne
    <3> QED BY <3>1, <3>2 DEF y
  <2>5. CASE k = 0
    BY <2>4, <2>5
  <2>6. CASE k # 0
    <3>1. k \in 1 .. b
      BY <2>1, <2>6
    <3>2. \A h \in 1 .. (k - 1) : S(h) # 1
      <4>1. \A h \in 1 .. (k - 1) : h \in 0 .. (l - 1)
        BY <2>1
      <4> HIDE DEF S
      <4> QED BY <1>4, <4>1
    <3> HIDE DEF S
    <3> QED BY <2>4, <3>1, <3>2 DEF S
  <2> QED BY <2>5, <2>6
<1> QED BY <1>6, <1>7

-----------------------------------------------------------------------------
(* RabinMiller: the invariant.                                             *)

\* The parts of n - 1, as numbers of n.
Twos(n) == Scan1(n - 1)
Odd(n) == (n - 1) \div Power(2)[Twos(n)]

\* Those parts are the ones the test works with.
LEMMA PartsOf ==
  ASSUME asked \in Nat, asked > 2
  PROVE  /\ Test!b = Twos(asked) /\ Test!m = Odd(asked)
         /\ Twos(asked) \in Nat /\ Odd(asked) \in Nat /\ Odd(asked) % 2 = 1
         /\ asked - 1 = Odd(asked) * Power(2)[Twos(asked)]
<1>1. Test!b = Twos(asked)
  BY TestMpz DEF Test!b, Twos
<1>2. Test!m = Odd(asked)
  BY <1>1, TestMpz DEF Test!m, Odd
<1> QED BY <1>1, <1>2, TestParts

\* What a call's result says of the number asked about.
Right(n, r, prime1) ==
  /\ ~prime1 => ~IsPrime(n)
  /\ prime1 /\ ~IsPrime(n) => 4 * r <= n - 1

\* The rounds so far: the bases tested are different liars for the number, one
\* for each round.
Tested(n, made1, bases) ==
  /\ n \in Nat /\ n > 2 /\ n % 2 = 1
  /\ made1 \in Nat /\ bases \subseteq 2 .. (n - 1) /\ IsFiniteSet(bases)
  /\ Cardinality(bases) = made1
  /\ \A a \in bases : Liar(a, Odd(n), Twos(n), n)

\* A result is right, or a draw has failed and says so.
Settled ==
  /\ result # -1 => Right(asked, rounds, result # 0)
  /\ result = -1 => noBase

\* What holds of isPrime between its steps.
TestInv ==
  /\ asked \in Int /\ rounds \in Int
  /\ gil \in BOOLEAN /\ (gil <=> test \in {"idle", "warn", "draw", "returned"})
  /\ test \in {"divide", "warn", "special"} => made = 0 /\ tested = {}
  /\ test \in {"special", "round", "draw"} => rounds <= MAX_RABIN_MILLER_ROUNDS
  /\ test \in {"round", "draw"} => Tested(asked, made, tested) /\ rounds <= asked - 2
  /\ test = "draw" => made < rounds
  /\ test \in {"cleanup", "returned", "answer"} => Settled
  /\ test = "idle" /\ answer # "none" /\ result # -1 =>
       Right(asked, rounds, answer = "True")
  /\ test = "idle" /\ result = -1 => noBase /\ answer = "True"

\* A call.
LEMMA TestCall ==
  ASSUME TestInv, NEW N \in Ns, NEW R \in Rounds, Test!isPrime(N, R)
  PROVE  TestInv'
<1>1. /\ test' = "divide" /\ asked' = N /\ rounds' = R /\ gil' = FALSE /\ made' = 0
      /\ tested' = {}
  BY DEF Test!isPrime
<1>2. N \in Int /\ R \in Int
  BY TestAssumption
<1> QED BY <1>1, <1>2 DEF TestInv

\* Trial division: a number with a factor in the table is that prime itself or
\* no prime.
LEMMA TestDivision ==
  ASSUME TestInv, Test!TrialDivision
  PROVE  TestInv'
<1>1. /\ test = "divide" /\ asked' = asked /\ made' = made /\ tested' = tested
      /\ answer' = answer /\ noBase' = noBase /\ rounds' = rounds
      /\ asked \in Int /\ rounds \in Int /\ gil = FALSE /\ made = 0 /\ tested = {}
  BY DEF TestInv, Test!TrialDivision
<1>2. CASE \E d \in TestSieve : asked % d = 0
  <2>1. /\ result' = (IF asked \in TestSieve THEN 2 ELSE 0)
        /\ test' = "answer" /\ gil' = gil
    BY <1>2 DEF Test!TrialDivision
  <2>2. CASE asked \in TestSieve
    <3>1. IsPrime(asked)
      BY <2>2, TestAssumption
    <3> QED BY <1>1, <2>1, <2>2, <3>1 DEF TestInv, Settled, Right
  <2>3. CASE asked \notin TestSieve
    <3>1. PICK d \in TestSieve : asked % d = 0
      BY <1>2
    <3>2. d \in Nat /\ Prime(d) /\ d > 1
      <4>1. d \in Nat /\ d \in Int /\ IsPrime(d)
        BY TestAssumption
      <4>2. Prime(d)
        BY <4>1, PrimeMeaning
      <4> QED BY <4>1, <4>2 DEF Prime
    <3>3. ~IsPrime(asked)
      <4> SUFFICES ASSUME IsPrime(asked) PROVE FALSE
        OBVIOUS
      <4>1. Prime(asked)
        BY <1>1, PrimeMeaning
      <4>2. asked # d
        BY <2>3
      <4> QED BY <3>1, <3>2, <4>1, <4>2, PrimesApart
    <3> QED BY <1>1, <2>1, <2>3, <3>3 DEF TestInv, Settled, Right
  <2> QED BY <2>2, <2>3
<1>3. CASE ~\E d \in TestSieve : asked % d = 0
  <2>1. test' = "warn" /\ gil' = TRUE
    BY <1>3 DEF Test!TrialDivision
  <2> QED BY <1>1, <2>1 DEF TestInv
<1> QED BY <1>2, <1>3

\* The warning cuts the rounds down to those the array has room for.
LEMMA TestWarn ==
  ASSUME TestInv, Test!Warn
  PROVE  TestInv'
<1>1. /\ test = "warn" /\ test' = "special" /\ gil' = FALSE
      /\ asked' = asked /\ made' = made /\ tested' = tested
      /\ asked \in Int /\ rounds \in Int /\ made = 0 /\ tested = {}
  BY DEF TestInv, Test!Warn
<1>2. rounds' \in Int /\ rounds' <= MAX_RABIN_MILLER_ROUNDS
  <2>1. CASE rounds > MAX_RABIN_MILLER_ROUNDS
    BY <2>1, TestAssumption DEF Test!Warn
  <2>2. CASE ~(rounds > MAX_RABIN_MILLER_ROUNDS)
    BY <1>1, <2>2, TestAssumption DEF Test!Warn
  <2> QED BY <2>1, <2>2
<1> QED BY <1>1, <1>2 DEF TestInv

\* The numbers that need no test.
LEMMA TestSpecial ==
  ASSUME TestInv, Test!SpecialCases
  PROVE  TestInv'
<1>1. /\ test = "special" /\ gil = FALSE /\ asked' = asked /\ made' = made /\ tested' = tested
      /\ answer' = answer /\ noBase' = noBase
      /\ asked \in Int /\ rounds \in Int /\ made = 0 /\ tested = {}
      /\ rounds <= MAX_RABIN_MILLER_ROUNDS
  BY DEF TestInv, Test!SpecialCases
<1>2. CASE asked % 2 = 0 \/ asked < 3
  <2>1. /\ result' = (IF asked = 2 THEN 1 ELSE 0) /\ test' = "returned"
        /\ gil' = TRUE /\ rounds' = rounds
    BY <1>2 DEF Test!SpecialCases
  <2>2. Prime(2)
    BY DEF Prime
  <2>3. asked = 2 => IsPrime(asked)
    BY <2>2, PrimeTested
  <2>4. asked # 2 => ~IsPrime(asked)
    <3> SUFFICES ASSUME asked # 2, IsPrime(asked) PROVE FALSE
      OBVIOUS
    <3>1. Prime(asked)
      BY <1>1, PrimeMeaning
    <3>2. asked % 2 # 0
      BY <2>2, <3>1, PrimesApart
    <3>3. asked > 1
      BY <3>1 DEF Prime
    <3> QED BY <1>1, <1>2, <3>2, <3>3
  <2>5. Right(asked', rounds', result' # 0)
    <3>1. CASE asked = 2
      BY <1>1, <2>1, <2>3, <3>1 DEF Right
    <3>2. CASE asked # 2
      BY <1>1, <2>1, <2>4, <3>2 DEF Right
    <3> QED BY <3>1, <3>2
  <2>6. result' # -1
    BY <2>1
  <2> QED BY <1>1, <2>1, <2>5, <2>6 DEF TestInv, Settled
<1>3. CASE ~(asked % 2 = 0 \/ asked < 3)
  <2>1. /\ test' = "round" /\ rounds' = (IF asked - 2 < rounds THEN asked - 2 ELSE rounds)
        /\ gil' = gil
    BY <1>3 DEF Test!SpecialCases
  <2>2. /\ rounds' \in Int /\ rounds' <= asked - 2 /\ rounds' <= MAX_RABIN_MILLER_ROUNDS
    BY <1>1, <2>1, TestAssumption
  <2>3. asked \in Nat /\ asked > 2 /\ asked % 2 = 1
    BY <1>1, <1>3
  <2>4. IsFiniteSet({}) /\ Cardinality({}) = 0
    BY FS_EmptySet
  <2>5. Tested(asked', made', tested')
    BY <1>1, <2>3, <2>4 DEF Tested
  <2> QED BY <1>1, <2>1, <2>2, <2>5 DEF TestInv
<1> QED BY <1>2, <1>3

\* The rounds have been enough, or there is to be one more.
LEMMA TestRound ==
  ASSUME TestInv, Test!NextRound
  PROVE  TestInv'
<1>1. /\ test = "round" /\ asked' = asked /\ made' = made /\ tested' = tested /\ rounds' = rounds
      /\ answer' = answer /\ noBase' = noBase /\ gil = FALSE
      /\ asked \in Int /\ rounds \in Int /\ rounds <= MAX_RABIN_MILLER_ROUNDS
      /\ Tested(asked, made, tested) /\ rounds <= asked - 2
  BY DEF TestInv, Test!NextRound
<1>2. CASE made < rounds
  <2>1. test' = "draw" /\ gil' = TRUE
    BY <1>2 DEF Test!NextRound
  <2> QED BY <1>1, <1>2, <2>1 DEF TestInv
<1>3. CASE ~(made < rounds)
  <2>1. test' = "cleanup" /\ result' = 1 /\ gil' = gil
    BY <1>3 DEF Test!NextRound
  <2>2. ASSUME ~IsPrime(asked) PROVE 4 * rounds <= asked - 1
    <3>1. /\ asked \in Nat /\ asked > 2 /\ asked % 2 = 1 /\ tested \subseteq 1 .. (asked - 1)
          /\ IsFiniteSet(tested) /\ \A a \in tested : Liar(a, Odd(asked), Twos(asked), asked)
      BY <1>1 DEF Tested
    <3>2. /\ Twos(asked) \in Nat /\ Odd(asked) \in Nat /\ Odd(asked) % 2 = 1
          /\ asked - 1 = Odd(asked) * Power(2)[Twos(asked)]
      BY <3>1, PartsOf
    <3>3. 4 * Cardinality(tested) <= asked - 1
      BY <2>2, <3>1, <3>2, LiarsFew
    <3>4. made \in Nat /\ Cardinality(tested) = made
      BY <1>1 DEF Tested
    <3> QED BY <1>1, <1>3, <3>1, <3>3, <3>4
  <2> QED BY <1>1, <2>1, <2>2 DEF TestInv, Settled, Right
<1> QED BY <1>2, <1>3

\* A round with a base that has not been tested.
LEMMA TestDraw ==
  ASSUME TestInv, NEW a \in 2 .. (asked - 1), Test!Draw(a)
  PROVE  TestInv'
<1>1. /\ test = "draw" /\ gil' = FALSE /\ asked' = asked /\ rounds' = rounds
      /\ answer' = answer /\ noBase' = noBase /\ a \notin tested
      /\ made' = made + 1 /\ tested' = tested \cup {a}
      /\ asked \in Int /\ rounds \in Int /\ rounds <= MAX_RABIN_MILLER_ROUNDS
      /\ Tested(asked, made, tested) /\ rounds <= asked - 2
  BY DEF TestInv, Test!Draw, Test!Fresh
<1>2. asked \in Nat /\ asked > 2 /\ a \in Int
  BY <1>1 DEF Tested
<1>3. /\ Test!b = Twos(asked) /\ Test!m = Odd(asked)
      /\ Twos(asked) \in Nat /\ Odd(asked) \in Nat /\ Odd(asked) % 2 = 1
      /\ asked - 1 = Odd(asked) * Power(2)[Twos(asked)]
  BY <1>2, PartsOf
<1> DEFINE S(j) == Squared(a, Odd(asked), asked, j)
           P == \/ S(0) \in {1, asked - 1}
                \/ \E j \in 1 .. Twos(asked) :
                     S(j) = asked - 1 /\ \A h \in 1 .. (j - 1) : S(h) # 1
<1>4. Test!Passes(a) <=> P
  BY <1>2, <1>3, PassesMeans
<1>5. CASE Test!Passes(a)
  <2>1. test' = "round"
    BY <1>5 DEF Test!Draw
  <2>2. Liar(a, Odd(asked), Twos(asked), asked)
    <3>1. \/ S(0) \in {1, asked - 1}
          \/ \E j \in 1 .. Twos(asked) : S(j) = asked - 1
      BY <1>4, <1>5
    <3> HIDE DEF P
    <3> QED BY <1>2, <1>3, <3>1, PassesLiar
  <2>3. IsFiniteSet(tested \cup {a}) /\ Cardinality(tested \cup {a}) = made + 1
    BY <1>1, FS_AddElement DEF Tested
  <2>4. Tested(asked', made', tested')
    BY <1>1, <2>2, <2>3 DEF Tested
  <2> QED BY <1>1, <2>1, <2>4 DEF TestInv
<1>6. CASE ~Test!Passes(a)
  <2>1. test' = "cleanup" /\ result' = 0
    BY <1>6 DEF Test!Draw
  <2>2. ~IsPrime(asked)
    <3> SUFFICES ASSUME IsPrime(asked) PROVE FALSE
      OBVIOUS
    <3>1. Prime(asked)
      BY <1>1, PrimeMeaning
    <3>2. P
      BY <1>2, <1>3, <3>1, PrimeSquares
    <3> QED BY <1>4, <1>6, <3>2
  <2>3. Settled'
    BY <1>1, <2>1, <2>2 DEF Settled, Right
  <2> QED BY <1>1, <2>1, <2>3 DEF TestInv
<1> QED BY <1>5, <1>6

\* The invariant of isPrime holds at first and is kept by every step of it;
\* steps of the other parts leave its variables alone.
LEMMA TestInvHolds == MCSpec => []TestInv
<1>1. MCInit => TestInv
  BY DEF MCInit, Test!Init, TestInv
<1>2. TestInv /\ [MCNext]_allVars => TestInv'
  <2> SUFFICES ASSUME TestInv, [MCNext]_allVars PROVE TestInv'
    OBVIOUS
  <2>1. Test!Next \/ UNCHANGED testVars
    BY DEF MCNext, RSAStep, DSAStep, TestStep, StrongStep, allVars
  <2>2. CASE UNCHANGED testVars
    BY <2>2 DEF testVars, TestInv, Settled
  <2>3. ASSUME NEW N \in Ns, NEW R \in Rounds, Test!isPrime(N, R) PROVE TestInv'
    BY <2>3, TestCall
  <2>4. CASE Test!TrialDivision
    BY <2>4, TestDivision
  <2>5. CASE Test!SpecialCases
    BY <2>5, TestSpecial
  <2>6. CASE Test!NextRound
    BY <2>6, TestRound
  <2>7. ASSUME NEW a \in 2 .. (asked - 1), Test!Draw(a) PROVE TestInv'
    BY <2>7, TestDraw
  <2>8. CASE Test!DrawFails
    BY <2>8 DEF TestInv, Settled, Test!DrawFails
  <2>9. CASE Test!Answer
    BY <2>9 DEF TestInv, Settled, Test!Answer, Right
  <2>10. CASE Test!Warn
    BY <2>10, TestWarn
  <2>11. CASE Test!Cleanup
    BY <2>11 DEF TestInv, Settled, Test!Cleanup
  <2>12. CASE Test!Unblock
    BY <2>12 DEF TestInv, Settled, Test!Unblock
  <2> QED BY <2>1, <2>2, <2>3, <2>4, <2>5, <2>6, <2>7, <2>8, <2>9, <2>10, <2>11, <2>12
          DEF Test!Next
<1> QED BY <1>1, <1>2, PTL DEF MCSpec

\* TestIsSound holds for all numbers, tables of primes, bases drawn and rounds
\* asked for: isPrime calls no prime composite, lets a composite through only
\* after fewer rounds than a quarter of the number, finds a base it has not
\* tested whenever it draws one, answers a draw that failed with an exception
\* set, and holds the interpreter's lock just where Python runs
\* (_fastmath.c:1056-1108, :1334-1434).
THEOREM TestIsSoundHolds == MCSpec => []TestIsSound
<1>1. TestInv => TestIsSound
  <2> SUFFICES ASSUME TestInv PROVE TestIsSound
    OBVIOUS
  <2>1. Test!LockIsBalanced
    BY DEF TestInv, Test!LockIsBalanced
  <2>2. Test!PrimesPass /\ Test!LiarsAreFew
    BY TestMpz DEF TestInv, Right, Test!PrimesPass, Test!LiarsAreFew, Test!Done
  <2>3. Test!ABaseIsLeft
    <3> SUFFICES ASSUME test = "draw"
                 PROVE  /\ \E a \in 2 .. (asked - 1) : a \notin tested
                        /\ made < MAX_RABIN_MILLER_ROUNDS
      BY DEF Test!ABaseIsLeft
    <3>1. /\ rounds \in Int /\ rounds <= MAX_RABIN_MILLER_ROUNDS /\ rounds <= asked - 2
          /\ made < rounds /\ Tested(asked, made, tested)
      BY DEF TestInv
    <3>2. made \in Nat /\ asked \in Nat /\ asked > 2 /\ Cardinality(tested) = made
          /\ tested \subseteq 2 .. (asked - 1)
      BY <3>1 DEF Tested
    <3>3. made < MAX_RABIN_MILLER_ROUNDS
      BY <3>1, <3>2, TestAssumption
    <3>4. \E a \in 2 .. (asked - 1) : a \notin tested
      <4> SUFFICES ASSUME tested = 2 .. (asked - 1) PROVE FALSE
        BY <3>2
      <4> DEFINE hi == asked - 1
      <4>1. hi \in Int /\ 2 \in Int /\ ~(2 > hi) /\ hi - 2 + 1 = asked - 2
        BY <3>2
      <4>2. tested = 2 .. hi
        OBVIOUS
      <4> HIDE DEF hi
      <4>3. Cardinality(2 .. hi) = hi - 2 + 1
        BY <4>1, FS_Interval
      <4>4. made = asked - 2
        BY <3>2, <4>1, <4>2, <4>3
      <4> QED BY <3>1, <3>2, <4>4
    <3> QED BY <3>3, <3>4
  <2>4. Test!FailureIsRaised
    BY DEF TestInv, Test!FailureIsRaised
  <2> QED BY <2>1, <2>2, <2>3, <2>4 DEF TestIsSound
<1> QED BY <1>1, TestInvHolds, PTL

=============================================================================
