-------------------------------- MODULE Mpz ---------------------------------
(***************************************************************************)
(* What _fastmath.c takes from GMP, on the integers, and its conversions   *)
(* between GMP's integers and the digits of a Python long.                 *)
(***************************************************************************)
EXTENDS Integers, Sequences

CONSTANT SHIFT   \* bits in a digit of a Python long
ASSUME ShiftAssumption == SHIFT \in Nat \ {0}

Abs(x) == IF x < 0 THEN -x ELSE x
Sgn(x) == IF x < 0 THEN -1 ELSE IF x = 0 THEN 0 ELSE 1

\* The powers of x.
Power(x) == LET f[k \in Nat] == IF k = 0 THEN 1 ELSE x * f[k - 1] IN f

\* mpz_powm: b ^ e modulo n, for e >= 0.
Powm(b, e, n) ==
  LET Square(x) == (x * x) % n
      f[k \in 0 .. e] ==
        IF k = 0 THEN 1 % n
        ELSE (Square(f[k \div 2]) * (IF k % 2 = 1 THEN b % n ELSE 1)) % n
  IN f[e]

\* mpz_gcd, of positive numbers.
Gcd(a, b) ==
  LET Divides(d) == a % d = 0 /\ b % d = 0
      Least == IF a < b THEN a ELSE b
  IN CHOOSE d \in 1 .. Least : Divides(d) /\ \A c \in (d + 1) .. Least : ~Divides(c)

\* mpz_invert, 0 where there is no inverse.
Invert(a, n) ==
  IF \E x \in 1 .. (n - 1) : (a * x) % n = 1
  THEN CHOOSE x \in 1 .. (n - 1) : (a * x) % n = 1 ELSE 0

\* mpz_sizeinbase (n, 2): 1 for 0.
SizeInBase2(n) == CHOOSE b \in 1 .. (n + 1) : n < Power(2)[b] /\ (b > 1 => n >= Power(2)[b - 1])

\* mpz_scan1 (n, 0): the zeros below the lowest one.
Scan1(n) == CHOOSE b \in 0 .. n : n % Power(2)[b] = 0 /\ (n \div Power(2)[b]) % 2 = 1

SquareRoot(n) == CHOOSE r \in 0 .. n : r * r <= n /\ (r + 1) * (r + 1) > n
IsPrime(n) == n > 1 /\ \A d \in 2 .. SquareRoot(n) : n % d # 0

-----------------------------------------------------------------------------
(* A Python long: the sign of size is the number's, its magnitude the      *)
(* number of digits; the least significant digit comes first.              *)

longObjToMPZ(p) ==
  LET negative == IF p.size > 0 THEN 1 ELSE -1
      size == negative * p.size
      m[i \in 0 .. size] ==
        IF i = 0 THEN 0 ELSE m[i - 1] + (p.digit[i] * Power(2)[SHIFT * (i - 1)])
  IN m[size] * negative

mpzToLongObj(m) ==
  LET size == (SizeInBase2(Abs(m)) + SHIFT - 1) \div SHIFT
      digit == [i \in 1 .. size |-> (Abs(m) \div Power(2)[SHIFT * (i - 1)]) % Power(2)[SHIFT]]
      used == CHOOSE i \in 0 .. size :
                (i > 0 => digit[i] # 0) /\ \A k \in (i + 1) .. size : digit[k] = 0
  IN [size |-> used * Sgn(m), digit |-> SubSeq(digit, 1, used)]

=============================================================================
