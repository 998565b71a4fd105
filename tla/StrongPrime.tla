---------------------------- MODULE StrongPrime -----------------------------
(***************************************************************************)
(* getStrongPrime of _fastmath.c: from random X, y[0] and y[1] it finds    *)
(* primes p[0] and p[1] after y[0] and y[1], and then searches upwards     *)
(* from X, in steps of p[0]*p[1], for a prime p with p - 1 a multiple of   *)
(* p[0] and p + 1 one of p[1].  The Rabin-Miller test is right unless its  *)
(* random numbers fail.  A step is a turn of a loop.                       *)
(***************************************************************************)
EXTENDS Mpz

CONSTANTS
  lower_bound, upper_bound,  \* of X
  Xs,          \* values X is drawn from, between the bounds
  YBits,       \* 101 in the code
  sieve_base, field_size,
  Es           \* values of e, 0 for none

VARIABLES
  phase,
  e,
  bigX,     \* X
  y, p,     \* indexed from 1
  nth, j,   \* of the search for p: which one, and the place in the field
  prime,    \* what the call returned, 0 for NULL
  raised    \* has a draw set a Python exception?

vars == <<phase, e, bigX, y, p, nth, j, prime, raised>>

Init ==
  /\ phase = "idle" /\ e = 0 /\ bigX = 0 /\ y = <<>> /\ p = <<>> /\ nth = 0 /\ j = 0
  /\ prime = 0 /\ raised = FALSE

-----------------------------------------------------------------------------
(* Random numbers.                                                         *)

\* getRandomInteger draws one to eight bits too many and shifts them out.
RandomIntegers(bits) ==
  LET odd_bits == bits % 8
      bytes == (bits \div 8) + 1
  IN 0 .. ((Power(2)[8 * bytes] - 1) \div Power(2)[8 - odd_bits])

getRandomNBitInteger(bits) == {x + Power(2)[bits] : x \in RandomIntegers(bits)}

\* Numbers above the range are drawn again.
getRandomRange(lower, upper) ==
  LET range == (upper - lower) - 1
  IN {lower + x : x \in {r \in RandomIntegers(SizeInBase2(range)) : r <= range}}

-----------------------------------------------------------------------------

getStrongPrime(E) ==
  /\ phase = "idle" /\ phase' = "draw" /\ e' = E /\ prime' = 0 /\ raised' = FALSE
  /\ UNCHANGED <<bigX, y, p, nth, j>>

Draw(x, y1, y2) ==
  /\ phase = "draw" /\ phase' = "field"
  /\ bigX' = x /\ y' = <<y1, y2>> /\ p' = <<0, 0>> /\ nth' = 1 /\ j' = 0
  /\ UNCHANGED <<e, prime, raised>>

\* A failure returns NULL.
Return(value) ==
  /\ phase' = "idle" /\ prime' = value
  /\ bigX' = 0 /\ y' = <<>> /\ p' = <<>> /\ nth' = 0 /\ j' = 0

DrawFails == phase = "draw" /\ raised' = TRUE /\ Return(0) /\ UNCHANGED e

\* sieve_field marks the multiples of each prime of the table, from the first
\* one at or after y.
sieve_field(start) ==
  LET from(d) == (d - (start % d)) % d
  IN [k \in 0 .. (field_size - 1) |-> \E d \in sieve_base : k >= from(d) /\ (k - from(d)) % d = 0]

\* The next number of the field.  A failed draw in the test makes its result
\* -1, which the unsigned variable holding it turns into a large number.
TestField ==
  /\ phase = "field" /\ j < field_size
  /\ LET candidate == y[nth] + j
         Found == /\ p' = [p EXCEPT ![nth] = candidate] /\ j' = 0
                  /\ IF nth = 1 THEN nth' = 2 /\ UNCHANGED phase ELSE phase' = "combine" /\ UNCHANGED nth
     IN IF sieve_field(y[nth])[j]
        THEN j' = j + 1 /\ UNCHANGED <<phase, p, nth, raised>>
        ELSE \/ IF IsPrime(candidate) THEN Found /\ UNCHANGED raised
                ELSE j' = j + 1 /\ UNCHANGED <<phase, p, nth, raised>>
             \/ Found /\ raised' = TRUE
  /\ UNCHANGED <<e, bigX, y, prime>>

FieldEnds == phase = "field" /\ j = field_size /\ raised' = TRUE /\ Return(0) /\ UNCHANGED e

\* R is 1 modulo p[0] and -1 modulo p[1]; X becomes R modulo their product.
R_SameSign == (Invert(p[2], p[1]) * p[2]) + (Invert(p[1], p[2]) * p[1])

R == (Invert(p[2], p[1]) * p[2]) - (Invert(p[1], p[2]) * p[1])
increment == p[1] * p[2]

Combine ==
  /\ phase = "combine" /\ phase' = "search"
  /\ bigX' = bigX + (R - (bigX % increment))
  /\ UNCHANGED <<e, y, p, nth, j, prime, raised>>

\* Trial division, and for an e that e has no factor in common with x - 1, or
\* with half of it.
Possible(x) ==
  /\ \A d \in sieve_base : x % d # 0
  /\ e # 0 => Gcd(IF e % 2 = 1 THEN x - 1 ELSE (x - 1) \div 2, e) = 1

NextX_Same(x) == x

NextX(x) == x + increment

Search ==
  /\ phase = "search"
  /\ \/ /\ Possible(bigX) /\ IsPrime(bigX)
        /\ phase' = "return" /\ UNCHANGED <<bigX, raised>>
     \/ /\ Possible(bigX) /\ raised' = TRUE
        /\ phase' = "return" /\ UNCHANGED bigX
     \/ /\ ~(Possible(bigX) /\ IsPrime(bigX)) /\ NextX(bigX) < upper_bound
        /\ bigX' = NextX(bigX) /\ UNCHANGED <<phase, raised>>
  /\ UNCHANGED <<e, y, p, nth, j, prime>>

\* RuntimeError.
SearchEnds ==
  /\ phase = "search" /\ ~(Possible(bigX) /\ IsPrime(bigX)) /\ NextX(bigX) >= upper_bound
  /\ raised' = TRUE /\ Return(0) /\ UNCHANGED e

ReturnPrime == phase = "return" /\ Return(bigX) /\ UNCHANGED <<e, raised>>

Working == TestField \/ FieldEnds \/ Combine \/ Search \/ SearchEnds \/ ReturnPrime

Next ==
  \/ \E E \in Es : getStrongPrime(E)
  \/ \E x \in Xs \cap getRandomRange(lower_bound, upper_bound) :
       \E y1, y2 \in getRandomNBitInteger(YBits) : Draw(x, y1, y2)
  \/ DrawFails \/ Working

Spec == Init /\ [][Next]_vars /\ WF_vars(Working)

-----------------------------------------------------------------------------
(* Properties.                                                             *)

\* What is about to be returned without an exception is what the comment on
\* getStrongPrime promises, and fit for an RSA key with exponent e (number.py:
\* "the returned prime p-1 will be coprime to e"; for an even e, half of it).
\* Two equal p, which the code neither excludes nor survives, are left out.
PrimeIsStrong ==
  phase = "return" /\ ~raised /\ p[1] # p[2] =>
    /\ IsPrime(bigX) /\ (bigX - 1) % p[1] = 0 /\ (bigX + 1) % p[2] = 0
    /\ IsPrime(p[1]) /\ IsPrime(p[2])
    /\ e # 0 => Gcd(IF e % 2 = 1 THEN bigX - 1 ELSE (bigX - 1) \div 2, e) = 1

\* The call comes back, with a prime or an exception.
Returns == phase \notin {"idle", "draw"} ~> phase = "idle"

=============================================================================
