------------------------------- MODULE RSAKey -------------------------------
(***************************************************************************)
(* The RSA key object of _fastmath.c.  rsa_construct takes a public key, a *)
(* private exponent alone, from which it has to find the factors, or the   *)
(* factors too; the operations take a number and return one.  A caller     *)
(* (RSA.py) keeps the number it got and goes on with it.  0 is an mpz_t    *)
(* nothing was stored in.                                                  *)
(***************************************************************************)
EXTENDS Mpz

CONSTANTS
  Primes,    \* odd primes keys are made of
  Exponents, \* public exponents
  BadD,      \* private exponents that belong to no key
  Numbers,   \* numbers a caller encrypts, decrypts, or blinds with
  MaxLevel   \* bound on encryptions of encryptions, and on decryptions

ASSUME KeysAssumption ==
  /\ \A p \in Primes : p \in Nat /\ p > 2 /\ IsPrime(p)
  /\ Exponents \subseteq Nat \ {0} /\ BadD \subseteq Nat /\ Numbers \subseteq Nat
  /\ MaxLevel \in Nat

VARIABLES
  phase,
  keyobj,    \* rsaKey: n e d p q u
  base, pow, \* a and k of factorize_N_from_D
  num,       \* the number the caller has
  blind,     \* the factor it is blinded with, 0 for none
  given,     \* history: the number the caller began with, and how many
  level      \* times more often it was encrypted than decrypted since

vars == <<phase, keyobj, base, pow, num, blind, given, level>>

NoKey == [n |-> 0, e |-> 0, d |-> 0, p |-> 0, q |-> 0, u |-> 0]

Init ==
  /\ phase = "new" /\ keyobj = NoKey /\ base = 0 /\ pow = 0
  /\ num = 0 /\ blind = 0 /\ given = 0 /\ level = 0

-----------------------------------------------------------------------------
(* rsaKey_new.                                                             *)

WithU(k) == IF k.u # 0 THEN k ELSE [k EXCEPT !.u = Invert(k.p, k.q)]

rsaKey_new(k) ==
  /\ phase = "new"
  /\ CASE k.d = 0 -> phase' = "ready" /\ keyobj' = k /\ UNCHANGED <<base, pow>>
       [] k.d # 0 /\ k.p # 0 -> phase' = "ready" /\ keyobj' = WithU(k) /\ UNCHANGED <<base, pow>>
       [] k.d # 0 /\ k.p = 0 -> /\ phase' = "factorize" /\ keyobj' = k
                                /\ base' = 2 /\ pow' = 0
  /\ UNCHANGED <<num, blind, given, level>>

\* factorize_N_from_D: one turn of its inner loop.  pow is 0 when the outer
\* loop begins a turn.
ktot == (keyobj.e * keyobj.d) - 1
OddPart == IF ktot = 0 THEN 0 ELSE ktot \div Power(2)[Scan1(ktot)]

\* A root of 1 modulo n, other than 1 and n - 1.
Root(cand) ==
  /\ cand # 1 /\ cand # keyobj.n - 1
  /\ Powm(cand, 2, keyobj.n) = 1

Factor(cand) == IF Root(cand) THEN Gcd(cand + 1, keyobj.n) ELSE 0

Doubled(k) == 2 * k

\* The bound on the bases to try.
Last == 100

factorize_N_from_D ==
  LET k == IF pow = 0 THEN OddPart ELSE pow
      f == Factor(Powm(base, k, keyobj.n))
  IN /\ phase = "factorize"
     /\ CASE base >= Last ->                  \* ValueError; the key is not freed
               /\ phase' = "failed" /\ keyobj' = NoKey
               /\ base' = 0 /\ pow' = 0
          [] base < Last /\ k >= ktot -> base' = base + 2 /\ pow' = 0 /\ UNCHANGED <<phase, keyobj>>
          [] base < Last /\ k < ktot /\ f = 0 -> pow' = Doubled(k) /\ UNCHANGED <<phase, keyobj, base>>
          [] base < Last /\ k < ktot /\ f # 0 ->
               /\ phase' = "ready" /\ base' = 0 /\ pow' = 0
               /\ keyobj' = WithU([keyobj EXCEPT !.p = f, !.q = keyobj.n \div f])
     /\ UNCHANGED <<num, blind, given, level>>

rsaKey_dealloc ==
  /\ phase \in {"ready", "failed"} /\ phase' = "new" /\ keyobj' = NoKey
  /\ num' = 0 /\ blind' = 0 /\ given' = 0 /\ level' = 0 /\ UNCHANGED <<base, pow>>

-----------------------------------------------------------------------------
(* The operations, Error where they raise.                               *)

Error == -1

rsaEncrypt(v) == IF v >= keyobj.n THEN Error ELSE Powm(v, keyobj.e, keyobj.n)

Fast_NoWrap(v) ==
  LET m1 == Powm(v, keyobj.d % (keyobj.p - 1), keyobj.p)
      m2 == Powm(v, keyobj.d % (keyobj.q - 1), keyobj.q)
      h == (keyobj.u * (m2 - m1)) % keyobj.p
  IN m1 + (h * keyobj.p)

\* By the Chinese remainder theorem.
Fast(v) ==
  LET m1 == Powm(v, keyobj.d % (keyobj.p - 1), keyobj.p)
      m2 == Powm(v, keyobj.d % (keyobj.q - 1), keyobj.q)
      diff == IF m2 - m1 < 0 THEN (m2 - m1) + keyobj.q ELSE m2 - m1
      h == (keyobj.u * diff) % keyobj.q
  IN m1 + (h * keyobj.p)

rsaDecrypt(v) ==
  CASE v >= keyobj.n -> Error
    [] v < keyobj.n /\ keyobj.d = 0 -> Error
    [] v < keyobj.n /\ keyobj.d # 0 ->
         IF keyobj.p # 0 /\ keyobj.q # 0 /\ keyobj.u # 0
         THEN Fast(v) ELSE Powm(v, keyobj.d, keyobj.n)

rsaBlind(v, b) ==
  IF v >= keyobj.n \/ b >= keyobj.n THEN Error
  ELSE (v * Powm(b, keyobj.e, keyobj.n)) % keyobj.n

rsaUnBlind(v, b) ==
  IF v >= keyobj.n \/ b >= keyobj.n \/ Invert(b, keyobj.n) = 0 THEN Error
  ELSE (v * Invert(b, keyobj.n)) % keyobj.n

\* rsaKey__verify ignores the error of rsaEncrypt, which then leaves the
\* signature as it is.
rsaVerify(v, sig) == v = (IF rsaEncrypt(sig) = Error THEN sig ELSE rsaEncrypt(sig))

\* Each call goes through mpzToLongObj and longObjToMPZ.
Returned(v) == longObjToMPZ(mpzToLongObj(v))

Begin(v) ==
  /\ phase = "ready" /\ blind = 0 /\ num' = v /\ given' = v /\ level' = 0
  /\ UNCHANGED <<phase, keyobj, base, pow, blind>>

rsaKey__encrypt ==
  /\ phase = "ready" /\ blind = 0 /\ level < MaxLevel
  /\ LET r == rsaEncrypt(num) IN r # Error /\ num' = Returned(r)
  /\ level' = level + 1 /\ UNCHANGED <<phase, keyobj, base, pow, blind, given>>

\* Decrypting a blinded number makes it one to unblind.
rsaKey__decrypt ==
  /\ phase \in {"ready", "blinded"} /\ level > -MaxLevel
  /\ LET r == rsaDecrypt(num) IN r # Error /\ num' = Returned(r)
  /\ phase' = IF phase = "blinded" THEN "unblind" ELSE phase
  /\ level' = level - 1 /\ UNCHANGED <<keyobj, base, pow, blind, given>>

\* RSA.py blinds what it decrypts or signs with a factor between 1 and n - 2.
rsaKey__blind(b) ==
  /\ phase = "ready" /\ keyobj.d # 0 /\ b \in 1 .. (keyobj.n - 2) /\ level > -MaxLevel
  /\ LET r == rsaBlind(num, b) IN r # Error /\ num' = Returned(r)
  /\ phase' = "blinded" /\ blind' = b /\ UNCHANGED <<keyobj, base, pow, given, level>>

\* "Inverse doesn't exist" leaves the caller without the number.
rsaKey__unblind ==
  /\ phase = "unblind" /\ phase' = "ready" /\ blind' = 0
  /\ LET r == rsaUnBlind(num, blind)
     IN IF r = Error THEN num' = 0 /\ given' = 0 /\ level' = 0
        ELSE num' = Returned(r) /\ UNCHANGED <<given, level>>
  /\ UNCHANGED <<keyobj, base, pow>>

-----------------------------------------------------------------------------
\* The keys a caller constructs: generated ones, with as much of them as it
\* has, and private exponents that fit no modulus.
Totient(p, q) == (p - 1) * (q - 1)

Key(p, q, e) ==
  [n |-> p * q, e |-> e, d |-> Invert(e, Totient(p, q)), p |-> p, q |-> q, u |-> Invert(p, q)]

Generated ==
  {Key(t[1], t[2], t[3]) :
     t \in {s \in Primes \X Primes \X Exponents :
             s[1] # s[2] /\ Gcd(s[3], Totient(s[1], s[2])) = 1}}

Public(k) == [k EXCEPT !.d = 0, !.p = 0, !.q = 0, !.u = 0]
PrivateOnly(k, d) == [k EXCEPT !.d = d, !.p = 0, !.q = 0, !.u = 0]
NoU(k) == [k EXCEPT !.u = 0]

Next ==
  \/ \E k \in Generated :
       \/ rsaKey_new(k) \/ rsaKey_new(Public(k)) \/ rsaKey_new(NoU(k))
       \/ \E d \in BadD \cup {k.d} : rsaKey_new(PrivateOnly(k, d))
  \/ factorize_N_from_D \/ rsaKey_dealloc
  \/ \E v \in Numbers : Begin(v) \/ rsaKey__blind(v)
  \/ rsaKey__encrypt \/ rsaKey__decrypt \/ rsaKey__unblind

Spec == Init /\ [][Next]_vars /\ WF_vars(factorize_N_from_D)

-----------------------------------------------------------------------------
(* Properties.                                                             *)

\* d really belongs to the key.
Fits == \A f \in {keyobj.p, keyobj.q} : (keyobj.e * keyobj.d) % (f - 1) = 1 % (f - 1)

\* The private operation undoes the public one and the other way round, for
\* every number below n, those a factor of n divides included, whether or not
\* the caller blinds what it decrypts or signs.
ReturnsToGiven ==
  phase = "ready" /\ keyobj.d # 0 /\ Fits /\ blind = 0 /\ level = 0 => num = given

\* Of all signatures of the caller's number, the one the private key makes, and
\* no other, verifies.  This speaks only of numbers to be signed below n:
\* of larger ones it says nothing, for _verify does not look at what rsaEncrypt
\* returns for a signature that is not below n (_fastmath.c:940) and compares
\* the two as they came.
VerifiesOneSignature ==
  phase = "ready" /\ keyobj.d # 0 /\ Fits /\ num < keyobj.n =>
    \A sig \in 0 .. (keyobj.n + 1) : rsaVerify(num, sig) = (sig = Powm(num, keyobj.d, keyobj.n))

Own == \E k \in Generated : k.n = keyobj.n /\ k.e = keyobj.e /\ k.d = keyobj.d

\* factorize_N_from_D answers: the loops over the bases and over the powers
\* end, and only an exponent that is not the key's own makes it give up
\* (_fastmath.c:747).
FactoringEnds ==
  /\ phase = "factorize" ~> phase \in {"ready", "failed"}
  /\ phase = "factorize" /\ Own ~> phase = "ready"

=============================================================================
