----------------------------- MODULE MCNumbers ------------------------------
(***************************************************************************)
(* The numbers of _fastmath.c: RSA keys, DSA keys, isPrime and             *)
(* getStrongPrime, which share the arithmetic of Mpz and no state.  One of *)
(* them at a time.                                                         *)
(***************************************************************************)
EXTENDS RSAKey

CONSTANTS
  Groups, Messages, Ks,                                            \* DSAKey
  Ns, TestSieve, Rounds, MAX_RABIN_MILLER_ROUNDS,                  \* RabinMiller
  lower_bound, upper_bound, Xs, YBits, FieldSieve, field_size, Es  \* StrongPrime

\* What the proofs about this part rest on: g has the prime order q.
ASSUME GroupsAssumption ==
  /\ \A G \in Groups : /\ G.p \in Nat /\ G.p > 1 /\ G.g \in Nat
                       /\ G.q \in Nat /\ IsPrime(G.q) /\ Powm(G.g, G.q, G.p) = 1
  /\ Messages \subseteq Int /\ Ks \subseteq Int

\* Numbers of isPrime, and a table of primes.
ASSUME TestAssumption ==
  /\ Ns \subseteq Int /\ Rounds \subseteq Nat /\ MAX_RABIN_MILLER_ROUNDS \in Nat
  /\ \A d \in TestSieve : d \in Nat /\ IsPrime(d)

\* What getStrongPrime draws.
ASSUME SearchAssumption == Xs \subseteq Int /\ YBits \in Nat

VARIABLES
  part,
  dsaobj, signer, message, nonce, sig, verdict,                  \* DSAKey
  test, asked, rounds, made, tested, gil, result, answer, noBase, \* RabinMiller
  search, exponent, bigX, starts, factors, nth, place, prime, noNumber  \* StrongPrime

dsaVars == <<dsaobj, signer, message, nonce, sig, verdict>>
testVars == <<test, asked, rounds, made, tested, gil, result, answer, noBase>>
searchVars == <<search, exponent, bigX, starts, factors, nth, place, prime, noNumber>>
allVars == <<part, vars, dsaVars, testVars, searchVars>>

\* Two small groups, hashes below and above their orders, and any k.
TwoGroups == {[p |-> 11, q |-> 5, g |-> 4], [p |-> 29, q |-> 7, g |-> 16]}

Dsa == INSTANCE DSAKey WITH
  keyobj <- dsaobj, k <- nonce, result <- verdict

\* With 2 alone in the table the test itself sees the small odd composites.
SmallNumbers == (-3 .. 13) \cup {15, 21, 25, 27}

Test == INSTANCE RabinMiller WITH
  sieve_base <- TestSieve,
  phase <- test, n <- asked, i <- made, raised <- noBase

\* Numbers of 14 bits around primes of 4 and 5; X from the ends of its range
\* and from its middle.
Strong == INSTANCE StrongPrime WITH
  sieve_base <- FieldSieve,
  phase <- search, e <- exponent, y <- starts, p <- factors, j <- place, raised <- noNumber

MCInit ==
  /\ part \in {"RSA", "DSA", "isPrime", "getStrongPrime"}
  /\ Init /\ Dsa!Init /\ Test!Init /\ Strong!Init

RSAStep(A) == part = "RSA" /\ A /\ UNCHANGED <<part, dsaVars, testVars, searchVars>>
DSAStep == part = "DSA" /\ Dsa!Next /\ UNCHANGED <<part, vars, testVars, searchVars>>
TestStep == part = "isPrime" /\ Test!Next /\ UNCHANGED <<part, vars, dsaVars, searchVars>>
StrongStep(A) == part = "getStrongPrime" /\ A /\ UNCHANGED <<part, vars, dsaVars, testVars>>

MCNext == RSAStep(Next) \/ DSAStep \/ TestStep \/ StrongStep(Strong!Next)

\* The fairness of RSAKey and of StrongPrime.
MCSpec ==
  /\ MCInit /\ [][MCNext]_allVars
  /\ WF_allVars(RSAStep(factorize_N_from_D)) /\ WF_allVars(StrongStep(Strong!Working))

-----------------------------------------------------------------------------
(* Properties, with those of RSAKey.                                       *)

\* Factoring a modulus and looking for a strong prime both end, with what was
\* asked for or with an exception (_fastmath.c:684-707, :1525-1641).
LoopsEnd == FactoringEnds /\ Strong!Returns

\* A DSA signature verifies with any object of the key that made it, and of
\* RSA signatures of a number below n just the one the private key makes.
SignatureVerifies == Dsa!SignatureVerifies /\ VerifiesOneSignature

\* isPrime never calls a prime composite and lets a composite through only for
\* want of rounds; until then it finds a base not tested yet, and it has the
\* interpreter's lock just where Python runs, errors and early returns
\* included.  When a draw fails the answer is "True", and with an exception.
TestIsSound ==
  /\ Test!PrimesPass /\ Test!LiarsAreFew /\ Test!ABaseIsLeft
  /\ Test!FailureIsRaised /\ Test!LockIsBalanced

\* What getStrongPrime returns is a strong prime fit for its exponent.
PrimeIsStrong == Strong!PrimeIsStrong

=============================================================================
