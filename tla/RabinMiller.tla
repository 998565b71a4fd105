---------------------------- MODULE RabinMiller -----------------------------
(***************************************************************************)
(* isPrime of _fastmath.c: trial division, then rabinMillerTest with       *)
(* random bases.  The random bytes come from Python, so every draw takes   *)
(* the interpreter's lock and may fail; the arithmetic runs without it.    *)
(* The code around the test takes the lock for it and gives it back, the   *)
(* test gives it up for itself: each of these steps is an action's.        *)
(***************************************************************************)
EXTENDS Mpz, FiniteSets

CONSTANTS
  Ns,          \* numbers asked about, of either sign
  sieve_base,  \* the primes of trial division
  Rounds,      \* rounds false_positive_prob comes to
  MAX_RABIN_MILLER_ROUNDS

VARIABLES
  phase,
  n, rounds,
  i,       \* rounds made
  tested,  \* the bases of them
  gil,     \* does this thread hold the interpreter's lock?
  result,  \* of rabinMillerTest, or of trial division
  answer,  \* what isPrime returns
  raised   \* has a draw, or the warning, set a Python exception?

vars == <<phase, n, rounds, i, tested, gil, result, answer, raised>>

Init ==
  /\ phase = "idle" /\ n = 0 /\ rounds = 0 /\ i = 0 /\ tested = {} /\ gil = TRUE
  /\ result = 0 /\ answer = "none" /\ raised = FALSE

isPrime(N, R) ==
  /\ phase = "idle" /\ phase' = "divide" /\ n' = N /\ rounds' = R
  /\ gil' = FALSE /\ answer' = "none" /\ raised' = FALSE /\ i' = 0 /\ tested' = {}
  /\ UNCHANGED result

\* A prime of the table, a multiple of one, or a number for the test, which
\* is called with the lock.
TrialDivision ==
  /\ phase = "divide"
  /\ IF \E d \in sieve_base : n % d = 0
     THEN /\ result' = IF n \in sieve_base THEN 2 ELSE 0
          /\ phase' = "answer" /\ UNCHANGED gil
     ELSE phase' = "warn" /\ gil' = TRUE /\ UNCHANGED result
  /\ UNCHANGED <<n, rounds, i, tested, answer, raised>>

\* The warning about too many rounds is Python's; nobody asks whether a filter
\* made an exception of it.
Warn ==
  /\ phase = "warn" /\ phase' = "special" /\ gil' = FALSE
  /\ IF rounds > MAX_RABIN_MILLER_ROUNDS
     THEN rounds' = MAX_RABIN_MILLER_ROUNDS /\ raised' \in BOOLEAN
     ELSE UNCHANGED <<rounds, raised>>
  /\ UNCHANGED <<n, i, tested, result, answer>>

\* Even numbers and those below 3 are answered at once, with a lock taken back
\* of their own; there are no more rounds than bases.
SpecialCases ==
  /\ phase = "special"
  /\ IF n % 2 = 0 \/ n < 3
     THEN /\ result' = (IF n = 2 THEN 1 ELSE 0)
          /\ phase' = "returned" /\ gil' = TRUE /\ UNCHANGED rounds
     ELSE /\ phase' = "round" /\ rounds' = (IF n - 2 < rounds THEN n - 2 ELSE rounds)
          /\ UNCHANGED <<gil, result>>
  /\ UNCHANGED <<n, i, tested, answer, raised>>

NextRound ==
  /\ phase = "round"
  /\ IF i < rounds
     THEN phase' = "draw" /\ gil' = TRUE /\ UNCHANGED result
     ELSE phase' = "cleanup" /\ result' = 1 /\ UNCHANGED gil
  /\ UNCHANGED <<n, rounds, i, tested, answer, raised>>

\* One call of getRandomRange (a, tmp, n) and, for a base not tested yet, the
\* round with it.  The draws of the loop that come up with a tested base
\* change nothing.
Fresh_Any(a) == TRUE

Fresh(a) == a \notin tested

\* n - 1 = 2^b * m.  Does base a pass the round?
b == Scan1(n - 1)
m == (n - 1) \div Power(2)[b]

Passes(a) ==
  LET z == Powm(a, m, n)
      squared[j \in 0 .. b] == IF j = 0 THEN z ELSE (squared[j - 1] * squared[j - 1]) % n
  IN \/ z \in {1, n - 1}
     \/ \E j \in 1 .. b : squared[j] = n - 1 /\ \A h \in 1 .. (j - 1) : squared[h] # 1

Draw(a) ==
  /\ phase = "draw" /\ gil' = FALSE /\ Fresh(a)
  /\ i' = i + 1 /\ tested' = tested \cup {a}
  /\ IF Passes(a) THEN phase' = "round" /\ UNCHANGED result ELSE phase' = "cleanup" /\ result' = 0
  /\ UNCHANGED <<n, rounds, answer, raised>>

DrawFails ==
  /\ phase = "draw" /\ gil' = FALSE /\ raised' = TRUE
  /\ phase' = "cleanup" /\ result' = -1
  /\ UNCHANGED <<n, rounds, i, tested, answer>>

\* The test's end takes the lock it had given up, its caller gives it back.
Cleanup ==
  /\ phase = "cleanup" /\ phase' = "returned" /\ gil' = TRUE
  /\ UNCHANGED <<n, rounds, i, tested, result, answer, raised>>

Unblock ==
  /\ phase = "returned" /\ phase' = "answer" /\ gil' = FALSE
  /\ UNCHANGED <<n, rounds, i, tested, result, answer, raised>>

Answer ==
  /\ phase = "answer" /\ phase' = "idle" /\ gil' = TRUE
  /\ answer' = IF result = 0 THEN "False" ELSE "True"
  /\ UNCHANGED <<n, rounds, i, tested, result, raised>>

Next ==
  \/ \E N \in Ns, R \in Rounds : isPrime(N, R)
  \/ TrialDivision \/ Warn \/ SpecialCases \/ NextRound
  \/ \E a \in 2 .. (n - 1) : Draw(a)
  \/ DrawFails \/ Cleanup \/ Unblock \/ Answer

Spec == Init /\ [][Next]_vars

-----------------------------------------------------------------------------
(* Properties.                                                             *)

\* A call has answered, and no draw of it failed.
Done == phase = "idle" /\ answer # "none" /\ result # -1

\* A prime is never called composite, whatever the bases drawn.
PrimesPass == Done /\ IsPrime(n) => answer = "True"

\* Every round lets a composite through with at most one base in four, as the
\* comment on rabinMillerTest has it, and no base is spent twice: a composite
\* that passes has had no more rounds than that.
LiarsAreFew == Done /\ answer = "True" /\ ~IsPrime(n) => 4 * rounds <= n - 1

\* The loop that looks for a base not tested yet can end, and the array that
\* remembers them can hold it.
ABaseIsLeft ==
  phase = "draw" => /\ \E a \in 2 .. (n - 1) : a \notin tested
                    /\ i < MAX_RABIN_MILLER_ROUNDS

\* A draw that failed has the answer "True" (the -1 is not 0): the caller is
\* told only by the exception that comes with it.
FailureIsRaised == phase = "idle" /\ result = -1 => raised /\ answer = "True"

\* Whatever path a call takes, errors and early returns included, the thread
\* has the lock where Python runs - the caller, the warning, randfunc, the
\* test's end - and has given it up where the code takes it again.
LockIsBalanced == gil = (phase \in {"idle", "warn", "draw", "returned"})

=============================================================================
