------------------------------ MODULE CtrMode -------------------------------
(***************************************************************************)
(* ALG_Encrypt of block_template.c in CTR mode, which is also its          *)
(* ALG_Decrypt: threads push data through cipher objects whose keystream   *)
(* blocks are the encryptions of what one counter gives out.  The GIL is   *)
(* released for the whole loop and taken back to call the counter, unless  *)
(* the counter is of Crypto.Util.Counter and lets the loop go around the   *)
(* call.                                                                   *)
(*                                                                         *)
(* A keystream byte is named by the counter block it comes from and its    *)
(* offset.  Each cipher object belongs to one thread; the counter may be   *)
(* shared.  An empty string and a failed malloc change nothing.            *)
(***************************************************************************)
EXTENDS Naturals, Sequences, SequencesExt

CONSTANTS
  Threads,     \* each with a cipher object of its own, new and in CTR mode
  BLOCK_SIZE,
  Limit,       \* numbers the counter has
  Shortcuts,   \* whether __PCT_CTR_SHORTCUT__ is offered: a set of choices
  Customs,     \* whether the counter is a callable of the program's own
  MaxLen,      \* longest string of one call
  MaxUsed      \* bound on the bytes pushed through one cipher

VARIABLES
  shortcut, custom, allow_wraparound,  \* what the counter is
  fits,        \* a counter of Crypto.Util.Counter has blocks of BLOCK_SIZE bytes
  val, carry,  \* the counter
  pc,          \* where each thread is in ALG_Encrypt
  todo,        \* len - i
  count,       \* offset in the keystream block
  IV,          \* the counter block the keystream block comes from
  tmp,         \* a number read from the counter
  drawn,       \* history: the blocks each cipher encrypted, in order
  used         \* history: the keystream bytes each cipher used, in order

counter == <<shortcut, custom, allow_wraparound, fits>>
vars == <<counter, val, carry, pc, todo, count, IV, tmp, drawn, used>>

None == Limit

TypeOK ==
  /\ shortcut \in BOOLEAN /\ custom \in BOOLEAN /\ allow_wraparound \in BOOLEAN
  /\ fits \in BOOLEAN /\ val \in 0 .. (Limit - 1) /\ carry \in BOOLEAN
  /\ pc \in [Threads -> {"idle", "loop", "check", "block_encrypt", "load", "store",
                         "call", "encrypt_result"}]
  /\ todo \in [Threads -> 0 .. MaxLen] /\ count \in [Threads -> 0 .. BLOCK_SIZE]
  /\ IV \in [Threads -> 0 .. None] /\ tmp \in [Threads -> 0 .. None]

Init ==
  /\ shortcut \in Shortcuts /\ custom \in Customs /\ ~(shortcut /\ custom)
  /\ allow_wraparound \in BOOLEAN /\ fits \in BOOLEAN /\ (custom => fits)
  /\ val \in 0 .. (Limit - 1) /\ carry = FALSE
  /\ pc = [t \in Threads |-> "idle"] /\ todo = [t \in Threads |-> 0]
  /\ count = [t \in Threads |-> BLOCK_SIZE] /\ IV = [t \in Threads |-> None]
  /\ tmp = [t \in Threads |-> None]
  /\ drawn = [t \in Threads |-> <<>>] /\ used = [t \in Threads |-> <<>>]

Goto(t, label) == pc' = [pc EXCEPT ![t] = label]

-----------------------------------------------------------------------------
ALG_Encrypt(t, len) ==
  /\ pc[t] = "idle" /\ Len(used[t]) + len <= MaxUsed
  /\ Goto(t, "loop") /\ todo' = [todo EXCEPT ![t] = len]
  /\ UNCHANGED <<counter, val, carry, count, IV, tmp, drawn, used>>

\* XOR n bytes with the keystream from count on.
UseKeystream(t, n) ==
  used' = [used EXCEPT ![t] = @ \o [k \in 1 .. n |-> <<IV[t], count[t] + k - 1>>]]

Remaining(t) == BLOCK_SIZE - count[t]

\* What is left of the block is enough: the call returns.
FinishInBlock(t) ==
  /\ pc[t] = "loop" /\ todo[t] <= Remaining(t)
  /\ UseKeystream(t, todo[t]) /\ count' = [count EXCEPT ![t] = @ + todo[t]]
  /\ todo' = [todo EXCEPT ![t] = 0] /\ Goto(t, "idle")
  /\ UNCHANGED <<counter, val, carry, IV, tmp, drawn>>

UseUpBlock(t) ==
  /\ pc[t] = "loop" /\ todo[t] > Remaining(t)
  /\ UseKeystream(t, Remaining(t)) /\ count' = [count EXCEPT ![t] = BLOCK_SIZE]
  /\ todo' = [todo EXCEPT ![t] = @ - Remaining(t)]
  /\ Goto(t, IF shortcut THEN "check" ELSE "call")
  /\ UNCHANGED <<counter, val, carry, IV, tmp, drawn>>

\* An error: the output of this call is freed, the keystream stays used.
Fail(t) == Goto(t, "idle") /\ todo' = [todo EXCEPT ![t] = 0]

Overflow == carry /\ ~allow_wraparound

OverflowError(t) ==
  /\ pc[t] \in {"check", "call"} /\ Overflow /\ ~custom /\ Fail(t)
  /\ UNCHANGED <<counter, val, carry, count, IV, tmp, drawn, used>>

-----------------------------------------------------------------------------
\* The shortcut, without the GIL: test, encrypt what val holds, increment.  A
\* counter of another size is refused, and not moved on.
WrongSize(t) ==
  /\ pc[t] = "check" /\ ~Overflow /\ ~fits /\ Fail(t)
  /\ UNCHANGED <<counter, val, carry, count, IV, tmp, drawn, used>>

Check(t) ==
  /\ pc[t] = "check" /\ ~Overflow /\ fits /\ Goto(t, "block_encrypt")
  /\ UNCHANGED <<counter, val, carry, todo, count, IV, tmp, drawn, used>>

EncryptBlock(t) ==
  /\ pc[t] = "block_encrypt"
  /\ IV' = [IV EXCEPT ![t] = val] /\ drawn' = [drawn EXCEPT ![t] = Append(@, val)]
  /\ Goto(t, "load")
  /\ UNCHANGED <<counter, val, carry, todo, count, tmp, used>>

\* inc_func reads the bytes and writes them back, and the block is begun.
IncLoad(t) ==
  /\ pc[t] = "load" /\ tmp' = [tmp EXCEPT ![t] = val] /\ Goto(t, "store")
  /\ UNCHANGED <<counter, val, carry, todo, count, IV, drawn, used>>

IncStore(t) ==
  /\ pc[t] = "store" /\ val' = (tmp[t] + 1) % Limit /\ carry' = (tmp[t] + 1 = Limit)
  /\ tmp' = [tmp EXCEPT ![t] = None]
  /\ count' = [count EXCEPT ![t] = 0] /\ Goto(t, "loop")
  /\ UNCHANGED <<counter, todo, IV, drawn, used>>

-----------------------------------------------------------------------------
\* The counter called through Python, with the GIL: it gives its block out
\* and has moved on before another thread can call it.
CallObject_Peeks(t) ==
  /\ pc[t] = "call" /\ (custom \/ (~Overflow /\ fits))
  /\ tmp' = [tmp EXCEPT ![t] = val] /\ UNCHANGED <<val, carry>>
  /\ Goto(t, "encrypt_result")
  /\ UNCHANGED <<counter, todo, count, IV, drawn, used>>

CallObject(t) ==
  /\ pc[t] = "call" /\ (custom \/ (~Overflow /\ fits))
  /\ tmp' = [tmp EXCEPT ![t] = val]
  /\ val' = (val + 1) % Limit /\ carry' = (val + 1 = Limit)
  /\ Goto(t, "encrypt_result")
  /\ UNCHANGED <<counter, todo, count, IV, drawn, used>>

\* The call raises, or returns no string of BLOCK_SIZE bytes: a callable of
\* the program's own, whose number may be gone all the same, or a counter of
\* another size, whose number is.
CallFails(t) ==
  /\ pc[t] = "call" /\ Fail(t)
  /\ \/ custom /\ UNCHANGED <<val, carry>>
     \/ /\ custom \/ (~Overflow /\ ~fits)
        /\ val' = (val + 1) % Limit /\ carry' = (val + 1 = Limit)
  /\ UNCHANGED <<counter, count, IV, tmp, drawn, used>>

\* The result is encrypted with the GIL released again.
EncryptResult(t) ==
  /\ pc[t] = "encrypt_result"
  /\ IV' = [IV EXCEPT ![t] = tmp[t]] /\ drawn' = [drawn EXCEPT ![t] = Append(@, tmp[t])]
  /\ tmp' = [tmp EXCEPT ![t] = None]
  /\ count' = [count EXCEPT ![t] = 0] /\ Goto(t, "loop")
  /\ UNCHANGED <<counter, val, carry, todo, used>>

Next ==
  \E t \in Threads :
    \/ \E len \in 1 .. MaxLen : ALG_Encrypt(t, len)
    \/ FinishInBlock(t) \/ UseUpBlock(t) \/ OverflowError(t)
    \/ WrongSize(t) \/ Check(t) \/ EncryptBlock(t) \/ IncLoad(t) \/ IncStore(t)
    \/ CallObject(t) \/ CallFails(t) \/ EncryptResult(t)

Spec == Init /\ [][Next]_vars

-----------------------------------------------------------------------------
(* Properties.                                                             *)

\* However the data is cut into calls, and whichever of them fail, the
\* keystream is the encryptions of the blocks drawn, byte after byte: none
\* is left out and none serves twice (block_template.c:368-387).
KeystreamInOrder ==
  \A t \in Threads : \A k \in DOMAIN used[t] :
    LET b == (k - 1) \div BLOCK_SIZE + 1
    IN b <= Len(drawn[t]) /\ used[t][k] = <<drawn[t][b], (k - 1) % BLOCK_SIZE>>

\* "unique counter values" (block_template.c:353): until the counter may wrap,
\* the ciphers that share it never encrypt the same block twice.
UniqueCounterValues ==
  ~allow_wraparound /\ ~custom =>
    /\ \A t \in Threads : IsInjective(drawn[t])
    /\ \A t, u \in Threads : t # u => Range(drawn[t]) \cap Range(drawn[u]) = {}

\* The ciphers go by the counter's calls, which hold the GIL, or only one of
\* them has drawn blocks so far.
TakeTurns ==
  ~shortcut \/ \A t, u \in Threads : drawn[t] # <<>> /\ drawn[u] # <<>> => t = u

\* The keystream is in order, and none of it is used again by ciphers that
\* take turns at the counter (block_template.c:353, :368-387).
KeystreamSound == KeystreamInOrder /\ (TakeTurns => UniqueCounterValues)

=============================================================================
