---------------------------- MODULE StreamCipher ----------------------------
(***************************************************************************)
(* The stream ciphers of pycrypto: stream_template.c with ARC4.c or XOR.c. *)
(* Two objects are made of one key; what the first encrypts in pieces of   *)
(* any size the other decrypts in pieces of its own.  One step is one turn *)
(* of the key set-up's loop or one call.                                   *)
(***************************************************************************)
EXTENDS Words, SequencesExt

CONSTANTS
  Keys,      \* keys a caller may give
  Texts,     \* messages to send
  MaxPiece,  \* bound on the bytes of one call
  Published  \* known answers of test_ARC4.py and test_XOR.py

MAX_KEY_SIZE == 32

VARIABLES
  cipher,    \* the module: "ARC4" or "XOR"
  phase,     \* "new", "refused", "set up" or "ready"
  key,       \* the caller's key
  state,     \* ARC4: state while it is set up, from 0
  turn,      \* ARC4: i of stream_init's loop
  index2,    \* ARC4: of stream_init's loop
  objects,   \* stream_state of the two objects
  message,   \* history: what is to be sent
  sent,      \* history: what the first object encrypted
  wire,      \* history: what it returned
  got        \* history: what the second object made of it

vars == <<cipher, phase, key, state, turn, index2, objects, message, sent, wire, got>>

Init ==
  /\ cipher \in {"ARC4", "XOR"} /\ phase = "new" /\ key = <<>> /\ state = <<>>
  /\ turn = 0 /\ index2 = 0 /\ objects = <<>>
  /\ message \in Texts /\ sent = <<>> /\ wire = <<>> /\ got = <<>>

-----------------------------------------------------------------------------
(* ALGnew.                                                                 *)

\* Both ends make their object, with the same key.
Both(st) == objects' = <<st, st>>

\* An empty key raises ValueError, and so does one too long for XOR.
ALGnew(K) ==
  /\ phase \in {"new", "refused"} /\ key' = K
  /\ IF Len(K) = 0 \/ (cipher = "XOR" /\ Len(K) > MAX_KEY_SIZE)
     THEN phase' = "refused" /\ UNCHANGED <<state, objects>>
     ELSE IF cipher = "XOR"
     THEN phase' = "ready" /\ Both([last_pos |-> 0]) /\ UNCHANGED state
     ELSE phase' = "set up" /\ state' = [i \in Byte |-> i] /\ UNCHANGED objects
  /\ UNCHANGED <<cipher, turn, index2, message, sent, wire, got>>

Exchanged(s, i, j) == [s EXCEPT ![i] = s[j], ![j] = s[i]]

\* ARC4: every byte of state changes places with one the key chooses.
Schedule ==
  /\ phase = "set up" /\ turn < 256 /\ turn' = turn + 1
  /\ index2' = (key[1 + (turn % Len(key))] + state[turn] + index2) % 256
  /\ state' = Exchanged(state, turn, index2')
  /\ UNCHANGED <<cipher, phase, key, objects, message, sent, wire, got>>

ScheduleEnds ==
  /\ phase = "set up" /\ turn = 256 /\ phase' = "ready" /\ turn' = 0 /\ index2' = 0
  /\ Both([state |-> state, x |-> 0, y |-> 0]) /\ state' = <<>>
  /\ UNCHANGED <<cipher, key, message, sent, wire, got>>

-----------------------------------------------------------------------------
(* stream_encrypt, which is stream_decrypt too.                            *)

\* One turn: the object after it and a byte of the keystream.
ARC4Turn(st) ==
  LET nx == (st.x + 1) % 256
      ny == (st.y + st.state[nx]) % 256
      s == Exchanged(st.state, nx, ny)
  IN [st |-> [state |-> s, x |-> nx, y |-> ny], byte |-> s[(s[nx] + s[ny]) % 256]]

XORTurn(st) ==
  [st |-> [last_pos |-> (st.last_pos + 1) % Len(key)], byte |-> key[st.last_pos + 1]]

stream_encrypt(st, block) ==
  LET Turn(r, byte) == LET k == IF cipher = "ARC4" THEN ARC4Turn(r.st) ELSE XORTurn(r.st)
                       IN [st |-> k.st, block |-> Append(r.block, ByteXor[byte][k.byte])]
  IN FoldLeft(Turn, [st |-> st, block |-> <<>>], block)

\* An empty string is returned at once.
ALG_Encrypt(n) ==
  /\ phase = "ready" /\ Len(sent) + n <= Len(message)
  /\ LET str == SubSeq(message, Len(sent) + 1, Len(sent) + n)
         r == stream_encrypt(objects[1], str)
     IN IF n = 0 THEN UNCHANGED <<objects, sent, wire>>
        ELSE /\ objects' = [objects EXCEPT ![1] = r.st]
             /\ sent' = sent \o str /\ wire' = wire \o r.block
  /\ UNCHANGED <<cipher, phase, key, state, turn, index2, message, got>>

ALG_Decrypt(n) ==
  /\ phase = "ready" /\ Len(got) + n <= Len(wire)
  /\ LET r == stream_encrypt(objects[2], SubSeq(wire, Len(got) + 1, Len(got) + n))
     IN IF n = 0 THEN UNCHANGED <<objects, got>>
        ELSE objects' = [objects EXCEPT ![2] = r.st] /\ got' = got \o r.block
  /\ UNCHANGED <<cipher, phase, key, state, turn, index2, message, sent, wire>>

Next ==
  \/ \E K \in Keys : ALGnew(K)
  \/ Schedule \/ ScheduleEnds
  \/ \E n \in 0 .. MaxPiece : ALG_Encrypt(n) \/ ALG_Decrypt(n)

Spec == Init /\ [][Next]_vars

-----------------------------------------------------------------------------
(* Properties.                                                             *)

\* Pieces do not show: whatever sizes the two ends cut the stream into, the
\* receiver has the first bytes that were sent.
GotWhatWasSent == IsPrefix(got, sent)

\* The answers the tests expect, and as much of them as is encrypted.
KnownAnswers ==
  \A p \in Published :
    phase = "ready" /\ cipher = p.cipher /\ key = p.key /\ message = p.plain
      => IsPrefix(wire, p.wire)

=============================================================================
