------------------------------ MODULE Blowfish ------------------------------
(***************************************************************************)
(* Blowfish of pycrypto (Blowfish.c).  Setting up a key encrypts the block *)
(* before, from zero on, into the next two words of the P-array and then   *)
(* of the S-boxes, under what they hold by then: one step per block.       *)
(***************************************************************************)
EXTENDS BlowfishTables, SequencesExt

CONSTANTS
  Keys,      \* keys a caller may give
  Blocks,    \* blocks to encrypt or decrypt
  Published, \* known answers of test_Blowfish.py: key, plain, cipher
  MaxLevel   \* bound on encryptions of encryptions, and on decryptions

VARIABLES
  phase,  \* "new", "refused", "stir" or "idle"
  key,    \* the caller's key
  array,  \* P
  boxes,  \* S1 to S4
  turn,   \* words made while stirring
  half,   \* <<xL, xR>>
  data,   \* the block
  text,   \* history: the block first given, and how many times more often it
  level   \* was encrypted than decrypted since

vars == <<phase, key, array, boxes, turn, half, data, text, level>>

Init ==
  /\ phase = "new" /\ key = <<>> /\ array = <<>> /\ boxes = <<>> /\ turn = 0
  /\ half = <<>> /\ data = <<>> /\ text = <<>> /\ level = 0

-----------------------------------------------------------------------------
(* The rounds.                                                             *)

F(S, xL) ==
  Add(Xor(Add(S[1][xL[1] + 1], S[2][xL[2] + 1]), S[3][xL[3] + 1]), S[4][xL[4] + 1])

Rounds == [i \in 1 .. 16 |-> i]

\* Every round crosses the halves over, and the end takes the last one back.
inline_encrypt(h) ==
  LET Round(u, i) == LET l == Xor(u[1], array[i]) IN <<Xor(u[2], F(boxes, l)), l>>
      v == FoldLeft(Round, h, Rounds)
  IN <<Xor(v[2], array[18]), Xor(v[1], array[17])>>

inline_decrypt(h) ==
  LET Round(u, i) == LET l == u[2] IN <<Xor(l, array[17 - i]), Xor(u[1], F(boxes, l))>>
  IN FoldLeft(Round, <<Xor(h[2], array[17]), Xor(h[1], array[18])>>, Rounds)

-----------------------------------------------------------------------------
(* Key set-up.                                                             *)

\* Keys of no byte or of more than 56 raise ValueError.  The key goes round as
\* often as the P-array has room.
Blowfish_init(K) ==
  /\ phase \in {"new", "refused"} /\ key' = K
  /\ IF Len(K) \in 1 .. 56
     THEN /\ phase' = "stir" /\ turn' = 0 /\ half' = << <<0, 0, 0, 0>>, <<0, 0, 0, 0>> >>
          /\ array' = LET word(i) == [j \in 1 .. 4 |-> K[1 + (((4 * i) + j - 5) % Len(K))]]
                      IN <<>> \o [i \in 1 .. 18 |-> Xor(InHalves(initial_P)[i], word(i))]
          /\ boxes' = <<InHalves(initial_S1), InHalves(initial_S2),
                        InHalves(initial_S3), InHalves(initial_S4)>>
     ELSE phase' = "refused" /\ UNCHANGED <<array, boxes, turn, half>>
  /\ UNCHANGED <<data, text, level>>

StirArray ==
  /\ phase = "stir" /\ turn < 18 /\ turn' = turn + 2
  /\ LET h == inline_encrypt(half)
     IN half' = h /\ array' = [array EXCEPT ![turn + 1] = h[1], ![turn + 2] = h[2]]
  /\ UNCHANGED <<phase, key, boxes, data, text, level>>

StirBoxes ==
  /\ phase = "stir" /\ turn \in 18 .. 1041 /\ turn' = turn + 2
  /\ LET h == inline_encrypt(half)
         s == 1 + ((turn - 18) \div 256)
         i == 1 + ((turn - 18) % 256)
     IN half' = h /\ boxes' = [boxes EXCEPT ![s] = [@ EXCEPT ![i] = h[1], ![i + 1] = h[2]]]
  /\ UNCHANGED <<phase, key, array, data, text, level>>

\* The magic number is set: the object may be used.
StirEnds ==
  /\ phase = "stir" /\ turn = 1042 /\ phase' = "idle" /\ turn' = 0 /\ half' = <<>>
  /\ UNCHANGED <<key, array, boxes, data, text, level>>

-----------------------------------------------------------------------------
(* Blowfish_encrypt and Blowfish_decrypt.                                  *)

\* The caller gives a fresh block, or what it got for the one before.
Code(d, result, up) ==
  /\ phase = "idle" /\ data' = result[1] \o result[2]
  /\ IF d = data THEN text' = text /\ level' = level + up ELSE text' = d /\ level' = up
  /\ UNCHANGED <<phase, key, array, boxes, turn, half>>

Blowfish_encrypt(d) == Code(d, inline_encrypt(InWords(d, 4)), 1) /\ level' <= MaxLevel
Blowfish_decrypt(d) == Code(d, inline_decrypt(InWords(d, 4)), -1) /\ level' >= -MaxLevel

Next ==
  \/ \E K \in Keys : Blowfish_init(K)
  \/ StirArray \/ StirBoxes \/ StirEnds
  \/ \E d \in Blocks \cup {data} : d # <<>> /\ (Blowfish_encrypt(d) \/ Blowfish_decrypt(d))

Spec == Init /\ [][Next]_vars

-----------------------------------------------------------------------------
(* Properties.                                                             *)

\* Decryption undoes encryption and encryption undoes decryption.
ReturnsToText == phase = "idle" /\ level = 0 => data = text

\* The answers the tests expect.
KnownAnswers ==
  \A p \in Published :
    phase = "idle" /\ key = p.key /\ text = p.plain /\ level = 1 => data = p.cipher

=============================================================================
