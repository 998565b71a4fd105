-------------------------------- MODULE CAST --------------------------------
(***************************************************************************)
(* CAST-128 of pycrypto (CAST.c).  One step is one round of the key        *)
(* schedule or one turn of castcrypt's loop.                               *)
(***************************************************************************)
EXTENDS CASTTables

CONSTANTS
  Keys,      \* keys a caller may give
  Blocks,    \* blocks to encrypt or decrypt
  Published, \* known answers of CAST.c and test_CAST.py: key, plain, cipher
  MaxLevel   \* bound on encryptions of encryptions, and on decryptions

VARIABLES
  phase,    \* "new", "refused", "schedule", "idle", "encrypt" or "decrypt"
  key,      \* the caller's key
  made,     \* x and z of schedulekeys_half, four words each
  subkeys,  \* the words scheduled so far: sixteen of Km, sixteen of Kr_wide
  rounds,   \* of block_state
  turn,     \* rounds of the schedule, or of the block, that are done
  half,     \* <<L, R>>
  data,     \* the block
  text,     \* history: the block first given, and how many times more
  level     \* often it was encrypted than decrypted since

vars == <<phase, key, made, subkeys, rounds, turn, half, data, text, level>>

Init ==
  /\ phase = "new" /\ key = <<>> /\ made = <<>> /\ subkeys = <<>> /\ rounds = 0 /\ turn = 0
  /\ half = <<>> /\ data = <<>> /\ text = <<>> /\ level = 0

-----------------------------------------------------------------------------
(* Key set-up.                                                             *)

\* Keys of fewer than 5 or of more than 16 bytes raise ValueError.  A short
\* key is filled up with zero bytes, and up to 10 bytes it means fewer rounds.
block_init(K) ==
  /\ phase \in {"new", "refused"} /\ key' = K
  /\ IF Len(K) \in 5 .. 16
     THEN /\ phase' = "schedule" /\ rounds' = IF Len(K) <= 10 THEN 12 ELSE 16
          /\ made' = [z |-> <<>>,
                      x |-> InWords([i \in 1 .. 16 |-> IF i <= Len(K) THEN K[i] ELSE 0], 4)]
     ELSE phase' = "refused" /\ UNCHANGED <<rounds, made>>
  /\ UNCHANGED <<subkeys, turn, half, data, text, level>>

\* Byte n of a number of words.
b(a, n) == a[1 + (n \div 4)][1 + (n % 4)]

Xor5(u, v, w, s, t) == Xor(Xor(Xor(Xor(u, v), w), s), t)

\* i: which words of F go in, and which bytes of F beside those T has by then.
XZRound(F, i) ==
  LET f(n) == F[i.k[n] + 1]
      s(n) == b(F, i.s[n])
      u0 == Xor(Xor5(f(1), At(S5, s(1)), At(S6, s(2)), At(S7, s(3)), At(S8, s(4))), At(S7, s(5)))
      u1 == Xor(Xor5(f(2), At(S5, u0[1]), At(S6, u0[3]), At(S7, u0[2]), At(S8, u0[4])), At(S8, s(6)))
      u2 == Xor(Xor5(f(3), At(S5, u1[4]), At(S6, u1[3]), At(S7, u1[2]), At(S8, u1[1])), At(S5, s(7)))
      u3 == Xor(Xor5(f(4), At(S5, u2[3]), At(S6, u2[2]), At(S7, u2[4]), At(S8, u2[1])), At(S6, s(8)))
  IN <<u0, u1, u2, u3>>

zxround == [k |-> <<0, 2, 3, 1>>, s |-> <<13, 15, 12, 14, 8, 10, 9, 11>>]
xzround == [k |-> <<2, 0, 1, 3>>, s |-> <<5, 7, 4, 6, 0, 2, 1, 3>>]

Kround(F, i) ==
  LET K(r, S) == Xor5(At(S5, b(F, i[r][1])), At(S6, b(F, i[r][2])), At(S7, b(F, i[r][3])),
                      At(S8, b(F, i[r][4])), At(S, b(F, i[r][5])))
  IN <<K(1, S5), K(2, S6), K(3, S7), K(4, S8)>>

Kindex == <<
  << <<8, 9, 7, 6, 2>>, <<10, 11, 5, 4, 6>>, <<12, 13, 3, 2, 9>>, <<14, 15, 1, 0, 12>> >>,
  << <<3, 2, 12, 13, 8>>, <<1, 0, 14, 15, 13>>, <<7, 6, 8, 9, 3>>, <<5, 4, 10, 11, 7>> >>,
  << <<3, 2, 12, 13, 9>>, <<1, 0, 14, 15, 12>>, <<7, 6, 8, 9, 2>>, <<5, 4, 10, 11, 6>> >>,
  << <<8, 9, 7, 6, 3>>, <<10, 11, 5, 4, 7>>, <<12, 13, 3, 2, 8>>, <<14, 15, 1, 0, 13>> >> >>

\* Four turns make a half, which the second one continues from.
schedulekeys ==
  /\ phase = "schedule" /\ turn < 8 /\ turn' = turn + 1
  /\ LET forth == turn % 2 = 0
         to == IF forth THEN XZRound(made.x, zxround) ELSE XZRound(made.z, xzround)
     IN /\ made' = IF forth THEN [made EXCEPT !.z = to] ELSE [made EXCEPT !.x = to]
        /\ subkeys' = subkeys \o Kround(to, Kindex[1 + (turn % 4)])
  /\ UNCHANGED <<phase, key, rounds, half, data, text, level>>

ScheduleEnds ==
  /\ phase = "schedule" /\ turn = 8 /\ phase' = "idle" /\ turn' = 0 /\ made' = <<>>
  /\ UNCHANGED <<key, subkeys, rounds, half, data, text, level>>

Km(i) == subkeys[i + 1]
Kr(i) == subkeys[i + 17][4] % 32

-----------------------------------------------------------------------------
(* block_encrypt and block_decrypt.                                        *)

\* The round function of three types.  Turning by Kr = 0 shifts right by 32
\* bits, which C leaves undefined: ARM makes it 0 and x86 the word itself, and
\* or'ed to the word both are the word, as ROTL by 0 is.
castfunc(D, Kmi, Kri, type) ==
  LET I == ROTL(CASE type = 0 -> Add(Kmi, D) [] type = 1 -> Xor(Kmi, D) [] type = 2 -> Sub(Kmi, D),
                Kri)
      s1 == At(S1, I[1]) s2 == At(S2, I[2]) s3 == At(S3, I[3]) s4 == At(S4, I[4])
  IN CASE type = 0 -> Add(Sub(Xor(s1, s2), s3), s4)
       [] type = 1 -> Xor(Add(Sub(s1, s2), s3), s4)
       [] type = 2 -> Sub(Xor(Add(s1, s2), s3), s4)

\* The caller gives a fresh block, or what it got for the one before.
Given(d) ==
  /\ data' = d
  /\ IF d = data THEN UNCHANGED <<text, level>> ELSE text' = d /\ level' = 0

Start(op, d) ==
  /\ phase = "idle" /\ phase' = op /\ Given(d) /\ half' = InWords(d, 4)
  /\ UNCHANGED <<key, made, subkeys, rounds, turn>>

block_encrypt(d) == Start("encrypt", d) /\ level' < MaxLevel
block_decrypt(d) == Start("decrypt", d) /\ level' > -MaxLevel

castcrypt_TypesForwards ==
  /\ phase \in {"encrypt", "decrypt"} /\ turn < rounds /\ turn' = turn + 1
  /\ LET i == IF phase = "decrypt" THEN rounds - turn - 1 ELSE turn
     IN half' = <<half[2], Xor(half[1], castfunc(half[2], Km(i), Kr(i), turn % 3))>>
  /\ UNCHANGED <<phase, key, made, subkeys, rounds, data, text, level>>

castcrypt ==
  /\ phase \in {"encrypt", "decrypt"} /\ turn < rounds /\ turn' = turn + 1
  /\ LET i == IF phase = "decrypt" THEN rounds - turn - 1 ELSE turn
     IN half' = <<half[2], Xor(half[1], castfunc(half[2], Km(i), Kr(i), i % 3))>>
  /\ UNCHANGED <<phase, key, made, subkeys, rounds, data, text, level>>

\* The halves leave crossed over.
castcrypt_end ==
  /\ phase \in {"encrypt", "decrypt"} /\ turn = rounds
  /\ phase' = "idle" /\ turn' = 0 /\ half' = <<>> /\ data' = half[2] \o half[1]
  /\ level' = IF phase = "encrypt" THEN level + 1 ELSE level - 1
  /\ UNCHANGED <<key, made, subkeys, rounds, text>>

Next ==
  \/ \E K \in Keys : block_init(K)
  \/ schedulekeys \/ ScheduleEnds
  \/ \E d \in Blocks \cup {data} : d # <<>> /\ (block_encrypt(d) \/ block_decrypt(d))
  \/ castcrypt \/ castcrypt_end

Spec == Init /\ [][Next]_vars

-----------------------------------------------------------------------------
(* Properties.                                                             *)

\* Decryption undoes encryption and encryption undoes decryption, with twelve
\* rounds as with sixteen: the types come back in the opposite order, with the
\* subkeys.
ReturnsToText == phase = "idle" /\ level = 0 => data = text

\* The answers of RFC 2144, which CAST.c itself keeps for its self-test.
KnownAnswers ==
  \A p \in Published :
    phase = "idle" /\ key = p.key /\ text = p.plain /\ level = 1 => data = p.cipher

=============================================================================
