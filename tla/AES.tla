--------------------------------- MODULE AES --------------------------------
(***************************************************************************)
(* The block cipher of pycrypto's AES.c: block_init expands a key into the *)
(* two schedules, block_encrypt and block_decrypt run the rounds.  One     *)
(* step is one turn of a loop of the code.  Words are their four bytes,    *)
(* most significant first (GETU32, PUTU32).                                *)
(***************************************************************************)
EXTENDS Words

CONSTANTS
  Keys,      \* keys a caller may give, of any length
  Blocks,    \* blocks to encrypt or decrypt
  Published, \* the known answers of test_AES.py: key, plaintext, ciphertext
  MaxLevel   \* bound on encryptions of encryptions, and on decryptions

VARIABLES
  phase,
  key,     \* the caller's key
  ek, dk,  \* block_state; dk is being built while phase is invert or mix
  count,   \* i of the two set-up loops
  st,      \* s0 .. s3 or t0 .. t3
  left,    \* r of the round loop
  at,      \* index in the schedule of the next round key
  data,    \* the caller's block
  text,    \* history: the block first given, and how many times more
  level    \* often it was encrypted than decrypted since

vars == <<phase, key, ek, dk, count, st, left, at, data, text, level>>

Init ==
  /\ phase = "new" /\ key = <<>> /\ ek = <<>> /\ dk = <<>> /\ count = 0
  /\ st = <<>> /\ left = 0 /\ at = 0 /\ data = <<>> /\ text = <<>> /\ level = 0

Nk == Len(key) \div 4
Rounds == CASE Len(key) = 16 -> 10 [] Len(key) = 24 -> 12 [] Len(key) = 32 -> 14

-----------------------------------------------------------------------------
(* The tables by the rule the comment of AES.c gives for them: Te4 and Td4 *)
(* are the S-box of Rijndael and its inverse, the others multiply a        *)
(* substituted byte by a column of the MixColumns matrix, in GF(2^8).      *)

\* x times 2, and times any c, modulo x^8 + x^4 + x^3 + x + 1.
Double == [x \in Byte |-> IF x < 128 THEN 2 * x ELSE ByteXor[(2 * x) - 256][27]]

Doubled[k \in 0 .. 7] ==
  IF k = 0 THEN [x \in Byte |-> x] ELSE [x \in Byte |-> Double[Doubled[k - 1][x]]]

Multiples == <<Doubled[0], Doubled[1], Doubled[2], Doubled[3],
               Doubled[4], Doubled[5], Doubled[6], Doubled[7]>>

Times(x, c) ==
  LET sum[k \in 0 .. 8] ==
        IF k = 0 THEN 0
        ELSE IF (c \div (2 ^ (k - 1))) % 2 = 0 THEN sum[k - 1]
        ELSE ByteXor[sum[k - 1]][Multiples[k][x]]
  IN sum[8]

\* The S-box, from 0.
S ==
  LET box == <<
     99, 124, 119, 123, 242, 107, 111, 197,  48,   1, 103,  43, 254, 215, 171, 118,
    202, 130, 201, 125, 250,  89,  71, 240, 173, 212, 162, 175, 156, 164, 114, 192,
    183, 253, 147,  38,  54,  63, 247, 204,  52, 165, 229, 241, 113, 216,  49,  21,
      4, 199,  35, 195,  24, 150,   5, 154,   7,  18, 128, 226, 235,  39, 178, 117,
      9, 131,  44,  26,  27, 110,  90, 160,  82,  59, 214, 179,  41, 227,  47, 132,
     83, 209,   0, 237,  32, 252, 177,  91, 106, 203, 190,  57,  74,  76,  88, 207,
    208, 239, 170, 251,  67,  77,  51, 133,  69, 249,   2, 127,  80,  60, 159, 168,
     81, 163,  64, 143, 146, 157,  56, 245, 188, 182, 218,  33,  16, 255, 243, 210,
    205,  12,  19, 236,  95, 151,  68,  23, 196, 167, 126,  61, 100,  93,  25, 115,
     96, 129,  79, 220,  34,  42, 144, 136,  70, 238, 184,  20, 222,  94,  11, 219,
    224,  50,  58,  10,  73,   6,  36,  92, 194, 211, 172,  98, 145, 149, 228, 121,
    231, 200,  55, 109, 141, 213,  78, 169, 108,  86, 244, 234, 101, 122, 174,   8,
    186, 120,  37,  46,  28, 166, 180, 198, 232, 221, 116,  31,  75, 189, 139, 138,
    112,  62, 181, 102,  72,   3, 246,  14,  97,  53,  87, 185, 134, 193,  29, 158,
    225, 248, 152,  17, 105, 217, 142, 148, 155,  30, 135, 233, 206,  85,  40, 223,
    140, 161, 137,  13, 191, 230,  66, 104,  65, 153,  45,  15, 176,  84, 187,  22>>
  IN [x \in Byte |-> box[x + 1]]
SInverse == [y \in Byte |-> CHOOSE x \in Byte : S[x] = y]

\* y times the column c.
Column(y, c) == <<Times(y, c[1]), Times(y, c[2]), Times(y, c[3]), Times(y, c[4])>>

Te0 == [x \in Byte |-> Column(S[x], <<2, 1, 1, 3>>)]
Te1 == [x \in Byte |-> Column(S[x], <<3, 2, 1, 1>>)]
Te2 == [x \in Byte |-> Column(S[x], <<1, 3, 2, 1>>)]
Te3 == [x \in Byte |-> Column(S[x], <<1, 1, 3, 2>>)]
Te4 == [x \in Byte |-> <<S[x], S[x], S[x], S[x]>>]
Td0 == [x \in Byte |-> Column(SInverse[x], <<14, 9, 13, 11>>)]
Td1 == [x \in Byte |-> Column(SInverse[x], <<11, 14, 9, 13>>)]
Td2 == [x \in Byte |-> Column(SInverse[x], <<13, 11, 14, 9>>)]
Td3 == [x \in Byte |-> Column(SInverse[x], <<9, 13, 11, 14>>)]
Td4 == [x \in Byte |-> <<SInverse[x], SInverse[x], SInverse[x], SInverse[x]>>]

\* rcon[i], from 1: a power of 2 in the top byte.
rcon == <<1, 2, 4, 8, 16, 32, 64, 128, 27, 54>>

-----------------------------------------------------------------------------
(* block_init; a key of any other length raises ValueError.               *)

block_init(K) ==
  /\ phase \in {"new", "refused"} /\ key' = K /\ count' = 0
  /\ IF Len(K) \in {16, 24, 32}
     THEN phase' = "expand" /\ ek' = InWords(K, 4)
     ELSE phase' = "refused" /\ UNCHANGED ek
  /\ UNCHANGED <<dk, st, left, at, data, text, level>>

SubWord(u) == <<Te4[u[1]][1], Te4[u[2]][2], Te4[u[3]][3], Te4[u[4]][4]>>

\* n words more, the first made of the last one by g, each XORed with the one
\* a key length before.
RECURSIVE Chain(_, _)
Chain(rk, n) ==
  IF n = 0 THEN rk ELSE Chain(Append(rk, Xor(rk[Len(rk) + 1 - Nk], rk[Len(rk)])), n - 1)
Extend(rk, temp, n) == Chain(Append(rk, Xor(rk[Len(rk) + 1 - Nk], temp)), n - 1)

\* rijndaelKeySetupEnc: one turn of the loop for this key size.
RotSub(rk) == Xor(SubWord(ROTL(rk[Len(rk)], 8)), <<rcon[count + 1], 0, 0, 0>>)

Turns == CASE Nk = 4 -> 10 [] Nk = 6 -> 8 [] Nk = 8 -> 7

ExpandTurn(rk) ==
  LET first == Extend(rk, RotSub(rk), 4)
  IN IF count + 1 = Turns THEN first
     ELSE CASE Nk = 4 -> first
            [] Nk = 6 -> Chain(first, 2)
            [] Nk = 8 -> Extend(first, SubWord(first[Len(first)]), 4)

Expand ==
  /\ phase = "expand" /\ ek' = ExpandTurn(ek)
  /\ IF count + 1 = Turns
     THEN phase' = "invert" /\ count' = 0 /\ dk' = ek'
     ELSE count' = count + 1 /\ UNCHANGED <<phase, dk>>
  /\ UNCHANGED <<key, st, left, at, data, text, level>>

\* rijndaelKeySetupDec: the same expansion, then the round keys swapped end
\* to end ...
Invert ==
  /\ phase = "invert"
  /\ LET top == (4 * Rounds) - count
         Swapped(k) ==  \* 0-based
           CASE k \in count .. (count + 3) -> (k - count) + top
             [] k \in top .. (top + 3) -> (k - top) + count
             [] OTHER -> k
     IN IF count < top
        THEN /\ dk' = <<>> \o [k \in DOMAIN dk |-> dk[Swapped(k - 1) + 1]]
             /\ count' = count + 4 /\ UNCHANGED phase
        ELSE phase' = "mix" /\ count' = 1 /\ UNCHANGED dk
  /\ UNCHANGED <<key, ek, st, left, at, data, text, level>>

\* ... and the inverse MixColumns of all but the first and the last.
MixedWord(u) ==
  Xor(Xor(Td0[Te4[u[1]][4]], Td1[Te4[u[2]][4]]), Xor(Td2[Te4[u[3]][4]], Td3[Te4[u[4]][4]]))

Mix ==
  /\ phase = "mix"
  /\ IF count < Rounds
     THEN /\ dk' = <<>> \o [k \in DOMAIN dk |->
                      IF (k - 1) \div 4 = count THEN MixedWord(dk[k]) ELSE dk[k]]
          /\ count' = count + 1 /\ UNCHANGED phase
     ELSE phase' = "idle" /\ count' = 0 /\ UNCHANGED dk
  /\ UNCHANGED <<key, ek, st, left, at, data, text, level>>

-----------------------------------------------------------------------------
(* block_encrypt and block_decrypt.                                        *)

AddKey(words, rk, pos) == <<>> \o [c \in 1 .. 4 |-> Xor(words[c], rk[pos + c])]

\* Word c of the round takes a byte of each of four words: the next ones when
\* encrypting (dir 1), the ones before when decrypting (dir -1).
From(words, c, n, dir) == words[1 + ((c - 1 + (dir * n)) % 4)][n + 1]

RoundBy(T0, T1, T2, T3, dir) ==
  <<>> \o [c \in 1 .. 4 |->
    Xor(Xor(T0[From(st, c, 0, dir)], T1[From(st, c, 1, dir)]),
        Xor(T2[From(st, c, 2, dir)], T3[From(st, c, 3, dir)]))]

LastBy(T4, dir) ==
  <<>> \o [c \in 1 .. 4 |-> [n \in 1 .. 4 |-> T4[From(st, c, n - 1, dir)][n]]]

\* The loop of rounds: each turn does two, and leaves in the middle when r
\* gets to 0.  at counts the round keys used: at 4 and 12 and ... the first.
FirstOfTwo == at % 8 = 4

Start(op, schedule) ==
  /\ phase = "idle" /\ phase' = op
  /\ st' = AddKey(InWords(data', 4), schedule, 0) /\ left' = Rounds \div 2 /\ at' = 4

\* The caller gives a fresh block, or what it got for the one before.
Given(d) ==
  /\ data' = d
  /\ IF d = data THEN UNCHANGED <<text, level>> ELSE text' = d /\ level' = 0

Encrypt(d) ==
  /\ Given(d) /\ Start("encrypt", ek) /\ level' < MaxLevel
  /\ UNCHANGED <<key, ek, dk, count>>

Decrypt(d) ==
  /\ Given(d) /\ Start("decrypt", dk) /\ level' > -MaxLevel
  /\ UNCHANGED <<key, ek, dk, count>>

DoRound(next, schedule) ==
  /\ st' = AddKey(next, schedule, at) /\ at' = at + 4
  /\ left' = IF FirstOfTwo THEN left - 1 ELSE left
  /\ UNCHANGED <<phase, key, ek, dk, count, data, text, level>>

EncryptRound ==
  phase = "encrypt" /\ left > 0 /\ DoRound(RoundBy(Te0, Te1, Te2, Te3, 1), ek)

DecryptRound ==
  phase = "decrypt" /\ left > 0 /\ DoRound(RoundBy(Td0, Td1, Td2, Td3, -1), dk)

Finish(last, schedule) ==
  LET words == AddKey(last, schedule, at)
  IN /\ left = 0 /\ phase' = "idle"
     /\ data' = words[1] \o words[2] \o words[3] \o words[4]
     /\ st' = <<>> /\ at' = 0
     /\ UNCHANGED <<key, ek, dk, count, left, text>>

EncryptLast == phase = "encrypt" /\ Finish(LastBy(Te4, 1), ek) /\ level' = level + 1

DecryptLast == phase = "decrypt" /\ Finish(LastBy(Td4, -1), dk) /\ level' = level - 1

Next ==
  \/ \E K \in Keys : block_init(K)
  \/ Expand \/ Invert \/ Mix
  \/ \E d \in Blocks \cup {data} : d # <<>> /\ (Encrypt(d) \/ Decrypt(d))
  \/ EncryptRound \/ EncryptLast \/ DecryptRound \/ DecryptLast

Spec == Init /\ [][Next]_vars

-----------------------------------------------------------------------------
(* FIPS-197, on the state of 16 bytes, column by column.                   *)

State(words) == words[1] \o words[2] \o words[3] \o words[4]
RoundKey(n) == State(SubSeq(ek, (4 * n) + 1, (4 * n) + 4))
SubBytes(box, t) == <<>> \o [i \in 1 .. 16 |-> box[t[i]]]

\* Byte i is in row (i - 1) % 4; row r turns by r columns.
ShiftRows(t, dir) == <<>> \o [i \in 1 .. 16 |-> t[1 + ((i - 1 + (4 * dir * ((i - 1) % 4))) % 16)]]

MixColumns(t, m) ==
  <<>> \o [i \in 1 .. 16 |->
     LET r == (i - 1) % 4
         term(k) == Times(t[i - r + k], m[1 + ((k - r) % 4)])
     IN ByteXor[ByteXor[term(0)][term(1)]][ByteXor[term(2)][term(3)]]]

Cipher == MixColumns(ShiftRows(SubBytes(S, State(st)), 1), <<2, 3, 1, 1>>)
InvCipher == SubBytes(SInverse, ShiftRows(State(st), -1))

-----------------------------------------------------------------------------
(* Properties.                                                             *)

\* Whatever the key's length, the two schedules are as FIPS-197 defines
\* them: as long as the rounds need and no longer, each word from the one
\* before and the one a key length before, and the decryption schedule the
\* same round keys backwards, its inner ones through the inverse MixColumns.
ScheduleIsFips ==
  /\ Len(ek) = 4 * (Rounds + 1)
  /\ \A i \in Nk .. ((4 * Rounds) + 3) :
       LET temp == ek[i]
           Box(u) == [n \in 1 .. 4 |-> S[u[n]]]
       IN ek[i + 1] = Xor(ek[i + 1 - Nk],
            CASE i % Nk = 0 -> Xor(Box(<<temp[2], temp[3], temp[4], temp[1]>>),
                                   <<rcon[i \div Nk], 0, 0, 0>>)
              [] Nk = 8 /\ i % Nk = 4 -> Box(temp)
              [] OTHER -> temp)
  /\ \A n \in 0 .. Rounds :
       State(SubSeq(dk, (4 * n) + 1, (4 * n) + 4))
         = IF n \in {0, Rounds} THEN RoundKey(Rounds - n)
           ELSE MixColumns(RoundKey(Rounds - n), <<14, 11, 13, 9>>)

\* A turn of the table-driven loops is a round of FIPS-197, with FIPS-197's
\* round keys: of the cipher, and of the inverse cipher although its round
\* keys and its MixColumns come in the other order in the code.
RoundIsFips ==
  /\ EncryptRound => ScheduleIsFips /\ State(st') = Xor(Cipher, RoundKey(at \div 4))
  /\ DecryptRound =>
       /\ ScheduleIsFips
       /\ State(st') = MixColumns(Xor(InvCipher, RoundKey(Rounds - (at \div 4))), <<14, 11, 13, 9>>)

\* Decryption undoes encryption and encryption undoes decryption, nested or
\* not, for every key size.
ReturnsToText == phase = "idle" /\ level = 0 => data = text

\* The answers test_AES.py expects.
KnownAnswers ==
  \A p \in Published :
    phase = "idle" /\ key = p.key /\ text = p.plain /\ level = 1 => data = p.cipher

=============================================================================
