-------------------------------- MODULE ARC2 --------------------------------
(***************************************************************************)
(* RC2 of pycrypto (ARC2.c).  block_init makes 64 words of 16 bits from a  *)
(* key of any length and the number of bits that count, byte by byte; then *)
(* one step is one turn of the loop over the sixteen rounds of a block.    *)
(***************************************************************************)
EXTENDS Words, SequencesExt

CONSTANTS
  Keys,      \* keys a caller may give
  Lengths,   \* values of effective_keylen
  Blocks,    \* blocks to encrypt or decrypt
  Published, \* known answers of test_ARC2.py
  MaxLevel   \* bound on encryptions of encryptions, and on decryptions

VARIABLES
  phase,            \* "new", "refused", "idle" or the call under way
  key,              \* the caller's key
  effective_keylen, \* of block_state
  buffer,           \* xkey's bytes while they are made
  xkey,             \* of block_state: 64 words
  turn,             \* i of the loop
  x,                \* <<x10, x32, x54, x76>>
  data,             \* the block
  text,             \* history: the block first given, and how many times more
  level             \* often it was encrypted than decrypted since

vars == <<phase, key, effective_keylen, buffer, xkey, turn, x, data, text, level>>

Init ==
  /\ phase = "new" /\ key = <<>> /\ effective_keylen = 0 /\ buffer = <<>> /\ xkey = <<>>
  /\ turn = 0 /\ x = <<>> /\ data = <<>> /\ text = <<>> /\ level = 0

-----------------------------------------------------------------------------
(* Key set-up.                                                             *)

permute ==
  <<217, 120, 249, 196, 25, 221, 181, 237, 40, 233, 253, 121, 74, 160, 216, 157,
    198, 126, 55, 131, 43, 118, 83, 142, 98, 76, 100, 136, 68, 139, 251, 162,
    23, 154, 89, 245, 135, 179, 79, 19, 97, 69, 109, 141, 9, 129, 125, 50,
    189, 143, 64, 235, 134, 183, 123, 11, 240, 149, 33, 34, 92, 107, 78, 130,
    84, 214, 101, 147, 206, 96, 178, 28, 115, 86, 192, 20, 167, 140, 241, 220,
    18, 117, 202, 31, 59, 190, 228, 209, 66, 61, 212, 48, 163, 60, 182, 38,
    111, 191, 14, 218, 70, 105, 7, 87, 39, 242, 29, 155, 188, 148, 67, 3,
    248, 17, 199, 246, 144, 239, 62, 231, 6, 195, 213, 47, 200, 102, 30, 215,
    8, 232, 234, 222, 128, 82, 238, 247, 132, 170, 114, 172, 53, 77, 106, 42,
    150, 26, 210, 113, 90, 21, 73, 116, 75, 159, 208, 94, 4, 24, 164, 236,
    194, 224, 65, 110, 15, 81, 203, 204, 36, 145, 175, 80, 161, 244, 112, 57,
    153, 124, 58, 133, 35, 184, 180, 122, 252, 2, 54, 91, 37, 85, 151, 49,
    45, 93, 250, 152, 227, 138, 146, 174, 5, 223, 41, 16, 103, 108, 186, 201,
    211, 0, 230, 207, 225, 158, 168, 44, 99, 22, 1, 63, 88, 226, 137, 169,
    13, 56, 52, 27, 171, 51, 255, 176, 187, 72, 12, 95, 185, 177, 205, 46,
    197, 243, 219, 71, 229, 165, 156, 119, 10, 166, 32, 104, 254, 127, 193, 173>>

\* A key of more than 128 bytes raises ValueError.
block_init(K, length) ==
  /\ phase \in {"new", "refused"} /\ key' = K /\ effective_keylen' = length
  /\ IF Len(K) > 128
     THEN phase' = "refused" /\ UNCHANGED buffer
     ELSE phase' = "expand" /\ buffer' = K
  /\ UNCHANGED <<xkey, turn, x, data, text, level>>

\* Phase 1: every byte past the key comes from the one before it and from one
\* at the start of the key.
Expand ==
  /\ phase = "expand" /\ Len(buffer) < 128
  /\ buffer' = Append(buffer, permute[1 + ((Last(buffer) + buffer[turn + 1]) % 256)])
  /\ turn' = turn + 1
  /\ UNCHANGED <<phase, key, effective_keylen, xkey, x, data, text, level>>

\* Phase 2: of the last bytes, effective_keylen bits count.
EffectiveBytes == (effective_keylen + 7) \div 8
FirstByte == 129 - EffectiveBytes
FirstBits == 8 - ((8 - (effective_keylen % 8)) % 8)

Mask ==
  /\ phase = "expand" /\ Len(buffer) = 128 /\ phase' = "reduce"
  /\ buffer' = [buffer EXCEPT ![FirstByte] = permute[1 + (@ % (2 ^ FirstBits))]]
  /\ turn' = FirstByte - 1
  /\ UNCHANGED <<key, effective_keylen, xkey, x, data, text, level>>

\* What comes before them is made from them, backwards.
Reduce ==
  /\ phase = "reduce" /\ turn > 0
  /\ buffer' = [buffer EXCEPT ![turn] =
                  permute[1 + ByteXor[buffer[turn + 1]][buffer[turn + EffectiveBytes]]]]
  /\ turn' = turn - 1
  /\ UNCHANGED <<phase, key, effective_keylen, xkey, x, data, text, level>>

\* Phase 3: the words, low byte first.
CopyWords ==
  /\ phase = "reduce" /\ turn = 0 /\ phase' = "idle"
  /\ xkey' = <<>> \o [w \in 1 .. 64 |-> <<buffer[2 * w], buffer[(2 * w) - 1]>>]
  /\ buffer' = <<>>
  /\ UNCHANGED <<key, effective_keylen, turn, x, data, text, level>>

-----------------------------------------------------------------------------
(* block_encrypt and block_decrypt.                                        *)

\* Word k before the last turns: the three others, the nearest one first.
Before(u, k, n) == u[1 + ((k + 3 - n) % 4)]
Chosen(u, k) ==
  Add(And(Before(u, k, 3), Not(Before(u, k, 1))), And(Before(u, k, 2), Before(u, k, 1)))
Turns == <<1, 2, 3, 5>>
KeyWord(word) == xkey[1 + (word[2] % 64)]

Mix(u, k, i) ==
  [u EXCEPT ![k] = ROTL(Add(Add(@, Chosen(u, k)), xkey[(4 * i) + k]), Turns[k])]
Mash(u, k) == [u EXCEPT ![k] = Add(@, KeyWord(Before(u, k, 1)))]

Unmix(u, k, i) ==
  [u EXCEPT ![k] = Sub(ROTR(@, Turns[k]), Add(Chosen(u, k), xkey[(4 * i) + k]))]

Unmash(u, k) == [u EXCEPT ![k] = Sub(@, KeyWord(Before(u, k, 1)))]

\* The caller gives a fresh block, or what it got for the one before.
Given(d) ==
  /\ data' = d
  /\ IF d = data THEN UNCHANGED <<text, level>> ELSE text' = d /\ level' = 0

\* Blocks hold the words low byte first.
Start(op, d, first) ==
  /\ phase = "idle" /\ phase' = op /\ turn' = first /\ Given(d)
  /\ x' = [k \in 1 .. 4 |-> <<d[2 * k], d[(2 * k) - 1]>>]
  /\ UNCHANGED <<key, effective_keylen, buffer, xkey>>

block_encrypt(d) == Start("encrypt", d, 0) /\ level' < MaxLevel
block_decrypt(d) == Start("decrypt", d, 15) /\ level' > -MaxLevel

encrypt_round ==
  /\ phase = "encrypt" /\ turn < 16 /\ turn' = turn + 1
  /\ LET mixed == FoldLeft(LAMBDA u, k : Mix(u, k, turn), x, <<1, 2, 3, 4>>)
     IN x' = IF turn \in {4, 10} THEN FoldLeft(Mash, mixed, <<1, 2, 3, 4>>) ELSE mixed
  /\ UNCHANGED <<phase, key, effective_keylen, buffer, xkey, data, text, level>>

decrypt_round ==
  /\ phase = "decrypt" /\ turn >= 0 /\ turn' = turn - 1
  /\ LET unmixed == FoldLeft(LAMBDA u, k : Unmix(u, k, turn), x, <<4, 3, 2, 1>>)
     IN x' = IF turn \in {5, 11} THEN FoldLeft(Unmash, unmixed, <<4, 3, 2, 1>>) ELSE unmixed
  /\ UNCHANGED <<phase, key, effective_keylen, buffer, xkey, data, text, level>>

Finish ==
  /\ \/ phase = "encrypt" /\ turn = 16 /\ level' = level + 1
     \/ phase = "decrypt" /\ turn = -1 /\ level' = level - 1
  /\ phase' = "idle" /\ turn' = 0 /\ x' = <<>>
  /\ data' = <<x[1][2], x[1][1], x[2][2], x[2][1], x[3][2], x[3][1], x[4][2], x[4][1]>>
  /\ UNCHANGED <<key, effective_keylen, buffer, xkey, text>>

Next ==
  \/ \E K \in Keys, length \in Lengths : block_init(K, length)
  \/ Expand \/ Mask \/ Reduce \/ CopyWords
  \/ \E d \in Blocks \cup {data} : d # <<>> /\ (block_encrypt(d) \/ block_decrypt(d))
  \/ encrypt_round \/ decrypt_round \/ Finish

Spec == Init /\ [][Next]_vars

-----------------------------------------------------------------------------
(* Properties.                                                             *)

\* Decryption undoes encryption and encryption undoes decryption: the rounds
\* come back in the opposite order, the two mashing rounds at the right ones.
ReturnsToText == phase = "idle" /\ level = 0 => data = text

\* The answers the tests expect.
KnownAnswers ==
  \A p \in Published :
    phase = "idle" /\ key = p.key /\ effective_keylen = p.length /\ text = p.plain /\ level = 1
      => data = p.cipher

=============================================================================
