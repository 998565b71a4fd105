-------------------------------- MODULE DES ---------------------------------
(***************************************************************************)
(* DES and triple DES of pycrypto (DES.c and DES3.c over tomcrypt_des.c).  *)
(* Setting up a key makes one call of deskey after the other; a block then *)
(* goes through desfunc once or three times.  One step is one turn of a    *)
(* loop of deskey, or half a turn, which is one round, of desfunc's.       *)
(***************************************************************************)
EXTENDS DESTables

CONSTANTS
  Keys,      \* keys a caller may give, of any length
  Blocks,    \* blocks to encrypt or decrypt
  Published, \* known answers of test_DES.py, test_DES3.py: key, plain, cipher
  MaxLevel   \* bound on encryptions of encryptions, and on decryptions

VARIABLES
  module,   \* "DES" or "DES3": PCT_DES3_MODULE
  phase,
  key,      \* the caller's key
  todo,     \* calls of deskey still to make, the first one under way
  kn,       \* deskey's kn, by round, each both of its words: 48 bits
  sk,       \* symmetric_key: ek and dk, one schedule each or three
  turn,     \* i of deskey's loop; round of desfunc
  pass,     \* which call of desfunc
  half,     \* <<leftt, right>>
  data,     \* the block
  text,     \* history: the block first given, and how many times more
  level     \* often it was encrypted than decrypted since

vars == <<module, phase, key, todo, kn, sk, turn, pass, half, data, text, level>>

Init ==
  /\ module \in {"DES", "DES3"} /\ phase = "new" /\ key = <<>> /\ todo = <<>> /\ kn = <<>>
  /\ sk = [ek |-> <<>>, dk |-> <<>>] /\ turn = 0 /\ pass = 0 /\ half = <<>>
  /\ data = <<>> /\ text = <<>> /\ level = 0

-----------------------------------------------------------------------------
(* Key set-up.                                                             *)

Passes == IF module = "DES" THEN 1 ELSE 3

\* Calls of deskey: from which of the key's bytes, in which order, into which
\* schedule.
Call(from, edf, to, n) == [from |-> from, edf |-> edf, to |-> to, n |-> n]

des_setup == <<Call(0, "EN0", "ek", 1), Call(0, "DE1", "dk", 1)>>

des3_setup(third) ==
  <<Call(0, "EN0", "ek", 1), Call(8, "DE1", "ek", 2), Call(third, "EN0", "ek", 3),
    Call(0, "DE1", "dk", 3), Call(8, "EN0", "dk", 2), Call(third, "DE1", "dk", 1)>>

\* A key of another length raises ValueError.  With 16 bytes K3 is K1.
block_init(K) ==
  /\ phase \in {"new", "refused"} /\ key' = K
  /\ IF Len(K) \in (IF module = "DES" THEN {8} ELSE {16, 24})
     THEN /\ phase' = "deskey" /\ turn' = 0 /\ kn' = [n \in 1 .. 16 |-> <<>>]
          /\ todo' = IF module = "DES" THEN des_setup
                     ELSE des3_setup(IF Len(K) = 24 THEN 16 ELSE 0)
          /\ sk' = LET none == [n \in 1 .. Passes |-> <<>>] IN [ek |-> none, dk |-> none]
     ELSE phase' = "refused" /\ UNCHANGED <<turn, kn, todo, sk>>
  /\ UNCHANGED <<module, pass, half, data, text, level>>

pc1 == <<56, 48, 40, 32, 24, 16,  8,  0, 57, 49, 41, 33, 25, 17,
          9,  1, 58, 50, 42, 34, 26, 18, 10,  2, 59, 51, 43, 35,
         62, 54, 46, 38, 30, 22, 14,  6, 61, 53, 45, 37, 29, 21,
         13,  5, 60, 52, 44, 36, 28, 20, 12,  4, 27, 19, 11,  3>>
totrot == <<1, 2, 4, 6, 8, 10, 12, 14, 15, 17, 19, 21, 23, 25, 27, 28>>
pc2 == <<13, 16, 10, 23,  0,  4,  2, 27, 14,  5, 20,  9,
         22, 18, 11,  3, 25,  7, 15,  6, 26, 19, 12,  1,
         40, 51, 30, 36, 46, 54, 29, 39, 50, 44, 32, 47,
         43, 48, 38, 55, 33, 52, 45, 41, 49, 35, 28, 31>>

pc1m(from) ==
  LET b == BitsOf(SubSeq(key, from + 1, from + 8)) IN <<>> \o [j \in 1 .. 56 |-> b[pc1[j] + 1]]

\* pcr, from 0: each half turned by totrot.
Turned(bits, rot, j) ==
  LET l == j + rot IN bits[1 + (IF l < (IF j < 28 THEN 28 ELSE 56) THEN l ELSE l - 28)]

deskey_HalvesRunOver ==
  /\ phase = "deskey" /\ turn < 16
  /\ LET m == IF todo[1].edf = "DE1" THEN 15 - turn ELSE turn
         bits == pc1m(todo[1].from)
     IN kn' = [kn EXCEPT ![m + 1] =
                 <<>> \o [j \in 1 .. 48 |-> bits[1 + ((pc2[j] + totrot[turn + 1]) % 56)]]]
  /\ turn' = turn + 1
  /\ UNCHANGED <<module, phase, key, todo, sk, pass, half, data, text, level>>

deskey ==
  /\ phase = "deskey" /\ turn < 16
  /\ LET m == IF todo[1].edf = "DE1" THEN 15 - turn ELSE turn
         bits == pc1m(todo[1].from)
     IN kn' = [kn EXCEPT ![m + 1] =
                 <<>> \o [j \in 1 .. 48 |-> Turned(bits, totrot[turn + 1], pc2[j])]]
  /\ turn' = turn + 1
  /\ UNCHANGED <<module, phase, key, todo, sk, pass, half, data, text, level>>

\* Groups of six bits, one to a byte: those for the odd S-boxes in one word,
\* those for the even ones in the next.
cookey ==
  /\ phase = "deskey" /\ turn = 16
  /\ LET group(bits, g) == BytesOf(<<0, 0>> \o SubSeq(bits, (6 * g) - 5, 6 * g))[1]
         Cooked(bits) ==
           <<[k \in 1 .. 4 |-> group(bits, (2 * k) - 1)], [k \in 1 .. 4 |-> group(bits, 2 * k)]>>
     IN sk' = [sk EXCEPT ![todo[1].to][todo[1].n] = <<>> \o [n \in 1 .. 16 |-> Cooked(kn[n])]]
  /\ todo' = Tail(todo) /\ turn' = 0
  /\ IF Len(todo) = 1
     THEN phase' = "idle" /\ kn' = <<>>
     ELSE kn' = [n \in 1 .. 16 |-> <<>>] /\ UNCHANGED phase
  /\ UNCHANGED <<module, key, pass, half, data, text, level>>

-----------------------------------------------------------------------------
(* block_encrypt and block_decrypt.                                        *)

\* The caller gives a fresh block, or what it got for the one before.
Given(d) ==
  /\ data' = d
  /\ IF d = data THEN UNCHANGED <<text, level>> ELSE text' = d /\ level' = 0

Start(op, d, first) ==
  /\ phase = "idle" /\ phase' = op /\ pass' = first /\ turn' = 0
  /\ Given(d) /\ half' = des_ip(d)
  /\ UNCHANGED <<module, key, todo, kn, sk>>

block_encrypt(d) == Start("ek", d, 1) /\ level' < MaxLevel

block_decrypt(d) == Start("dk", d, 1) /\ level' > -MaxLevel

\* What the four odd boxes, and the four even ones, make of a half block.
Looked(work, first) ==
  LET T(k) == SP[first + (2 * (k - 1))][work[k] % 64] IN Xor(Xor(T(1), T(2)), Xor(T(3), T(4)))

desround(right, keys) ==
  Xor(Looked(Xor(ROTR(right, 4), keys[1]), 1), Looked(Xor(right, keys[2]), 2))

\* Rounds change leftt and right in turn.
Changed == 1 + (turn % 2)

desfunc_round ==
  /\ phase \in {"ek", "dk"} /\ turn < 16
  /\ half' = [half EXCEPT ![Changed] = Xor(@, desround(half[3 - Changed], sk[phase][pass][turn + 1]))]
  /\ turn' = turn + 1
  /\ UNCHANGED <<module, phase, key, todo, kn, sk, pass, data, text, level>>

\* The end of desfunc, and the next call where there is one.
desfunc_end ==
  /\ phase \in {"ek", "dk"} /\ turn = 16 /\ turn' = 0
  /\ data' = des_fp(half[1], half[2])
  /\ IF pass < Passes
     THEN pass' = pass + 1 /\ half' = des_ip(data') /\ UNCHANGED <<phase, level>>
     ELSE /\ pass' = 0 /\ half' = <<>> /\ phase' = "idle"
          /\ level' = IF phase = "ek" THEN level + 1 ELSE level - 1
  /\ UNCHANGED <<module, key, todo, kn, sk, text>>

Next ==
  \/ \E K \in Keys : block_init(K)
  \/ deskey \/ cookey
  \/ \E d \in Blocks \cup {data} : d # <<>> /\ (block_encrypt(d) \/ block_decrypt(d))
  \/ desfunc_round \/ desfunc_end

Spec == Init /\ [][Next]_vars

-----------------------------------------------------------------------------
(* FIPS 46-3.  Bits are numbered from 1.                                   *)

\* The key schedule turns C and D by one or two more in every round.
Shift(n) == IF n \in {1, 2, 9, 16} THEN 1 ELSE 2

CD(bytes) ==
  LET b == BitsOf(bytes)
      cd[n \in 0 .. 16] ==
        IF n = 0 THEN [j \in 1 .. 56 |-> b[pc1[j] + 1]]
        ELSE LET before == <<>> \o cd[n - 1]
                 C == SubSeq(before, 1, 28)
                 D == SubSeq(before, 29, 56)
                 By(h, s) == SubSeq(h, s + 1, 28) \o SubSeq(h, 1, s)
             IN By(C, Shift(n)) \o By(D, Shift(n))
  IN cd
RoundKeys(bytes) ==
  LET cd == CD(bytes) IN [n \in 1 .. 16 |-> [j \in 1 .. 48 |-> cd[n][pc2[j] + 1]]]

\* E repeats the edges of each group of four bits.
E(bits) == [n \in 1 .. 48 |-> bits[1 + ((31 + (4 * ((n - 1) \div 6)) + ((n - 1) % 6)) % 32)]]

f(word, K) ==
  LET e == E(BitsOf(word))
      x(g) == LET b(n) == (e[(6 * g) - 6 + n] + K[(6 * g) - 6 + n]) % 2
              IN (32 * b(1)) + (16 * b(2)) + (8 * b(3)) + (4 * b(4)) + (2 * b(5)) + b(6)
      s(g) == Boxes[g][x(g) + 1]
  IN Permuted([k \in 1 .. 4 |-> (16 * s((2 * k) - 1)) + s(2 * k)], P)

\* The key of pass p: encryption takes the parts in order and decrypts with
\* the second one, decryption goes the other way.
Part(p) == IF p = 3 /\ Len(key) = 16 THEN SubSeq(key, 1, 8) ELSE SubSeq(key, (8 * p) - 7, 8 * p)
PartOf(op, p) == IF op = "ek" THEN Part(p) ELSE Part(Passes + 1 - p)
Forwards(op, p) == (op = "ek") = (p # 2)

-----------------------------------------------------------------------------
(* Properties.                                                             *)

\* A round on the turned halves with combined tables is a round of FIPS 46-3
\* with the key the standard gives it.
RoundIsFips ==
  desfunc_round =>
    LET n == IF Forwards(phase, pass) THEN turn + 1 ELSE 16 - turn
        K == RoundKeys(PartOf(phase, pass))[n]
    IN ROTR(half'[Changed], 1) =
         Xor(ROTR(half[Changed], 1), f(ROTR(half[3 - Changed], 1), K))

\* Decryption undoes encryption and encryption undoes decryption, of DES and
\* of triple DES with two keys and with three.
ReturnsToText == phase = "idle" /\ level = 0 => data = text

\* The answers the tests expect.
KnownAnswers ==
  \A p \in Published :
    phase = "idle" /\ key = p.key /\ text = p.plain /\ level = 1 => data = p.cipher

=============================================================================
