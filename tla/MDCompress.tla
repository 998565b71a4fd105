------------------------------ MODULE MDCompress ----------------------------
(***************************************************************************)
(* What MD4.c, RIPEMD160.c and MD2.c compute of each block: one step is    *)
(* one operation of an unrolled round, or one turn of a loop.  The blocks  *)
(* are those HashObject shows hash_digest to make of a message.            *)
(***************************************************************************)
EXTENDS Words

CONSTANT Vectors  \* what test_MD4.py and so on expect: algorithm, text, digest

VARIABLES
  vec,    \* the vector being computed
  rest,   \* blocks still to compress
  chain,  \* A .. D of MD4, h of RIPEMD160, C and the first 16 bytes of X of MD2
  input,  \* X of MD4, buf.w of RIPEMD160, none between blocks
  regs,   \* the local words: one line of them, two in RIPEMD160; X in MD2
  turn,   \* operations done on this block
  closed  \* whether MD2 was given its checksum

vars == <<vec, rest, chain, input, regs, turn, closed>>

alg == vec.alg

\* X[k] is read little-endian.
LittleWords(block) ==
  LET words == InWords(block, 4) IN <<>> \o [k \in 1 .. 16 |-> Backwards(words[k])]

Padded(s) ==
  LET zeros == CHOOSE n \in 0 .. 63 : (Len(s) + 9 + n) % 64 = 0
  IN InWords(s \o <<128>> \o [n \in 1 .. zeros |-> 0]
               \o <<(8 * Len(s)) % 256, (8 * Len(s)) \div 256, 0, 0, 0, 0, 0, 0>>, 64)
PaddedMD2(s) ==
  LET n == 16 - (Len(s) % 16) IN InWords(s \o [i \in 1 .. n |-> n], 16)

Zeros(n) == <<>> \o [i \in 1 .. n |-> 0]

MD4_init == << <<103, 69, 35, 1>>, <<239, 205, 171, 137>>,
              <<152, 186, 220, 254>>, <<16, 50, 84, 118>> >>
initial_h == MD4_init \o << <<195, 210, 225, 240>> >>
MD2_init == [C |-> Zeros(16), X |-> Zeros(16)]

hash_init(v) ==
  /\ vec' = v /\ input' = <<>> /\ regs' = <<>> /\ turn' = 0 /\ closed' = (v.alg # "MD2")
  /\ rest' = IF v.alg = "MD2" THEN PaddedMD2(v.text) ELSE Padded(v.text)
  /\ chain' = CASE v.alg = "MD4" -> MD4_init [] v.alg = "RIPEMD160" -> initial_h
                [] v.alg = "MD2" -> MD2_init

Finished == rest = <<>> /\ input = <<>> /\ closed

Init ==
  /\ vec = [alg |-> "none", digest |-> <<>>]
  /\ rest = <<>> /\ input = <<>> /\ regs = <<>> /\ turn = 0 /\ chain = <<>> /\ closed = TRUE

-----------------------------------------------------------------------------
(* MD4.c.                                                                  *)

F(u, v, t) == Or(And(u, v), And(Not(u), t))
G(u, v, t) == Or(Or(And(u, v), And(u, t)), And(v, t))
H(u, v, t) == Xor(Xor(u, v), t)

MD4Load ==
  /\ alg = "MD4" /\ rest # <<>> /\ input = <<>>
  /\ input' = LittleWords(rest[1]) /\ rest' = Tail(rest) /\ regs' = chain /\ turn' = 0
  /\ UNCHANGED <<vec, chain, closed>>

\* The words and the rotations of the three rounds of 16.
MD4Word == LET n == turn % 16
           IN CASE turn < 16 -> n
                [] turn \in 16 .. 31 -> (4 * (n % 4)) + (n \div 4)
                [] OTHER -> <<0, 8, 4, 12, 2, 10, 6, 14, 1, 9, 5, 13, 3, 11, 7, 15>>[n + 1]
MD4Shift ==
  << <<3, 7, 11, 19>>, <<3, 5, 9, 13>>, <<3, 9, 11, 15>> >>[(turn \div 16) + 1][(turn % 4) + 1]

\* What the operation adds to its target.
MD4Term ==
  CASE turn < 16 -> F(regs[2], regs[3], regs[4])
    [] turn \in 16 .. 31 -> Add(G(regs[2], regs[3], regs[4]), <<90, 130, 121, 153>>)
    [] OTHER -> Add(H(regs[2], regs[3], regs[4]), <<110, 217, 235, 161>>)

\* The operations take A, B, C, D turned by one place each time.
MD4Step ==
  /\ alg = "MD4" /\ input # <<>> /\ turn < 48 /\ turn' = turn + 1
  /\ regs' = <<regs[4], ROTL(Add(Add(regs[1], MD4Term), input[MD4Word + 1]), MD4Shift),
               regs[2], regs[3]>>
  /\ UNCHANGED <<vec, rest, chain, input, closed>>

MD4End ==
  /\ alg = "MD4" /\ input # <<>> /\ turn = 48
  /\ chain' = <<>> \o [k \in 1 .. 4 |-> Add(chain[k], regs[k])]
  /\ input' = <<>> /\ regs' = <<>> /\ turn' = 0 /\ UNCHANGED <<vec, rest, closed>>

-----------------------------------------------------------------------------
(* RIPEMD160.c: ripemd160_compress.                                        *)

rho == <<7, 4, 13, 1, 10, 6, 15, 3, 12, 0, 9, 5, 2, 14, 11, 8>>

\* By the rule its comment gives: RL[n] is rho n times, RR[n] the same after pi.
RL == LET line[n \in 1 .. 5] ==
            IF n = 1 THEN [j \in 1 .. 16 |-> j - 1] ELSE [j \in 1 .. 16 |-> rho[line[n - 1][j] + 1]]
      IN line
RR == LET line[n \in 1 .. 5] ==
            IF n = 1 THEN [j \in 1 .. 16 |-> ((9 * (j - 1)) + 5) % 16]
            ELSE [j \in 1 .. 16 |-> rho[line[n - 1][j] + 1]]
      IN line

SL == << <<11, 14, 15, 12, 5, 8, 7, 9, 11, 13, 14, 15, 6, 7, 9, 8>>,
        <<7, 6, 8, 13, 11, 9, 7, 15, 7, 12, 15, 9, 11, 7, 13, 12>>,
        <<11, 13, 6, 7, 14, 9, 13, 15, 14, 8, 13, 6, 5, 12, 7, 5>>,
        <<11, 12, 14, 15, 14, 15, 9, 8, 9, 14, 5, 6, 8, 6, 5, 12>>,
        <<9, 15, 5, 11, 6, 8, 13, 12, 5, 12, 13, 14, 11, 8, 5, 6>> >>
SR == << <<8, 9, 9, 11, 13, 15, 15, 5, 7, 7, 8, 11, 14, 14, 12, 6>>,
        <<9, 13, 15, 7, 12, 8, 9, 11, 7, 7, 12, 7, 6, 15, 13, 11>>,
        <<9, 7, 15, 11, 8, 6, 6, 14, 12, 13, 5, 14, 13, 13, 7, 5>>,
        <<15, 5, 8, 11, 14, 14, 6, 14, 6, 9, 12, 9, 12, 5, 15, 8>>,
        <<8, 5, 12, 9, 12, 5, 14, 6, 8, 13, 6, 5, 15, 13, 11, 11>> >>

KL == << <<0, 0, 0, 0>>, <<90, 130, 121, 153>>, <<110, 217, 235, 161>>,
        <<143, 27, 188, 220>>, <<169, 83, 253, 78>> >>
KR == << <<80, 162, 139, 230>>, <<92, 77, 209, 36>>, <<109, 112, 62, 243>>,
        <<122, 109, 118, 233>>, <<0, 0, 0, 0>> >>

F3(u, v, t) == Xor(Or(u, Not(v)), t)
F4(u, v, t) == Or(And(u, t), And(v, Not(t)))
F5(u, v, t) == Xor(u, Or(v, Not(t)))
Mixed(n, u, v, t) ==
  CASE n = 1 -> H(u, v, t) [] n = 2 -> F(u, v, t) [] n = 3 -> F3(u, v, t)
    [] n = 4 -> F4(u, v, t) [] n = 5 -> F5(u, v, t)

RIPELoad ==
  /\ alg = "RIPEMD160" /\ rest # <<>> /\ input = <<>>
  /\ input' = LittleWords(rest[1]) /\ rest' = Tail(rest) /\ turn' = 0
  /\ regs' = [left |-> chain, right |-> chain]
  /\ UNCHANGED <<vec, chain, closed>>

\* One turn of a line <<A, B, C, D, E>>, by function number n.
RIPELine(line, n, word, shift, k) ==
  LET T == Add(ROTL(Add(Add(line[1], Mixed(n, line[2], line[3], line[4])), Add(word, k)), shift),
               line[5])
  IN <<line[5], T, line[2], ROTL(line[3], 10), line[4]>>

\* Each round does 16 turns of the left line, then 16 of the right one, whose
\* functions come in the opposite order.
RIPEStep ==
  LET round == (turn \div 32) + 1
      j == (turn % 16) + 1
  IN /\ alg = "RIPEMD160" /\ input # <<>> /\ turn < 160 /\ turn' = turn + 1
     /\ regs' = IF turn % 32 < 16
          THEN [regs EXCEPT !.left =
                 RIPELine(@, round, input[RL[round][j] + 1], SL[round][j], KL[round])]
          ELSE [regs EXCEPT !.right =
                 RIPELine(@, 6 - round, input[RR[round][j] + 1], SR[round][j], KR[round])]
     /\ UNCHANGED <<vec, rest, chain, input, closed>>

RIPEEnd ==
  /\ alg = "RIPEMD160" /\ input # <<>> /\ turn = 160
  /\ chain' = <<>> \o [k \in 1 .. 5 |->
       Add(Add(chain[(k % 5) + 1], regs.left[((k + 1) % 5) + 1]), regs.right[((k + 2) % 5) + 1])]
  /\ input' = <<>> /\ regs' = <<>> /\ turn' = 0 /\ UNCHANGED <<vec, rest, closed>>

-----------------------------------------------------------------------------
(* MD2.c.                                                                  *)

S == <<
  41, 46, 67, 201, 162, 216, 124, 1, 61, 54, 84, 161, 236, 240, 6, 19, 98, 167, 5, 243,
  192, 199, 115, 140, 152, 147, 43, 217, 188, 76, 130, 202, 30, 155, 87, 60, 253, 212, 224, 22,
  103, 66, 111, 24, 138, 23, 229, 18, 190, 78, 196, 214, 218, 158, 222, 73, 160, 251, 245, 142,
  187, 47, 238, 122, 169, 104, 121, 145, 21, 178, 7, 63, 148, 194, 16, 137, 11, 34, 95, 33,
  128, 127, 93, 154, 90, 144, 50, 39, 53, 62, 204, 231, 191, 247, 151, 3, 255, 25, 48, 179,
  72, 165, 181, 209, 215, 94, 146, 42, 172, 86, 170, 198, 79, 184, 56, 210, 150, 164, 125, 182,
  118, 252, 107, 226, 156, 116, 4, 241, 69, 157, 112, 89, 100, 113, 135, 32, 134, 91, 207, 101,
  230, 45, 168, 2, 27, 96, 37, 173, 174, 176, 185, 246, 28, 70, 97, 105, 52, 64, 126, 15,
  85, 71, 163, 35, 221, 81, 175, 58, 195, 92, 249, 206, 186, 197, 234, 38, 44, 83, 13, 110,
  133, 40, 132, 9, 211, 223, 205, 244, 65, 129, 77, 82, 106, 220, 55, 200, 108, 193, 171, 250,
  36, 225, 123, 8, 12, 189, 177, 74, 120, 136, 149, 139, 227, 99, 232, 109, 233, 203, 213, 254,
  59, 0, 29, 57, 242, 239, 183, 14, 102, 88, 208, 228, 166, 119, 114, 248, 235, 117, 75, 10,
  49, 68, 80, 180, 143, 237, 31, 26, 219, 153, 141, 51, 159, 17, 131, 20>>

\* The checksum: each byte takes the new value of the one before.
Checksum(C, block) ==
  LET c[n \in 0 .. 16] == IF n = 0 THEN C[16] ELSE ByteXor[C[n]][S[ByteXor[block[n]][c[n - 1]] + 1]]
  IN <<>> \o [n \in 1 .. 16 |-> c[n]]

\* hash_digest feeds the checksum itself as the last block, and its update
\* reads buf while it rewrites C.
MD2Load ==
  /\ alg = "MD2" /\ input = <<>>
  /\ \/ rest # <<>> /\ input' = rest[1] /\ rest' = Tail(rest) /\ UNCHANGED closed
     \/ rest = <<>> /\ ~closed /\ input' = chain.C /\ rest' = <<>> /\ closed' = TRUE
  /\ regs' = [X |-> chain.X \o input' \o Xor(input', chain.X), t |-> 0]
  /\ chain' = [chain EXCEPT !.C = Checksum(@, input')] /\ turn' = 0 /\ UNCHANGED vec

\* One turn of the loop of 18: t goes through the 48 bytes of X.
MD2Step ==
  /\ alg = "MD2" /\ input # <<>> /\ turn < 18 /\ turn' = turn + 1
  /\ LET through[j \in 0 .. 48] ==
           IF j = 0 THEN <<>>
           ELSE LET done == through[j - 1]
                    t == IF j = 1 THEN regs.t ELSE done[j - 1]
                IN Append(done, ByteXor[regs.X[j]][S[t + 1]])
         X == through[48]
     IN regs' = [X |-> X, t |-> (X[48] + turn) % 256]
  /\ UNCHANGED <<vec, rest, chain, input, closed>>

MD2End ==
  /\ alg = "MD2" /\ input # <<>> /\ turn = 18
  /\ chain' = [chain EXCEPT !.X = SubSeq(regs.X, 1, 16)]
  /\ input' = <<>> /\ regs' = <<>> /\ turn' = 0 /\ UNCHANGED <<vec, rest, closed>>

-----------------------------------------------------------------------------
Next ==
  \/ Finished /\ \E v \in Vectors : hash_init(v)
  \/ MD4Load \/ MD4Step \/ MD4End
  \/ RIPELoad \/ RIPEStep \/ RIPEEnd
  \/ MD2Load \/ MD2Step \/ MD2End

Spec == Init /\ [][Next]_vars

\* The end of hash_digest: the words little-endian, or the first bytes of X.
RECURSIVE Flat(_)
Flat(words) == IF words = <<>> THEN <<>> ELSE Backwards(words[1]) \o Flat(Tail(words))
Output == IF alg = "MD2" THEN chain.X ELSE Flat(chain)

-----------------------------------------------------------------------------
(* Properties.                                                             *)

\* The unrolled rounds of MD4, the two lines of RIPEMD160 and the three passes
\* of MD2, whose words, shifts and functions come in orders of their own,
\* compute the digests the tests expect, of one block and of two.
KnownDigests == Finished => Output = vec.digest

=============================================================================
