--------------------------------- MODULE SHA2 -------------------------------
(***************************************************************************)
(* The compression function of hash_SHA2_template.c under the constants of *)
(* SHA224.c, SHA256.c, SHA384.c and SHA512.c: one step is one turn of a    *)
(* loop of sha_compress.  The blocks are those HashObject shows sha_done   *)
(* to make of a message.                                                   *)
(***************************************************************************)
EXTENDS Words

CONSTANT Vectors  \* what test_SHA*.py expects: algorithm, text and digest

VARIABLES
  vec,    \* the vector being computed
  rest,   \* blocks still to compress
  chain,  \* hs->state
  sched,  \* W
  regs,   \* S, while a block is compressed
  turn    \* i of the last loop

vars == <<vec, rest, chain, sched, regs, turn>>

\* 64 bit words, in four parts.
LOCAL Parts(table) ==
  [k \in DOMAIN table |->
     <<>> \o [n \in 1 .. 8 |-> IF n % 2 = 1 THEN table[k][(n + 1) \div 2] \div 256
                               ELSE table[k][n \div 2] % 256]]

K512 == Parts(<<
  <<\h428a, \h2f98, \hd728, \hae22>>, <<\h7137, \h4491, \h23ef, \h65cd>>,
  <<\hb5c0, \hfbcf, \hec4d, \h3b2f>>, <<\he9b5, \hdba5, \h8189, \hdbbc>>,
  <<\h3956, \hc25b, \hf348, \hb538>>, <<\h59f1, \h11f1, \hb605, \hd019>>,
  <<\h923f, \h82a4, \haf19, \h4f9b>>, <<\hab1c, \h5ed5, \hda6d, \h8118>>,
  <<\hd807, \haa98, \ha303, \h0242>>, <<\h1283, \h5b01, \h4570, \h6fbe>>,
  <<\h2431, \h85be, \h4ee4, \hb28c>>, <<\h550c, \h7dc3, \hd5ff, \hb4e2>>,
  <<\h72be, \h5d74, \hf27b, \h896f>>, <<\h80de, \hb1fe, \h3b16, \h96b1>>,
  <<\h9bdc, \h06a7, \h25c7, \h1235>>, <<\hc19b, \hf174, \hcf69, \h2694>>,
  <<\he49b, \h69c1, \h9ef1, \h4ad2>>, <<\hefbe, \h4786, \h384f, \h25e3>>,
  <<\h0fc1, \h9dc6, \h8b8c, \hd5b5>>, <<\h240c, \ha1cc, \h77ac, \h9c65>>,
  <<\h2de9, \h2c6f, \h592b, \h0275>>, <<\h4a74, \h84aa, \h6ea6, \he483>>,
  <<\h5cb0, \ha9dc, \hbd41, \hfbd4>>, <<\h76f9, \h88da, \h8311, \h53b5>>,
  <<\h983e, \h5152, \hee66, \hdfab>>, <<\ha831, \hc66d, \h2db4, \h3210>>,
  <<\hb003, \h27c8, \h98fb, \h213f>>, <<\hbf59, \h7fc7, \hbeef, \h0ee4>>,
  <<\hc6e0, \h0bf3, \h3da8, \h8fc2>>, <<\hd5a7, \h9147, \h930a, \ha725>>,
  <<\h06ca, \h6351, \he003, \h826f>>, <<\h1429, \h2967, \h0a0e, \h6e70>>,
  <<\h27b7, \h0a85, \h46d2, \h2ffc>>, <<\h2e1b, \h2138, \h5c26, \hc926>>,
  <<\h4d2c, \h6dfc, \h5ac4, \h2aed>>, <<\h5338, \h0d13, \h9d95, \hb3df>>,
  <<\h650a, \h7354, \h8baf, \h63de>>, <<\h766a, \h0abb, \h3c77, \hb2a8>>,
  <<\h81c2, \hc92e, \h47ed, \haee6>>, <<\h9272, \h2c85, \h1482, \h353b>>,
  <<\ha2bf, \he8a1, \h4cf1, \h0364>>, <<\ha81a, \h664b, \hbc42, \h3001>>,
  <<\hc24b, \h8b70, \hd0f8, \h9791>>, <<\hc76c, \h51a3, \h0654, \hbe30>>,
  <<\hd192, \he819, \hd6ef, \h5218>>, <<\hd699, \h0624, \h5565, \ha910>>,
  <<\hf40e, \h3585, \h5771, \h202a>>, <<\h106a, \ha070, \h32bb, \hd1b8>>,
  <<\h19a4, \hc116, \hb8d2, \hd0c8>>, <<\h1e37, \h6c08, \h5141, \hab53>>,
  <<\h2748, \h774c, \hdf8e, \heb99>>, <<\h34b0, \hbcb5, \he19b, \h48a8>>,
  <<\h391c, \h0cb3, \hc5c9, \h5a63>>, <<\h4ed8, \haa4a, \he341, \h8acb>>,
  <<\h5b9c, \hca4f, \h7763, \he373>>, <<\h682e, \h6ff3, \hd6b2, \hb8a3>>,
  <<\h748f, \h82ee, \h5def, \hb2fc>>, <<\h78a5, \h636f, \h4317, \h2f60>>,
  <<\h84c8, \h7814, \ha1f0, \hab72>>, <<\h8cc7, \h0208, \h1a64, \h39ec>>,
  <<\h90be, \hfffa, \h2363, \h1e28>>, <<\ha450, \h6ceb, \hde82, \hbde9>>,
  <<\hbef9, \ha3f7, \hb2c6, \h7915>>, <<\hc671, \h78f2, \he372, \h532b>>,
  <<\hca27, \h3ece, \hea26, \h619c>>, <<\hd186, \hb8c7, \h21c0, \hc207>>,
  <<\heada, \h7dd6, \hcde0, \heb1e>>, <<\hf57d, \h4f7f, \hee6e, \hd178>>,
  <<\h06f0, \h67aa, \h7217, \h6fba>>, <<\h0a63, \h7dc5, \ha2c8, \h98a6>>,
  <<\h113f, \h9804, \hbef9, \h0dae>>, <<\h1b71, \h0b35, \h131c, \h471b>>,
  <<\h28db, \h77f5, \h2304, \h7d84>>, <<\h32ca, \hab7b, \h40c7, \h2493>>,
  <<\h3c9e, \hbe0a, \h15c9, \hbebc>>, <<\h431d, \h67c4, \h9c10, \h0d4c>>,
  <<\h4cc5, \hd4be, \hcb3e, \h42b6>>, <<\h597f, \h299c, \hfc65, \h7e2a>>,
  <<\h5fcb, \h6fab, \h3ad6, \hfaec>>, <<\h6c44, \h198c, \h4a47, \h5817>>>>)
H512 == Parts(<<
  <<\h6a09, \he667, \hf3bc, \hc908>>, <<\hbb67, \hae85, \h84ca, \ha73b>>,
  <<\h3c6e, \hf372, \hfe94, \hf82b>>, <<\ha54f, \hf53a, \h5f1d, \h36f1>>,
  <<\h510e, \h527f, \hade6, \h82d1>>, <<\h9b05, \h688c, \h2b3e, \h6c1f>>,
  <<\h1f83, \hd9ab, \hfb41, \hbd6b>>, <<\h5be0, \hcd19, \h137e, \h2179>>>>)
H384 == Parts(<<
  <<\hcbbb, \h9d5d, \hc105, \h9ed8>>, <<\h629a, \h292a, \h367c, \hd507>>,
  <<\h9159, \h015a, \h3070, \hdd17>>, <<\h152f, \hecd8, \hf70e, \h5939>>,
  <<\h6733, \h2667, \hffc0, \h0b31>>, <<\h8eb4, \h4a87, \h6858, \h1511>>,
  <<\hdb0c, \h2e0d, \h64f9, \h8fa7>>, <<\h47b5, \h481d, \hbefa, \h4fa4>>>>)
K384 == K512

\* The 32 bit tables are halves of the 64 bit ones.
K256 == [k \in 1 .. 64 |-> SubSeq(K512[k], 1, 4)]
K224 == K256
H256 == [k \in 1 .. 8 |-> SubSeq(H512[k], 1, 4)]
H224 == [k \in 1 .. 8 |-> SubSeq(H384[k], 5, 8)]

alg == vec.alg  \* 224, 256, 384 or 512

Wide == alg \in {384, 512}
WORD_SIZE == IF Wide THEN 8 ELSE 4
BLOCK_SIZE == 16 * WORD_SIZE
SCHEDULE_SIZE == IF Wide THEN 80 ELSE 64
DIGEST_SIZE == alg \div 8
K == CASE alg = 224 -> K224 [] alg = 256 -> K256 [] alg = 384 -> K384 [] alg = 512 -> K512
H(a) == CASE a = 224 -> H224 [] a = 256 -> H256 [] a = 384 -> H384 [] a = 512 -> H512

Xor3(u, v, t) == Xor(Xor(u, v), t)
Ch(u, v, t) == Xor(And(u, v), And(Not(u), t))
Maj(u, v, t) == Xor3(And(u, v), And(u, t), And(v, t))

\* Sigma0, Sigma1, Gamma0 and Gamma1 of each file.
Sigma0(u) == IF Wide THEN Xor3(ROTR(u, 28), ROTR(u, 34), ROTR(u, 39))
             ELSE Xor3(ROTR(u, 2), ROTR(u, 13), ROTR(u, 22))
Sigma1(u) == IF Wide THEN Xor3(ROTR(u, 14), ROTR(u, 18), ROTR(u, 41))
             ELSE Xor3(ROTR(u, 6), ROTR(u, 11), ROTR(u, 25))
Gamma0(u) == IF Wide THEN Xor3(ROTR(u, 1), ROTR(u, 8), SHR(u, 7))
             ELSE Xor3(ROTR(u, 7), ROTR(u, 18), SHR(u, 3))
Gamma1(u) == IF Wide THEN Xor3(ROTR(u, 19), ROTR(u, 61), SHR(u, 6))
             ELSE Xor3(ROTR(u, 17), ROTR(u, 19), SHR(u, 10))

\* The message with its padding, as HashPadding has it.
Padded(s, size) ==
  LET zeros == CHOOSE n \in 0 .. (size - 1) : (Len(s) + 1 + n + (size \div 8)) % size = 0
      bits == [n \in 1 .. (size \div 8) |->
                 CASE n = size \div 8 -> (8 * Len(s)) % 256
                   [] n = (size \div 8) - 1 -> (8 * Len(s)) \div 256
                   [] OTHER -> 0]
  IN InWords(s \o <<128>> \o [n \in 1 .. zeros |-> 0] \o bits, size)

sha_init(v) ==
  /\ vec' = v /\ chain' = H(v.alg)
  /\ rest' = Padded(v.text, IF v.alg \in {384, 512} THEN 128 ELSE 64)
  /\ sched' = <<>> /\ regs' = <<>> /\ turn' = 0

Finished == rest = <<>> /\ regs = <<>>

Init ==
  /\ vec \in Vectors /\ chain = H(vec.alg) /\ rest = Padded(vec.text, BLOCK_SIZE)
  /\ sched = <<>> /\ regs = <<>> /\ turn = 0

-----------------------------------------------------------------------------
(* sha_compress.                                                           *)

Load ==
  /\ rest # <<>> /\ regs = <<>>
  /\ regs' = chain /\ sched' = InWords(rest[1], WORD_SIZE) /\ rest' = Tail(rest) /\ turn' = 0
  /\ UNCHANGED <<vec, chain>>

\* W[i] from four of the words before it.
Before(n) == sched[Len(sched) + 1 - n]

Schedule ==
  /\ regs # <<>> /\ Len(sched) < SCHEDULE_SIZE
  /\ sched' = Append(sched,
       Add(Add(Gamma1(Before(2)), Before(7)), Add(Gamma0(Before(15)), Before(16))))
  /\ UNCHANGED <<vec, rest, chain, regs, turn>>

T1 == Add(Add(Add(regs[8], Sigma1(regs[5])), Ch(regs[5], regs[6], regs[7])),
          Add(K[turn + 1], sched[turn + 1]))
T2 == Add(Sigma0(regs[1]), Maj(regs[1], regs[2], regs[3]))

Turning == Len(sched) = SCHEDULE_SIZE /\ turn < SCHEDULE_SIZE

\* S[0] is assigned before S[1] takes its old value.
Round_Overwrites ==
  /\ Turning /\ turn' = turn + 1
  /\ regs' = <<Add(T1, T2), Add(T1, T2), regs[2], regs[3], Add(regs[4], T1), regs[5], regs[6], regs[7]>>
  /\ UNCHANGED <<vec, rest, chain, sched>>

Round ==
  /\ Turning /\ turn' = turn + 1
  /\ regs' = <<Add(T1, T2), regs[1], regs[2], regs[3], Add(regs[4], T1), regs[5], regs[6], regs[7]>>
  /\ UNCHANGED <<vec, rest, chain, sched>>

Feedback ==
  /\ regs # <<>> /\ Len(sched) = SCHEDULE_SIZE /\ turn = SCHEDULE_SIZE
  /\ chain' = <<>> \o [n \in 1 .. 8 |-> Add(chain[n], regs[n])]
  /\ regs' = <<>> /\ sched' = <<>> /\ turn' = 0
  /\ UNCHANGED <<vec, rest>>

Next ==
  \/ Finished /\ \E v \in Vectors : sha_init(v)
  \/ Load \/ Schedule \/ Round \/ Feedback

Spec == Init /\ [][Next]_vars

\* The end of sha_done.
Output ==
  [n \in 1 .. DIGEST_SIZE |-> chain[((n - 1) \div WORD_SIZE) + 1][((n - 1) % WORD_SIZE) + 1]]

-----------------------------------------------------------------------------
(* Properties.                                                             *)

\* Each of the four algorithms, whose files share one template and differ in
\* word size, schedule length, rotations and tables, computes the digests its
\* test expects, of messages of one block and of two.
KnownDigests == Finished => Output = vec.digest

=============================================================================
