---------------------------- MODULE MCPrimitives ----------------------------
(***************************************************************************)
(* The primitives of PyCrypto, one at a time: the block ciphers, the       *)
(* stream ciphers, the compression functions of the hashes, and strxor.    *)
(* Each is an extension module of its own; they share the variables only   *)
(* to keep the states of this model small.  Keys and texts are those of    *)
(* the answers the tests of PyCrypto and RFC 2144 give, with keys of no    *)
(* legal length.                                                           *)
(***************************************************************************)
EXTENDS Integers, Sequences

CONSTANT MaxLevel

VARIABLES
  primitive,                                                 \* the one at work
  phase, key, data, text, level, turn, half,                 \* of several ciphers
  ek, dk, count, st, left, at,                               \* AES
  module, todo, kn, sk, pass,                                \* DES
  effective_keylen, buffer, xkey, x,                         \* ARC2
  made, subkeys, rounds,                                     \* CAST
  array, boxes,                                              \* Blowfish
  cipher, state, index2, objects, message, sent, wire, got,  \* StreamCipher
  vec, rest, chain, regs, sched, input, closed,              \* SHA2, MDCompress
  imported, value, status, odd, original                     \* Strxor

cipherVars == <<phase, key>>
blockVars  == <<data, text, level>>
aesVars    == <<ek, dk, count, st, left, at>>
desVars    == <<module, todo, kn, sk, pass>>
arc2Vars   == <<effective_keylen, buffer, xkey, x>>
castVars   == <<made, subkeys, rounds>>
fishVars   == <<array, boxes>>
streamVars == <<cipher, state, index2, objects, message, sent, wire, got>>
hashVars   == <<vec, rest, chain, regs>>
mdVars     == <<input, closed>>
xorVars    == <<imported, value, status, odd, original>>

vars == <<primitive, cipherVars, blockVars, turn, half, aesVars, desVars, arc2Vars, castVars,
          fishVars, streamVars, hashVars, sched, mdVars, xorVars>>

-----------------------------------------------------------------------------
(* Keys, texts and answers.                                                *)

Repeated(n, b) == [i \in 1 .. n |-> b]
Counted(a, n) == [i \in 1 .. n |-> a + i - 1]
Answer(k, p, c) == [key |-> k, plain |-> p, cipher |-> c]
KeysOf(answers) == {a.key : a \in answers}
PlainOf(answers) == {a.plain : a \in answers}

\* FIPS-197 C.1 to C.3.
AESPlain == [i \in 1 .. 16 |-> 17 * (i - 1)]
AESAnswers ==
  {Answer(Counted(0, 16), AESPlain,
          <<105, 196, 224, 216, 106, 123, 4, 48, 216, 205, 183, 128, 112, 180, 197, 90>>),
   Answer(Counted(0, 24), AESPlain,
          <<221, 169, 124, 164, 134, 76, 223, 224, 110, 175, 112, 160, 236, 13, 113, 145>>),
   Answer(Counted(0, 32), AESPlain,
          <<142, 162, 183, 202, 81, 103, 69, 191, 234, 252, 73, 144, 75, 73, 96, 137>>)}
AESKeys == KeysOf(AESAnswers) \cup {Counted(0, 15)}
AESBlocks == {AESPlain, Repeated(16, 255)}

\* test_DES.py, and the first block of test_DES3.py; two keys and three.
Digits == <<1, 35, 69, 103, 137, 171, 205, 239>>
Three == Digits \o Tail(Digits) \o <<1>> \o SubSeq(Digits, 3, 8) \o <<1, 35>>
DESAnswers ==
  {Answer(<<16, 49, 110, 2, 140, 143, 59, 74>>, Repeated(8, 0),
          <<130, 220, 186, 251, 222, 171, 102, 2>>),
   Answer(Three, <<84, 104, 101, 32, 113, 117, 102, 99>>,
          <<168, 38, 253, 140, 229, 59, 133, 95>>)}
DESKeys == KeysOf(DESAnswers) \cup {SubSeq(Three, 1, 16), SubSeq(Three, 1, 7)}
DESBlocks == PlainOf(DESAnswers)

\* test_ARC2.py; effective lengths of whole bytes and not.
ARC2Long == <<136, 188, 169, 14, 144, 135, 90, 127, 15, 121, 195, 132, 98, 123, 175, 178,
              22, 248, 10, 111, 133, 146, 5, 132, 196, 47, 206, 176, 190, 37, 93, 175, 30>>
ARC2Answer(k, n, p, c) == [key |-> k, length |-> n, plain |-> p, cipher |-> c]
ARC2Answers ==
  {ARC2Answer(Repeated(8, 0), 63, Repeated(8, 0), <<235, 183, 115, 249, 147, 39, 142, 255>>),
   ARC2Answer(Repeated(8, 255), 64, Repeated(8, 255), <<39, 139, 39, 228, 46, 47, 13, 73>>),
   ARC2Answer(<<136>>, 64, Repeated(8, 0), <<97, 168, 162, 68, 173, 172, 204, 240>>),
   ARC2Answer(SubSeq(ARC2Long, 1, 7), 64, Repeated(8, 0), <<108, 207, 67, 8, 151, 76, 38, 127>>),
   ARC2Answer(SubSeq(ARC2Long, 1, 16), 64, Repeated(8, 0), <<26, 128, 125, 39, 43, 190, 93, 177>>),
   ARC2Answer(SubSeq(ARC2Long, 1, 16), 128, Repeated(8, 0), <<34, 105, 85, 42, 176, 248, 92, 166>>),
   ARC2Answer(ARC2Long, 129, Repeated(8, 0), <<91, 120, 211, 164, 61, 255, 241, 241>>)}
ARC2Keys == KeysOf(ARC2Answers) \cup {Repeated(129, 7)}
ARC2Lengths == {2, 63, 64, 128, 129, 1024}
ARC2Blocks == PlainOf(ARC2Answers)

\* RFC 2144 B.1: keys of 128, 80 and 40 bits.
CASTKey == <<1, 35, 69, 103, 18, 52, 86, 120, 35, 69, 103, 137, 52, 86, 120, 154>>
CASTAnswers ==
  {Answer(CASTKey, Digits, <<35, 139, 79, 229, 132, 126, 68, 178>>),
   Answer(SubSeq(CASTKey, 1, 10), Digits, <<235, 106, 113, 26, 44, 2, 39, 27>>),
   Answer(SubSeq(CASTKey, 1, 5), Digits, <<122, 200, 22, 209, 110, 155, 48, 46>>)}
CASTKeys ==
  KeysOf(CASTAnswers) \cup {SubSeq(CASTKey, 1, 11), SubSeq(CASTKey, 1, 4), CASTKey \o <<0>>}
CASTBlocks == {Digits, Repeated(8, 0)}

\* test_Blowfish.py: keys of 8 bytes, 1 and 24.
FishPlain == <<254, 220, 186, 152, 118, 84, 50, 16>>
FishAnswers ==
  {Answer(Digits, Repeated(8, 17), <<97, 249, 195, 128, 34, 129, 176, 150>>),
   Answer(<<240>>, FishPlain, <<249, 173, 89, 124, 73, 219, 0, 94>>),
   Answer(<<240, 225, 210, 195, 180, 165, 150, 135, 120, 105, 90, 75,
            60, 45, 30, 15, 0, 17, 34, 51, 68, 85, 102, 119>>,
          FishPlain, <<5, 4, 75, 98, 250, 82, 208, 128>>)}
FishKeys == KeysOf(FishAnswers) \cup {Counted(1, 57)}
FishBlocks == PlainOf(FishAnswers)

\* test_ARC4.py and test_XOR.py; keys of no byte and of 33.
StreamAnswer(m, k, p, w) == [cipher |-> m, key |-> k, plain |-> p, wire |-> w]
Bits == [i \in 1 .. 8 |-> 2 ^ (i - 1)]
StreamAnswers ==
  {StreamAnswer("ARC4", Digits, Digits, <<117, 183, 135, 128, 153, 224, 197, 150>>),
   StreamAnswer("ARC4", <<239, 1, 35, 69>>, Repeated(10, 0),
                <<214, 161, 65, 167, 236, 60, 56, 223, 189, 97>>),
   StreamAnswer("XOR", <<1>>, Bits, <<0, 3, 5, 9, 17, 33, 65, 129>>),
   StreamAnswer("XOR", <<204, 170>>, Bits, <<205, 168, 200, 162, 220, 138, 140, 42>>)}
StreamKeys == KeysOf(StreamAnswers) \cup {<<>>, Counted(1, 33)}
StreamTexts == PlainOf(StreamAnswers)

\* test_SHA224.py, test_SHA256.py, test_SHA384.py and test_SHA512.py: "abc", and
\* a text long enough for a second block: n runs of w consecutive letters.
Runs(n, w) == [i \in 1 .. (n * w) |-> 97 + ((i - 1) \div w) + ((i - 1) % w)]

\* The bytes of 16 bit numbers.
Halves(s) ==
  [n \in 1 .. (2 * Len(s)) |->
     IF n % 2 = 1 THEN s[(n + 1) \div 2] \div 256 ELSE s[n \div 2] % 256]

SHA2Vectors ==
  {[alg |-> 224, text |-> Runs(1, 3), digest |-> Halves(<<\h2309, \h7d22, \h3405, \hd822, \h8642, \ha477,
          \hbda2, \h55b3, \h2aad, \hbce4, \hbda0, \hb3f7, \he36c, \h9da7>>)],
   [alg |-> 224, text |-> Runs(14, 4), digest |-> Halves(<<\h7538, \h8b16, \h5127, \h76cc, \h5dba, \h5da1,
          \hfd89, \h0150, \hb0c6, \h455c, \hb4f5, \h8b19, \h5252, \h2525>>)],
   [alg |-> 256, text |-> Runs(1, 3), digest |-> Halves(<<\hba78, \h16bf, \h8f01, \hcfea, \h4141, \h40de,
          \h5dae, \h2223, \hb003, \h61a3, \h9617, \h7a9c, \hb410, \hff61, \hf200, \h15ad>>)],
   [alg |-> 256, text |-> Runs(14, 4), digest |-> Halves(<<\h248d, \h6a61, \hd206, \h38b8, \he5c0, \h2693,
          \h0c3e, \h6039, \ha33c, \he459, \h64ff, \h2167, \hf6ec, \hedd4, \h19db, \h06c1>>)],
   [alg |-> 384, text |-> Runs(1, 3), digest |-> Halves(<<\hcb00, \h753f, \h45a3, \h5e8b, \hb5a0, \h3d69,
          \h9ac6, \h5007, \h272c, \h32ab, \h0ede, \hd163, \h1a8b, \h605a, \h43ff, \h5bed, \h8086,
          \h072b, \ha1e7, \hcc23, \h58ba, \heca1, \h34c8, \h25a7>>)],
   [alg |-> 384, text |-> Runs(14, 8), digest |-> Halves(<<\h0933, \h0c33, \hf711, \h47e8, \h3d19, \h2fc7,
          \h82cd, \h1b47, \h5311, \h1b17, \h3b3b, \h05d2, \h2fa0, \h8086, \he3b0, \hf712, \hfcc7,
          \hc71a, \h557e, \h2db9, \h66c3, \he9fa, \h9174, \h6039>>)],
   [alg |-> 512, text |-> Runs(1, 3), digest |-> Halves(<<\hddaf, \h35a1, \h9361, \h7aba, \hcc41, \h7349,
          \hae20, \h4131, \h12e6, \hfa4e, \h89a9, \h7ea2, \h0a9e, \heee6, \h4b55, \hd39a, \h2192,
          \h992a, \h274f, \hc1a8, \h36ba, \h3c23, \ha3fe, \hebbd, \h454d, \h4423, \h643c, \he80e,
          \h2a9a, \hc94f, \ha54c, \ha49f>>)],
   [alg |-> 512, text |-> Runs(14, 8), digest |-> Halves(<<\h8e95, \h9b75, \hdae3, \h13da, \h8cf4, \hf728,
          \h14fc, \h143f, \h8f77, \h79c6, \heb9f, \h7fa1, \h7299, \haead, \hb688, \h9018, \h501d,
          \h289e, \h4900, \hf7e4, \h331b, \h99de, \hc4b5, \h433a, \hc7d3, \h29ee, \hb6dd, \h2654,
          \h5e96, \he55b, \h874b, \he909>>)]}

\* test_MD2.py, test_MD4.py and test_RIPEMD.py: "abc", and letters and digits.
Letters == Counted(97, 3)
Alphabet == Counted(65, 26) \o Counted(97, 26) \o Counted(48, 10)

Vector(a, s, d) == [alg |-> a, text |-> s, digest |-> d]

MDVectors ==
  {Vector("MD4", Letters,
          <<164, 72, 1, 122, 175, 33, 216, 82, 95, 193, 10, 232, 122, 166, 114, 157>>),
   Vector("MD4", Alphabet,
          <<4, 63, 133, 130, 242, 65, 219, 53, 28, 230, 39, 225, 83, 231, 240, 228>>),
   Vector("RIPEMD160", Letters,
          <<142, 178, 8, 247, 224, 93, 152, 122, 155, 4, 74, 142, 152, 198, 176, 135, 241, 90, 11, 252>>),
   Vector("RIPEMD160", Alphabet,
          <<176, 226, 11, 110, 49, 22, 100, 2, 134, 237, 58, 135, 165, 113, 48, 121, 178, 31, 81, 137>>),
   Vector("MD2", Letters,
          <<218, 133, 59, 13, 63, 136, 217, 155, 48, 40, 58, 105, 230, 222, 214, 187>>),
   Vector("MD2", Alphabet,
          <<218, 51, 222, 242, 164, 45, 241, 57, 117, 53, 40, 70, 195, 3, 56, 205>>)}

\* test_strxor.py has such strings; integers just outside a byte.
Strings == {<<>>, <<0>>, <<255>>, <<1, 128>>, <<170, 85>>, <<85, 255>>, <<0, 1, 2>>, <<255, 127, 128>>}
Numbers == {-1, 0, 54, 170, 255, 256}

-----------------------------------------------------------------------------
(* The modules.                                                            *)

Aes == INSTANCE AES WITH Keys <- AESKeys, Blocks <- AESBlocks, Published <- AESAnswers
Des == INSTANCE DES WITH Keys <- DESKeys, Blocks <- DESBlocks, Published <- DESAnswers
Arc2 == INSTANCE ARC2 WITH
  Keys <- ARC2Keys, Lengths <- ARC2Lengths, Blocks <- ARC2Blocks, Published <- ARC2Answers,
  MaxLevel <- 1
Cast == INSTANCE CAST WITH Keys <- CASTKeys, Blocks <- CASTBlocks, Published <- CASTAnswers
Fish == INSTANCE Blowfish WITH Keys <- FishKeys, Blocks <- FishBlocks, Published <- FishAnswers
Stream == INSTANCE StreamCipher WITH
  Keys <- StreamKeys, Texts <- StreamTexts, MaxPiece <- 3, Published <- StreamAnswers
Sha2 == INSTANCE SHA2 WITH Vectors <- SHA2Vectors
Md == INSTANCE MDCompress WITH Vectors <- MDVectors
Sxor == INSTANCE Strxor WITH module <- imported, text <- original

Primitives == {"AES", "DES", "ARC2", "CAST", "Blowfish", "stream", "SHA2", "MD", "strxor"}

\* Every module's Init, those of the others in one of their initial states.
Init ==
  /\ primitive \in Primitives
  /\ Aes!Init /\ Des!Init /\ Arc2!Init /\ Cast!Init /\ Fish!Init /\ Stream!Init /\ Sxor!Init
  /\ IF primitive = "SHA2" THEN Sha2!Init /\ input = <<>> /\ closed = TRUE
     ELSE Md!Init /\ sched = <<>>
  /\ primitive # "DES" => module = "DES"
  /\ primitive # "stream" => cipher = "ARC4" /\ message = Digits
  /\ primitive # "strxor" => original = <<>>

AESStep ==
  /\ primitive = "AES" /\ Aes!Next
  /\ UNCHANGED <<primitive, turn, half, desVars, arc2Vars, castVars, fishVars, streamVars,
                 hashVars, sched, mdVars, xorVars>>
DESStep ==
  /\ primitive = "DES" /\ Des!Next
  /\ UNCHANGED <<primitive, aesVars, arc2Vars, castVars, fishVars, streamVars, hashVars, sched,
                 mdVars, xorVars>>
ARC2Step ==
  /\ primitive = "ARC2" /\ Arc2!Next
  /\ UNCHANGED <<primitive, half, aesVars, desVars, castVars, fishVars, streamVars, hashVars,
                 sched, mdVars, xorVars>>
CASTStep ==
  /\ primitive = "CAST" /\ Cast!Next
  /\ UNCHANGED <<primitive, aesVars, desVars, arc2Vars, fishVars, streamVars, hashVars, sched,
                 mdVars, xorVars>>
BlowfishStep ==
  /\ primitive = "Blowfish" /\ Fish!Next
  /\ UNCHANGED <<primitive, aesVars, desVars, arc2Vars, castVars, streamVars, hashVars, sched,
                 mdVars, xorVars>>
StreamStep ==
  /\ primitive = "stream" /\ Stream!Next
  /\ UNCHANGED <<primitive, blockVars, half, aesVars, desVars, arc2Vars, castVars, fishVars,
                 hashVars, sched, mdVars, xorVars>>
SHA2Step ==
  /\ primitive = "SHA2" /\ Sha2!Next
  /\ UNCHANGED <<primitive, cipherVars, blockVars, half, aesVars, desVars, arc2Vars, castVars,
                 fishVars, streamVars, mdVars, xorVars>>
MDStep ==
  /\ primitive = "MD" /\ Md!Next
  /\ UNCHANGED <<primitive, cipherVars, blockVars, half, aesVars, desVars, arc2Vars, castVars,
                 fishVars, streamVars, sched, xorVars>>
StrxorStep ==
  /\ primitive = "strxor" /\ Sxor!Next
  /\ UNCHANGED <<primitive, cipherVars, blockVars, turn, half, aesVars, desVars, arc2Vars,
                 castVars, fishVars, streamVars, hashVars, sched, mdVars>>

Next ==
  \/ AESStep \/ DESStep \/ ARC2Step \/ CASTStep \/ BlowfishStep \/ StreamStep
  \/ SHA2Step \/ MDStep \/ StrxorStep

Spec == Init /\ [][Next]_vars

-----------------------------------------------------------------------------
(* Properties.                                                             *)

\* What goes through a primitive and back is what it was: decryption undoes
\* encryption and encryption undoes decryption, for every block cipher, mode
\* of keying and key size; the receiver of a stream has the first bytes that
\* were sent, wherever the two ends cut it; masks applied twice cancel.
ReturnsToText ==
  CASE primitive = "AES" -> Aes!ReturnsToText
    [] primitive = "DES" -> Des!ReturnsToText
    [] primitive = "ARC2" -> Arc2!ReturnsToText
    [] primitive = "CAST" -> Cast!ReturnsToText
    [] primitive = "Blowfish" -> Fish!ReturnsToText
    [] primitive = "stream" -> Stream!GotWhatWasSent
    [] primitive = "strxor" -> Sxor!MasksCancel
    [] OTHER -> TRUE

\* Every cipher and every hash gives the answers the tests expect of it: the
\* key set-ups and the rounds, whose tables, orders and widths are each
\* module's own, go together.
KnownAnswers ==
  CASE primitive = "AES" -> Aes!KnownAnswers
    [] primitive = "DES" -> Des!KnownAnswers
    [] primitive = "ARC2" -> Arc2!KnownAnswers
    [] primitive = "CAST" -> Cast!KnownAnswers
    [] primitive = "Blowfish" -> Fish!KnownAnswers
    [] primitive = "stream" -> Stream!KnownAnswers
    [] primitive = "SHA2" -> Sha2!KnownDigests
    [] primitive = "MD" -> Md!KnownDigests
    [] OTHER -> TRUE

\* Every round by tables of AES and of DES is a round of its standard, with
\* the round key the standard derives from the key.
RoundsAreFips ==
  [][/\ primitive = "AES" => Aes!RoundIsFips
     /\ primitive = "DES" => Des!RoundIsFips]_vars

=============================================================================
