------------------------- MODULE Templates_proofs --------------------------
(***************************************************************************)
(* What the run of MCTemplates checks on a small instance, proved for      *)
(* every instance: the chaining modes of BlockModes for blocks of any size *)
(* and every block cipher, the keystream of CtrMode for any number of      *)
(* cipher objects and numbers of the counter, the counter objects of       *)
(* Counter for bytes of any size and counters of any length, and the hash  *)
(* objects of HashObject for messages of any bytes and length.             *)
(***************************************************************************)
EXTENDS MCTemplates, WellFoundedInduction, TLAPS

\* Quotient and remainder of a number written as a multiple and a rest.
LEMMA DivMod ==
  ASSUME NEW B \in Nat \ {0}, NEW q \in Nat, NEW r \in 0 .. (B - 1)
  PROVE  (B * q + r) \div B = q /\ (B * q + r) % B = r
OBVIOUS

-----------------------------------------------------------------------------
(* BlockModes: the chaining modes.                                         *)

Segment(m, seg) == [1 .. Step(m, seg) -> Byte]

Parameters(m, seg) ==
  m \in Modes /\ seg \in Nat /\ (m = "CFB" => seg \in 1 .. BLOCK_SIZE)

Messages(m, seg) ==
  [text : Segment(m, seg), sent : Segment(m, seg), plain : Segment(m, seg),
   before : Block, after : Block]

TypeInv ==
  /\ Parameters(mode, segment_size) /\ key \in Keys
  /\ sender \in Block /\ receiver \in Block
  /\ since \in 0 .. BLOCK_SIZE
  /\ chan \in Seq(Messages(mode, segment_size))

\* Each segment is the encryption of its text, and they are chained.
Chained ==
  /\ \A i \in 1 .. Len(chan) :
       Encrypted(mode, key, chan[i].before, chan[i].plain, segment_size)
         = [out |-> chan[i].sent, IV |-> chan[i].after]
  /\ \A i \in 1 .. Len(chan) : i + 1 \in 1 .. Len(chan) => chan[i].after = chan[i + 1].before
  /\ chan # <<>> => chan[Len(chan)].after = sender

IInv == TypeInv /\ Chained /\ IVsAgree

-----------------------------------------------------------------------------
\* A step of the loop is a block, or in CFB a segment.
LEMMA StepIsLength ==
  ASSUME NEW m, NEW seg, Parameters(m, seg)
  PROVE  /\ Step(m, seg) \in 1 .. BLOCK_SIZE
         /\ m # "CFB" => Step(m, seg) = BLOCK_SIZE /\ Segment(m, seg) = Block
         /\ m = "CFB" => Step(m, seg) = seg
BY SizeAssumption DEF Step, Segment, Parameters, Block

\* XORing a segment with a block gives a segment, and twice gives it back.
LEMMA XorTwice ==
  ASSUME NEW n \in 1 .. BLOCK_SIZE, NEW s \in [1 .. n -> Byte], NEW b \in Block
  PROVE  /\ XorWith(s, b) \in [1 .. n -> Byte]
         /\ XorWith(XorWith(s, b), b) = s
<1>1. \A j \in 1 .. n : s[j] \in Byte /\ b[j] \in Byte
  BY SizeAssumption DEF Block
<1>2. ASSUME NEW a \in Byte, NEW c \in Byte PROVE Xor[a][c] \in Byte
  <2>1. Xor[a] \in [Byte -> Byte]
    BY XorAssumption
  <2> QED BY <2>1
<1>3. XorWith(s, b) \in [1 .. n -> Byte]
  BY <1>1, <1>2 DEF XorWith
<1>4. \A j \in 1 .. n : Xor[Xor[s[j]][b[j]]][b[j]] = s[j]
  BY <1>1, XorAssumption
<1>5. XorWith(XorWith(s, b), b) = [j \in 1 .. n |-> Xor[Xor[s[j]][b[j]]][b[j]]]
  BY <1>3 DEF XorWith
<1>6. XorWith(XorWith(s, b), b) = [j \in 1 .. n |-> s[j]]
  BY <1>4, <1>5
<1> QED BY <1>3, <1>6

\* The register of CFB stays a block.
LEMMA ShiftInIsBlock ==
  ASSUME NEW n \in 1 .. BLOCK_SIZE, NEW iv \in Block, NEW s \in [1 .. n -> Byte]
  PROVE  ShiftIn(iv, s, n) \in Block
<1>1. \A j \in 1 .. BLOCK_SIZE : j + n <= BLOCK_SIZE => iv[j + n] \in Byte
  BY SizeAssumption DEF Block
<1>2. \A j \in 1 .. BLOCK_SIZE : ~(j + n <= BLOCK_SIZE) => s[j + n - BLOCK_SIZE] \in Byte
  <2> SUFFICES ASSUME NEW j \in 1 .. BLOCK_SIZE, ~(j + n <= BLOCK_SIZE)
               PROVE  s[j + n - BLOCK_SIZE] \in Byte
    OBVIOUS
  <2>1. j + n - BLOCK_SIZE \in 1 .. n
    BY SizeAssumption
  <2> QED BY <2>1
<1> QED BY <1>1, <1>2 DEF ShiftIn, Block

\* An encryption step yields a segment and a block.
LEMMA EncryptedType ==
  ASSUME NEW m, NEW seg, Parameters(m, seg), NEW k \in Keys,
         NEW iv \in Block, NEW str \in Segment(m, seg)
  PROVE  /\ Encrypted(m, k, iv, str, seg).out \in Segment(m, seg)
         /\ Encrypted(m, k, iv, str, seg).IV \in Block
         /\ Encrypted(m, k, iv, str, seg) =
              [out |-> Encrypted(m, k, iv, str, seg).out, IV |-> Encrypted(m, k, iv, str, seg).IV]
<1>1. block_encrypt[k] \in [Block -> Block]
  BY CipherAssumption
<1>2. Step(m, seg) \in 1 .. BLOCK_SIZE /\ BLOCK_SIZE \in 1 .. BLOCK_SIZE
  BY StepIsLength, SizeAssumption
<1>3. CASE m = "ECB"
  BY <1>1, <1>3, StepIsLength DEF Encrypted, EncryptECB
<1>4. CASE m = "CBC"
  <2>1. str \in Block
    BY <1>4, StepIsLength
  <2>2. XorWith(str, iv) \in Block
    BY <2>1, <1>2, XorTwice DEF Block
  <2> QED BY <1>1, <1>4, <2>2, StepIsLength DEF Encrypted, EncryptCBC
<1>5. CASE m = "CFB"
  <2>1. block_encrypt[k][iv] \in Block
    BY <1>1
  <2>2. XorWith(str, block_encrypt[k][iv]) \in Segment(m, seg)
    BY <2>1, <1>2, XorTwice DEF Segment
  <2>3. ShiftIn(iv, XorWith(str, block_encrypt[k][iv]), seg) \in Block
    BY <2>2, <1>2, <1>5, StepIsLength, ShiftInIsBlock DEF Segment
  <2> QED BY <1>5, <2>2, <2>3 DEF Encrypted, EncryptCFB
<1>6. CASE m = "OFB"
  <2>1. str \in Block
    BY <1>6, StepIsLength
  <2>2. block_encrypt[k][iv] \in Block
    BY <1>1
  <2>3. XorWith(str, block_encrypt[k][iv]) \in Block
    BY <2>1, <2>2, <1>2, XorTwice DEF Block
  <2> QED BY <1>6, <2>2, <2>3, StepIsLength DEF Encrypted, EncryptOFB
<1> QED BY <1>3, <1>4, <1>5, <1>6 DEF Parameters, Modes

\* A decryption step with the sender's IV undoes the encryption step.
LEMMA DecryptUndoes ==
  ASSUME NEW m, NEW seg, Parameters(m, seg), NEW k \in Keys,
         NEW iv \in Block, NEW str \in Segment(m, seg)
  PROVE  Decrypted(m, k, iv, Encrypted(m, k, iv, str, seg).out, seg).out = str
<1>1. block_encrypt[k] \in [Block -> Block]
  BY CipherAssumption
<1>2. Step(m, seg) \in 1 .. BLOCK_SIZE /\ BLOCK_SIZE \in 1 .. BLOCK_SIZE
  BY StepIsLength, SizeAssumption
<1>3. CASE m = "ECB"
  <2>1. str \in Block
    BY <1>3, StepIsLength
  <2> QED BY <1>3, <2>1, CipherAssumption DEF Encrypted, EncryptECB, Decrypted, DecryptECB
<1>4. CASE m = "CBC"
  <2>1. str \in Block
    BY <1>4, StepIsLength
  <2>2. XorWith(str, iv) \in Block /\ XorWith(XorWith(str, iv), iv) = str
    BY <2>1, <1>2, XorTwice DEF Block
  <2>3. block_decrypt[k][block_encrypt[k][XorWith(str, iv)]] = XorWith(str, iv)
    BY <2>2, CipherAssumption
  <2> QED BY <1>4, <2>2, <2>3 DEF Encrypted, EncryptCBC, Decrypted, DecryptCBC
<1>5. CASE m = "CFB"
  <2>1. block_encrypt[k][iv] \in Block
    BY <1>1
  <2>2. XorWith(XorWith(str, block_encrypt[k][iv]), block_encrypt[k][iv]) = str
    BY <2>1, <1>2, XorTwice DEF Segment
  <2> QED BY <1>5, <2>2 DEF Encrypted, EncryptCFB, Decrypted, DecryptCFB
<1>6. CASE m = "OFB"
  <2>1. block_encrypt[k][iv] \in Block
    BY <1>1
  <2>2. XorWith(XorWith(str, block_encrypt[k][iv]), block_encrypt[k][iv]) = str
    BY <2>1, <1>2, XorTwice DEF Segment
  <2> QED BY <1>6, <2>2 DEF Encrypted, EncryptOFB, Decrypted, DecryptOFB
<1> QED BY <1>3, <1>4, <1>5, <1>6 DEF Parameters, Modes

-----------------------------------------------------------------------------
\* The last s bytes of two IVs agree; all of them do in the modes whose IV does
\* not depend on what arrives.
Agree(m, s, a, b) ==
  \A j \in 1 .. BLOCK_SIZE : m \in {"ECB", "OFB"} \/ j + s > BLOCK_SIZE => a[j] = b[j]

\* What the receiver's IV is after a segment, byte by byte: where it was the
\* sender's before, and as far as unchanged bytes reach.
LEMMA AgreeAfterStep ==
  ASSUME NEW m, NEW seg, Parameters(m, seg), NEW k \in Keys,
         NEW iv \in Block, NEW str \in Segment(m, seg), NEW r \in Block,
         NEW s \in 0 .. BLOCK_SIZE, Agree(m, s, r, iv),
         NEW text \in Segment(m, seg), NEW s2 \in 0 .. BLOCK_SIZE,
         \/ s2 = 0
         \/ s2 <= s + Step(m, seg) /\ text = Encrypted(m, k, iv, str, seg).out
  PROVE  /\ Decrypted(m, k, r, text, seg).IV \in Block
         /\ Agree(m, s2, Decrypted(m, k, r, text, seg).IV, Encrypted(m, k, iv, str, seg).IV)
<1>0. \A j \in 1 .. BLOCK_SIZE : m \in {"ECB", "OFB"} \/ j + s > BLOCK_SIZE => r[j] = iv[j]
  BY DEF Agree
<1>1. block_encrypt[k] \in [Block -> Block]
  BY CipherAssumption
<1>2. Step(m, seg) \in 1 .. BLOCK_SIZE /\ BLOCK_SIZE \in 1 .. BLOCK_SIZE
  BY StepIsLength, SizeAssumption
<1>3. ASSUME m \in {"ECB", "OFB"} PROVE r = iv
  <2>1. \A j \in 1 .. BLOCK_SIZE : r[j] = iv[j]
    BY <1>0, <1>3
  <2>2. r = [j \in 1 .. BLOCK_SIZE |-> r[j]] /\ iv = [j \in 1 .. BLOCK_SIZE |-> iv[j]]
    BY DEF Block
  <2> QED BY <2>1, <2>2
<1>4. CASE m = "ECB"
  BY <1>3, <1>4 DEF Encrypted, EncryptECB, Decrypted, DecryptECB, Agree
<1>5. CASE m = "OFB"
  <2>1. block_encrypt[k][iv] \in Block
    BY <1>1
  <2> QED BY <1>3, <1>5, <2>1 DEF Encrypted, EncryptOFB, Decrypted, DecryptOFB, Agree
<1>6. CASE m = "CBC"
  <2>1. text \in Block
    BY <1>6, StepIsLength
  <2>2. Decrypted(m, k, r, text, seg).IV = text
    BY <1>6 DEF Decrypted, DecryptCBC
  <2>3. Encrypted(m, k, iv, str, seg).IV = Encrypted(m, k, iv, str, seg).out
    BY <1>6 DEF Encrypted, EncryptCBC
  <2>4. \A j \in 1 .. BLOCK_SIZE : ~(j + 0 > BLOCK_SIZE)
    BY SizeAssumption
  <2> QED BY <1>6, <2>1, <2>2, <2>3, <2>4 DEF Agree
<1>7. CASE m = "CFB"
  <2> DEFINE e == Encrypted(m, k, iv, str, seg)
  <2>1. text \in [1 .. seg -> Byte] /\ seg \in 1 .. BLOCK_SIZE /\ Step(m, seg) = seg
    BY <1>2, <1>7, StepIsLength DEF Segment
  <2>2. Decrypted(m, k, r, text, seg).IV = ShiftIn(r, text, seg)
    BY <1>7 DEF Decrypted, DecryptCFB
  <2>3. e.IV = ShiftIn(iv, e.out, seg)
    BY <1>7 DEF Encrypted, EncryptCFB
  <2>4. ShiftIn(r, text, seg) \in Block
    BY <2>1, ShiftInIsBlock
  <2>5. ASSUME NEW j \in 1 .. BLOCK_SIZE, j + s2 > BLOCK_SIZE
        PROVE  ShiftIn(r, text, seg)[j] = ShiftIn(iv, e.out, seg)[j]
    <3>1. s2 <= s + seg /\ text = e.out
      BY <2>1, <2>5, SizeAssumption
    <3>2. CASE j + seg <= BLOCK_SIZE
      <4>1. j + seg \in 1 .. BLOCK_SIZE /\ (j + seg) + s > BLOCK_SIZE
        BY <2>1, <2>5, <3>1, <3>2, SizeAssumption
      <4>2. r[j + seg] = iv[j + seg]
        BY <1>0, <4>1
      <4> QED BY <3>2, <4>2 DEF ShiftIn
    <3>3. CASE ~(j + seg <= BLOCK_SIZE)
      BY <3>1, <3>3 DEF ShiftIn
    <3> QED BY <3>2, <3>3
  <2> QED BY <1>7, <2>2, <2>3, <2>4, <2>5 DEF Agree
<1> QED BY <1>4, <1>5, <1>6, <1>7 DEF Parameters, Modes

-----------------------------------------------------------------------------
\* Both ends start with one IV and nothing sent.
LEMMA InitIInv == Init => IInv
<1> SUFFICES ASSUME Init PROVE IInv
  OBVIOUS
<1>1. Parameters(mode, segment_size)
  <2>1. PICK ivlen \in 0 .. BLOCK_SIZE, bits \in 0 .. (8 * BLOCK_SIZE) :
          Accepted(mode, ivlen, bits) /\ segment_size = SegmentBytes(mode, bits)
    BY DEF Init
  <2>2. CASE mode = "CFB" /\ bits # 0
    <3>1. segment_size = bits \div 8 /\ bits % 8 = 0 /\ bits \in 1 .. (BLOCK_SIZE * 8)
      BY <2>1, <2>2, SizeAssumption DEF Accepted, SegmentBytes
    <3>2. segment_size \in 1 .. BLOCK_SIZE
      BY <3>1, SizeAssumption
    <3> QED BY <2>2, <3>2 DEF Parameters, Modes
  <2>3. CASE ~(mode = "CFB" /\ bits # 0)
    <3>1. segment_size \in 0 .. 1 /\ (mode = "CFB" => segment_size = 1)
      BY <2>1, <2>3 DEF SegmentBytes
    <3> QED BY <3>1, SizeAssumption DEF Init, Parameters
  <2> QED BY <2>2, <2>3
<1>2. TypeInv
  <2>1. since \in 0 .. BLOCK_SIZE /\ chan \in Seq(Messages(mode, segment_size))
    BY SizeAssumption DEF Init
  <2> QED BY <1>1, <2>1 DEF Init, TypeInv
<1>3. Chained
  BY DEF Init, Chained
<1>4. IVsAgree
  BY DEF Init, IVsAgree, Expected
<1> QED BY <1>2, <1>3, <1>4 DEF IInv

\* Encrypting hands the IV from one segment to the next.
LEMMA EncryptStep == ASSUME IInv, NEW str \in Strings, ALG_Encrypt(str) PROVE IInv'
<1> DEFINE e == Encrypted(mode, key, sender, str, segment_size)
           msg == [text |-> e.out, sent |-> e.out, plain |-> str,
                   before |-> sender, after |-> e.IV]
           n == Len(chan)
<1>0. str \in Segment(mode, segment_size)
  BY DEF Strings, Segment
<1>1. /\ e.out \in Segment(mode, segment_size) /\ e.IV \in Block
      /\ e = [out |-> e.out, IV |-> e.IV]
  BY <1>0, EncryptedType DEF IInv, TypeInv
<1>2. /\ sender' = e.IV /\ chan' = Append(chan, msg)
      /\ mode' = mode /\ segment_size' = segment_size /\ key' = key
      /\ receiver' = receiver /\ since' = since
  BY DEF ALG_Encrypt
<1> HIDE DEF e
<1>3. msg \in Messages(mode, segment_size)
  BY <1>0, <1>1 DEF Messages, IInv, TypeInv
<1>4. TypeInv'
  BY <1>1, <1>2, <1>3 DEF IInv, TypeInv, Parameters, Messages, Segment, Step
<1>5. /\ n \in Nat /\ Len(chan') = n + 1 /\ chan'[n + 1] = msg
      /\ \A i \in 1 .. n : chan'[i] = chan[i]
  BY <1>2, <1>3 DEF IInv, TypeInv
<1>6. \A i \in 1 .. Len(chan') :
        Encrypted(mode, key, chan'[i].before, chan'[i].plain, segment_size)
          = [out |-> chan'[i].sent, IV |-> chan'[i].after]
  <2> SUFFICES ASSUME NEW i \in 1 .. (n + 1)
               PROVE  Encrypted(mode, key, chan'[i].before, chan'[i].plain, segment_size)
                        = [out |-> chan'[i].sent, IV |-> chan'[i].after]
    BY <1>5
  <2>1. CASE i = n + 1
    BY <2>1, <1>1, <1>5 DEF e
  <2>2. CASE i # n + 1
    <3>1. i \in 1 .. n
      BY <2>2, <1>5
    <3> QED BY <3>1, <1>5 DEF IInv, Chained
  <2> QED BY <2>1, <2>2
<1>7. \A i \in 1 .. Len(chan') : i + 1 \in 1 .. Len(chan') => chan'[i].after = chan'[i + 1].before
  <2> SUFFICES ASSUME NEW i \in 1 .. n, i + 1 \in 1 .. (n + 1)
               PROVE  chan'[i].after = chan'[i + 1].before
    BY <1>5
  <2>1. CASE i = n
    <3>1. chan # <<>> /\ chan[n].after = sender
      BY <2>1, <1>5 DEF IInv, Chained
    <3> QED BY <2>1, <3>1, <1>5
  <2>2. CASE i # n
    <3>1. i + 1 \in 1 .. n
      BY <2>2, <1>5
    <3> QED BY <3>1, <1>5 DEF IInv, Chained
  <2> QED BY <2>1, <2>2
<1>8. chan'[Len(chan')].after = sender'
  BY <1>2, <1>5
<1>9. Chained'
  BY <1>2, <1>6, <1>7, <1>8 DEF Chained
<1>10. IVsAgree'
  <2>1. Expected' = Expected
    <3>1. CASE chan = <<>>
      <4>1. n = 0
        BY <3>1
      <4>2. chan' # <<>> /\ Head(chan') = msg
        BY <4>1, <1>2, <1>3, <1>5, <3>1
      <4> QED BY <3>1, <4>2 DEF Expected
    <3>2. CASE chan # <<>>
      <4>1. n > 0 /\ Head(chan) = chan[1]
        BY <3>2 DEF IInv, TypeInv
      <4>2. chan' # <<>> /\ Head(chan') = chan[1]
        BY <4>1, <1>2, <1>3, <1>5, <3>2 DEF IInv, TypeInv
      <4> QED BY <3>2, <4>1, <4>2 DEF Expected
    <3> QED BY <3>1, <3>2
  <2> QED BY <2>1, <1>2 DEF IInv, IVsAgree, Unaffected
<1> QED BY <1>4, <1>9, <1>10 DEF IInv

\* Decrypting takes up the IVs the sender left, but for those a damage changed.
LEMMA DecryptStep == ASSUME IInv, ALG_Decrypt PROVE IInv'
<1> DEFINE m == Head(chan)
           e == Encrypted(mode, key, m.before, m.plain, segment_size)
           d == Decrypted(mode, key, receiver, m.text, segment_size)
           n == Len(chan)
<1>1. /\ chan # <<>> /\ chan' = Tail(chan) /\ receiver' = d.IV
      /\ mode' = mode /\ segment_size' = segment_size /\ key' = key /\ sender' = sender
  BY DEF ALG_Decrypt
<1>2. /\ n \in Nat \ {0} /\ m = chan[1] /\ m \in Messages(mode, segment_size)
      /\ Len(chan') = n - 1 /\ chan' \in Seq(Messages(mode, segment_size))
      /\ \A i \in 1 .. (n - 1) : chan'[i] = chan[i + 1]
  BY <1>1 DEF IInv, TypeInv
<1>3. /\ m.text \in Segment(mode, segment_size) /\ m.plain \in Segment(mode, segment_size)
      /\ m.sent \in Segment(mode, segment_size) /\ m.before \in Block /\ m.after \in Block
  BY <1>2 DEF Messages
<1>4. e = [out |-> m.sent, IV |-> m.after]
  <2>1. 1 \in 1 .. n
    BY <1>2
  <2> QED BY <2>1, <1>2 DEF IInv, Chained
<1>5. /\ since' \in 0 .. BLOCK_SIZE
      /\ \/ since' = 0
         \/ since' <= since + Step(mode, segment_size) /\ m.text = m.sent
  <2> DEFINE s == since + Step(mode, segment_size)
  <2>1. s \in Nat
    BY StepIsLength DEF IInv, TypeInv
  <2>2. since' = IF ~Unchanged(m) THEN 0 ELSE IF s <= BLOCK_SIZE THEN s ELSE BLOCK_SIZE
    BY DEF ALG_Decrypt
  <2> HIDE DEF s
  <2>3. /\ since' \in 0 .. BLOCK_SIZE
        /\ since' = 0 \/ (since' <= s /\ Unchanged(m))
    BY <2>1, <2>2, SizeAssumption
  <2> QED BY <2>3 DEF Unchanged, s
<1>6. Agree(mode, since, receiver, m.before)
  BY <1>1 DEF IInv, IVsAgree, Unaffected, Expected, Agree
<1>7. d.IV \in Block /\ Agree(mode, since', d.IV, m.after)
  <2>1. e.out = m.sent /\ e.IV = m.after
    BY <1>4
  <2>2. \/ since' = 0
        \/ since' <= since + Step(mode, segment_size) /\ m.text = e.out
    BY <1>5, <2>1
  <2>3. Parameters(mode, segment_size) /\ key \in Keys /\ receiver \in Block
        /\ since \in 0 .. BLOCK_SIZE
    BY DEF IInv, TypeInv
  <2> HIDE DEF e, d, m
  <2>4. ASSUME NEW s2 \in 0 .. BLOCK_SIZE,
               s2 = 0 \/ (s2 <= since + Step(mode, segment_size) /\ m.text = e.out)
        PROVE  d.IV \in Block /\ Agree(mode, s2, d.IV, e.IV)
    BY <1>3, <1>6, <2>3, <2>4, AgreeAfterStep DEF e, d
  <2> QED BY <1>5, <2>1, <2>2, <2>4
<1> HIDE DEF d, e
<1>8. TypeInv'
  BY <1>1, <1>2, <1>5, <1>7 DEF IInv, TypeInv, Parameters, Messages, Segment, Step
<1>9. Chained'
  <2>1. \A i \in 1 .. (n - 1) :
          Encrypted(mode, key, chan'[i].before, chan'[i].plain, segment_size)
            = [out |-> chan'[i].sent, IV |-> chan'[i].after]
    <3> SUFFICES ASSUME NEW i \in 1 .. (n - 1)
                 PROVE  Encrypted(mode, key, chan'[i].before, chan'[i].plain, segment_size)
                          = [out |-> chan'[i].sent, IV |-> chan'[i].after]
      OBVIOUS
    <3>1. i + 1 \in 1 .. n /\ chan'[i] = chan[i + 1]
      BY <1>2
    <3> QED BY <3>1 DEF IInv, Chained
  <2>2. ASSUME NEW i \in 1 .. (n - 1), i + 1 \in 1 .. (n - 1)
        PROVE  chan'[i].after = chan'[i + 1].before
    <3>1. i + 1 \in 1 .. n /\ (i + 1) + 1 \in 1 .. n
      BY <2>2, <1>2
    <3>2. chan'[i] = chan[i + 1] /\ chan'[i + 1] = chan[(i + 1) + 1]
      BY <2>2, <1>2
    <3>3. chan[i + 1].after = chan[(i + 1) + 1].before
      BY <3>1 DEF IInv, Chained
    <3> QED BY <3>2, <3>3
  <2>3. chan' # <<>> => chan'[Len(chan')].after = sender'
    <3> SUFFICES ASSUME chan' # <<>> PROVE chan'[Len(chan')].after = sender'
      OBVIOUS
    <3>1. n - 1 \in 1 .. (n - 1)
      BY <1>2
    <3>2. chan'[n - 1] = chan[n]
      BY <1>2, <3>1
    <3> QED BY <3>2, <1>1, <1>2 DEF IInv, Chained
  <2> QED BY <1>1, <1>2, <2>1, <2>2, <2>3 DEF Chained
<1>10. Expected' = m.after
  <2>1. CASE n = 1
    <3>1. chan' = <<>>
      BY <1>2, <2>1
    <3>2. m.after = sender
      BY <1>1, <1>2, <2>1 DEF IInv, Chained
    <3> QED BY <3>1, <3>2, <1>1 DEF Expected
  <2>2. CASE n # 1
    <3>1. 1 \in 1 .. (n - 1) /\ 1 \in 1 .. n /\ 1 + 1 \in 1 .. n
      BY <1>2, <2>2
    <3>2. chan'[1] = chan[1 + 1] /\ chan' # <<>> /\ Head(chan') = chan'[1]
      BY <1>2, <3>1
    <3>3. chan[1].after = chan[1 + 1].before
      BY <3>1 DEF IInv, Chained
    <3> QED BY <3>2, <3>3, <1>2 DEF Expected
  <2> QED BY <2>1, <2>2
<1>11. IVsAgree'
  BY <1>1, <1>7, <1>10 DEF IVsAgree, Unaffected, Agree
<1> QED BY <1>8, <1>9, <1>11 DEF IInv

\* A damage changes one text on its way and nothing at the ends.
LEMMA DamageStep == ASSUME IInv, NEW text \in Strings, Damage(text) PROVE IInv'
<1>1. /\ chan # <<>> /\ chan' = [chan EXCEPT ![1].text = text]
      /\ UNCHANGED <<mode, segment_size, key, sender, receiver, since>>
  BY DEF Damage
<1>2. chan[1] \in Messages(mode, segment_size) /\ text \in Segment(mode, segment_size)
  BY <1>1 DEF IInv, TypeInv, Strings, Segment
<1>3. [chan[1] EXCEPT !.text = text] \in Messages(mode, segment_size)
  BY <1>2 DEF Messages
<1>4. /\ chan' \in Seq(Messages(mode, segment_size)) /\ Len(chan') = Len(chan)
      /\ chan'[1] = [chan[1] EXCEPT !.text = text]
      /\ \A i \in 2 .. Len(chan) : chan'[i] = chan[i]
  BY <1>1, <1>3 DEF IInv, TypeInv
<1>5. \A i \in 1 .. Len(chan) :
        /\ chan'[i].sent = chan[i].sent /\ chan'[i].plain = chan[i].plain
        /\ chan'[i].before = chan[i].before /\ chan'[i].after = chan[i].after
  <2> SUFFICES ASSUME NEW i \in 1 .. Len(chan)
               PROVE  /\ chan'[i].sent = chan[i].sent /\ chan'[i].plain = chan[i].plain
                      /\ chan'[i].before = chan[i].before /\ chan'[i].after = chan[i].after
    OBVIOUS
  <2>1. CASE i = 1
    BY <2>1, <1>2, <1>4 DEF Messages
  <2>2. CASE i # 1
    <3>1. i \in 2 .. Len(chan)
      BY <2>2
    <3> QED BY <3>1, <1>4
  <2> QED BY <2>1, <2>2
<1>6. TypeInv'
  BY <1>1, <1>4 DEF IInv, TypeInv, Parameters, Messages, Segment, Step
<1>7. 1 \in 1 .. Len(chan) /\ Len(chan) \in 1 .. Len(chan) /\ chan' # <<>>
  BY <1>1, <1>4 DEF IInv, TypeInv
<1>8. Chained'
  <2>1. \A i \in 1 .. Len(chan') :
          Encrypted(mode, key, chan'[i].before, chan'[i].plain, segment_size)
            = [out |-> chan'[i].sent, IV |-> chan'[i].after]
    BY <1>4, <1>5 DEF IInv, Chained
  <2>2. \A i \in 1 .. Len(chan') : i + 1 \in 1 .. Len(chan') => chan'[i].after = chan'[i + 1].before
    BY <1>4, <1>5 DEF IInv, Chained
  <2>3. chan'[Len(chan')].after = sender'
    BY <1>1, <1>4, <1>5, <1>7 DEF IInv, Chained
  <2> QED BY <1>1, <2>1, <2>2, <2>3 DEF Chained
<1>9. Expected' = Expected
  <2>1. Head(chan') = chan'[1] /\ Head(chan) = chan[1]
    BY <1>1, <1>4, <1>7 DEF IInv, TypeInv
  <2> QED BY <2>1, <1>1, <1>5, <1>7 DEF Expected
<1> QED BY <1>1, <1>6, <1>8, <1>9 DEF IInv, IVsAgree, Unaffected

-----------------------------------------------------------------------------
\* The invariant of the two ends, which the theorems below read off.
LEMMA IInvHolds == Spec => []IInv
<1>1. IInv /\ [Next]_vars => IInv'
  <2> SUFFICES ASSUME IInv, [Next]_vars PROVE IInv'
    OBVIOUS
  <2>1. ASSUME NEW str \in Strings, ALG_Encrypt(str) PROVE IInv'
    BY <2>1, EncryptStep
  <2>2. ASSUME NEW str \in Strings, Damage(str) PROVE IInv'
    BY <2>2, DamageStep
  <2>3. CASE ALG_Decrypt
    BY <2>3, DecryptStep
  <2>4. CASE UNCHANGED vars
    <3>1. /\ mode' = mode /\ segment_size' = segment_size /\ key' = key /\ sender' = sender
          /\ receiver' = receiver /\ chan' = chan /\ since' = since
      BY <2>4 DEF vars
    <3> QED BY <3>1 DEF IInv, TypeInv, Chained, IVsAgree, Unaffected, Expected, Parameters,
                        Messages, Segment, Step
  <2> QED BY <2>1, <2>2, <2>3, <2>4 DEF Next
<1> QED BY <1>1, InitIInv, PTL DEF Spec

\* For any block size, cipher and segment size, the receiver's IV agrees with
\* the sender's as far as unchanged bytes reach.
THEOREM IVsAgreeHolds == Spec => []IVsAgree
BY IInvHolds, PTL DEF IInv

\* What arrives unchanged at a receiver in step decrypts to what was sent.
THEOREM DecryptsWhatWasSentHolds == Spec => []DecryptsWhatWasSent
<1>1. IInv => DecryptsWhatWasSent
  <2> SUFFICES ASSUME IInv, chan # <<>>, Unchanged(Head(chan)),
                      Unaffected \/ since = BLOCK_SIZE
               PROVE  Decrypted(mode, key, receiver, Head(chan).text, segment_size).out
                        = Head(chan).plain
    BY DEF DecryptsWhatWasSent
  <2> DEFINE m == Head(chan)
  <2>1. m = chan[1] /\ m \in Messages(mode, segment_size) /\ 1 \in 1 .. Len(chan)
    BY DEF IInv, TypeInv
  <2>2. m.plain \in Segment(mode, segment_size) /\ m.before \in Block
    BY <2>1 DEF Messages
  <2>3. Encrypted(mode, key, m.before, m.plain, segment_size) = [out |-> m.sent, IV |-> m.after]
    BY <2>1 DEF IInv, Chained
  <2>4. receiver = m.before
    <3>1. \A j \in 1 .. BLOCK_SIZE : receiver[j] = m.before[j]
      BY SizeAssumption DEF IInv, IVsAgree, Expected
    <3>2. receiver = [j \in 1 .. BLOCK_SIZE |-> receiver[j]]
      BY DEF IInv, TypeInv, Block
    <3>3. m.before = [j \in 1 .. BLOCK_SIZE |-> m.before[j]]
      BY <2>2 DEF Block
    <3> QED BY <3>1, <3>2, <3>3
  <2>5. Decrypted(mode, key, m.before,
                  Encrypted(mode, key, m.before, m.plain, segment_size).out, segment_size).out
          = m.plain
    BY <2>2, DecryptUndoes DEF IInv, TypeInv
  <2> QED BY <2>3, <2>4, <2>5 DEF Unchanged
<1> QED BY <1>1, IInvHolds, PTL

-----------------------------------------------------------------------------
(* CtrMode: the keystream is in order.                                     *)

Numbers == 0 .. (Limit - 1)

CtrTyped ==
  /\ val \in Numbers
  /\ pc \in [Threads -> {"idle", "loop", "check", "block_encrypt", "load", "store",
                         "call", "encrypt_result"}]
  /\ todo \in [Threads -> Nat] /\ count \in [Threads -> 0 .. BLOCK_SIZE]
  /\ IV \in [Threads -> 0 .. Limit] /\ tmp \in [Threads -> 0 .. Limit]
  /\ drawn \in [Threads -> Seq(Numbers)]
  /\ used \in [Threads -> Seq((0 .. Limit) \X Nat)]

\* Past UseUpBlock the keystream block is used up; a number read is one.
Between(t) ==
  /\ pc[t] \notin {"idle", "loop"} => count[t] = BLOCK_SIZE
  /\ pc[t] \in {"store", "encrypt_result"} => tmp[t] \in Numbers

\* n bytes use up L blocks, but for what the last of them has after c bytes.
UsesUp(n, L, c) == n + (BLOCK_SIZE - c) = BLOCK_SIZE * L

\* Every block drawn is used up but the last, of which count bytes are; in the
\* shortcut the next one is drawn before count says so.
Accounted(t) ==
  IF pc[t] \in {"load", "store"}
  THEN drawn[t] # <<>> /\ UsesUp(Len(used[t]), Len(drawn[t]) - 1, BLOCK_SIZE)
  ELSE UsesUp(Len(used[t]), Len(drawn[t]), count[t])

LastIsIV(t) == drawn[t] # <<>> => IV[t] = drawn[t][Len(drawn[t])]

InOrder(t) ==
  \A k \in 1 .. Len(used[t]) :
    LET b == (k - 1) \div BLOCK_SIZE + 1
    IN b \in 1 .. Len(drawn[t]) /\ used[t][k] = <<drawn[t][b], (k - 1) % BLOCK_SIZE>>

Cipher(t) == Between(t) /\ Accounted(t) /\ LastIsIV(t) /\ InOrder(t)

CtrInv == CtrTyped /\ \A t \in Threads : Cipher(t)

\* The j-th of the bytes that are left is in the last of the L blocks, after
\* the c bytes used of it.
LEMMA Position ==
  ASSUME NEW n \in Nat, NEW L \in Nat, NEW c \in 0 .. BLOCK_SIZE, UsesUp(n, L, c),
         NEW j \in 1 .. (BLOCK_SIZE - c)
  PROVE  /\ L # 0
         /\ (n + j - 1) \div BLOCK_SIZE = L - 1
         /\ (n + j - 1) % BLOCK_SIZE = c + j - 1
<1> DEFINE q == L - 1
           r == c + j - 1
           y == BLOCK_SIZE * L
<1>1. BLOCK_SIZE \in Nat \ {0} /\ n + (BLOCK_SIZE - c) = y
  BY SizeAssumption DEF UsesUp
<1>2. L # 0
  <2>1. L = 0 => y = 0
    BY <1>1
  <2> HIDE DEF y
  <2> QED BY <1>1, <2>1
<1>3. q \in Nat /\ r \in 0 .. (BLOCK_SIZE - 1)
  BY <1>1, <1>2
<1>4. n + j - 1 = BLOCK_SIZE * q + r
  <2> DEFINE x == BLOCK_SIZE * q
  <2>1. x \in Nat /\ y \in Nat /\ y = x + BLOCK_SIZE
    BY <1>1, <1>3
  <2> HIDE DEF x, y
  <2>2. n + j - 1 = x + r
    BY <1>1, <2>1
  <2> QED BY <2>2 DEF x
<1> HIDE DEF q, r
<1>5. (n + j - 1) \div BLOCK_SIZE = q /\ (n + j - 1) % BLOCK_SIZE = r
  BY <1>1, <1>3, <1>4, DivMod
<1> QED BY <1>2, <1>5 DEF q, r

\* The keystream bytes of one pass of the loop are the next ones.
LEMMA UseStep ==
  ASSUME CtrInv, NEW t \in Threads, pc[t] = "loop",
         NEW n \in 0 .. (BLOCK_SIZE - count[t]), Ctr!UseKeystream(t, n),
         UNCHANGED <<IV, drawn>>
  PROVE  /\ used' \in [Threads -> Seq((0 .. Limit) \X Nat)]
         /\ Len(used'[t]) = Len(used[t]) + n
         /\ \A u \in Threads \ {t} : used'[u] = used[u]
         /\ InOrder(t)'
<1> DEFINE more == [k \in 1 .. n |-> <<IV[t], count[t] + k - 1>>]
           L == Len(drawn[t])
<1>1. /\ used[t] \in Seq((0 .. Limit) \X Nat) /\ drawn[t] \in Seq(Numbers)
      /\ count[t] \in 0 .. BLOCK_SIZE /\ BLOCK_SIZE \in Nat \ {0} /\ n \in Nat /\ L \in Nat
  BY SizeAssumption DEF CtrInv, CtrTyped
<1>2. more \in Seq((0 .. Limit) \X Nat) /\ Len(more) = n
  <2>1. \A k \in 1 .. n : count[t] + k - 1 \in Nat
    BY <1>1
  <2>2. IV[t] \in 0 .. Limit
    BY DEF CtrInv, CtrTyped
  <2> QED BY <1>1, <2>1, <2>2
<1>3. used' = [used EXCEPT ![t] = used[t] \o more]
  BY DEF Ctr!UseKeystream
<1>4. used[t] \o more \in Seq((0 .. Limit) \X Nat) /\ Len(used[t] \o more) = Len(used[t]) + n
  BY <1>1, <1>2
<1>5. used'[t] = used[t] \o more
  BY <1>3 DEF CtrInv, CtrTyped
<1>6. UsesUp(Len(used[t]), L, count[t])
  BY DEF CtrInv, Cipher, Accounted
<1>7. ASSUME NEW k \in 1 .. (Len(used[t]) + n)
      PROVE  LET b == (k - 1) \div BLOCK_SIZE + 1
             IN /\ b \in 1 .. L
                /\ (used[t] \o more)[k] = <<drawn[t][b], (k - 1) % BLOCK_SIZE>>
  <2>1. CASE k <= Len(used[t])
    <3>1. k \in 1 .. Len(used[t]) /\ (used[t] \o more)[k] = used[t][k]
      BY <1>1, <1>2, <2>1
    <3> QED BY <3>1 DEF CtrInv, Cipher, InOrder
  <2>2. CASE ~(k <= Len(used[t]))
    <3> DEFINE j == k - Len(used[t])
    <3> DEFINE l == Len(used[t])
               rest == BLOCK_SIZE - count[t]
    <3>0. l \in Nat /\ rest \in Nat /\ n \in 0 .. rest
      BY <1>1
    <3>1. j \in 1 .. rest /\ j \in 1 .. n /\ l \in Nat
      <4> HIDE DEF l, rest
      <4> QED BY <2>2, <3>0 DEF l
    <3>2. (used[t] \o more)[k] = <<IV[t], count[t] + j - 1>>
      BY <1>1, <1>2, <2>2, <3>1
    <3> DEFINE d == (k - 1) \div BLOCK_SIZE
               m == (k - 1) % BLOCK_SIZE
    <3>3. k - 1 = Len(used[t]) + j - 1
      BY <1>1
    <3> HIDE DEF j, L
    <3>4. /\ L # 0 /\ (Len(used[t]) + j - 1) \div BLOCK_SIZE = L - 1
          /\ (Len(used[t]) + j - 1) % BLOCK_SIZE = count[t] + j - 1
      <4>1. count[t] \in 0 .. BLOCK_SIZE /\ L \in Nat
        BY <1>1
      <4> QED BY <1>6, <3>1, <4>1, Position
    <3>5. L # 0 /\ d = L - 1 /\ m = count[t] + j - 1
      BY <3>3, <3>4
    <3> HIDE DEF d, m
    <3>6. drawn[t] # <<>> /\ IV[t] = drawn[t][L]
      BY <1>1, <3>5 DEF CtrInv, Cipher, LastIsIV, L
    <3>7. d + 1 = L /\ d + 1 \in 1 .. L
      BY <1>1, <3>5
    <3>8. d + 1 \in 1 .. L /\ (used[t] \o more)[k] = <<drawn[t][d + 1], m>>
      BY <3>2, <3>5, <3>6, <3>7
    <3> QED BY <3>8 DEF d, m
  <2> QED BY <2>1, <2>2
<1>8. InOrder(t)'
  BY <1>4, <1>5, <1>7 DEF InOrder
<1>9. used' \in [Threads -> Seq((0 .. Limit) \X Nat)] /\ \A u \in Threads \ {t} : used'[u] = used[u]
  BY <1>3, <1>4 DEF CtrInv, CtrTyped
<1> QED BY <1>4, <1>5, <1>8, <1>9

\* A cipher object is left alone by the calls of the others.
Alike(u) ==
  /\ pc'[u] = pc[u] /\ count'[u] = count[u] /\ IV'[u] = IV[u]
  /\ tmp'[u] = tmp[u] /\ drawn'[u] = drawn[u] /\ used'[u] = used[u]

\* What a step leaves of the ciphers it is not about is in order as before.
LEMMA OnlyOneMoves ==
  ASSUME CtrInv, NEW t \in Threads, CtrTyped', Cipher(t)', \A u \in Threads \ {t} : Alike(u)
  PROVE  CtrInv'
<1>1. ASSUME NEW u \in Threads \ {t} PROVE Cipher(u)'
  <2>1. Cipher(u) /\ Alike(u)
    BY DEF CtrInv
  <2> QED BY <2>1 DEF Alike, Cipher, Between, Accounted, LastIsIV, InOrder
<1> QED BY <1>1 DEF CtrInv

\* The passes of the loop that use bytes of a block that is there.
LEMMA LoopStep ==
  ASSUME CtrInv, NEW t \in Threads, Ctr!FinishInBlock(t) \/ Ctr!UseUpBlock(t)
  PROVE  CtrInv'
<1> DEFINE rest == BLOCK_SIZE - count[t]
           n == IF todo[t] <= rest THEN todo[t] ELSE rest
<1>1. /\ pc[t] = "loop" /\ Ctr!UseKeystream(t, n) /\ count' = [count EXCEPT ![t] = count[t] + n]
      /\ todo' \in [Threads -> Nat]
      /\ \/ pc' = [pc EXCEPT ![t] = "idle"]
         \/ pc' = [pc EXCEPT ![t] = IF shortcut THEN "check" ELSE "call"] /\ n = rest
      /\ UNCHANGED <<shortcut, custom, allow_wraparound, val, carry, IV, tmp, drawn>>
  <2>0. /\ rest \in Nat /\ todo[t] \in Nat /\ count[t] \in Nat /\ BLOCK_SIZE \in Nat
        /\ count[t] + rest = BLOCK_SIZE
    BY SizeAssumption DEF CtrInv, CtrTyped
  <2>1. CASE Ctr!FinishInBlock(t)
    BY <2>0, <2>1 DEF Ctr!FinishInBlock, Ctr!Remaining, Ctr!Goto, Ctr!counter, CtrInv, CtrTyped
  <2>2. CASE Ctr!UseUpBlock(t)
    <3>1. /\ pc[t] = "loop" /\ todo[t] > rest /\ Ctr!UseKeystream(t, rest)
          /\ count' = [count EXCEPT ![t] = BLOCK_SIZE]
          /\ todo' = [todo EXCEPT ![t] = todo[t] - rest]
          /\ pc' = [pc EXCEPT ![t] = IF shortcut THEN "check" ELSE "call"]
          /\ UNCHANGED <<shortcut, custom, allow_wraparound, val, carry, IV, tmp, drawn>>
      BY <2>2 DEF Ctr!UseUpBlock, Ctr!Remaining, Ctr!Goto, Ctr!counter
    <3>2. n = rest /\ todo[t] - rest \in Nat
      BY <2>0, <3>1
    <3>3. todo' \in [Threads -> Nat]
      BY <3>1, <3>2 DEF CtrInv, CtrTyped
    <3> HIDE DEF n, rest
    <3> QED BY <2>0, <3>1, <3>2, <3>3
  <2> QED BY <2>1, <2>2
<1>2. /\ n \in 0 .. rest /\ rest \in Nat /\ count[t] \in 0 .. BLOCK_SIZE /\ BLOCK_SIZE \in Nat
      /\ count[t] + n \in 0 .. BLOCK_SIZE
  BY SizeAssumption DEF CtrInv, CtrTyped
<1> HIDE DEF n
<1>3. /\ used' \in [Threads -> Seq((0 .. Limit) \X Nat)]
      /\ Len(used'[t]) = Len(used[t]) + n
      /\ \A u \in Threads \ {t} : used'[u] = used[u]
      /\ InOrder(t)'
  BY <1>1, <1>2, UseStep
<1>4. CtrTyped'
  BY <1>1, <1>2, <1>3 DEF CtrInv, CtrTyped
<1>5. Between(t)'
  BY <1>1, <1>2 DEF CtrInv, CtrTyped, Between
<1>6. Accounted(t)'
  <2>1. UsesUp(Len(used[t]), Len(drawn[t]), count[t]) /\ Len(used[t]) \in Nat
    <3>1. pc[t] = "loop"
      BY <1>1
    <3>2. used[t] \in Seq((0 .. Limit) \X Nat)
      BY DEF CtrInv, CtrTyped
    <3> QED BY <3>1, <3>2 DEF CtrInv, Cipher, Accounted
  <2>2. pc'[t] \notin {"load", "store"} /\ count'[t] = count[t] + n /\ drawn' = drawn
    BY <1>1 DEF CtrInv, CtrTyped
  <2>3. UsesUp(Len(used[t]) + n, Len(drawn[t]), count[t] + n)
    <3> DEFINE l == Len(used[t])
               c == count[t]
               y == BLOCK_SIZE * Len(drawn[t])
    <3>1. l \in Nat /\ c \in Nat /\ n \in Nat /\ BLOCK_SIZE \in Nat /\ l + (BLOCK_SIZE - c) = y
      BY <1>2, <2>1 DEF UsesUp
    <3>2. (l + n) + (BLOCK_SIZE - (c + n)) = y
      <4> HIDE DEF l, c, y
      <4> QED BY <3>1
    <3> QED BY <3>2 DEF UsesUp
  <2> QED BY <1>3, <2>2, <2>3 DEF Accounted
<1>7. LastIsIV(t)'
  BY <1>1 DEF CtrInv, Cipher, LastIsIV
<1>8. \A u \in Threads \ {t} : Alike(u)
  BY <1>1, <1>3 DEF Alike, CtrInv, CtrTyped
<1> QED BY <1>3, <1>4, <1>5, <1>6, <1>7, <1>8, OnlyOneMoves DEF Cipher

\* A new keystream block: c is where pc says the loop is from then on.
LEMMA DrawStep ==
  ASSUME Limit \in Nat, CtrInv, NEW t \in Threads, Ctr!EncryptBlock(t) \/ Ctr!EncryptResult(t)
  PROVE  CtrInv'
<1> DEFINE v == IF pc[t] = "block_encrypt" THEN val ELSE tmp[t]
           L == Len(drawn[t])
<1>1. /\ IV' = [IV EXCEPT ![t] = v] /\ drawn' = [drawn EXCEPT ![t] = Append(drawn[t], v)]
      /\ \/ /\ pc[t] = "block_encrypt" /\ pc' = [pc EXCEPT ![t] = "load"]
            /\ count' = count /\ tmp' = tmp
         \/ /\ pc[t] = "encrypt_result" /\ pc' = [pc EXCEPT ![t] = "loop"]
            /\ count' = [count EXCEPT ![t] = 0] /\ tmp' = [tmp EXCEPT ![t] = Limit]
      /\ UNCHANGED <<shortcut, custom, allow_wraparound, val, carry, todo, used>>
  BY DEF Ctr!EncryptBlock, Ctr!EncryptResult, Ctr!Goto, Ctr!counter, Ctr!None
<1>2. v \in Numbers /\ count[t] = BLOCK_SIZE /\ pc[t] \notin {"load", "store"}
  BY <1>1 DEF CtrInv, CtrTyped, Cipher, Between
<1> HIDE DEF v
<1>3. /\ drawn[t] \in Seq(Numbers) /\ L \in Nat /\ Append(drawn[t], v) \in Seq(Numbers)
      /\ Len(Append(drawn[t], v)) = L + 1 /\ Append(drawn[t], v)[L + 1] = v
      /\ \A k \in 1 .. L : Append(drawn[t], v)[k] = drawn[t][k]
  BY <1>2 DEF CtrInv, CtrTyped
<1>4. drawn'[t] = Append(drawn[t], v) /\ IV'[t] = v
  BY <1>1 DEF CtrInv, CtrTyped
<1>5. CtrTyped'
  <2>1. drawn' \in [Threads -> Seq(Numbers)] /\ IV' \in [Threads -> 0 .. Limit]
    BY <1>1, <1>2, <1>3 DEF CtrInv, CtrTyped, Numbers
  <2>2. count' \in [Threads -> 0 .. BLOCK_SIZE] /\ tmp' \in [Threads -> 0 .. Limit]
    <3>1. 0 \in 0 .. BLOCK_SIZE /\ Limit \in 0 .. Limit
      BY SizeAssumption
    <3>2. count \in [Threads -> 0 .. BLOCK_SIZE] /\ tmp \in [Threads -> 0 .. Limit]
      BY DEF CtrInv, CtrTyped
    <3> QED BY <1>1, <3>1, <3>2
  <2> QED BY <1>1, <2>1, <2>2 DEF CtrInv, CtrTyped
<1>6. Between(t)'
  BY <1>1, <1>2 DEF CtrInv, CtrTyped, Between
<1>7. Accounted(t)'
  <2> HIDE DEF L
  <2>1. UsesUp(Len(used[t]), L, BLOCK_SIZE) /\ Len(used[t]) \in Nat
    BY <1>2 DEF CtrInv, CtrTyped, Cipher, Accounted, L
  <2>2. UsesUp(Len(used[t]), L + 1, 0)
    <3> DEFINE x == BLOCK_SIZE * L
               y == BLOCK_SIZE * (L + 1)
    <3>1. x \in Nat /\ y \in Nat /\ y = x + BLOCK_SIZE /\ BLOCK_SIZE \in Nat
      BY <1>3, SizeAssumption
    <3>2. Len(used[t]) + (BLOCK_SIZE - BLOCK_SIZE) = x
      BY <2>1 DEF UsesUp
    <3> HIDE DEF x, y
    <3>3. Len(used[t]) + (BLOCK_SIZE - 0) = y
      BY <2>1, <3>1, <3>2
    <3> QED BY <3>3 DEF UsesUp, y
  <2>3. Len(drawn'[t]) = L + 1 /\ (L + 1) - 1 = L /\ drawn'[t] # <<>>
    <3>1. Len(drawn'[t]) = L + 1 /\ L + 1 # 0 /\ (L + 1) - 1 = L
      BY <1>3, <1>4
    <3>2. Len(drawn'[t]) # 0 => drawn'[t] # <<>>
      OBVIOUS
    <3> QED BY <3>1, <3>2
  <2>4. CASE pc[t] = "block_encrypt"
    <3>1. pc'[t] = "load"
      BY <1>1, <2>4 DEF CtrInv, CtrTyped
    <3> QED BY <1>1, <2>1, <2>3, <3>1 DEF Accounted
  <2>5. CASE pc[t] = "encrypt_result"
    <3>1. pc'[t] = "loop" /\ count'[t] = 0
      BY <1>1, <2>5 DEF CtrInv, CtrTyped
    <3> QED BY <1>1, <2>2, <2>3, <3>1 DEF Accounted
  <2> QED BY <1>1, <2>4, <2>5
<1>8. LastIsIV(t)'
  BY <1>3, <1>4 DEF LastIsIV
<1>9. InOrder(t)'
  <2> SUFFICES ASSUME NEW k \in 1 .. Len(used[t])
               PROVE  LET b == (k - 1) \div BLOCK_SIZE + 1
                      IN b \in 1 .. (L + 1)
                         /\ used[t][k] = <<drawn'[t][b], (k - 1) % BLOCK_SIZE>>
    BY <1>1, <1>3, <1>4 DEF InOrder
  <2> DEFINE b == (k - 1) \div BLOCK_SIZE + 1
             m == (k - 1) % BLOCK_SIZE
  <2>1. b \in 1 .. L /\ used[t][k] = <<drawn[t][b], m>>
    BY DEF CtrInv, Cipher, InOrder
  <2> HIDE DEF b, m
  <2>2. b \in 1 .. (L + 1) /\ used[t][k] = <<drawn'[t][b], m>>
    BY <1>3, <1>4, <2>1
  <2> QED BY <2>2 DEF b, m
<1>10. \A u \in Threads \ {t} : Alike(u)
  BY <1>1 DEF Alike, CtrInv, CtrTyped
<1> QED BY <1>5, <1>6, <1>7, <1>8, <1>9, <1>10, OnlyOneMoves DEF Cipher

\* The next number of the counter is one of its numbers.
LEMMA NextNumber ==
  ASSUME Limit \in Nat, NEW v \in Numbers
  PROVE  (v + 1) % Limit = (IF v + 1 = Limit THEN 0 ELSE v + 1) /\ (v + 1) % Limit \in Numbers
<1>1. Limit \in Nat \ {0}
  BY DEF Numbers
<1>2. CASE v + 1 = Limit
  <2>1. Limit = Limit * 1 + 0
    BY <1>1
  <2>2. Limit % Limit = 0
    BY <1>1, <2>1, DivMod
  <2> QED BY <1>1, <1>2, <2>2 DEF Numbers
<1>3. CASE v + 1 # Limit
  <2>1. v + 1 \in 0 .. (Limit - 1) /\ v + 1 = Limit * 0 + (v + 1)
    BY <1>1, <1>3 DEF Numbers
  <2>2. (v + 1) % Limit = v + 1
    BY <1>1, <2>1, DivMod
  <2> QED BY <1>3, <2>1, <2>2 DEF Numbers
<1> QED BY <1>2, <1>3

\* The steps that use no byte and draw no block.
LEMMA OtherSteps ==
  ASSUME Limit \in Nat, CtrInv, NEW t \in Threads,
         \/ \E len \in 1 .. MaxLen : Ctr!ALG_Encrypt(t, len)
         \/ Ctr!OverflowError(t) \/ Ctr!WrongSize(t) \/ Ctr!Check(t)
         \/ Ctr!IncLoad(t) \/ Ctr!IncStore(t) \/ Ctr!CallObject(t) \/ Ctr!CallFails(t)
  PROVE  CtrInv'
<1> USE DEF Ctr!Goto, Ctr!counter, Ctr!Fail, Ctr!None
<1>1. CASE \E len \in 1 .. MaxLen : Ctr!ALG_Encrypt(t, len)
  <2>1. CtrTyped'
    <3>1. PICK len \in 1 .. MaxLen : Ctr!ALG_Encrypt(t, len)
      BY <1>1
    <3>2. /\ pc' = [pc EXCEPT ![t] = "loop"] /\ todo' = [todo EXCEPT ![t] = len]
          /\ UNCHANGED <<val, count, IV, tmp, drawn, used>>
      BY <3>1 DEF Ctr!ALG_Encrypt
    <3>3. len \in Nat
      OBVIOUS
    <3>4. todo' \in [Threads -> Nat]
      BY <3>2, <3>3 DEF CtrInv, CtrTyped
    <3>5. pc' \in [Threads -> {"idle", "loop", "check", "block_encrypt", "load", "store",
                               "call", "encrypt_result"}]
      BY <3>2 DEF CtrInv, CtrTyped
    <3> QED BY <3>2, <3>4, <3>5 DEF CtrInv, CtrTyped
  <2>2. /\ pc[t] = "idle" /\ pc' = [pc EXCEPT ![t] = "loop"]
        /\ UNCHANGED <<count, IV, tmp, drawn, used>>
    BY <1>1 DEF Ctr!ALG_Encrypt
  <2>3. Cipher(t)' /\ \A u \in Threads \ {t} : Alike(u)
    BY <2>2 DEF CtrInv, CtrTyped, Cipher, Between, Accounted, LastIsIV, InOrder, Alike
  <2> QED BY <2>1, <2>3, OnlyOneMoves
<1>2. CASE Ctr!OverflowError(t) \/ Ctr!WrongSize(t)
  <2>1. /\ pc[t] \in {"check", "call"} /\ pc' = [pc EXCEPT ![t] = "idle"]
        /\ todo' = [todo EXCEPT ![t] = 0]
        /\ UNCHANGED <<val, count, IV, tmp, drawn, used>>
    BY <1>2 DEF Ctr!OverflowError, Ctr!WrongSize
  <2>2. CtrTyped' /\ Cipher(t)' /\ \A u \in Threads \ {t} : Alike(u)
    BY <2>1 DEF CtrInv, CtrTyped, Cipher, Between, Accounted, LastIsIV, InOrder, Alike
  <2> QED BY <2>2, OnlyOneMoves
<1>3. CASE Ctr!Check(t)
  <2>1. CtrTyped' /\ Cipher(t)' /\ \A u \in Threads \ {t} : Alike(u)
    BY <1>3 DEF Ctr!Check, CtrInv, CtrTyped, Cipher, Between, Accounted, LastIsIV,
       InOrder, Alike
  <2> QED BY <2>1, OnlyOneMoves
<1>4. CASE Ctr!IncLoad(t)
  <2>1. CtrTyped'
    <3>1. val \in 0 .. Limit
      BY DEF CtrInv, CtrTyped, Numbers
    <3>2. pc' \in [Threads -> {"idle", "loop", "check", "block_encrypt", "load", "store",
                             "call", "encrypt_result"}]
      BY <1>4 DEF Ctr!IncLoad, CtrInv, CtrTyped
    <3>3. tmp' \in [Threads -> 0 .. Limit]
      BY <1>4, <3>1 DEF Ctr!IncLoad, CtrInv, CtrTyped
    <3> QED BY <1>4, <3>2, <3>3 DEF Ctr!IncLoad, CtrInv, CtrTyped
  <2>2. Cipher(t)' /\ \A u \in Threads \ {t} : Alike(u)
    BY <1>4 DEF Ctr!IncLoad, CtrInv, CtrTyped, Cipher, Between, Accounted, LastIsIV, InOrder,
       Alike
  <2> QED BY <2>1, <2>2, OnlyOneMoves
<1>5. CASE Ctr!IncStore(t)
  <2>1. tmp[t] \in Numbers /\ (tmp[t] + 1) % Limit \in Numbers
    BY <1>5, NextNumber DEF Ctr!IncStore, CtrInv, Cipher, Between
  <2>2. CtrTyped'
    <3>1. count' \in [Threads -> 0 .. BLOCK_SIZE] /\ tmp' \in [Threads -> 0 .. Limit]
      BY <1>5, SizeAssumption DEF Ctr!IncStore, CtrInv, CtrTyped
    <3> QED BY <1>5, <2>1, <3>1 DEF Ctr!IncStore, CtrInv, CtrTyped
  <2>3. Between(t)' /\ LastIsIV(t)' /\ InOrder(t)' /\ \A u \in Threads \ {t} : Alike(u)
    BY <1>5 DEF Ctr!IncStore, CtrInv, CtrTyped, Cipher, Between, LastIsIV, InOrder, Alike
  <2>4. Accounted(t)'
    <3> DEFINE L == Len(drawn[t])
    <3>1. drawn[t] # <<>> /\ UsesUp(Len(used[t]), L - 1, BLOCK_SIZE)
      BY <1>5 DEF Ctr!IncStore, CtrInv, Cipher, Accounted
    <3>2. L \in Nat \ {0} /\ Len(used[t]) \in Nat
      BY <3>1 DEF CtrInv, CtrTyped
    <3>3. pc'[t] = "loop" /\ count'[t] = 0 /\ drawn' = drawn /\ used' = used
      BY <1>5 DEF Ctr!IncStore, CtrInv, CtrTyped
    <3> HIDE DEF L
    <3>4. UsesUp(Len(used[t]), L, 0)
      <4> DEFINE x == BLOCK_SIZE * (L - 1)
                 y == BLOCK_SIZE * L
      <4>1. x \in Nat /\ y \in Nat /\ y = x + BLOCK_SIZE /\ BLOCK_SIZE \in Nat
        BY <3>2, SizeAssumption
      <4>2. Len(used[t]) + (BLOCK_SIZE - BLOCK_SIZE) = x
        BY <3>1 DEF UsesUp
      <4> HIDE DEF x, y
      <4>3. Len(used[t]) + (BLOCK_SIZE - 0) = y
        BY <3>2, <4>1, <4>2
      <4> QED BY <4>3 DEF UsesUp, y
    <3> QED BY <3>3, <3>4 DEF Accounted, L
  <2> QED BY <2>2, <2>3, <2>4, OnlyOneMoves DEF Cipher
<1>6. CASE Ctr!CallObject(t)
  <2>1. (val + 1) % Limit \in Numbers
    BY NextNumber DEF CtrInv, CtrTyped
  <2>2. CtrTyped'
    <3>1. /\ pc' = [pc EXCEPT ![t] = "encrypt_result"] /\ tmp' = [tmp EXCEPT ![t] = val]
          /\ val' = (val + 1) % Limit /\ UNCHANGED <<todo, count, IV, drawn, used>>
      BY <1>6 DEF Ctr!CallObject
    <3>2. val \in 0 .. Limit
      BY DEF CtrInv, CtrTyped, Numbers
    <3>3. tmp' \in [Threads -> 0 .. Limit]
      BY <3>1, <3>2 DEF CtrInv, CtrTyped
    <3>4. pc' \in [Threads -> {"idle", "loop", "check", "block_encrypt", "load", "store",
                               "call", "encrypt_result"}]
      BY <3>1 DEF CtrInv, CtrTyped
    <3> QED BY <2>1, <3>1, <3>3, <3>4 DEF CtrInv, CtrTyped
  <2>3. Cipher(t)' /\ \A u \in Threads \ {t} : Alike(u)
    BY <1>6 DEF Ctr!CallObject, CtrInv, CtrTyped, Cipher, Between, Accounted, LastIsIV, InOrder,
       Alike
  <2> QED BY <2>2, <2>3, OnlyOneMoves
<1>7. CASE Ctr!CallFails(t)
  <2>1. (val + 1) % Limit \in Numbers
    BY NextNumber DEF CtrInv, CtrTyped
  <2>2. CtrTyped' /\ Cipher(t)' /\ \A u \in Threads \ {t} : Alike(u)
    BY <1>7, <2>1 DEF Ctr!CallFails, CtrInv, CtrTyped, Cipher, Between, Accounted, LastIsIV,
       InOrder, Alike
  <2> QED BY <2>2, OnlyOneMoves
<1> QED BY <1>1, <1>2, <1>3, <1>4, <1>5, <1>6, <1>7

\* A cipher object has used what it drew, byte after byte, at every step.
LEMMA CtrInvHolds == ASSUME Limit \in Nat PROVE Ctr!Spec => []CtrInv
<1>1. Ctr!Init => CtrInv
  <2> SUFFICES ASSUME Ctr!Init PROVE CtrInv
    OBVIOUS
  <2>1. CtrTyped
    <3>1. BLOCK_SIZE \in 0 .. BLOCK_SIZE /\ Limit \in 0 .. Limit
      BY SizeAssumption
    <3>2. <<>> \in Seq(Numbers) /\ <<>> \in Seq((0 .. Limit) \X Nat)
      OBVIOUS
    <3> QED BY <3>1, <3>2 DEF Ctr!Init, Ctr!None, CtrTyped, Numbers
  <2>2. ASSUME NEW t \in Threads PROVE Cipher(t)
    <3>1. pc[t] = "idle" /\ drawn[t] = <<>> /\ used[t] = <<>> /\ count[t] = BLOCK_SIZE
      BY DEF Ctr!Init
    <3>2. UsesUp(0, 0, BLOCK_SIZE)
      BY SizeAssumption DEF UsesUp
    <3> QED BY <3>1, <3>2 DEF Cipher, Between, Accounted, LastIsIV, InOrder
  <2> QED BY <2>1, <2>2 DEF CtrInv
<1>2. CtrInv /\ [Ctr!Next]_(Ctr!vars) => CtrInv'
  <2>1. CtrInv /\ UNCHANGED Ctr!vars => CtrInv'
    <3> SUFFICES ASSUME CtrInv, UNCHANGED Ctr!vars PROVE CtrInv'
      OBVIOUS
    <3>1. UNCHANGED <<val, pc, todo, count, IV, tmp, drawn, used>>
      BY DEF Ctr!vars, Ctr!counter
    <3>2. CtrTyped'
      BY <3>1 DEF CtrInv, CtrTyped
    <3>3. ASSUME NEW t \in Threads PROVE Cipher(t)'
      <4>1. Cipher(t)
        BY DEF CtrInv
      <4> QED BY <3>1, <4>1 DEF Cipher, Between, Accounted, LastIsIV, InOrder
    <3> QED BY <3>2, <3>3 DEF CtrInv
  <2> QED BY <2>1, LoopStep, DrawStep, OtherSteps DEF Ctr!Next
<1> QED BY <1>1, <1>2, PTL DEF Ctr!Spec

\* For any number of cipher objects, block size and counter, the keystream bytes
\* used are those of the blocks drawn, in order and each once, however the data
\* is cut into calls and whichever calls of the counter fail
\* (block_template.c:368-387).
THEOREM KeystreamInOrderHolds ==
  ASSUME Limit \in Nat PROVE Ctr!Spec => []Ctr!KeystreamInOrder
<1>1. CtrInv => Ctr!KeystreamInOrder
  <2> SUFFICES ASSUME CtrInv, NEW t \in Threads, NEW k \in DOMAIN used[t]
               PROVE  LET b == (k - 1) \div BLOCK_SIZE + 1
                      IN /\ b <= Len(drawn[t])
                         /\ used[t][k] = <<drawn[t][b], (k - 1) % BLOCK_SIZE>>
    BY DEF Ctr!KeystreamInOrder
  <2>1. k \in 1 .. Len(used[t])
    <3>1. used[t] \in Seq((0 .. Limit) \X Nat)
      BY DEF CtrInv, CtrTyped
    <3> QED BY <3>1
  <2> DEFINE b == (k - 1) \div BLOCK_SIZE + 1
             m == (k - 1) % BLOCK_SIZE
  <2>2. b \in 1 .. Len(drawn[t]) /\ used[t][k] = <<drawn[t][b], m>>
    BY <2>1 DEF CtrInv, Cipher, InOrder
  <2> HIDE DEF b, m
  <2>3. b <= Len(drawn[t]) /\ used[t][k] = <<drawn[t][b], m>>
    BY <2>2
  <2> QED BY <2>3 DEF b, m
<1> QED BY <1>1, CtrInvHolds, PTL

-----------------------------------------------------------------------------
(* CtrMode: no number of the counter serves twice.                        *)

\* The numbers a cipher was given, the one it is about to encrypt included.
Given(t) ==
  Ctr!Range(drawn[t]) \cup (IF pc[t] = "encrypt_result" THEN {tmp[t]} ELSE {})

\* Nobody else has drawn a block.
Sole(t) == \A u \in Threads : drawn[u] # <<>> => u = t

\* What was given lies behind the counter, but for the number the shortcut has
\* encrypted and not yet counted; after the last number nothing is given.
Behind(t) ==
  /\ \A v \in Given(t) : v < val \/ carry \/ (pc[t] \in {"load", "store"} /\ v = val)
  /\ pc[t] \in {"check", "block_encrypt", "load", "store"} => shortcut
  /\ pc[t] \in {"call", "encrypt_result"} => ~shortcut
  /\ pc[t] \in {"block_encrypt", "load", "store"} /\ Sole(t) => ~carry
  /\ pc[t] = "store" /\ Sole(t) => tmp[t] = val

Once(t) ==
  /\ Ctr!IsInjective(drawn[t])
  /\ pc[t] = "encrypt_result" => tmp[t] \notin Ctr!Range(drawn[t])

Apart == \A t, u \in Threads : t # u => Given(t) \cap Given(u) = {}

\* The counter is drawn from in turn.
InTurn == ~allow_wraparound /\ ~custom /\ Ctr!TakeTurns

UniqueInv == InTurn => (\A t \in Threads : Behind(t) /\ Once(t)) /\ Apart

\* What a sequence holds, and whether it repeats, after one more.
LEMMA RangeOfAppend ==
  ASSUME NEW d \in Seq(Numbers), NEW v
  PROVE  /\ Ctr!Range(Append(d, v)) = Ctr!Range(d) \cup {v}
         /\ Ctr!IsInjective(d) /\ v \notin Ctr!Range(d) => Ctr!IsInjective(Append(d, v))
<1> DEFINE e == Append(d, v)
<1>1. /\ DOMAIN d = 1 .. Len(d) /\ DOMAIN e = 1 .. (Len(d) + 1) /\ Len(d) \in Nat
      /\ e[Len(d) + 1] = v /\ \A k \in 1 .. Len(d) : e[k] = d[k]
  OBVIOUS
<1> HIDE DEF e
<1>2. Ctr!Range(e) = Ctr!Range(d) \cup {v}
  BY <1>1 DEF Ctr!Range
<1>3. Ctr!IsInjective(d) /\ v \notin Ctr!Range(d) => Ctr!IsInjective(e)
  BY <1>1 DEF Ctr!Range, Ctr!IsInjective
<1> QED BY <1>2, <1>3 DEF e

\* A step that draws nothing and leaves the counter alone.
LEMMA QuietStep ==
  ASSUME Limit \in Nat, CtrInv, UniqueInv, NEW t \in Threads,
         \/ \E len \in 1 .. MaxLen : Ctr!ALG_Encrypt(t, len)
         \/ Ctr!FinishInBlock(t) \/ Ctr!UseUpBlock(t)
         \/ Ctr!OverflowError(t) \/ Ctr!WrongSize(t) \/ Ctr!Check(t) \/ Ctr!IncLoad(t)
  PROVE  UniqueInv'
<1> SUFFICES ASSUME InTurn PROVE ((\A u \in Threads : Behind(u) /\ Once(u)) /\ Apart)'
  BY DEF UniqueInv, InTurn, Ctr!TakeTurns, Ctr!ALG_Encrypt, Ctr!FinishInBlock, Ctr!UseUpBlock,
     Ctr!OverflowError, Ctr!WrongSize, Ctr!Check, Ctr!IncLoad, Ctr!counter
<1>1. UNCHANGED <<shortcut, val, carry, drawn>>
  BY DEF Ctr!ALG_Encrypt, Ctr!FinishInBlock, Ctr!UseUpBlock, Ctr!OverflowError,
     Ctr!WrongSize, Ctr!Check, Ctr!IncLoad, Ctr!counter
<1>2. \/ /\ tmp' = tmp /\ pc[t] \in {"idle", "loop", "check", "call"}
         /\ \/ pc' = [pc EXCEPT ![t] = "idle"] \/ pc' = [pc EXCEPT ![t] = "loop"]
            \/ pc[t] = "loop" /\ pc' = [pc EXCEPT ![t] = IF shortcut THEN "check" ELSE "call"]
            \/ pc[t] = "check" /\ ~carry /\ pc' = [pc EXCEPT ![t] = "block_encrypt"]
      \/ /\ pc[t] = "load" /\ pc' = [pc EXCEPT ![t] = "store"]
         /\ tmp' = [tmp EXCEPT ![t] = val]
  BY DEF InTurn, Ctr!ALG_Encrypt, Ctr!FinishInBlock, Ctr!UseUpBlock, Ctr!OverflowError,
     Ctr!WrongSize, Ctr!Check, Ctr!IncLoad, Ctr!Goto, Ctr!Fail, Ctr!Overflow
<1>3. pc[t] \notin {"store", "encrypt_result"}
  BY DEF Ctr!ALG_Encrypt, Ctr!FinishInBlock, Ctr!UseUpBlock, Ctr!OverflowError,
     Ctr!WrongSize, Ctr!Check, Ctr!IncLoad
<1>4. \A u \in Threads : Behind(u) /\ Once(u)
  BY DEF UniqueInv
<1>5. \A u \in Threads : Given(u)' = Given(u)
  BY <1>1, <1>2, <1>3 DEF Given, CtrInv, CtrTyped
<1>6. ASSUME NEW u \in Threads PROVE Behind(u)' /\ Once(u)'
  <2>1. Behind(u) /\ Once(u) /\ Given(u)' = Given(u) /\ Sole(u)' = Sole(u)
    BY <1>1, <1>4, <1>5 DEF Sole
  <2>2. CASE u # t
    <3>1. pc'[u] = pc[u] /\ tmp'[u] = tmp[u]
      BY <1>2, <2>2 DEF CtrInv, CtrTyped
    <3> QED BY <1>1, <2>1, <3>1 DEF Behind, Once
  <2>3. CASE u = t
    <3>1. \/ /\ pc[t] \notin {"load", "store"}
             /\ \/ pc'[t] \in {"idle", "loop"}
                \/ pc'[t] = "check" /\ shortcut
                \/ pc'[t] = "call" /\ ~shortcut
                \/ pc'[t] = "block_encrypt" /\ pc[t] = "check" /\ ~carry
          \/ pc'[t] = "store" /\ pc[t] = "load" /\ tmp'[t] = val
      BY <1>2 DEF CtrInv, CtrTyped
    <3>3. Once(t)'
      BY <1>1, <2>1, <2>3, <3>1 DEF Once
    <3>4. Behind(t)'
      BY <1>1, <1>3, <2>1, <2>3, <3>1 DEF Behind
    <3> QED BY <2>3, <3>3, <3>4
  <2> QED BY <2>2, <2>3
<1>7. Apart'
  BY <1>5 DEF UniqueInv, Apart
<1> QED BY <1>6, <1>7

\* What val and carry become when the number val has been given.
LEMMA Moved ==
  ASSUME Limit \in Nat, val \in Numbers,
         val' = (val + 1) % Limit, carry' = (val + 1 = Limit)
  PROVE  \A v \in Nat : v < val \/ v = val => v < val' \/ carry'
<1>1. val' = IF val + 1 = Limit THEN 0 ELSE val + 1
  BY NextNumber
<1>2. val \in Nat
  BY DEF Numbers
<1>3. CASE val + 1 = Limit
  BY <1>3
<1>4. CASE val + 1 # Limit
  BY <1>1, <1>2, <1>4
<1> QED BY <1>3, <1>4

\* Every number given is one of the counter's.
LEMMA GivenNumbers ==
  ASSUME CtrInv, NEW t \in Threads
  PROVE  Given(t) \subseteq Nat
<1>1. Ctr!Range(drawn[t]) \subseteq Numbers
  <2>1. drawn[t] \in Seq(Numbers)
    BY DEF CtrInv, CtrTyped
  <2> QED BY <2>1 DEF Ctr!Range
<1>2. pc[t] = "encrypt_result" => tmp[t] \in Numbers
  BY DEF CtrInv, Cipher, Between
<1> QED BY <1>1, <1>2 DEF Given, Numbers

\* A call of the counter object gives its number and counts on, in one step.
LEMMA CallStep ==
  ASSUME Limit \in Nat, CtrInv, UniqueInv, NEW t \in Threads, Ctr!CallObject(t)
  PROVE  UniqueInv'
<1> SUFFICES ASSUME InTurn PROVE ((\A u \in Threads : Behind(u) /\ Once(u)) /\ Apart)'
  BY DEF UniqueInv, InTurn, Ctr!TakeTurns, Ctr!CallObject, Ctr!counter
<1>1. /\ pc[t] = "call" /\ ~carry /\ shortcut' = shortcut /\ drawn' = drawn
      /\ pc' = [pc EXCEPT ![t] = "encrypt_result"] /\ tmp' = [tmp EXCEPT ![t] = val]
      /\ val' = (val + 1) % Limit /\ carry' = (val + 1 = Limit)
  BY DEF InTurn, Ctr!CallObject, Ctr!Overflow, Ctr!Goto, Ctr!counter
<1>2. (\A u \in Threads : Behind(u) /\ Once(u)) /\ Apart
  BY DEF UniqueInv
<1>3. ~shortcut
  BY <1>1, <1>2 DEF Behind
<1>4. /\ pc'[t] = "encrypt_result" /\ tmp'[t] = val
      /\ \A u \in Threads : u # t => pc'[u] = pc[u] /\ tmp'[u] = tmp[u]
  BY <1>1 DEF CtrInv, CtrTyped
<1>5. /\ Given(t)' = Given(t) \cup {val} /\ Given(t) = Ctr!Range(drawn[t])
      /\ \A u \in Threads : u # t => Given(u)' = Given(u)
  BY <1>1, <1>4 DEF Given
<1>6. \A u \in Threads : \A v \in Given(u) : v \in Nat /\ v < val
  <2> SUFFICES ASSUME NEW u \in Threads, NEW v \in Given(u) PROVE v \in Nat /\ v < val
    OBVIOUS
  <2>1. v < val \/ carry \/ (pc[u] \in {"load", "store"} /\ v = val)
    BY <1>2 DEF Behind
  <2>2. pc[u] \notin {"load", "store"}
    BY <1>2, <1>3 DEF Behind
  <2> QED BY <1>1, <2>1, <2>2, GivenNumbers
<1>7. val \in Nat /\ \A v \in Nat : v < val \/ v = val => v < val' \/ carry'
  BY <1>1, Moved DEF CtrInv, CtrTyped, Numbers
<1>8. \A u \in Threads : val \notin Given(u)
  BY <1>6, <1>7
<1>9. ASSUME NEW u \in Threads PROVE Behind(u)' /\ Once(u)'
  <2>1. \A v \in Given(u)' : v < val' \/ carry'
    BY <1>5, <1>6, <1>7
  <2>2. /\ pc'[u] \notin {"check", "block_encrypt", "load", "store"}
        /\ ~shortcut'
    BY <1>1, <1>2, <1>3, <1>4 DEF Behind
  <2>3. Behind(u)'
    BY <2>1, <2>2 DEF Behind
  <2>4. Once(u)'
    BY <1>1, <1>2, <1>4, <1>5, <1>8 DEF Once
  <2> QED BY <2>3, <2>4
<1>10. Apart'
  BY <1>2, <1>5, <1>8 DEF Apart
<1> QED BY <1>9, <1>10

\* A call that fails may take its number with it: it gives none.
LEMMA CallFailsStep ==
  ASSUME Limit \in Nat, CtrInv, UniqueInv, NEW t \in Threads, Ctr!CallFails(t)
  PROVE  UniqueInv'
<1> SUFFICES ASSUME InTurn PROVE ((\A u \in Threads : Behind(u) /\ Once(u)) /\ Apart)'
  BY DEF UniqueInv, InTurn, Ctr!TakeTurns, Ctr!CallFails, Ctr!counter
<1>1. /\ pc[t] = "call" /\ ~carry /\ UNCHANGED <<shortcut, drawn, tmp>>
      /\ pc' = [pc EXCEPT ![t] = "idle"]
      /\ val' = (val + 1) % Limit /\ carry' = (val + 1 = Limit)
  BY DEF InTurn, Ctr!CallFails, Ctr!Fail, Ctr!Overflow, Ctr!Goto, Ctr!counter
<1>2. (\A u \in Threads : Behind(u) /\ Once(u)) /\ Apart
  BY DEF UniqueInv
<1>3. ~shortcut
  BY <1>1, <1>2 DEF Behind
<1>4. pc'[t] = "idle" /\ \A u \in Threads : u # t => pc'[u] = pc[u]
  BY <1>1 DEF CtrInv, CtrTyped
<1>5. \A u \in Threads : Given(u)' = Given(u)
  BY <1>1, <1>4 DEF Given
<1>6. \A v \in Nat : v < val \/ v = val => v < val' \/ carry'
  BY <1>1, Moved DEF CtrInv, CtrTyped
<1>7. ASSUME NEW u \in Threads PROVE Behind(u)' /\ Once(u)'
  <2>1. pc[u] \notin {"check", "block_encrypt", "load", "store"}
    BY <1>2, <1>3 DEF Behind
  <2>2. \A v \in Given(u)' : v < val' \/ carry'
    <3>1. \A v \in Given(u) : v \in Nat /\ v < val
      BY <1>1, <1>2, <2>1, GivenNumbers DEF Behind
    <3> QED BY <1>5, <1>6, <3>1
  <2>3. Behind(u)'
    BY <1>1, <1>3, <1>4, <2>1, <2>2 DEF Behind
  <2>4. Once(u)'
    BY <1>1, <1>2, <1>4 DEF Once
  <2> QED BY <2>3, <2>4
<1>8. Apart'
  BY <1>2, <1>5 DEF Apart
<1> QED BY <1>7, <1>8

\* The number a call gave is encrypted and becomes the last one drawn.
LEMMA ResultStep ==
  ASSUME CtrInv, UniqueInv, NEW t \in Threads, Ctr!EncryptResult(t)
  PROVE  UniqueInv'
<1>0. \A u \in Threads : drawn[u] # <<>> => drawn'[u] # <<>>
  <2>1. drawn' = [drawn EXCEPT ![t] = Append(drawn[t], tmp[t])] /\ drawn[t] \in Seq(Numbers)
    BY DEF Ctr!EncryptResult, CtrInv, CtrTyped
  <2>2. Append(drawn[t], tmp[t]) # <<>>
    BY <2>1
  <2> QED BY <2>1, <2>2 DEF CtrInv, CtrTyped
<1> SUFFICES ASSUME InTurn PROVE ((\A u \in Threads : Behind(u) /\ Once(u)) /\ Apart)'
  BY <1>0 DEF UniqueInv, InTurn, Ctr!TakeTurns, Ctr!EncryptResult, Ctr!counter
<1>1. /\ pc[t] = "encrypt_result" /\ drawn' = [drawn EXCEPT ![t] = Append(drawn[t], tmp[t])]
      /\ pc' = [pc EXCEPT ![t] = "loop"] /\ tmp' = [tmp EXCEPT ![t] = Limit]
      /\ UNCHANGED <<shortcut, val, carry>>
  BY DEF Ctr!EncryptResult, Ctr!Goto, Ctr!None, Ctr!counter
<1>2. (\A u \in Threads : Behind(u) /\ Once(u)) /\ Apart
  BY DEF UniqueInv
<1>3. /\ pc'[t] = "loop" /\ drawn'[t] = Append(drawn[t], tmp[t])
      /\ \A u \in Threads : u # t => pc'[u] = pc[u] /\ tmp'[u] = tmp[u] /\ drawn'[u] = drawn[u]
  BY <1>1 DEF CtrInv, CtrTyped
<1>4. /\ Ctr!Range(drawn'[t]) = Ctr!Range(drawn[t]) \cup {tmp[t]}
      /\ Ctr!IsInjective(drawn'[t])
  <2>1. drawn[t] \in Seq(Numbers)
    BY DEF CtrInv, CtrTyped
  <2>2. Ctr!IsInjective(drawn[t]) /\ tmp[t] \notin Ctr!Range(drawn[t])
    BY <1>1, <1>2 DEF Once
  <2> QED BY <1>3, <2>1, <2>2, RangeOfAppend
<1>5. \A u \in Threads : Given(u)' = Given(u)
  BY <1>1, <1>3, <1>4 DEF Given
<1>6. ASSUME NEW u \in Threads PROVE Behind(u)' /\ Once(u)'
  <2>1. CASE u = t
    BY <1>1, <1>2, <1>3, <1>4, <1>5, <2>1 DEF Behind, Once
  <2>2. CASE u # t
    BY <1>1, <1>2, <1>3, <1>5, <2>2 DEF Behind, Once
  <2> QED BY <2>1, <2>2
<1>7. Apart'
  BY <1>2, <1>5 DEF Apart
<1> QED BY <1>6, <1>7

\* In the shortcut only one cipher draws, and the number it encrypts is counted
\* before it encrypts another.
LEMMA ShortcutStep ==
  ASSUME Limit \in Nat, CtrInv, UniqueInv, NEW t \in Threads,
         Ctr!EncryptBlock(t) \/ Ctr!IncStore(t)
  PROVE  UniqueInv'
<1>1. /\ shortcut' = shortcut /\ \A u \in Threads : u # t => drawn'[u] = drawn[u]
      /\ drawn'[t] # <<>> /\ pc[t] \in {"block_encrypt", "store"}
      /\ \A u \in Threads : u # t => pc'[u] = pc[u]
  <2>1. drawn[t] \in Seq(Numbers)
    BY DEF CtrInv, CtrTyped
  <2>2. Append(drawn[t], val) # <<>>
    <3>1. Len(Append(drawn[t], val)) = Len(drawn[t]) + 1 /\ Len(drawn[t]) \in Nat
      BY <2>1
    <3> QED BY <3>1
  <2>3. CASE Ctr!EncryptBlock(t)
    BY <2>1, <2>2, <2>3 DEF Ctr!EncryptBlock, Ctr!Goto, Ctr!counter, CtrInv, CtrTyped
  <2>4. CASE Ctr!IncStore(t)
    <3>1. drawn[t] # <<>>
      BY <2>4 DEF Ctr!IncStore, CtrInv, Cipher, Accounted
    <3> QED BY <2>4, <3>1 DEF Ctr!IncStore, Ctr!Goto, Ctr!counter, CtrInv, CtrTyped
  <2> QED BY <2>3, <2>4
<1> SUFFICES ASSUME InTurn, InTurn' PROVE ((\A u \in Threads : Behind(u) /\ Once(u)) /\ Apart)'
  BY <1>1 DEF UniqueInv, InTurn, Ctr!TakeTurns, Ctr!EncryptBlock, Ctr!IncStore, Ctr!counter
<1>2. Behind(t) /\ Once(t) /\ shortcut
  BY <1>1 DEF UniqueInv, Behind
<1>3. \A u \in Threads : u # t => drawn'[u] = <<>> /\ drawn[u] = <<>>
  BY <1>1, <1>2 DEF InTurn, Ctr!TakeTurns
<1>4. Sole(t) /\ ~carry
  BY <1>1, <1>2, <1>3 DEF Sole, Behind
<1>5. Given(t) = Ctr!Range(drawn[t]) /\ Given(t) \subseteq Nat
  BY GivenNumbers DEF Given, Ctr!EncryptBlock, Ctr!IncStore
<1>6. Behind(t)' /\ Once(t)'
  <2>1. CASE Ctr!EncryptBlock(t)
    <3>1. /\ pc[t] = "block_encrypt" /\ pc'[t] = "load" /\ drawn'[t] = Append(drawn[t], val)
          /\ UNCHANGED <<val, carry>>
      BY <2>1 DEF Ctr!EncryptBlock, Ctr!Goto, CtrInv, CtrTyped
    <3>2. \A v \in Given(t) : v < val
      BY <1>2, <1>4, <3>1 DEF Behind
    <3>3. val \notin Ctr!Range(drawn[t])
      <4>1. val \in Nat /\ ~(val < val)
        BY DEF CtrInv, CtrTyped, Numbers
      <4> QED BY <1>5, <3>2, <4>1
    <3>4. /\ Ctr!Range(drawn'[t]) = Ctr!Range(drawn[t]) \cup {val}
          /\ Ctr!IsInjective(drawn'[t])
      <4>1. drawn[t] \in Seq(Numbers)
        BY DEF CtrInv, CtrTyped
      <4> QED BY <1>2, <3>1, <3>3, <4>1, RangeOfAppend DEF Once
    <3>5. Given(t)' = Given(t) \cup {val}
      BY <1>5, <3>1, <3>4 DEF Given
    <3> QED BY <1>1, <1>2, <1>4, <3>1, <3>2, <3>4, <3>5 DEF Behind, Once
  <2>2. CASE Ctr!IncStore(t)
    <3>1. /\ pc[t] = "store" /\ pc'[t] = "loop" /\ drawn' = drawn
          /\ val' = (val + 1) % Limit /\ carry' = (val + 1 = Limit)
      BY <1>2, <1>4, <2>2 DEF Behind, Ctr!IncStore, Ctr!Goto, CtrInv, CtrTyped
    <3>2. \A v \in Nat : v < val \/ v = val => v < val' \/ carry'
      BY <3>1, Moved DEF CtrInv, CtrTyped
    <3>3. \A v \in Given(t) : v < val \/ v = val
      BY <1>2, <1>4 DEF Behind
    <3>4. Given(t)' = Given(t)
      BY <1>5, <3>1 DEF Given
    <3> QED BY <1>2, <1>5, <3>1, <3>2, <3>3, <3>4 DEF Behind, Once
  <2> QED BY <2>1, <2>2
<1>7. ASSUME NEW u \in Threads, u # t PROVE Behind(u)' /\ Once(u)' /\ Given(u)' = {}
  <2>1. Behind(u) /\ Once(u)
    BY DEF UniqueInv
  <2>2. /\ pc'[u] = pc[u] /\ drawn'[u] = <<>> /\ drawn[u] = <<>>
        /\ pc[u] \notin {"call", "encrypt_result"}
    BY <1>1, <1>2, <1>3, <1>7, <2>1 DEF Behind
  <2>3. Ctr!Range(<<>>) = {}
    BY DEF Ctr!Range
  <2>4. Given(u)' = {}
    BY <2>2, <2>3 DEF Given
  <2>5. ~Sole(u)'
    BY <1>1, <1>7 DEF Sole
  <2>6. Behind(u)'
    BY <1>1, <1>2, <2>1, <2>2, <2>4, <2>5 DEF Behind
  <2>7. Once(u)'
    BY <2>1, <2>2 DEF Once
  <2> QED BY <2>4, <2>6, <2>7
<1>8. Apart'
  BY <1>7 DEF Apart
<1> QED BY <1>6, <1>7, <1>8

\* What the ciphers were given lies behind the counter and was given once.
LEMMA UniqueInvHolds == ASSUME Limit \in Nat PROVE Ctr!Spec => []UniqueInv
<1>1. Ctr!Init => UniqueInv
  <2> SUFFICES ASSUME Ctr!Init, NEW t \in Threads
               PROVE  Behind(t) /\ Once(t) /\ Given(t) = {}
    BY DEF UniqueInv, Apart
  <2>1. drawn[t] = <<>> /\ pc[t] = "idle"
    BY DEF Ctr!Init
  <2>2. Ctr!Range(<<>>) = {} /\ Ctr!IsInjective(<<>>)
    BY DEF Ctr!Range, Ctr!IsInjective
  <2> QED BY <2>1, <2>2 DEF Behind, Once, Given
<1>2. CtrInv /\ UniqueInv /\ [Ctr!Next]_(Ctr!vars) => UniqueInv'
  <2> SUFFICES ASSUME CtrInv, UniqueInv, [Ctr!Next]_(Ctr!vars) PROVE UniqueInv'
    OBVIOUS
  <2>1. CASE UNCHANGED Ctr!vars
    BY <2>1 DEF Ctr!vars, Ctr!counter, UniqueInv, InTurn, Ctr!TakeTurns, Sole, Behind,
       Once, Apart, Given
  <2> QED BY <2>1, QuietStep, CallStep, CallFailsStep, ResultStep, ShortcutStep DEF Ctr!Next
<1> QED BY <1>1, <1>2, CtrInvHolds, PTL DEF Ctr!Spec

\* The keystream is in order, and ciphers that take turns at a counter which
\* neither wraps nor is of the caller's own making never encrypt one of its
\* numbers twice: any number of ciphers that call the counter object, or, with
\* the shortcut, as long as only one of them has drawn a block, since the code
\* does not keep others out (block_template.c:353, :368-387).
THEOREM KeystreamSoundHolds ==
  ASSUME Limit \in Nat PROVE Ctr!Spec => []KeystreamSound
<1>1. UniqueInv => (Ctr!TakeTurns => Ctr!UniqueCounterValues)
  <2> SUFFICES ASSUME UniqueInv, InTurn PROVE Ctr!UniqueCounterValues
    BY DEF InTurn, Ctr!UniqueCounterValues
  <2>1. \A t \in Threads : Ctr!Range(drawn[t]) \subseteq Given(t) /\ Ctr!IsInjective(drawn[t])
    BY DEF UniqueInv, Once, Given
  <2> QED BY <2>1 DEF UniqueInv, Apart, Ctr!UniqueCounterValues
<1>2. Ctr!KeystreamInOrder /\ UniqueInv => KeystreamSound
  BY <1>1 DEF KeystreamSound, Ctr!KeystreamSound
<1> QED BY <1>2, KeystreamInOrderHolds, UniqueInvHolds, PTL

-----------------------------------------------------------------------------
(* Induction and primitive recursion over the naturals, on sets and        *)
(* functions.                                                              *)

\* A set of naturals with 0 and with the successor of each holds them all.
LEMMA Induction ==
  ASSUME NEW S, 0 \in S, \A n \in Nat : n \in S => n + 1 \in S
  PROVE  Nat \subseteq S
<1> SUFFICES ASSUME Nat \ S # {} PROVE FALSE
  OBVIOUS
<1>1. PICK m \in Nat \ S : \A k \in Nat \ S : ~(<<k, m>> \in OpToRel(<, Nat))
  BY NatLessThanWellFounded, WFMin
<1>2. \A k \in Nat \ S : ~(k < m)
  BY <1>1 DEF OpToRel
<1>3. m - 1 \in Nat /\ (m - 1) + 1 = m /\ m - 1 < m
  <2>1. m # 0
    BY <1>1
  <2> QED BY <2>1
<1> QED BY <1>1, <1>2, <1>3

\* f is what h makes of a, step by step up to n.
Follows(f, a, h, n) == f[0] = a /\ \A i \in 0 .. (n - 1) : f[i + 1] = h[i][f[i]]

\* There is at most one such sequence.
LEMMA FollowsOnce ==
  ASSUME NEW a, NEW h, NEW n \in Nat, NEW f, NEW g, Follows(f, a, h, n), Follows(g, a, h, n)
  PROVE  \A i \in 0 .. n : f[i] = g[i]
<1> DEFINE S == {i \in Nat : i <= n => f[i] = g[i]}
<1>1. 0 \in S
  BY DEF Follows
<1>2. ASSUME NEW i \in Nat, i \in S PROVE i + 1 \in S
  <2> SUFFICES ASSUME i + 1 <= n PROVE f[i + 1] = g[i + 1]
    OBVIOUS
  <2>1. i \in 0 .. (n - 1) /\ f[i] = g[i]
    BY <1>2
  <2> QED BY <2>1 DEF Follows
<1> HIDE DEF S
<1>3. Nat \subseteq S
  BY <1>1, <1>2, Induction
<1> QED BY <1>3 DEF S

\* There is one, on all of Nat.
LEMMA PrimitiveRecursion ==
  ASSUME NEW T, NEW a \in T, NEW h \in [Nat -> [T -> T]]
  PROVE  \E f \in [Nat -> T] : \A n \in Nat : Follows(f, a, h, n)
<1> DEFINE Upto(n) == {f \in [0 .. n -> T] : Follows(f, a, h, n)}
           S == {n \in Nat : Upto(n) # {}}
<1>1. 0 \in S
  <2>1. [i \in 0 .. 0 |-> a] \in Upto(0)
    BY DEF Follows
  <2> QED BY <2>1
<1>2. ASSUME NEW n \in Nat, NEW f \in Upto(n)
      PROVE  [i \in 0 .. (n + 1) |-> IF i <= n THEN f[i] ELSE h[n][f[n]]] \in Upto(n + 1)
  <2> DEFINE g == [i \in 0 .. (n + 1) |-> IF i <= n THEN f[i] ELSE h[n][f[n]]]
  <2>1. h[n][f[n]] \in T
    OBVIOUS
  <2>2. g \in [0 .. (n + 1) -> T]
    BY <2>1
  <2>3. g[0] = a /\ \A i \in 0 .. n : g[i] = f[i]
    BY DEF Follows
  <2>4. g[n + 1] = h[n][f[n]]
    OBVIOUS
  <2>5. ASSUME NEW i \in 0 .. n PROVE g[i + 1] = h[i][g[i]]
    <3>1. CASE i = n
      BY <2>3, <2>4, <3>1
    <3>2. CASE i # n
      <4>1. i \in 0 .. (n - 1) /\ i + 1 \in 0 .. n
        BY <3>2
      <4> QED BY <2>3, <4>1 DEF Follows
    <3> QED BY <3>1, <3>2
  <2> HIDE DEF g
  <2>6. Follows(g, a, h, n + 1)
    BY <2>3, <2>5 DEF Follows
  <2> QED BY <2>2, <2>6 DEF g
<1>3. ASSUME NEW n \in Nat, n \in S PROVE n + 1 \in S
  <2>1. PICK f : f \in Upto(n)
    BY <1>3
  <2>2. Upto(n + 1) # {}
    BY <1>2, <2>1
  <2> QED BY <2>2
<1> HIDE DEF S
<1>4. Nat \subseteq S
  BY <1>1, <1>3, Induction
<1> DEFINE pick(n) == CHOOSE f : f \in Upto(n)
           F == [n \in Nat |-> pick(n)[n]]
<1>5. \A n \in Nat : pick(n) \in Upto(n)
  BY <1>4 DEF S
<1> HIDE DEF pick
<1>6. F \in [Nat -> T]
  BY <1>5
<1>7. F[0] = a
  BY <1>5 DEF Follows
<1>8. ASSUME NEW n \in Nat PROVE F[n + 1] = h[n][F[n]]
  <2> DEFINE g == pick(n + 1)
  <2>1. g[n + 1] = h[n][g[n]] /\ Follows(g, a, h, n)
    BY <1>5 DEF Follows
  <2>2. Follows(pick(n), a, h, n)
    BY <1>5
  <2>3. g[n] = pick(n)[n]
    BY <2>1, <2>2, FollowsOnce
  <2> QED BY <2>1, <2>3
<1> HIDE DEF F
<1>9. \A n \in Nat : Follows(F, a, h, n)
  BY <1>7, <1>8 DEF Follows
<1> QED BY <1>6, <1>9

-----------------------------------------------------------------------------
\* The recursive function Period is defined, for every length of a counter.
LEMMA Periods ==
  ASSUME Base \in Nat \ {0}
  PROVE  /\ Cnt!Period \in [Nat -> Nat \ {0}] /\ Cnt!Period[0] = 1
         /\ \A n \in Nat : Cnt!Period[n + 1] = Base * Cnt!Period[n]
<1> DEFINE h == [i \in Nat |-> [v \in Nat \ {0} |-> Base * v]]
           E(f) == [n \in Nat |-> IF n = 0 THEN 1 ELSE Base * f[n - 1]]
<1>1. h \in [Nat -> [Nat \ {0} -> Nat \ {0}]]
  BY SMT
<1>2. PICK f \in [Nat -> Nat \ {0}] : \A n \in Nat : Follows(f, 1, h, n)
  <2> HIDE DEF h
  <2>1. 1 \in Nat \ {0}
    OBVIOUS
  <2> QED BY <1>1, <2>1, PrimitiveRecursion
<1>3. f[0] = 1 /\ \A n \in Nat : f[n + 1] = Base * f[n]
  <2>1. ASSUME NEW n \in Nat PROVE f[n + 1] = h[n][f[n]]
    <3> HIDE DEF h
    <3>1. n + 1 \in Nat /\ n \in 0 .. ((n + 1) - 1)
      OBVIOUS
    <3>2. Follows(f, 1, h, n + 1)
      BY <1>2, <3>1
    <3> QED BY <3>1, <3>2 DEF Follows
  <2>2. f[0] = 1
    BY <1>2 DEF Follows
  <2> QED BY <1>2, <2>1, <2>2
<1>4. f = E(f)
  <2>1. \A n \in Nat : f[n] = IF n = 0 THEN 1 ELSE Base * f[n - 1]
    BY <1>3
  <2>2. f = [n \in Nat |-> f[n]]
    BY <1>2
  <2> QED BY <2>1, <2>2
<1>5. Cnt!Period = CHOOSE g : g = E(g)
  BY DEF Cnt!Period
<1>6. Cnt!Period = E(Cnt!Period)
  BY <1>4, <1>5
<1>7. Cnt!Period[0] = 1 /\ \A n \in Nat : Cnt!Period[n + 1] = Base * Cnt!Period[n]
  <2> DEFINE P == Cnt!Period
  <2>1. P = E(P)
    BY <1>6
  <2> HIDE DEF P
  <2>2. \A n \in Nat : P[n] = IF n = 0 THEN 1 ELSE Base * P[n - 1]
    BY <2>1
  <2>3. \A n \in Nat : n + 1 \in Nat /\ n + 1 # 0 /\ (n + 1) - 1 = n
    OBVIOUS
  <2>4. P[0] = 1 /\ \A n \in Nat : P[n + 1] = Base * P[n]
    BY <2>2, <2>3
  <2> QED BY <2>4 DEF P
<1>8. \A n \in Nat : Cnt!Period[n] \in Nat \ {0}
  <2> DEFINE S == {n \in Nat : Cnt!Period[n] \in Nat \ {0}}
  <2>1. 0 \in S
    BY <1>7
  <2>2. ASSUME NEW n \in Nat, n \in S PROVE n + 1 \in S
    BY <1>7, <2>2
  <2> HIDE DEF S
  <2>3. Nat \subseteq S
    BY <2>1, <2>2, Induction
  <2> QED BY <2>3 DEF S
<1>9. Cnt!Period \in [Nat -> Nat \ {0}]
  BY <1>6, <1>8
<1> QED BY <1>7, <1>9

-----------------------------------------------------------------------------
(* Numbers written in bytes, the first byte the least significant.         *)

Digits(n) == [1 .. n -> 0 .. (Base - 1)]

\* c[i] goes out of the i-th byte when one is added to d.
IsCarry(c, d, n) == c[0] = 1 /\ \A i \in 1 .. n : c[i] = (d[i] + c[i - 1]) \div Base

\* x[i] is the number in the i most significant bytes of d.
IsValue(x, d, n) == x[0] = 0 /\ \A i \in 1 .. n : x[i] = x[i - 1] * Base + d[n - i + 1]

\* One byte of the loop: the byte, the carry in, and the carry out.
LEMMA AddToByte ==
  ASSUME Base \in Nat \ {0}, NEW b \in 0 .. (Base - 1), NEW k \in 0 .. 1
  PROVE  /\ (b + k) \div Base \in 0 .. 1 /\ (b + k) % Base \in 0 .. (Base - 1)
         /\ ((b + k) % Base) + Base * ((b + k) \div Base) = b + k
<1>1. CASE b + k = Base
  <2>1. Base * 1 + 0 = Base /\ 0 \in 0 .. (Base - 1)
    OBVIOUS
  <2>2. Base \div Base = 1 /\ Base % Base = 0
    BY <2>1, DivMod
  <2> QED BY <1>1, <2>1, <2>2
<1>2. CASE b + k # Base
  <2>1. b + k \in 0 .. (Base - 1) /\ Base * 0 + (b + k) = b + k
    BY <1>2
  <2>2. (b + k) \div Base = 0 /\ (b + k) % Base = b + k
    BY <2>1, DivMod
  <2> QED BY <2>1, <2>2
<1> QED BY <1>1, <1>2

\* The carry is a bit all the way up.
LEMMA CarryIsBit ==
  ASSUME Base \in Nat \ {0}, NEW n \in Nat, NEW d \in Digits(n), NEW c, IsCarry(c, d, n)
  PROVE  \A i \in 0 .. n : c[i] \in 0 .. 1
<1> DEFINE S == {i \in Nat : i <= n => c[i] \in 0 .. 1}
<1>1. 0 \in S
  BY DEF IsCarry
<1>2. ASSUME NEW i \in Nat, i \in S PROVE i + 1 \in S
  <2> SUFFICES ASSUME i + 1 <= n PROVE c[i + 1] \in 0 .. 1
    OBVIOUS
  <2>1. i + 1 \in 1 .. n /\ (i + 1) - 1 = i /\ c[i] \in 0 .. 1
    BY <1>2
  <2>2. c[i + 1] = (d[i + 1] + c[i]) \div Base /\ d[i + 1] \in 0 .. (Base - 1)
    BY <2>1 DEF IsCarry, Digits
  <2>3. (d[i + 1] + c[i]) \div Base \in 0 .. 1
    BY <2>1, <2>2, AddToByte
  <2> QED BY <2>2, <2>3
<1> HIDE DEF S
<1>3. Nat \subseteq S
  BY <1>1, <1>2, Induction
<1> QED BY <1>3 DEF S

\* A digit more multiplies the bound by the base.
LEMMA MoreDigits ==
  ASSUME Base \in Nat \ {0}, NEW P \in Nat, NEW v \in Nat, v < P, NEW b \in 0 .. (Base - 1)
  PROVE  v * Base + b \in Nat /\ v * Base + b < Base * P
<1>1. PICK k \in Nat : P = v + 1 + k
  <2>1. P - v - 1 \in Nat /\ P = v + 1 + (P - v - 1)
    OBVIOUS
  <2> QED BY <2>1
<1>2. Base * P = v * Base + Base + Base * k
  BY <1>1
<1>3. Base * k \in Nat /\ v * Base \in Nat
  BY <1>1
<1> QED BY <1>2, <1>3

\* What i digits write is less than the i-th power of the base.
LEMMA ValueBelow ==
  ASSUME Base \in Nat \ {0}, NEW n \in Nat, NEW d \in Digits(n), NEW x, IsValue(x, d, n)
  PROVE  \A i \in 0 .. n : x[i] \in Nat /\ x[i] < Cnt!Period[i]
<1> DEFINE S == {i \in Nat : i <= n => x[i] \in Nat /\ x[i] < Cnt!Period[i]}
<1>1. 0 \in S
  BY Periods DEF IsValue
<1>2. ASSUME NEW i \in Nat, i \in S PROVE i + 1 \in S
  <2> SUFFICES ASSUME i + 1 <= n PROVE x[i + 1] \in Nat /\ x[i + 1] < Cnt!Period[i + 1]
    OBVIOUS
  <2>1. i + 1 \in 1 .. n /\ (i + 1) - 1 = i /\ n - (i + 1) + 1 \in 1 .. n
    BY <1>2
  <2>2. x[i] \in Nat /\ x[i] < Cnt!Period[i]
    BY <1>2
  <2>3. x[i + 1] = x[i] * Base + d[n - (i + 1) + 1] /\ d[n - (i + 1) + 1] \in 0 .. (Base - 1)
    BY <2>1 DEF IsValue, Digits
  <2>4. Cnt!Period[i] \in Nat /\ Cnt!Period[i + 1] = Base * Cnt!Period[i]
    BY Periods
  <2> QED BY <2>2, <2>3, <2>4, MoreDigits
<1> HIDE DEF S
<1>3. Nat \subseteq S
  BY <1>1, <1>2, Induction
<1> QED BY <1>3 DEF S

\* The increment adds one, but for what is carried out of the last byte.
LEMMA IncrementAdds ==
  ASSUME Base \in Nat \ {0}, NEW n \in Nat, NEW d \in Digits(n), NEW c, IsCarry(c, d, n),
         NEW x, IsValue(x, d, n),
         NEW e \in Digits(n), \A i \in 1 .. n : e[i] = (d[i] + c[i - 1]) % Base,
         NEW y, IsValue(y, e, n)
  PROVE  y[n] + c[n] * Cnt!Period[n] = x[n] + 1
<1> DEFINE P == Cnt!Period
           S == {i \in Nat : i <= n => y[i] + c[n] * P[i] = x[i] + c[n - i]}
<1>0. /\ \A i \in 0 .. n : c[i] \in 0 .. 1
      /\ \A i \in 0 .. n : x[i] \in Nat /\ y[i] \in Nat
      /\ P \in [Nat -> Nat \ {0}] /\ P[0] = 1 /\ \A i \in Nat : P[i + 1] = Base * P[i]
  BY CarryIsBit, ValueBelow, Periods
<1> HIDE DEF P
<1>1. 0 \in S
  <2>1. c[n] \in 0 .. 1 /\ n - 0 = n
    BY <1>0
  <2>2. y[0] = 0 /\ x[0] = 0
    BY DEF IsValue
  <2> QED BY <1>0, <2>1, <2>2
<1>2. ASSUME NEW i \in Nat, i \in S PROVE i + 1 \in S
  <2> SUFFICES ASSUME i + 1 <= n
               PROVE  y[i + 1] + c[n] * P[i + 1] = x[i + 1] + c[n - (i + 1)]
    OBVIOUS
  <2> DEFINE j == n - i
  <2>1. /\ i + 1 \in 1 .. n /\ (i + 1) - 1 = i /\ n - (i + 1) + 1 = j /\ j \in 1 .. n
        /\ n - (i + 1) = j - 1 /\ i \in 0 .. n /\ j - 1 \in 0 .. n /\ j \in 0 .. n /\ n \in 0 .. n
    BY <1>2
  <2>2. y[i] + c[n] * P[i] = x[i] + c[j]
    BY <1>2
  <2>3. x[i + 1] = x[i] * Base + d[j] /\ y[i + 1] = y[i] * Base + e[j]
    BY <2>1 DEF IsValue
  <2>4. /\ e[j] + Base * c[j] = d[j] + c[j - 1] /\ d[j] \in 0 .. (Base - 1)
        /\ e[j] \in 0 .. (Base - 1)
    <3>1. d[j] \in 0 .. (Base - 1) /\ e[j] \in 0 .. (Base - 1) /\ c[j - 1] \in 0 .. 1
      BY <1>0, <2>1 DEF Digits
    <3>2. e[j] = (d[j] + c[j - 1]) % Base /\ c[j] = (d[j] + c[j - 1]) \div Base
      BY <2>1 DEF IsCarry
    <3> DEFINE sum == d[j] + c[j - 1]
               q == sum \div Base
               r == sum % Base
    <3>3. r + Base * q = sum
      BY <3>1, AddToByte
    <3>4. e[j] = r /\ c[j] = q
      BY <3>2
    <3> HIDE DEF q, r
    <3> QED BY <3>1, <3>3, <3>4
  <2>5. P[i + 1] = Base * P[i]
    BY <1>0
  <2> DEFINE yi == y[i] xi == x[i] cn == c[n] cj == c[j] cl == c[j - 1] Pi == P[i]
             dj == d[j] ej == e[j]
  <2>6. /\ yi \in Nat /\ xi \in Nat /\ cn \in Nat /\ cj \in Nat /\ cl \in Nat /\ Pi \in Nat
        /\ dj \in Nat /\ ej \in Nat
    <3>1. yi \in Nat /\ xi \in Nat
      BY <1>0, <2>1
    <3>2. cn \in 0 .. 1 /\ cj \in 0 .. 1 /\ cl \in 0 .. 1
      BY <1>0, <2>1
    <3>3. Pi \in Nat \ {0}
      BY <1>0
    <3>4. dj \in 0 .. (Base - 1) /\ ej \in 0 .. (Base - 1)
      BY <2>4
    <3>5. 0 .. 1 \subseteq Nat /\ 0 .. (Base - 1) \subseteq Nat
      OBVIOUS
    <3> HIDE DEF yi, xi, cn, cj, cl, Pi, dj, ej
    <3> QED BY <3>1, <3>2, <3>3, <3>4, <3>5
  <2>7. yi + cn * Pi = xi + cj /\ ej + Base * cj = dj + cl
    BY <2>2, <2>4
  <2> HIDE DEF yi, xi, cn, cj, cl, Pi, dj, ej
  <2>8. (yi * Base + ej) + cn * (Base * Pi) = (xi * Base + dj) + cl
    <3>1. Base * (yi + cn * Pi) = Base * (xi + cj)
      BY <2>7
    <3>2. Base * (yi + cn * Pi) = yi * Base + cn * (Base * Pi)
      BY <2>6
    <3>3. Base * (xi + cj) = xi * Base + Base * cj
      BY <2>6
    <3> DEFINE t1 == yi * Base t2 == cn * (Base * Pi) t3 == xi * Base t4 == Base * cj
    <3>4. t1 + t2 = t3 + t4 /\ ej + t4 = dj + cl
      BY <2>7, <3>1, <3>2, <3>3
    <3>5. t1 \in Nat /\ t2 \in Nat /\ t3 \in Nat /\ t4 \in Nat
      BY <2>6
    <3> HIDE DEF t1, t2, t3, t4
    <3>6. (t1 + ej) + t2 = (t3 + dj) + cl
      BY <2>6, <3>4, <3>5
    <3> QED BY <3>6 DEF t1, t2, t3, t4
  <2> QED BY <2>1, <2>3, <2>5, <2>8 DEF yi, xi, cn, cj, cl, Pi, dj, ej
<1> HIDE DEF S
<1>3. Nat \subseteq S
  BY <1>1, <1>2, Induction
<1>4. n \in S
  BY <1>3
<1>5. y[n] + c[n] * P[n] = x[n] + c[n - n]
  BY <1>4 DEF S
<1>6. c[n - n] = 1
  BY DEF IsCarry
<1> QED BY <1>5, <1>6 DEF P
-----------------------------------------------------------------------------
\* The bytes of a counter, the first one the least significant.
LowFirst(p, n, le) == [i \in 1 .. n |-> IF le THEN p[i] ELSE p[n - i + 1]]

\* They are as many and as large as before.
LEMMA LowFirstTyped ==
  ASSUME NEW n \in Nat, NEW p \in Digits(n), NEW le \in BOOLEAN
  PROVE  LowFirst(p, n, le) \in Digits(n)
<1>1. \A i \in 1 .. n : n - i + 1 \in 1 .. n
  OBVIOUS
<1> QED BY <1>1 DEF LowFirst, Digits

\* The carries of every counter block exist.
LEMMA CarryExists ==
  ASSUME Base \in Nat \ {0}, NEW n \in Nat, NEW d \in Digits(n)
  PROVE  \E c : IsCarry(c, d, n)
<1> DEFINE out(i, v) == IF i + 1 <= n THEN (d[i + 1] + v) \div Base ELSE 0
           h == [i \in Nat |-> [v \in 0 .. 1 |-> out(i, v)]]
<1>1. ASSUME NEW i \in Nat, NEW v \in 0 .. 1 PROVE out(i, v) \in 0 .. 1
  <2>1. CASE i + 1 <= n
    <3>1. d[i + 1] \in 0 .. (Base - 1)
      BY <2>1 DEF Digits
    <3>2. (d[i + 1] + v) \div Base \in 0 .. 1
      BY <3>1, AddToByte
    <3> QED BY <2>1, <3>2
  <2>2. CASE ~(i + 1 <= n)
    BY <2>2
  <2> QED BY <2>1, <2>2
<1> HIDE DEF out
<1>2. h \in [Nat -> [0 .. 1 -> 0 .. 1]]
  BY <1>1
<1>3. PICK f \in [Nat -> 0 .. 1] : \A m \in Nat : Follows(f, 1, h, m)
  <2> HIDE DEF h
  <2>1. 1 \in 0 .. 1
    OBVIOUS
  <2> QED BY <1>2, <2>1, PrimitiveRecursion
<1>4. f[0] = 1
  BY <1>3 DEF Follows
<1>5. ASSUME NEW i \in 1 .. n PROVE f[i] = (d[i] + f[i - 1]) \div Base
  <2>1. i - 1 \in Nat /\ (i - 1) + 1 = i /\ i - 1 \in 0 .. (i - 1) /\ i \in Nat /\ i <= n
    OBVIOUS
  <2>2. f[(i - 1) + 1] = h[i - 1][f[i - 1]]
    BY <1>3, <2>1 DEF Follows
  <2>3. h[i - 1][f[i - 1]] = out(i - 1, f[i - 1])
    BY <1>3, <2>1
  <2>4. out(i - 1, f[i - 1]) = (d[i] + f[i - 1]) \div Base
    BY <2>1 DEF out
  <2> QED BY <2>1, <2>2, <2>3, <2>4
<1>6. IsCarry(f, d, n)
  BY <1>4, <1>5 DEF IsCarry
<1> QED BY <1>6

\* So do the numbers its leading bytes write.
LEMMA ValueExists ==
  ASSUME Base \in Nat \ {0}, NEW n \in Nat, NEW d \in Digits(n)
  PROVE  \E x : IsValue(x, d, n)
<1> DEFINE out(i, v) == IF i + 1 <= n THEN v * Base + d[n - i] ELSE 0
           h == [i \in Nat |-> [v \in Nat |-> out(i, v)]]
<1>1. ASSUME NEW i \in Nat, NEW v \in Nat PROVE out(i, v) \in Nat
  <2>1. CASE i + 1 <= n
    <3>1. n - i \in 1 .. n
      BY <2>1
    <3>2. d[n - i] \in 0 .. (Base - 1)
      BY <3>1 DEF Digits
    <3>3. v * Base \in Nat
      OBVIOUS
    <3> HIDE DEF h
    <3> QED BY <2>1, <3>2, <3>3
  <2>2. CASE ~(i + 1 <= n)
    BY <2>2
  <2> QED BY <2>1, <2>2
<1> HIDE DEF out
<1>2. h \in [Nat -> [Nat -> Nat]]
  BY <1>1
<1>3. PICK f \in [Nat -> Nat] : \A m \in Nat : Follows(f, 0, h, m)
  <2> HIDE DEF h
  <2> QED BY <1>2, PrimitiveRecursion
<1>4. f[0] = 0
  BY <1>3 DEF Follows
<1>5. ASSUME NEW i \in 1 .. n PROVE f[i] = f[i - 1] * Base + d[n - i + 1]
  <2>1. i - 1 \in Nat /\ (i - 1) + 1 = i /\ i - 1 \in 0 .. (i - 1) /\ i \in Nat /\ i <= n
        /\ n - (i - 1) = n - i + 1
    OBVIOUS
  <2>2. f[(i - 1) + 1] = h[i - 1][f[i - 1]]
    BY <1>3, <2>1 DEF Follows
  <2>3. h[i - 1][f[i - 1]] = out(i - 1, f[i - 1])
    BY <1>3, <2>1
  <2>4. out(i - 1, f[i - 1]) = f[i - 1] * Base + d[n - i + 1]
    BY <2>1 DEF out
  <2> QED BY <2>1, <2>2, <2>3, <2>4
<1>6. IsValue(f, d, n)
  BY <1>4, <1>5 DEF IsValue
<1> QED BY <1>6

-----------------------------------------------------------------------------
\* The little-endian loop adds one to the bytes as they stand.
LEMMA LittleEndian ==
  ASSUME Base \in Nat \ {0}, NEW n \in Nat, NEW p \in Digits(n)
  PROVE  \E c : /\ IsCarry(c, p, n)
                /\ Cnt!CounterLEObject_increment(p)
                     = [p |-> [i \in 1 .. n |-> (p[i] + c[i - 1]) % Base], carry |-> c[n]]
<1> DEFINE E(c) == [i \in 0 .. n |-> IF i = 0 THEN 1 ELSE (p[i] + c[i - 1]) \div Base]
<1>1. Len(p) = n /\ DOMAIN p = 1 .. n
  BY DEF Digits
<1>2. PICK a : IsCarry(a, p, n)
  BY CarryExists
<1> DEFINE b == [i \in 0 .. n |-> a[i]]
<1>3. b = E(b)
  <2>1. \A i \in 0 .. n : i # 0 => i \in 1 .. n /\ i - 1 \in 0 .. n
    OBVIOUS
  <2>2. \A i \in 0 .. n : a[i] = IF i = 0 THEN 1 ELSE (p[i] + b[i - 1]) \div Base
    BY <1>2, <2>1 DEF IsCarry
  <2> QED BY <2>2
<1> DEFINE c == CHOOSE g : g = E(g)
<1>4. c = E(c)
  <2> HIDE DEF b, E
  <2> QED BY <1>3
<1>5. Cnt!CounterLEObject_increment(p)
        = [p |-> [i \in 1 .. n |-> (p[i] + c[i - 1]) % Base], carry |-> c[n]]
  BY <1>1 DEF Cnt!CounterLEObject_increment
<1> HIDE DEF c
<1>6. IsCarry(c, p, n)
  <2>1. \A i \in 0 .. n : c[i] = IF i = 0 THEN 1 ELSE (p[i] + c[i - 1]) \div Base
    BY <1>4
  <2>2. 0 \in 0 .. n /\ \A i \in 1 .. n : i \in 0 .. n /\ i # 0
    OBVIOUS
  <2> HIDE DEF E
  <2> QED BY <2>1, <2>2 DEF IsCarry
<1> QED BY <1>5, <1>6

\* The big-endian loop adds one to the bytes in reverse.
LEMMA BigEndian ==
  ASSUME Base \in Nat \ {0}, NEW n \in Nat, NEW p \in Digits(n)
  PROVE  \E c : /\ IsCarry(c, LowFirst(p, n, FALSE), n)
                /\ Cnt!CounterBEObject_increment(p)
                     = [p |-> [i \in 1 .. n |-> (p[i] + c[n - i]) % Base], carry |-> c[n]]
<1> DEFINE E(c) == [i \in 1 .. (n + 1) |-> IF i = n + 1 THEN 1 ELSE (p[i] + c[i + 1]) \div Base]
           d == LowFirst(p, n, FALSE)
<1>1. Len(p) = n /\ DOMAIN p = 1 .. n
  BY DEF Digits
<1>2. PICK a : IsCarry(a, d, n)
  BY LowFirstTyped, CarryExists
<1>3. \A i \in 1 .. n : d[n - i + 1] = p[i] /\ d[i] = p[n - i + 1]
  <2>1. \A i \in 1 .. n : n - i + 1 \in 1 .. n /\ n - (n - i + 1) + 1 = i
    OBVIOUS
  <2> QED BY <2>1 DEF LowFirst
<1> HIDE DEF d
<1> DEFINE b == [i \in 1 .. (n + 1) |-> a[n + 1 - i]]
<1>4. b = E(b)
  <2>1. ASSUME NEW i \in 1 .. (n + 1), i # n + 1
        PROVE  a[n + 1 - i] = (p[i] + b[i + 1]) \div Base
    <3>1. /\ i \in 1 .. n /\ i + 1 \in 1 .. (n + 1) /\ n + 1 - i = n - i + 1
          /\ n - i + 1 \in 1 .. n /\ n + 1 - (i + 1) = (n - i + 1) - 1
      BY <2>1
    <3>2. a[n - i + 1] = (d[n - i + 1] + a[(n - i + 1) - 1]) \div Base
      BY <1>2, <3>1 DEF IsCarry
    <3>3. b[i + 1] = a[(n - i + 1) - 1]
      BY <3>1
    <3> QED BY <1>3, <3>1, <3>2, <3>3
  <2>2. a[n + 1 - (n + 1)] = 1
    BY <1>2 DEF IsCarry
  <2>3. \A i \in 1 .. (n + 1) :
          a[n + 1 - i] = IF i = n + 1 THEN 1 ELSE (p[i] + b[i + 1]) \div Base
    <3> HIDE DEF b
    <3> QED BY <2>1, <2>2
  <2> QED BY <2>3
<1> DEFINE k == CHOOSE g : g = E(g)
<1>5. k = E(k)
  <2> HIDE DEF b, E
  <2> QED BY <1>4
<1>6. Cnt!CounterBEObject_increment(p)
        = [p |-> [i \in 1 .. n |-> (p[i] + k[i + 1]) % Base], carry |-> k[1]]
  BY <1>1 DEF Cnt!CounterBEObject_increment
<1> HIDE DEF k
<1>7. \A i \in 1 .. (n + 1) : k[i] = IF i = n + 1 THEN 1 ELSE (p[i] + k[i + 1]) \div Base
  BY <1>5
<1> HIDE DEF E
<1> DEFINE c == [i \in 0 .. n |-> k[n + 1 - i]]
<1>8. \A i \in 1 .. n : c[n - i] = k[i + 1]
  <2>1. \A i \in 1 .. n : n - i \in 0 .. n /\ n + 1 - (n - i) = i + 1
    OBVIOUS
  <2> QED BY <2>1
<1>9. c[0] = k[n + 1] /\ c[n] = k[1]
  <2>1. 0 \in 0 .. n /\ n \in 0 .. n /\ n + 1 - 0 = n + 1 /\ n + 1 - n = 1
    OBVIOUS
  <2> QED BY <2>1
<1>10. IsCarry(c, d, n)
  <2>1. c[0] = 1
    <3>1. n + 1 \in 1 .. (n + 1)
      OBVIOUS
    <3> QED BY <1>7, <1>9, <3>1
  <2>2. ASSUME NEW i \in 1 .. n PROVE c[i] = (d[i] + c[i - 1]) \div Base
    <3>1. /\ i \in 0 .. n /\ i - 1 \in 0 .. n /\ n + 1 - i \in 1 .. (n + 1) /\ n + 1 - i # n + 1
          /\ n + 1 - i = n - i + 1 /\ n + 1 - (i - 1) = (n + 1 - i) + 1
      OBVIOUS
    <3>2. c[i] = k[n + 1 - i] /\ c[i - 1] = k[(n + 1 - i) + 1]
      BY <3>1
    <3> HIDE DEF c
    <3>3. k[n + 1 - i] = (p[n + 1 - i] + k[(n + 1 - i) + 1]) \div Base
      BY <1>7, <3>1
    <3> QED BY <1>3, <3>1, <3>2, <3>3
  <2> QED BY <2>1, <2>2 DEF IsCarry
<1> HIDE DEF c
<1>11. Cnt!CounterBEObject_increment(p)
         = [p |-> [i \in 1 .. n |-> (p[i] + c[n - i]) % Base], carry |-> c[n]]
  BY <1>6, <1>8, <1>9
<1> QED BY <1>10, <1>11 DEF d

\* next_value reads the bytes from the most significant one on.
LEMMA NextValue ==
  ASSUME Base \in Nat \ {0}, NEW n \in Nat, NEW p \in Digits(n), NEW le \in BOOLEAN
  PROVE  \E x : IsValue(x, LowFirst(p, n, le), n) /\ Cnt!next_value(p, le) = x[n]
<1> DEFINE ch(i) == IF le THEN p[n - i + 1] ELSE p[i]
           E(x) == [i \in 0 .. n |-> IF i = 0 THEN 0 ELSE x[i - 1] * Base + ch(i)]
           d == LowFirst(p, n, le)
<1>1. Len(p) = n
  BY DEF Digits
<1>2. PICK a : IsValue(a, d, n)
  BY LowFirstTyped, ValueExists
<1>3. \A i \in 1 .. n : d[n - i + 1] = ch(i)
  <2>1. \A i \in 1 .. n : n - i + 1 \in 1 .. n /\ n - (n - i + 1) + 1 = i
    OBVIOUS
  <2> QED BY <2>1 DEF LowFirst
<1> DEFINE x == CHOOSE g : g = E(g)
<1>4. Cnt!next_value(p, le) = x[n]
  BY <1>1 DEF Cnt!next_value
<1> HIDE DEF d, ch
<1> DEFINE b == [i \in 0 .. n |-> a[i]]
<1>5. b = E(b)
  <2>1. \A i \in 0 .. n : i # 0 => i \in 1 .. n /\ i - 1 \in 0 .. n
    OBVIOUS
  <2>2. \A i \in 0 .. n : a[i] = IF i = 0 THEN 0 ELSE b[i - 1] * Base + ch(i)
    BY <1>2, <1>3, <2>1 DEF IsValue
  <2> QED BY <2>2
<1>6. x = E(x)
  <2> HIDE DEF b, E
  <2> QED BY <1>5
<1> HIDE DEF x
<1>7. IsValue(x, d, n)
  <2>1. \A i \in 0 .. n : x[i] = IF i = 0 THEN 0 ELSE x[i - 1] * Base + ch(i)
    BY <1>6
  <2>2. 0 \in 0 .. n /\ \A i \in 1 .. n : i \in 0 .. n /\ i # 0
    OBVIOUS
  <2> HIDE DEF E
  <2> QED BY <1>3, <2>1, <2>2 DEF IsValue
<1> QED BY <1>4, <1>7 DEF d
\* A number handed out is one of the counter's period.
LEMMA NextValueBelow ==
  ASSUME Base \in Nat \ {0}, NEW n \in Nat, NEW p \in Digits(n), NEW le \in BOOLEAN
  PROVE  Cnt!next_value(p, le) \in Nat /\ Cnt!next_value(p, le) < Cnt!Period[n]
<1>1. PICK x : IsValue(x, LowFirst(p, n, le), n) /\ Cnt!next_value(p, le) = x[n]
  BY NextValue
<1>2. n \in 0 .. n
  OBVIOUS
<1>3. x[n] \in Nat /\ x[n] < Cnt!Period[n]
  BY <1>1, <1>2, LowFirstTyped, ValueBelow
<1> QED BY <1>1, <1>3

\* What inc_func makes of the bytes, seen with the least significant one first.
LEMMA IncFunc ==
  ASSUME Base \in Nat \ {0}, NEW n \in Nat, NEW p \in Digits(n), NEW le \in BOOLEAN
  PROVE  \E c, q :
           /\ Cnt!inc_func(p, le) = [p |-> q, carry |-> c[n]] /\ q \in Digits(n)
           /\ IsCarry(c, LowFirst(p, n, le), n)
           /\ \A i \in 1 .. n :
                LowFirst(q, n, le)[i] = (LowFirst(p, n, le)[i] + c[i - 1]) % Base
<1> DEFINE d == LowFirst(p, n, le)
<1>1. ASSUME NEW c, IsCarry(c, d, n), NEW i \in 1 .. n
      PROVE  (d[i] + c[i - 1]) % Base \in 0 .. (Base - 1)
  <2>1. d[i] \in 0 .. (Base - 1)
    BY LowFirstTyped DEF Digits
  <2>2. i - 1 \in 0 .. n /\ c[i - 1] \in 0 .. 1
    <3>1. i - 1 \in 0 .. n
      OBVIOUS
    <3> QED BY <1>1, <3>1, LowFirstTyped, CarryIsBit
  <2> HIDE DEF d
  <2> QED BY <2>1, <2>2, AddToByte
<1>2. CASE le
  <2>1. \A i \in 1 .. n : d[i] = p[i]
    BY <1>2 DEF LowFirst
  <2>2. d = p
    BY <1>2 DEF LowFirst, Digits
  <2>3. PICK c : /\ IsCarry(c, p, n)
                 /\ Cnt!CounterLEObject_increment(p)
                      = [p |-> [i \in 1 .. n |-> (p[i] + c[i - 1]) % Base], carry |-> c[n]]
    BY LittleEndian
  <2> DEFINE q == [i \in 1 .. n |-> (p[i] + c[i - 1]) % Base]
  <2>4. Cnt!inc_func(p, le) = [p |-> q, carry |-> c[n]]
    BY <1>2, <2>3 DEF Cnt!inc_func
  <2>5. q \in Digits(n)
    BY <1>1, <2>1, <2>2, <2>3 DEF Digits
  <2>6. \A i \in 1 .. n : LowFirst(q, n, le)[i] = (d[i] + c[i - 1]) % Base
    <3> HIDE DEF d
    <3> QED BY <1>2, <2>1 DEF LowFirst
  <2> HIDE DEF q, d
  <2>7. /\ Cnt!inc_func(p, le) = [p |-> q, carry |-> c[n]] /\ q \in Digits(n)
        /\ IsCarry(c, d, n)
        /\ \A i \in 1 .. n : LowFirst(q, n, le)[i] = (d[i] + c[i - 1]) % Base
    BY <2>2, <2>3, <2>4, <2>5, <2>6
  <2> QED BY <2>7 DEF d
<1>3. CASE ~le
  <2>1. \A i \in 1 .. n : n - i + 1 \in 1 .. n /\ n - (n - i + 1) + 1 = i
                          /\ n - (n - i + 1) = i - 1 /\ (n - i + 1) - 1 = n - i
    OBVIOUS
  <2>2. d = LowFirst(p, n, FALSE)
    BY <1>3 DEF LowFirst
  <2>3. \A i \in 1 .. n : d[i] = p[n - i + 1]
    BY <1>3 DEF LowFirst
  <2>4. PICK c : /\ IsCarry(c, LowFirst(p, n, FALSE), n)
                 /\ Cnt!CounterBEObject_increment(p)
                      = [p |-> [i \in 1 .. n |-> (p[i] + c[n - i]) % Base], carry |-> c[n]]
    BY BigEndian
  <2> DEFINE q == [i \in 1 .. n |-> (p[i] + c[n - i]) % Base]
  <2>5. Cnt!inc_func(p, le) = [p |-> q, carry |-> c[n]]
    BY <1>3, <2>4 DEF Cnt!inc_func
  <2>6. q \in Digits(n)
    <3>1. IsCarry(c, d, n)
      BY <2>2, <2>4
    <3> HIDE DEF d
    <3>2. ASSUME NEW i \in 1 .. n PROVE (p[i] + c[n - i]) % Base \in 0 .. (Base - 1)
      <4>1. n - i + 1 \in 1 .. n /\ d[n - i + 1] = p[i] /\ (n - i + 1) - 1 = n - i
        BY <2>1, <2>3
      <4> QED BY <1>1, <3>1, <4>1
    <3> QED BY <3>2 DEF Digits
  <2>7. \A i \in 1 .. n : LowFirst(q, n, le)[i] = (d[i] + c[i - 1]) % Base
    <3>1. \A i \in 1 .. n : LowFirst(q, n, le)[i] = q[n - i + 1]
      BY <1>3 DEF LowFirst
    <3>2. \A i \in 1 .. n : q[n - i + 1] = (p[n - i + 1] + c[i - 1]) % Base
      BY <2>1
    <3> HIDE DEF q, d
    <3> QED BY <2>3, <3>1, <3>2
  <2> HIDE DEF q, d
  <2>8. /\ Cnt!inc_func(p, le) = [p |-> q, carry |-> c[n]] /\ q \in Digits(n)
        /\ IsCarry(c, d, n)
        /\ \A i \in 1 .. n : LowFirst(q, n, le)[i] = (d[i] + c[i - 1]) % Base
    BY <2>2, <2>4, <2>5, <2>6, <2>7
  <2> QED BY <2>8 DEF d
<1> QED BY <1>2, <1>3

\* Either loop counts on by one, and starts over at zero exactly when it carries.
LEMMA CountsOn ==
  ASSUME Base \in Nat \ {0}, NEW n \in Nat, NEW p \in Digits(n), NEW le \in BOOLEAN
  PROVE  LET inc == Cnt!inc_func(p, le)
             v == Cnt!next_value(p, le)
             w == Cnt!next_value(inc.p, le)
         IN /\ inc.p \in Digits(n) /\ inc.carry \in 0 .. 1
            /\ v \in Nat /\ w \in Nat /\ v < Cnt!Period[n] /\ w < Cnt!Period[n]
            /\ w = IF inc.carry = 1 THEN 0 ELSE v + 1
            /\ inc.carry = 1 <=> v + 1 = Cnt!Period[n]
<1> DEFINE inc == Cnt!inc_func(p, le)
           v == Cnt!next_value(p, le)
           w == Cnt!next_value(inc.p, le)
           P == Cnt!Period[n]
<1>1. PICK c, q :
        /\ inc = [p |-> q, carry |-> c[n]] /\ q \in Digits(n)
        /\ IsCarry(c, LowFirst(p, n, le), n)
        /\ \A i \in 1 .. n : LowFirst(q, n, le)[i] = (LowFirst(p, n, le)[i] + c[i - 1]) % Base
  BY IncFunc
<1>2. inc.p = q /\ inc.carry = c[n] /\ inc.p \in Digits(n)
  BY <1>1
<1>3. v \in Nat /\ w \in Nat /\ v < P /\ w < P
  <2> HIDE DEF inc
  <2> QED BY <1>2, NextValueBelow
<1>4. c[n] \in 0 .. 1
  <2>1. n \in 0 .. n
    OBVIOUS
  <2> QED BY <1>1, <2>1, LowFirstTyped, CarryIsBit
<1>5. w + c[n] * P = v + 1
  <2>1. PICK x : IsValue(x, LowFirst(p, n, le), n) /\ v = x[n]
    BY NextValue
  <2>2. PICK y : IsValue(y, LowFirst(q, n, le), n) /\ w = y[n]
    BY <1>1, <1>2, NextValue
  <2>3. y[n] + c[n] * P = x[n] + 1
    BY <1>1, <2>1, <2>2, LowFirstTyped, IncrementAdds
  <2> QED BY <2>1, <2>2, <2>3
<1> HIDE DEF inc, v, w, P
<1>6. P \in Nat
  BY Periods DEF P
<1>7. (w = IF c[n] = 1 THEN 0 ELSE v + 1) /\ (c[n] = 1 <=> v + 1 = P)
  <2>1. CASE c[n] = 1
    <3>1. w + P = v + 1
      BY <1>5, <1>6, <2>1
    <3> QED BY <1>3, <1>6, <2>1, <3>1
  <2>2. CASE c[n] = 0
    <3>1. w = v + 1
      BY <1>3, <1>5, <1>6, <2>2
    <3> QED BY <1>3, <1>6, <2>2, <3>1
  <2> QED BY <1>4, <2>1, <2>2
<1>8. /\ inc.p \in Digits(n) /\ inc.carry \in 0 .. 1
      /\ v \in Nat /\ w \in Nat /\ v < P /\ w < P
      /\ w = IF inc.carry = 1 THEN 0 ELSE v + 1
      /\ inc.carry = 1 <=> v + 1 = P
  BY <1>2, <1>3, <1>4, <1>7
<1> QED BY <1>8 DEF inc, v, w, P

\* Counter.py passes as many bytes as it announces.
LEMMA EncodeTyped ==
  ASSUME Base \in Nat \ {0}, NEW v \in Nat, NEW n \in Nat, NEW le \in BOOLEAN
  PROVE  Cnt!_encode(v, n, le) \in Digits(n)
<1> DEFINE s == [i \in 1 .. n |-> (v \div Cnt!Period[i - 1]) % Base]
<1>1. ASSUME NEW i \in 1 .. n PROVE (v \div Cnt!Period[i - 1]) % Base \in 0 .. (Base - 1)
  <2>1. Cnt!Period[i - 1] \in Nat \ {0}
    BY Periods
  <2> DEFINE q == v \div Cnt!Period[i - 1]
  <2>2. q \in Int
    BY <2>1
  <2> HIDE DEF q
  <2>3. q % Base \in 0 .. (Base - 1)
    BY <2>2
  <2> QED BY <2>3 DEF q
<1>2. s \in Digits(n)
  BY <1>1 DEF Digits
<1>3. Cnt!_encode(v, n, le) = IF le THEN s ELSE Cnt!Reverse(s)
  BY DEF Cnt!_encode
<1> HIDE DEF s
<1>4. Cnt!Reverse(s) \in Digits(n)
  <2>1. Len(s) = n
    BY <1>2 DEF Digits
  <2>2. Cnt!Reverse(s) = [i \in 1 .. n |-> s[(n - i) + 1]]
    BY <2>1 DEF Cnt!Reverse
  <2>3. \A i \in 1 .. n : (n - i) + 1 \in 1 .. n
    OBVIOUS
  <2> QED BY <1>2, <2>2, <2>3 DEF Digits
<1> QED BY <1>2, <1>3, <1>4
-----------------------------------------------------------------------------
CounterObjects ==
  [live : {TRUE}, p : UNION {Digits(n) : n \in Nat \ {0}}, around : Nat,
   little_endian : BOOLEAN, carry : 0 .. 1,
   allow_wraparound : BOOLEAN, shortcut_disabled : BOOLEAN]

CounterTyped == obj \in CounterObjects \cup {Cnt!NoObject}

\* The counter as the source of blocks it is.
SourceLimit == IF obj.live THEN Cnt!Period[Len(obj.p)] ELSE 1
SourceWraps == IF obj.live THEN obj.allow_wraparound ELSE FALSE
SourceValue == IF ~obj.live THEN 0
          ELSE IF Cnt!Overflowed(obj) THEN Cnt!Period[Len(obj.p)]
          ELSE Cnt!next_value(obj.p, obj.little_endian)

\* A counter there is has bytes, and knows how many.
LEMMA LiveTyped ==
  ASSUME CounterTyped
  PROVE  /\ obj.live \in BOOLEAN
         /\ obj.live => /\ obj \in CounterObjects /\ Len(obj.p) \in Nat \ {0}
                        /\ obj.p \in Digits(Len(obj.p))
<1>1. CASE obj \in CounterObjects
  <2>1. PICK n \in Nat \ {0} : obj.p \in Digits(n)
    BY <1>1 DEF CounterObjects
  <2>2. Len(obj.p) = n
    BY <2>1 DEF Digits
  <2>3. obj.live = TRUE
    BY <1>1 DEF CounterObjects
  <2> QED BY <1>1, <2>1, <2>2, <2>3
<1>2. CASE obj = Cnt!NoObject
  BY <1>2 DEF Cnt!NoObject
<1> QED BY <1>1, <1>2 DEF CounterTyped

\* A new counter starts a round.
LEMMA NewStarts ==
  ASSUME Base \in Nat \ {0}, MaxBytes \in Nat, CounterTyped,
         NEW nbytes \in 0 .. (MaxBytes + 1), NEW prefix \in 0 .. (MaxBytes + 1),
         NEW suffix \in 0 .. (MaxBytes + 1), NEW initial \in 0 .. Cnt!Period[MaxBytes],
         NEW le \in BOOLEAN, NEW allow \in BOOLEAN, NEW disable \in BOOLEAN,
         Cnt!new(nbytes, prefix, suffix, initial, le, allow, disable)
  PROVE  CounterTyped' /\ Cnt!Source!Start
<1> DEFINE p == Cnt!_encode(initial, nbytes, le)
<1>1. nbytes \in Nat \ {0} /\ prefix + suffix \in Nat /\ initial \in Nat
  <2>1. nbytes \in 1 .. MaxBytes
    BY DEF Cnt!new, Cnt!Accepted
  <2>2. Cnt!Period[MaxBytes] \in Nat
    BY Periods
  <2> QED BY <2>1, <2>2
<1>2. p \in Digits(nbytes)
  BY <1>1, EncodeTyped
<1>3. /\ obj' = [live |-> TRUE, p |-> p, around |-> prefix + suffix, little_endian |-> le,
                 carry |-> 0, allow_wraparound |-> allow, shortcut_disabled |-> disable]
      /\ given' = {}
  BY DEF Cnt!new, Cnt!InitObject
<1> HIDE DEF p
<1>4. /\ obj'.live = TRUE /\ obj'.p = p /\ obj'.little_endian = le /\ obj'.carry = 0
      /\ obj'.allow_wraparound = allow
  BY <1>3
<1>5. Len(p) = nbytes
  BY <1>1, <1>2 DEF Digits
<1>6. CounterTyped'
  <2>1. obj' \in CounterObjects
    BY <1>1, <1>2, <1>3 DEF CounterObjects
  <2> QED BY <2>1 DEF CounterTyped
<1>7. /\ Cnt!Period[nbytes] \in Nat \ {0} /\ Cnt!next_value(p, le) \in Nat
      /\ Cnt!next_value(p, le) < Cnt!Period[nbytes]
  BY <1>1, <1>2, Periods, NextValueBelow
<1>8. Cnt!Source!Start
  BY <1>3, <1>4, <1>5, <1>7 DEF Cnt!Source!Start, Cnt!Source!Fresh, Cnt!Overflowed
<1> QED BY <1>6, <1>8

\* A call gives the next number, and notes in carry that it was the last one.
LEMMA CallGives ==
  ASSUME Base \in Nat \ {0}, CounterTyped, Cnt!CounterObject_call
  PROVE  CounterTyped' /\ Cnt!Source!Give
<1> DEFINE n == Len(obj.p)
           inc == Cnt!inc_func(obj.p, obj.little_endian)
           v == Cnt!next_value(obj.p, obj.little_endian)
           w == Cnt!next_value(inc.p, obj.little_endian)
<1>1. obj \in CounterObjects /\ n \in Nat \ {0} /\ obj.p \in Digits(n) /\ obj.live = TRUE
  BY LiveTyped DEF Cnt!CounterObject_call
<1>2. obj.little_endian \in BOOLEAN /\ obj.allow_wraparound \in BOOLEAN
  BY <1>1 DEF CounterObjects
<1>3. /\ inc.p \in Digits(n) /\ inc.carry \in 0 .. 1
      /\ v \in Nat /\ w \in Nat /\ v < Cnt!Period[n] /\ w < Cnt!Period[n]
      /\ w = IF inc.carry = 1 THEN 0 ELSE v + 1
      /\ inc.carry = 1 <=> v + 1 = Cnt!Period[n]
  BY <1>1, <1>2, CountsOn
<1>4. /\ obj' = [obj EXCEPT !.p = inc.p, !.carry = inc.carry]
      /\ given' = IF inc.carry = 1 /\ obj.allow_wraparound THEN {} ELSE given \cup {v}
      /\ ~Cnt!Overflowed(obj)
  BY DEF Cnt!CounterObject_call
<1> HIDE DEF n, inc, v, w
<1>5. /\ obj' \in CounterObjects /\ obj'.live = TRUE /\ obj'.p = inc.p
      /\ obj'.little_endian = obj.little_endian /\ obj'.carry = inc.carry
      /\ obj'.allow_wraparound = obj.allow_wraparound
  BY <1>1, <1>3, <1>4 DEF CounterObjects
<1>6. Len(inc.p) = n
  BY <1>1, <1>3 DEF Digits
<1>7. Cnt!Overflowed(obj') <=> inc.carry = 1 /\ ~obj.allow_wraparound
  BY <1>5 DEF Cnt!Overflowed
<1>8. CounterTyped'
  BY <1>5 DEF CounterTyped
<1>9. Cnt!next_value(obj'.p, obj'.little_endian) = w
  BY <1>5 DEF w
<1>10. SourceLimit = Cnt!Period[n] /\ SourceWraps = obj.allow_wraparound /\ SourceValue = v
  BY <1>1, <1>4 DEF SourceLimit, SourceWraps, SourceValue, n, v
<1>11. /\ SourceLimit' = Cnt!Period[n] /\ SourceWraps' = obj.allow_wraparound
       /\ SourceValue' = IF inc.carry = 1 /\ ~obj.allow_wraparound THEN Cnt!Period[n] ELSE w
  BY <1>5, <1>6, <1>7, <1>9 DEF SourceLimit, SourceWraps, SourceValue
<1>12. Cnt!Source!LastOfRound <=> SourceWraps /\ SourceValue + 1 = SourceLimit
  BY DEF Cnt!Source!LastOfRound, SourceLimit, SourceWraps, SourceValue
<1>13. Cnt!Source!LastOfRound <=> inc.carry = 1 /\ obj.allow_wraparound
  BY <1>3, <1>10, <1>12
<1>14. SourceValue < SourceLimit /\ SourceLimit' = SourceLimit /\ SourceWraps' = SourceWraps
  BY <1>3, <1>10, <1>11
<1>15. SourceValue' = IF Cnt!Source!LastOfRound THEN 0 ELSE SourceValue + 1
  BY <1>3, <1>10, <1>11, <1>13
<1>16. given' = IF Cnt!Source!LastOfRound THEN {} ELSE given \cup {SourceValue}
  BY <1>4, <1>10, <1>13
<1>17. Cnt!Source!Give
  BY <1>14, <1>15, <1>16 DEF Cnt!Source!Give, SourceLimit, SourceWraps, SourceValue
<1> QED BY <1>8, <1>17

\* Counter objects of any length, of bytes of any size and in either order, are
\* sources of blocks: new ones and their deallocation start a round, a call gives
\* the number that follows the last one given, and starts over or refuses at the
\* end; calls that fail give nothing (_counter.c:230-289).
THEOREM ImplementsBlockSourceHolds ==
  ASSUME Base \in Nat \ {0}, MaxBytes \in Nat
  PROVE  Cnt!Spec => ImplementsBlockSource
<1>1. Cnt!Init => CounterTyped
  BY DEF Cnt!Init, CounterTyped
<1>2. Cnt!Init => Cnt!Source!Init
  BY DEF Cnt!Init, Cnt!NoObject, Cnt!Source!Init, Cnt!Source!Fresh
<1>3. CounterTyped /\ [Cnt!Next]_Cnt!vars => CounterTyped' /\ [Cnt!Source!Next]_Cnt!Source!vars
  <2> SUFFICES ASSUME CounterTyped, [Cnt!Next]_Cnt!vars
               PROVE  CounterTyped' /\ [Cnt!Source!Next]_Cnt!Source!vars
    OBVIOUS
  <2>1. ASSUME NEW nbytes \in 0 .. (MaxBytes + 1), NEW prefix \in 0 .. (MaxBytes + 1),
               NEW suffix \in 0 .. (MaxBytes + 1), NEW initial \in 0 .. Cnt!Period[MaxBytes],
               NEW le \in BOOLEAN, NEW allow \in BOOLEAN, NEW disable \in BOOLEAN,
               Cnt!new(nbytes, prefix, suffix, initial, le, allow, disable)
        PROVE  CounterTyped' /\ [Cnt!Source!Next]_Cnt!Source!vars
    BY <2>1, NewStarts DEF Cnt!Source!Next
  <2>2. CASE Cnt!CounterObject_call
    BY <2>2, CallGives DEF Cnt!Source!Next
  <2>3. CASE Cnt!CounterObject_dealloc
    <3>1. obj' = Cnt!NoObject /\ given' = {} /\ obj'.live = FALSE
      BY <2>3 DEF Cnt!CounterObject_dealloc, Cnt!NoObject
    <3>2. CounterTyped'
      BY <3>1 DEF CounterTyped, Cnt!NoObject
    <3>3. SourceLimit' = 1 /\ SourceWraps' = FALSE /\ SourceValue' = 0
      BY <3>1 DEF SourceLimit, SourceWraps, SourceValue
    <3>4. SourceLimit' \in Nat \ {0} /\ SourceValue' \in Nat /\ SourceValue' < SourceLimit'
      BY <3>3
    <3>5. SourceWraps' \in BOOLEAN
      BY <3>3, Zenon
    <3>6. Cnt!Source!Start
      BY <3>1, <3>4, <3>5 DEF Cnt!Source!Start, Cnt!Source!Fresh,
         SourceLimit, SourceWraps, SourceValue
    <3> QED BY <3>2, <3>6 DEF Cnt!Source!Next
  <2>4. CASE UNCHANGED <<obj, given>>
    <3>1. CounterTyped'
      BY <2>4 DEF CounterTyped, Cnt!NoObject
    <3>2. UNCHANGED Cnt!Source!vars
      BY <2>4 DEF Cnt!Source!vars, Cnt!Overflowed
    <3> QED BY <3>1, <3>2
  <2>5. CASE Cnt!call_raises
    BY <2>4, <2>5 DEF Cnt!call_raises
  <2>6. ASSUME NEW nbytes \in 0 .. (MaxBytes + 1), NEW prefix \in 0 .. (MaxBytes + 1),
               NEW suffix \in 0 .. (MaxBytes + 1), Cnt!new_fails(nbytes, prefix, suffix)
        PROVE  CounterTyped' /\ [Cnt!Source!Next]_Cnt!Source!vars
    BY <2>4, <2>6 DEF Cnt!new_fails
  <2>7. CASE UNCHANGED Cnt!vars
    BY <2>4, <2>7 DEF Cnt!vars
  <2> QED BY <2>1, <2>2, <2>3, <2>5, <2>6, <2>7 DEF Cnt!Next
<1> QED BY <1>1, <1>2, <1>3, PTL DEF Cnt!Spec, ImplementsBlockSource, Cnt!ImplementsBlockSource,
   Cnt!Source!Spec

\* The beginning of a round, and a number given.
LEMMA RoundStarts ==
  /\ Cnt!Source!Fresh <=> /\ SourceLimit \in Nat \ {0} /\ SourceWraps \in BOOLEAN
                          /\ SourceValue \in Nat /\ SourceValue < SourceLimit /\ given = {}
  /\ Cnt!Source!Start <=> /\ SourceLimit' \in Nat \ {0} /\ SourceWraps' \in BOOLEAN
                          /\ SourceValue' \in Nat /\ SourceValue' < SourceLimit' /\ given' = {}
BY DEF Cnt!Source!Start, Cnt!Source!Fresh, SourceLimit, SourceWraps, SourceValue

\* A number given is the next one of its round; the round goes on or ends with it.
LEMMA NumberGiven ==
  ASSUME Cnt!Source!Give
  PROVE  /\ SourceValue < SourceLimit /\ SourceLimit' = SourceLimit /\ SourceWraps' = SourceWraps
         /\ \/ SourceValue' = 0 /\ given' = {}
            \/ SourceValue' = SourceValue + 1 /\ given' = given \cup {SourceValue}
<1>1. CASE Cnt!Source!LastOfRound
  BY <1>1 DEF Cnt!Source!Give, SourceLimit, SourceWraps, SourceValue
<1>2. CASE ~Cnt!Source!LastOfRound
  BY <1>2 DEF Cnt!Source!Give, SourceLimit, SourceWraps, SourceValue
<1> QED BY <1>1, <1>2

\* What was given lies below what comes next.
LEMMA BelowMeans ==
  /\ Cnt!Source!GivenBelow
       <=> /\ SourceWraps \in BOOLEAN /\ SourceLimit \in Nat \ {0}
           /\ SourceValue \in Nat /\ SourceValue <= SourceLimit
           /\ \A v \in given : v \in Nat /\ v < SourceValue
  /\ Cnt!Source!GivenBelow'
       <=> /\ SourceWraps' \in BOOLEAN /\ SourceLimit' \in Nat \ {0}
           /\ SourceValue' \in Nat /\ SourceValue' <= SourceLimit'
           /\ \A v \in given' : v \in Nat /\ v < SourceValue'
BY DEF Cnt!Source!GivenBelow, Cnt!Source!Numbers, SourceLimit, SourceWraps, SourceValue

\* A source of blocks, whatever its size and whether or not it wraps, has given
\* only numbers below the next one: the invariant behind NeverTwice.
THEOREM GivenBelowHolds == Cnt!Source!Spec => []Cnt!Source!GivenBelow
<1>1. Cnt!Source!Init => Cnt!Source!GivenBelow
  BY RoundStarts, BelowMeans DEF Cnt!Source!Init
<1>2. Cnt!Source!GivenBelow /\ [Cnt!Source!Next]_Cnt!Source!vars => Cnt!Source!GivenBelow'
  <2> SUFFICES ASSUME Cnt!Source!GivenBelow, [Cnt!Source!Next]_Cnt!Source!vars
               PROVE  Cnt!Source!GivenBelow'
    OBVIOUS
  <2>1. CASE Cnt!Source!Start
    BY <2>1, RoundStarts, BelowMeans
  <2>2. CASE Cnt!Source!Give
    BY <2>2, NumberGiven, BelowMeans
  <2>3. CASE UNCHANGED Cnt!Source!vars
    <3>1. UNCHANGED <<SourceLimit, SourceWraps, SourceValue, given>>
      BY <2>3 DEF Cnt!Source!vars, SourceLimit, SourceWraps, SourceValue
    <3> QED BY <3>1, BelowMeans
  <2> QED BY <2>1, <2>2, <2>3 DEF Cnt!Source!Next
<1> QED BY <1>1, <1>2, PTL DEF Cnt!Source!Spec

\* Hence a source of blocks gives none of them twice in a round.
THEOREM NeverTwiceHolds == Cnt!Source!Spec => Cnt!Source!NeverTwice
<1>1. Cnt!Source!GivenBelow => [Cnt!Source!Give => SourceValue \notin given]_Cnt!Source!vars
  BY BelowMeans
<1>2. Cnt!Source!Spec => [][Cnt!Source!Give => SourceValue \notin given]_Cnt!Source!vars
  BY <1>1, GivenBelowHolds, PTL
<1> QED BY <1>2 DEF Cnt!Source!NeverTwice, SourceValue

\* Hence no counter object hands out a number twice in a round, neither before
\* it wraps nor before it refuses (_counter.c:273-289).
THEOREM CounterNeverTwiceHolds ==
  ASSUME Base \in Nat \ {0}, MaxBytes \in Nat
  PROVE  Cnt!Spec => Cnt!Source!NeverTwice
<1>1. Cnt!Spec => Cnt!Source!Spec
  BY ImplementsBlockSourceHolds DEF ImplementsBlockSource, Cnt!ImplementsBlockSource
<1>2. Cnt!Source!Spec => Cnt!Source!NeverTwice
  BY NeverTwiceHolds
<1> QED BY <1>1, <1>2, PTL

-----------------------------------------------------------------------------
(* HashObject: the digest is that of the whole message.                    *)

\* The bytes of messages, and what stands for bytes in the padding.
Octet == Bytes \cup Int
Buffer == [1 .. BLOCK_SIZE -> Octet]

\* The states of a hash object, with room left in the buffer; and with none.
Filling(counts) ==
  [blocks : Seq(Buffer), buf : Buffer, count : counts, len1 : Nat, len2 : Nat]
Open == Filling(0 .. (BLOCK_SIZE - 1))
Full == Filling(0 .. BLOCK_SIZE)

\* The blocks compressed and the bytes in the buffer are message m.
Held(hs, m) ==
  /\ Len(m) = BLOCK_SIZE * Len(hs.blocks) + hs.count
  /\ \A k \in 1 .. Len(hs.blocks) : \A i \in 1 .. BLOCK_SIZE :
       hs.blocks[k][i] = m[(k - 1) * BLOCK_SIZE + i]
  /\ \A i \in 1 .. hs.count : hs.buf[i] = m[BLOCK_SIZE * Len(hs.blocks) + i]

\* The k-th of q blocks lies within them.
LEMMA Within ==
  ASSUME NEW B \in Nat, NEW q \in Nat, NEW k \in 1 .. q
  PROVE  /\ (k - 1) * B \in Nat /\ (q - k) * B \in Nat
         /\ k * B = (k - 1) * B + B /\ B * q = (k - 1) * B + B + (q - k) * B
<1>1. k - 1 \in Nat /\ q - k \in Nat
  OBVIOUS
<1>2. \A a, b \in Nat : B * (a + b) = a * B + b * B /\ a * B \in Nat
  OBVIOUS
<1>3. B * ((k - 1) + 1) = (k - 1) * B + 1 * B /\ 1 * B = B
  BY <1>1, <1>2
<1>4. k * B = (k - 1) * B + B
  <2>1. (k - 1) + 1 = k /\ B * k = k * B
    OBVIOUS
  <2> QED BY <1>3, <2>1
<1>5. B * (k + (q - k)) = k * B + (q - k) * B
  BY <1>1, <1>2
<1>6. k + (q - k) = q
  OBVIOUS
<1> QED BY <1>1, <1>2, <1>4, <1>5, <1>6

\* A part of a message as long as a block is the block with its bytes.
LEMMA SameBlock ==
  ASSUME NEW f \in Buffer, NEW z \in Seq(Octet), Len(z) = BLOCK_SIZE,
         \A i \in 1 .. BLOCK_SIZE : f[i] = z[i]
  PROVE  f = z
<1>1. z \in [1 .. Len(z) -> Octet]
  OBVIOUS
<1>2. z = [i \in 1 .. BLOCK_SIZE |-> z[i]]
  BY <1>1
<1>3. f = [i \in 1 .. BLOCK_SIZE |-> f[i]]
  BY DEF Buffer
<1> QED BY <1>2, <1>3

\* g is hs with the bytes p after those in the buffer.
Takes(g, hs, p) ==
  /\ g \in Full /\ g.blocks = hs.blocks /\ g.count = hs.count + Len(p)
  /\ \A i \in 1 .. hs.count : g.buf[i] = hs.buf[i]
  /\ \A i \in 1 .. Len(p) : g.buf[hs.count + i] = p[i]

\* Then it holds the message with p at its end.
LEMMA TakesHeld ==
  ASSUME NEW hs \in Full, NEW g, NEW m \in Seq(Octet), NEW p \in Seq(Octet),
         Held(hs, m), Takes(g, hs, p)
  PROVE  Held(g, m \o p) /\ m \o p \in Seq(Octet)
<1> DEFINE q == Len(hs.blocks)
           c == hs.count
           Q == BLOCK_SIZE * q
<1>1. q \in Nat /\ c \in Nat /\ Q \in Nat /\ Len(m) \in Nat /\ Len(p) \in Nat
  BY SizeAssumption DEF Full, Filling
<1>2. Len(m) = Q + c
  BY DEF Held
<1>3. m \o p \in Seq(Octet) /\ Len(m \o p) = Q + (c + Len(p))
  BY <1>1, <1>2
<1>4. \A i \in 1 .. (Q + c) : (m \o p)[i] = m[i]
  BY <1>1, <1>2
<1>5. \A i \in 1 .. Len(p) : (m \o p)[Q + (c + i)] = p[i]
  <2>1. \A i \in 1 .. Len(p) : (m \o p)[Len(m) + i] = p[i]
    OBVIOUS
  <2> HIDE DEF Q, c
  <2>2. \A i \in 1 .. Len(p) : Q + (c + i) = Len(m) + i
    BY <1>1, <1>2
  <2> QED BY <2>1, <2>2
<1>6. \A k \in 1 .. q : \A i \in 1 .. BLOCK_SIZE : (k - 1) * BLOCK_SIZE + i \in 1 .. Q
  <2> SUFFICES ASSUME NEW k \in 1 .. q, NEW i \in 1 .. BLOCK_SIZE
               PROVE  (k - 1) * BLOCK_SIZE + i \in 1 .. Q
    OBVIOUS
  <2> HIDE DEF q
  <2>1. /\ (k - 1) * BLOCK_SIZE \in Nat /\ (q - k) * BLOCK_SIZE \in Nat
        /\ Q = (k - 1) * BLOCK_SIZE + BLOCK_SIZE + (q - k) * BLOCK_SIZE
    <3>1. BLOCK_SIZE \in Nat /\ q \in Nat
      BY <1>1, SizeAssumption
    <3> QED BY <3>1, Within
  <2> DEFINE before == (k - 1) * BLOCK_SIZE
             after  == (q - k) * BLOCK_SIZE
  <2>2. /\ before \in Nat /\ after \in Nat /\ BLOCK_SIZE \in Nat
        /\ Q = before + BLOCK_SIZE + after
    BY <2>1, SizeAssumption
  <2>3. before + i \in 1 .. Q
    <3> HIDE DEF Q, before, after
    <3> QED BY <2>2
  <2> QED BY <2>3
<1>7. g.blocks = hs.blocks /\ g.count = c + Len(p)
  BY DEF Takes
<1>8. \A k \in 1 .. q : \A i \in 1 .. BLOCK_SIZE :
        g.blocks[k][i] = (m \o p)[(k - 1) * BLOCK_SIZE + i]
  BY <1>1, <1>4, <1>6, <1>7 DEF Held
<1>9. ASSUME NEW i \in 1 .. (c + Len(p)) PROVE g.buf[i] = (m \o p)[Q + i]
  <2>1. CASE i \in 1 .. c
    <3>1. g.buf[i] = m[Q + i]
      BY <2>1 DEF Takes, Held
    <3> HIDE DEF Q, q, c
    <3>2. Q + i \in 1 .. (Q + c)
      BY <1>1, <2>1
    <3> QED BY <1>4, <3>1, <3>2
  <2>2. CASE i \notin 1 .. c
    <3> DEFINE j == i - c
    <3>1. j \in 1 .. Len(p) /\ c + j = i
      BY <1>1, <2>2
    <3>2. g.buf[c + j] = p[j]
      BY <3>1 DEF Takes
    <3>3. (m \o p)[Q + (c + j)] = p[j]
      BY <1>5, <3>1
    <3> QED BY <3>1, <3>2, <3>3
  <2> QED BY <2>1, <2>2
<1> QED BY <1>3, <1>7, <1>8, <1>9 DEF Held

\* A full buffer is compressed: the message is the same.
LEMMA CompressHeld ==
  ASSUME NEW hs \in Full, NEW g, NEW m, Held(hs, m), hs.count = BLOCK_SIZE,
         g \in Open, g.blocks = Append(hs.blocks, hs.buf), g.count = 0
  PROVE  Held(g, m)
<1> DEFINE q == Len(hs.blocks)
<1>1. q \in Nat /\ hs.blocks \in Seq(Buffer) /\ hs.buf \in Buffer /\ BLOCK_SIZE \in Nat
  BY SizeAssumption DEF Full, Filling
<1>2. /\ Len(g.blocks) = q + 1 /\ g.blocks[q + 1] = hs.buf
      /\ \A k \in 1 .. q : g.blocks[k] = hs.blocks[k]
  BY <1>1
<1>3. BLOCK_SIZE * q + BLOCK_SIZE = BLOCK_SIZE * (q + 1) + 0
  BY <1>1
<1>4. Len(m) = BLOCK_SIZE * Len(g.blocks) + g.count
  BY <1>2, <1>3 DEF Held
<1>5. ASSUME NEW k \in 1 .. (q + 1), NEW i \in 1 .. BLOCK_SIZE
      PROVE  g.blocks[k][i] = m[(k - 1) * BLOCK_SIZE + i]
  <2>1. CASE k = q + 1
    <3>1. (k - 1) * BLOCK_SIZE = BLOCK_SIZE * q
      BY <1>1, <2>1
    <3>2. hs.buf[i] = m[BLOCK_SIZE * q + i]
      BY DEF Held
    <3> QED BY <1>2, <2>1, <3>1, <3>2
  <2>2. CASE k # q + 1
    <3>1. k \in 1 .. q
      BY <1>1, <2>2
    <3>2. hs.blocks[k][i] = m[(k - 1) * BLOCK_SIZE + i]
      BY <3>1 DEF Held
    <3> QED BY <1>2, <3>1, <3>2
  <2> QED BY <2>1, <2>2
<1>6. \A i \in 1 .. g.count : g.buf[i] = m[BLOCK_SIZE * Len(g.blocks) + i]
  OBVIOUS
<1> QED BY <1>2, <1>4, <1>5, <1>6 DEF Held

\* With nothing in the buffer, the blocks are those of the message.
LEMMA BlocksOf ==
  ASSUME NEW hs \in Full, NEW m \in Seq(Octet), Held(hs, m), hs.count = 0
  PROVE  hs.blocks = Hash!Blocks(m)
<1> DEFINE q == Len(hs.blocks)
<1>1. q \in Nat /\ hs.blocks \in Seq(Buffer) /\ BLOCK_SIZE \in Nat \ {0} /\ Len(m) \in Nat
  BY SizeAssumption DEF Full, Filling
<1>2. Len(m) = BLOCK_SIZE * q + 0
  BY <1>1 DEF Held
<1>3. Len(m) \div BLOCK_SIZE = q
  <2>1. 0 \in 0 .. (BLOCK_SIZE - 1)
    BY <1>1
  <2> QED BY <1>1, <1>2, <2>1, DivMod
<1>4. ASSUME NEW k \in 1 .. q
      PROVE  hs.blocks[k] = SubSeq(m, (k - 1) * BLOCK_SIZE + 1, k * BLOCK_SIZE)
  <2> DEFINE a == (k - 1) * BLOCK_SIZE
  <2>1. a \in Nat /\ k * BLOCK_SIZE = a + BLOCK_SIZE
    BY <1>1
  <2>2. a + BLOCK_SIZE <= Len(m)
    <3>1. (q - k) * BLOCK_SIZE \in Nat /\ BLOCK_SIZE * q = a + BLOCK_SIZE + (q - k) * BLOCK_SIZE
      <4>1. BLOCK_SIZE \in Nat /\ q \in Nat /\ k \in 1 .. q
        BY <1>1
      <4> HIDE DEF q
      <4> QED BY <4>1, Within
    <3> HIDE DEF a
    <3> QED BY <1>1, <1>2, <2>1, <3>1
  <2>3. \A i \in 1 .. BLOCK_SIZE : hs.blocks[k][i] = m[a + i]
    BY DEF Held
  <2> HIDE DEF a
  <2> DEFINE z == SubSeq(m, a + 1, a + BLOCK_SIZE)
  <2>4. z \in Seq(Octet) /\ Len(z) = BLOCK_SIZE /\ \A i \in 1 .. BLOCK_SIZE : z[i] = m[a + i]
    BY <1>1, <2>1, <2>2
  <2>5. hs.blocks[k] \in Buffer
    BY <1>1
  <2>6. \A i \in 1 .. BLOCK_SIZE : hs.blocks[k][i] = z[i]
    BY <2>3, <2>4
  <2> HIDE DEF z
  <2>7. hs.blocks[k] = z
    BY <2>4, <2>5, <2>6, SameBlock
  <2> QED BY <2>1, <2>7 DEF a, z
<1>5. hs.blocks = [k \in 1 .. q |-> hs.blocks[k]]
  BY <1>1
<1> QED BY <1>3, <1>4, <1>5 DEF Hash!Blocks

-----------------------------------------------------------------------------
(* What the definitions of the model by recursion compute.                 *)

\* f is what h makes of a, step by step up to n.
Recurs(f, a, h, n) == f[0] = a /\ \A i \in 1 .. n : f[i] = h[i - 1][f[i - 1]]

\* A function defined by recursion over the first n numbers exists, and is
\* typed.
LEMMA RecursionUpto ==
  ASSUME NEW T, NEW a \in T, NEW h \in [Nat -> [T -> T]], NEW n \in Nat
  PROVE  \E f \in [0 .. n -> T] : Recurs(f, a, h, n)
<1>1. PICK g \in [Nat -> T] : \A k \in Nat : Follows(g, a, h, k)
  BY PrimitiveRecursion
<1> DEFINE f == [i \in 0 .. n |-> g[i]]
<1>2. f \in [0 .. n -> T]
  OBVIOUS
<1>3. f[0] = a
  BY <1>1 DEF Follows
<1>4. ASSUME NEW i \in 1 .. n PROVE f[i] = h[i - 1][f[i - 1]]
  <2>1. i - 1 \in 0 .. (n - 1) /\ i - 1 \in 0 .. n /\ i \in 0 .. n /\ (i - 1) + 1 = i
    OBVIOUS
  <2>2. g[(i - 1) + 1] = h[i - 1][g[i - 1]]
    BY <1>1, <2>1 DEF Follows
  <2> QED BY <2>1, <2>2
<1> HIDE DEF f
<1>5. Recurs(f, a, h, n)
  BY <1>3, <1>4 DEF Recurs
<1> QED BY <1>2, <1>5

\* A property that the first has and each hands on to the next, all have.
LEMMA InductionUpto ==
  ASSUME NEW S, NEW n \in Nat, 0 \in S, \A i \in 1 .. n : i - 1 \in S => i \in S
  PROVE  0 .. n \subseteq S
<1> DEFINE U == {i \in Nat : i <= n => i \in S}
<1>1. 0 \in U
  OBVIOUS
<1>2. ASSUME NEW i \in Nat, i \in U PROVE i + 1 \in U
  <2> SUFFICES ASSUME i + 1 <= n PROVE i + 1 \in S
    OBVIOUS
  <2>1. i + 1 \in 1 .. n /\ (i + 1) - 1 = i /\ i \in S
    BY <1>2
  <2> QED BY <2>1
<1> HIDE DEF U
<1>3. Nat \subseteq U
  BY <1>1, <1>2, Induction
<1> QED BY <1>3 DEF U

\* Powers of two are positive.
LEMMA Powers == Hash!PowerOfTwo \in [Nat -> Nat \ {0}]
<1> DEFINE h == [i \in Nat |-> [v \in Nat \ {0} |-> 2 * v]]
           E(f) == [n \in Nat |-> IF n = 0 THEN 1 ELSE 2 * f[n - 1]]
<1>1. h \in [Nat -> [Nat \ {0} -> Nat \ {0}]] /\ 1 \in Nat \ {0}
  BY SMT
<1>2. PICK f \in [Nat -> Nat \ {0}] : \A n \in Nat : Follows(f, 1, h, n)
  <2> HIDE DEF h
  <2> QED BY <1>1, PrimitiveRecursion
<1>3. f[0] = 1 /\ \A n \in Nat : f[n + 1] = 2 * f[n]
  <2>1. ASSUME NEW n \in Nat PROVE f[n + 1] = h[n][f[n]]
    <3> HIDE DEF h
    <3>1. n + 1 \in Nat /\ n \in 0 .. ((n + 1) - 1)
      OBVIOUS
    <3>2. Follows(f, 1, h, n + 1)
      BY <1>2, <3>1
    <3> QED BY <3>1, <3>2 DEF Follows
  <2>2. f[0] = 1
    BY <1>2 DEF Follows
  <2> QED BY <1>2, <2>1, <2>2
<1>4. f = E(f)
  <2>1. \A n \in Nat : f[n] = IF n = 0 THEN 1 ELSE 2 * f[n - 1]
    BY <1>3
  <2>2. f = [n \in Nat |-> f[n]]
    BY <1>2
  <2> QED BY <2>1, <2>2
<1> DEFINE P == Hash!PowerOfTwo
<1>5. P = CHOOSE g : g = E(g)
  BY DEF Hash!PowerOfTwo
<1>6. P = E(P)
  BY <1>4, <1>5
<1> HIDE DEF P
<1>7. \A n \in Nat : P[n] = IF n = 0 THEN 1 ELSE 2 * P[n - 1]
  BY <1>6
<1> DEFINE S == {n \in Nat : P[n] \in Nat \ {0}}
<1>8. 0 \in S
  BY <1>7
<1>9. ASSUME NEW n \in Nat, n \in S PROVE n + 1 \in S
  <2>1. n + 1 \in Nat /\ n + 1 # 0 /\ (n + 1) - 1 = n
    OBVIOUS
  <2>2. P[n + 1] = 2 * P[n]
    BY <1>7, <2>1
  <2> QED BY <1>9, <2>1, <2>2
<1> HIDE DEF S
<1>10. Nat \subseteq S
  BY <1>8, <1>9, Induction
<1>11. \A n \in Nat : P[n] \in Nat \ {0}
  BY <1>10 DEF S
<1>12. P = [n \in Nat |-> P[n]]
  BY <1>6
<1>13. P \in [Nat -> Nat \ {0}]
  BY <1>11, <1>12
<1> QED BY <1>13 DEF P

\* A word holds the bits of a block, and a block more than a length.
Geometry ==
  /\ WORD_SIZE \in Nat /\ BITS \in Nat \ {0} /\ 2 * WORD_SIZE < BLOCK_SIZE
  /\ BITS * BLOCK_SIZE < Hash!WordRange

\* There are that many words.
LEMMA WordRangeTyped == ASSUME Geometry PROVE Hash!WordRange \in Nat \ {0}
<1>1. BITS * WORD_SIZE \in Nat
  BY DEF Geometry
<1> QED BY <1>1, Powers DEF Hash!WordRange

\* What division says of its results.
LEMMA Divided ==
  ASSUME NEW x \in Nat, NEW W \in Nat \ {0}
  PROVE  /\ x \div W \in Nat /\ x % W \in 0 .. (W - 1)
         /\ x = W * (x \div W) + (x % W)
<1> DEFINE S == {n \in Nat : \E q \in Nat : \E r \in 0 .. (W - 1) : n = W * q + r}
<1>1. 0 \in S
  <2>1. 0 \in 0 .. (W - 1) /\ 0 = W * 0 + 0
    OBVIOUS
  <2> QED BY <2>1
<1>2. ASSUME NEW n \in Nat, n \in S PROVE n + 1 \in S
  <2>1. PICK q \in Nat : \E r \in 0 .. (W - 1) : n = W * q + r
    BY <1>2
  <2>2. PICK r \in 0 .. (W - 1) : n = W * q + r
    BY <2>1
  <2>3. CASE r < W - 1
    <3>1. r + 1 \in 0 .. (W - 1) /\ n + 1 = W * q + (r + 1)
      BY <2>2, <2>3
    <3> QED BY <3>1
  <2>4. CASE r = W - 1
    <3>1. 0 \in 0 .. (W - 1) /\ q + 1 \in Nat /\ n + 1 = W * (q + 1) + 0
      BY <2>2, <2>4
    <3>2. \E s \in 0 .. (W - 1) : n + 1 = W * (q + 1) + s
      BY <3>1
    <3>3. \E p \in Nat : \E s \in 0 .. (W - 1) : n + 1 = W * p + s
      <4> WITNESS q + 1 \in Nat
      <4> QED BY <3>2
    <3> QED BY <3>3
  <2> QED BY <2>3, <2>4
<1> HIDE DEF S
<1>3. x \in S
  BY <1>1, <1>2, Induction
<1>4. PICK q \in Nat : \E r \in 0 .. (W - 1) : x = W * q + r
  BY <1>3 DEF S
<1>5. PICK r \in 0 .. (W - 1) : x = W * q + r
  BY <1>4
<1> DEFINE dx == x \div W
           mx == x % W
<1>6. dx = q /\ mx = r
  <2> DEFINE y == W * q + r
  <2>1. y \div W = q /\ y % W = r
    BY DivMod
  <2>2. x = y
    BY <1>5
  <2> HIDE DEF y
  <2> QED BY <2>1, <2>2
<1> HIDE DEF dx, mx
<1>7. dx \in Nat /\ mx \in 0 .. (W - 1) /\ x = W * dx + mx
  BY <1>5, <1>6
<1> QED BY <1>7 DEF dx, mx

\* Multiples of the range of a word do not count.
LEMMA AddMultiple ==
  ASSUME NEW W \in Nat \ {0}, NEW y \in Nat, NEW z \in Nat
  PROVE  (W * y + z) % W = z % W /\ (W * y + z) \div W = y + z \div W
<1> DEFINE d == z \div W
           r == z % W
<1>1. d \in Nat /\ r \in 0 .. (W - 1) /\ z = W * d + r
  BY Divided
<1> HIDE DEF d, r
<1>2. W * y + z = W * (y + d) + r /\ y + d \in Nat
  BY <1>1
<1>3. (W * (y + d) + r) \div W = y + d /\ (W * (y + d) + r) % W = r
  BY <1>1, <1>2, DivMod
<1> QED BY <1>2, <1>3 DEF d, r

\* The two words of a length hold x.
Counts(hs, x) ==
  hs.len1 = x % Hash!WordRange /\ hs.len2 = (x \div Hash!WordRange) % Hash!WordRange

\* Counting d more: the lower word, and the upper one with the carry, which is
\* there when the lower word has become smaller.
LEMMA CountMore ==
  ASSUME NEW W \in Nat \ {0}, NEW x \in Nat, NEW d \in Nat
  PROVE  LET lower == ((x % W) + (d % W)) % W
             over == IF lower < x % W THEN 1 ELSE 0
         IN  /\ lower = (x + d) % W
             /\ ((((x \div W) % W) + over) + (d \div W)) % W = ((x + d) \div W) % W
<1> DEFINE X == x \div W
           a == x % W
           D == d \div W
           e == d % W
           Y == X \div W
           u == X % W
           lower == (a + e) % W
           over == IF lower < a THEN 1 ELSE 0
<1>1. X \in Nat /\ a \in 0 .. (W - 1) /\ x = W * X + a
  BY Divided
<1>2. D \in Nat /\ e \in 0 .. (W - 1) /\ d = W * D + e
  BY Divided
<1>3. Y \in Nat /\ u \in 0 .. (W - 1) /\ X = W * Y + u
  BY <1>1, Divided
<1> HIDE DEF X, a, D, e, Y, u
<1>4. over \in 0 .. 1 /\ lower \in 0 .. (W - 1) /\ a + e = W * over + lower
  <2>1. CASE a + e < W
    <3>1. a + e \in 0 .. (W - 1) /\ W * 0 + (a + e) = a + e
      BY <1>1, <1>2, <2>1
    <3>2. (W * 0 + (a + e)) % W = a + e
      BY <3>1, DivMod
    <3>3. lower = a + e
      BY <3>1, <3>2
    <3> QED BY <1>1, <1>2, <3>1, <3>3
  <2>2. CASE ~(a + e < W)
    <3> DEFINE r == a + e - W
    <3>1. r \in 0 .. (W - 1) /\ W * 1 + r = a + e /\ r < a
      BY <1>1, <1>2, <2>2
    <3>2. (W * 1 + r) % W = r
      BY <3>1, DivMod
    <3>3. lower = r
      BY <3>1, <3>2
    <3> HIDE DEF lower, r
    <3>4. over = 1
      BY <3>1, <3>3
    <3> QED BY <3>1, <3>3, <3>4
  <2> QED BY <2>1, <2>2
<1> HIDE DEF lower, over
<1> DEFINE z == X + D + over
<1>5. x + d = W * z + lower /\ z \in Nat
  BY <1>1, <1>2, <1>4
<1>6. (x + d) % W = lower /\ (x + d) \div W = z
  <2> HIDE DEF z
  <2>1. z \in Nat /\ lower \in 0 .. (W - 1)
    BY <1>4, <1>5
  <2>2. (W * z + lower) \div W = z /\ (W * z + lower) % W = lower
    BY <2>1, DivMod
  <2> QED BY <1>5, <2>2
<1> DEFINE v == (u + over) + D
<1>7. z = W * Y + v /\ v \in Nat
  BY <1>1, <1>2, <1>3, <1>4
<1> HIDE DEF z, v
<1>8. (W * Y + v) % W = v % W
  BY <1>3, <1>7, AddMultiple
<1> QED BY <1>6, <1>7, <1>8 DEF v, X, a, D, e, u, lower, over

-----------------------------------------------------------------------------
(* What fills the buffer and what empties it.                              *)

\* The counted length is the same.
SameLengths(g, hs) == g.len1 = hs.len1 /\ g.len2 = hs.len2

\* With room left or without, it is a state.
LEMMA OpenIsFull ==
  /\ Open \subseteq Full
  /\ \A hs \in Full : hs.count < BLOCK_SIZE => hs \in Open
BY SizeAssumption DEF Open, Full, Filling

\* memcpy to the end of the bytes there.
LEMMA PutTakes ==
  ASSUME NEW hs \in Full, NEW p \in Seq(Octet), hs.count + Len(p) <= BLOCK_SIZE
  PROVE  /\ Takes(Hash!Put(hs, p), hs, p) /\ SameLengths(Hash!Put(hs, p), hs)
         /\ \A i \in (hs.count + Len(p) + 1) .. BLOCK_SIZE : Hash!Put(hs, p).buf[i] = hs.buf[i]
<1> DEFINE buf == Hash!Copied(hs.buf, hs.count, p)
           g == Hash!Put(hs, p)
<1>1. hs.count \in 0 .. BLOCK_SIZE /\ hs.buf \in Buffer /\ Len(p) \in Nat /\ DOMAIN p = 1 .. Len(p)
  BY DEF Full, Filling
<1>2. buf = [i \in 1 .. BLOCK_SIZE |->
               IF i - hs.count \in 1 .. Len(p) THEN p[i - hs.count] ELSE hs.buf[i]]
  BY <1>1 DEF Hash!Copied
<1> HIDE DEF buf
<1>3. buf \in Buffer
  <2>1. ASSUME NEW i \in 1 .. BLOCK_SIZE
        PROVE  (IF i - hs.count \in 1 .. Len(p) THEN p[i - hs.count] ELSE hs.buf[i]) \in Octet
    <3>1. \A j \in 1 .. Len(p) : p[j] \in Octet
      OBVIOUS
    <3>2. hs.buf[i] \in Octet
      BY <1>1 DEF Buffer
    <3> QED BY <3>1, <3>2
  <2> QED BY <1>2, <2>1 DEF Buffer
<1>4. /\ \A i \in 1 .. hs.count : buf[i] = hs.buf[i]
      /\ \A i \in 1 .. Len(p) : buf[hs.count + i] = p[i]
  <2>1. ASSUME NEW i \in 1 .. hs.count PROVE buf[i] = hs.buf[i]
    <3>1. i \in 1 .. BLOCK_SIZE /\ i - hs.count \notin 1 .. Len(p)
      BY <1>1, SizeAssumption
    <3> QED BY <1>2, <3>1
  <2>2. ASSUME NEW i \in 1 .. Len(p) PROVE buf[hs.count + i] = p[i]
    <3>1. hs.count + i \in 1 .. BLOCK_SIZE /\ (hs.count + i) - hs.count = i
      BY <1>1, SizeAssumption
    <3> QED BY <1>2, <3>1
  <2> QED BY <2>1, <2>2
<1>5. g = [hs EXCEPT !.buf = buf, !.count = hs.count + Len(p)]
  BY DEF Hash!Put, buf
<1>6. /\ g.buf = buf /\ g.count = hs.count + Len(p) /\ g.blocks = hs.blocks
      /\ g.len1 = hs.len1 /\ g.len2 = hs.len2
  BY <1>5 DEF Full, Filling
<1>7. hs.count + Len(p) \in 0 .. BLOCK_SIZE
  BY <1>1
<1>8. g \in Full
  BY <1>3, <1>5, <1>7 DEF Full, Filling
<1> HIDE DEF g
<1>9. Takes(g, hs, p) /\ SameLengths(g, hs)
  BY <1>4, <1>6, <1>8 DEF Takes, SameLengths
<1>10. \A i \in (hs.count + Len(p) + 1) .. BLOCK_SIZE : buf[i] = hs.buf[i]
  <2> SUFFICES ASSUME NEW i \in (hs.count + Len(p) + 1) .. BLOCK_SIZE PROVE buf[i] = hs.buf[i]
    OBVIOUS
  <2>1. i \in 1 .. BLOCK_SIZE /\ i - hs.count \notin 1 .. Len(p)
    BY <1>1, SizeAssumption
  <2> QED BY <1>2, <2>1
<1> QED BY <1>6, <1>9, <1>10 DEF g

\* One byte.
LEMMA AppendTakes ==
  ASSUME NEW hs \in Open, NEW b \in Octet
  PROVE  /\ Takes(Hash!AppendByte(hs, b), hs, <<b>>) /\ SameLengths(Hash!AppendByte(hs, b), hs)
         /\ \A i \in 1 .. BLOCK_SIZE : i # hs.count + 1 => Hash!AppendByte(hs, b).buf[i] = hs.buf[i]
<1> DEFINE buf == [hs.buf EXCEPT ![hs.count + 1] = b]
           g == Hash!AppendByte(hs, b)
<1>1. hs.count \in 0 .. (BLOCK_SIZE - 1) /\ hs.buf \in Buffer /\ hs.count + 1 \in 1 .. BLOCK_SIZE
  BY SizeAssumption DEF Open, Filling
<1>2. /\ buf \in Buffer /\ buf[hs.count + 1] = b
      /\ \A i \in 1 .. BLOCK_SIZE : i # hs.count + 1 => buf[i] = hs.buf[i]
  BY <1>1 DEF Buffer
<1>3. g = [hs EXCEPT !.buf = buf, !.count = hs.count + 1]
  BY DEF Hash!AppendByte, Open, Filling
<1> HIDE DEF buf
<1>4. /\ g.buf = buf /\ g.count = hs.count + 1 /\ g.blocks = hs.blocks
      /\ g.len1 = hs.len1 /\ g.len2 = hs.len2
  BY <1>3 DEF Open, Filling
<1>5. g \in Full
  <2>1. hs.count + 1 \in 0 .. BLOCK_SIZE
    BY <1>1
  <2> QED BY <1>2, <1>3, <2>1 DEF Open, Full, Filling
<1>6. Len(<<b>>) = 1 /\ <<b>>[1] = b
  OBVIOUS
<1> HIDE DEF g
<1>7. \A i \in 1 .. hs.count : g.buf[i] = hs.buf[i]
  <2>1. \A i \in 1 .. hs.count : i \in 1 .. BLOCK_SIZE /\ i # hs.count + 1
    BY <1>1, SizeAssumption
  <2> QED BY <1>2, <1>4, <2>1
<1>8. \A i \in 1 .. Len(<<b>>) : g.buf[hs.count + i] = <<b>>[i]
  <2>1. g.buf[hs.count + 1] = <<b>>[1]
    BY <1>2, <1>4, <1>6
  <2>2. \A i \in 1 .. Len(<<b>>) : i = 1
    BY <1>6
  <2> QED BY <2>1, <2>2
<1>9. Takes(g, hs, <<b>>) /\ SameLengths(g, hs)
  BY <1>4, <1>5, <1>6, <1>7, <1>8 DEF Takes, SameLengths
<1>10. \A i \in 1 .. BLOCK_SIZE : i # hs.count + 1 => g.buf[i] = hs.buf[i]
  BY <1>2, <1>4
<1> QED BY <1>9, <1>10 DEF g

\* What both ways to compress a full buffer keep; RIPEMD160.c clears it.
LEMMA Compressed ==
  ASSUME NEW hs \in Full, hs.count = BLOCK_SIZE
  PROVE  /\ Hash!compress(hs) \in Open /\ Hash!compress(hs).count = 0
         /\ Hash!compress(hs).blocks = Append(hs.blocks, hs.buf)
         /\ SameLengths(Hash!compress(hs), hs)
         /\ \A m : Held(hs, m) => Held(Hash!compress(hs), m)
         /\ Hash!ripemd160_compress(hs) \in Open
         /\ \A m : Held(hs, m) => Held(Hash!ripemd160_compress(hs), m)
         /\ SameLengths(Hash!ripemd160_compress(hs), hs) /\ Hash!ripemd160_compress(hs).count = 0
         /\ \A i \in 1 .. BLOCK_SIZE : Hash!ripemd160_compress(hs).buf[i] = 0
<1> DEFINE g == Hash!compress(hs)
           h == Hash!ripemd160_compress(hs)
           zeros == Hash!Repeat(0, BLOCK_SIZE)
<1>1. hs.blocks \in Seq(Buffer) /\ hs.buf \in Buffer
  BY DEF Full, Filling
<1>2. Append(hs.blocks, hs.buf) \in Seq(Buffer) /\ 0 \in 0 .. (BLOCK_SIZE - 1)
  BY <1>1, SizeAssumption
<1>3. g = [hs EXCEPT !.blocks = Append(hs.blocks, hs.buf), !.count = 0]
  BY DEF Hash!compress
<1>4. g \in Open
  BY <1>2, <1>3 DEF Full, Open, Filling
<1>5. g.blocks = Append(hs.blocks, hs.buf) /\ g.count = 0 /\ SameLengths(g, hs)
  BY <1>3 DEF Full, Filling, SameLengths
<1> HIDE DEF g
<1>6. \A m : Held(hs, m) => Held(g, m)
  BY <1>4, <1>5, CompressHeld
<1>7. zeros \in Buffer /\ \A i \in 1 .. BLOCK_SIZE : zeros[i] = 0
  BY DEF Buffer, Octet, Hash!Repeat
<1> HIDE DEF zeros
<1>8. h = [g EXCEPT !.buf = zeros]
  BY DEF g, zeros, Hash!ripemd160_compress
<1>9. h \in Open
  BY <1>4, <1>7, <1>8 DEF Open, Filling
<1>10. h.blocks = g.blocks /\ h.count = 0 /\ SameLengths(h, g) /\ h.buf = zeros
  BY <1>4, <1>5, <1>8 DEF Open, Filling, SameLengths
<1> HIDE DEF h
<1>11. \A m : Held(hs, m) => Held(h, m)
  BY <1>5, <1>9, <1>10, CompressHeld
<1>12. SameLengths(h, hs)
  BY <1>5, <1>10 DEF SameLengths
<1> QED BY <1>4, <1>5, <1>6, <1>7, <1>9, <1>10, <1>11, <1>12 DEF g, h

-----------------------------------------------------------------------------
(* Sequences cut and joined.                                               *)

\* A sequence is equal to one with its elements.
LEMMA SameSequence ==
  ASSUME NEW a \in Seq(Octet), NEW b \in Seq(Octet), Len(a) = Len(b),
         \A i \in 1 .. Len(a) : a[i] = b[i]
  PROVE  a = b
<1>1. a \in [1 .. Len(a) -> Octet] /\ b \in [1 .. Len(b) -> Octet]
  OBVIOUS
<1>2. a = [i \in 1 .. Len(a) |-> a[i]] /\ b = [i \in 1 .. Len(a) |-> b[i]]
  BY <1>1
<1> QED BY <1>2

\* Two sequences joined.
LEMMA Joined ==
  ASSUME NEW a \in Seq(Octet), NEW b \in Seq(Octet)
  PROVE  /\ Len(a) \in Nat /\ Len(b) \in Nat
         /\ a \o b \in Seq(Octet) /\ Len(a \o b) = Len(a) + Len(b)
         /\ \A i \in 1 .. Len(a) : (a \o b)[i] = a[i]
         /\ \A i \in 1 .. Len(b) : (a \o b)[Len(a) + i] = b[i]
OBVIOUS

\* A sequence is its beginning and its end.
LEMMA Cut ==
  ASSUME NEW r \in Seq(Octet), NEW n \in 0 .. Len(r)
  PROVE  LET a == SubSeq(r, 1, n)
             b == SubSeq(r, n + 1, Len(r))
         IN  /\ a \in Seq(Octet) /\ b \in Seq(Octet) /\ a \o b = r
             /\ Len(a) = n /\ Len(b) = Len(r) - n
<1> DEFINE a == SubSeq(r, 1, n)
           b == SubSeq(r, n + 1, Len(r))
<1>1. a \in Seq(Octet) /\ Len(a) = n /\ \A i \in 1 .. n : a[i] = r[i]
  OBVIOUS
<1>2. b \in Seq(Octet) /\ Len(b) = Len(r) - n /\ \A i \in 1 .. (Len(r) - n) : b[i] = r[n + i]
  OBVIOUS
<1> HIDE DEF a, b
<1>3. a \o b \in Seq(Octet) /\ Len(a \o b) = Len(r)
  <2>1. a \o b \in Seq(Octet) /\ Len(a \o b) = Len(a) + Len(b)
    BY <1>1, <1>2, Joined
  <2> QED BY <1>1, <1>2, <2>1
<1>4. ASSUME NEW i \in 1 .. Len(a \o b) PROVE (a \o b)[i] = r[i]
  <2>1. CASE i <= n
    <3>1. i \in 1 .. n /\ i \in 1 .. Len(a)
      BY <1>1, <2>1
    <3> QED BY <1>1, <1>2, <3>1
  <2>2. CASE ~(i <= n)
    <3>1. i - n \in 1 .. (Len(r) - n) /\ n + (i - n) = i
      BY <1>3, <2>2
    <3>2. (a \o b)[Len(a) + (i - n)] = b[i - n]
      BY <1>1, <1>2, <3>1
    <3> QED BY <1>1, <1>2, <3>1, <3>2
  <2> QED BY <2>1, <2>2
<1>5. a \o b = r
  BY <1>3, <1>4, SameSequence
<1> QED BY <1>1, <1>2, <1>5 DEF a, b

\* Three sequences joined.
LEMMA Associative ==
  ASSUME NEW a \in Seq(Octet), NEW b \in Seq(Octet), NEW c \in Seq(Octet)
  PROVE  (a \o b) \o c = a \o (b \o c)
<1> DEFINE x == (a \o b) \o c
           y == a \o (b \o c)
<1>1. a \o b \in Seq(Octet) /\ b \o c \in Seq(Octet)
  OBVIOUS
<1>2. Len(a \o b) = Len(a) + Len(b) /\ Len(b \o c) = Len(b) + Len(c)
  OBVIOUS
<1>3. x \in Seq(Octet) /\ y \in Seq(Octet) /\ Len(x) = Len(a) + Len(b) + Len(c) /\ Len(y) = Len(x)
  BY <1>1, <1>2
<1>4. ASSUME NEW i \in 1 .. Len(x) PROVE x[i] = y[i]
  <2>1. CASE i \in 1 .. Len(a)
    <3>1. i \in 1 .. Len(a \o b) /\ (a \o b)[i] = a[i]
      BY <1>2, <2>1
    <3>2. x[i] = (a \o b)[i] /\ y[i] = a[i]
      BY <1>1, <2>1, <3>1
    <3> QED BY <3>1, <3>2
  <2>2. CASE i \in (Len(a) + 1) .. (Len(a) + Len(b))
    <3> DEFINE j == i - Len(a)
    <3>1. j \in 1 .. Len(b) /\ j \in 1 .. Len(b \o c) /\ Len(a) + j = i /\ i \in 1 .. Len(a \o b)
      BY <1>2, <2>2
    <3>2. (a \o b)[Len(a) + j] = b[j] /\ (b \o c)[j] = b[j]
      BY <3>1
    <3>3. x[i] = (a \o b)[i] /\ y[Len(a) + j] = (b \o c)[j]
      BY <1>1, <3>1
    <3> QED BY <3>1, <3>2, <3>3
  <2>3. CASE i \in (Len(a) + Len(b) + 1) .. Len(x)
    <3> DEFINE j == i - Len(a) - Len(b)
    <3>1. j \in 1 .. Len(c) /\ Len(b) + j \in 1 .. Len(b \o c)
      BY <1>2, <1>3, <2>3
    <3>2. x[Len(a \o b) + j] = c[j] /\ (b \o c)[Len(b) + j] = c[j]
      BY <1>1, <3>1
    <3>3. y[Len(a) + (Len(b) + j)] = (b \o c)[Len(b) + j]
      BY <1>1, <3>1
    <3>4. Len(a \o b) + j = i /\ Len(a) + (Len(b) + j) = i
      BY <1>2, <1>3
    <3> QED BY <3>2, <3>3, <3>4
  <2> QED BY <1>3, <2>1, <2>2, <2>3
<1> HIDE DEF x, y
<1>5. x = y
  BY <1>3, <1>4, SameSequence
<1> QED BY <1>5 DEF x, y

-----------------------------------------------------------------------------
(* SHA-2: byte by byte.                                                    *)

\* add_length counts on, through the carryflow of the lower word, and touches
\* nothing else.
LEMMA AddLength ==
  ASSUME Geometry, NEW hs \in Full, NEW inc \in Nat, inc < Hash!WordRange
  PROVE  LET g == Hash!add_length(hs, inc)
         IN  /\ g \in Full /\ g.blocks = hs.blocks /\ g.buf = hs.buf /\ g.count = hs.count
             /\ \A x \in Nat : Counts(hs, x) => Counts(g, x + inc)
<1> DEFINE W == Hash!WordRange
           lower == (hs.len1 + inc) % W
           upper == IF hs.len1 > lower THEN (hs.len2 + 1) % W ELSE hs.len2
           g == Hash!add_length(hs, inc)
<1>1. W \in Nat \ {0} /\ inc < W
  BY WordRangeTyped
<1>2. hs.len1 \in Nat /\ hs.len2 \in Nat
  BY DEF Full, Filling
<1>3. g = [hs EXCEPT !.len1 = lower, !.len2 = upper]
  BY DEF Hash!add_length
<1> HIDE DEF W
<1>4. lower \in Nat /\ upper \in Nat
  <2>1. \A n \in Nat : n % W \in Nat
    BY <1>1
  <2> QED BY <1>2, <2>1
<1>5. ASSUME NEW x \in Nat, Counts(hs, x)
      PROVE  lower = (x + inc) % W /\ upper = ((x + inc) \div W) % W
  <2> DEFINE over == IF lower < hs.len1 THEN 1 ELSE 0
  <2>1. hs.len1 = x % W /\ hs.len2 = (x \div W) % W
    BY <1>5 DEF Counts, W
  <2>2. inc % W = inc /\ inc \div W = 0
    <3>1. inc \in 0 .. (W - 1) /\ W * 0 + inc = inc
      BY <1>1
    <3>2. (W * 0 + inc) % W = inc /\ (W * 0 + inc) \div W = 0
      BY <1>1, <3>1, DivMod
    <3> QED BY <3>1, <3>2
  <2>3. lower = (x + inc) % W /\ ((hs.len2 + over) + 0) % W = ((x + inc) \div W) % W
    <3> DEFINE low == ((x % W) + (inc % W)) % W
               bit == IF low < x % W THEN 1 ELSE 0
    <3>1. /\ low = (x + inc) % W
          /\ ((((x \div W) % W) + bit) + (inc \div W)) % W = ((x + inc) \div W) % W
      BY <1>1, CountMore
    <3>2. low = lower /\ bit = over
      BY <2>1, <2>2
    <3> HIDE DEF low, bit, lower, over
    <3> QED BY <2>1, <2>2, <3>1, <3>2
  <2>4. upper = ((hs.len2 + over) + 0) % W
    <3>1. CASE hs.len1 > lower
      <4>1. over = 1 /\ (hs.len2 + 1) + 0 = hs.len2 + 1 /\ upper = (hs.len2 + 1) % W
        BY <1>2, <1>4, <3>1
      <4> QED BY <4>1
    <3>2. CASE ~(hs.len1 > lower)
      <4>1. over = 0 /\ (hs.len2 + 0) + 0 = hs.len2 /\ upper = hs.len2
        BY <1>2, <1>4, <3>2
      <4>2. hs.len2 % W = hs.len2
        <5>1. x \div W \in Nat
          BY <1>1, Divided
        <5>2. hs.len2 \in 0 .. (W - 1) /\ W * 0 + hs.len2 = hs.len2
          BY <1>1, <2>1, <5>1, Divided
        <5>3. (W * 0 + hs.len2) % W = hs.len2
          BY <1>1, <5>2, DivMod
        <5> QED BY <5>2, <5>3
      <4> QED BY <4>1, <4>2
    <3> QED BY <3>1, <3>2
  <2> QED BY <2>3, <2>4
<1> HIDE DEF lower, upper
<1>6. /\ g \in Full /\ g.blocks = hs.blocks /\ g.buf = hs.buf /\ g.count = hs.count
      /\ g.len1 = lower /\ g.len2 = upper
  BY <1>3, <1>4 DEF Full, Filling
<1> HIDE DEF g
<1>7. \A x \in Nat : Counts(hs, x) => Counts(g, x + inc)
  BY <1>5, <1>6 DEF Counts, W
<1> QED BY <1>6, <1>7 DEF g

\* The length in words counts whole blocks.
WholeBlocks(hs) == Counts(hs, BITS * (BLOCK_SIZE * Len(hs.blocks)))

\* What a state holds does not depend on the counted length.
LEMMA SameHeld ==
  ASSUME NEW g, NEW hs, NEW m, Held(hs, m),
         g.blocks = hs.blocks, g.buf = hs.buf, g.count = hs.count
  PROVE  Held(g, m)
BY DEF Held

\* One pass of the loop of sha_process: the byte is held and the blocks are
\* counted.
LEMMA ProcessByteHeld ==
  ASSUME Geometry, NEW hs \in Open, NEW b \in Octet
  PROVE  LET g == Hash!ProcessByte(hs, b)
         IN  /\ g \in Open /\ (WholeBlocks(hs) => WholeBlocks(g))
             /\ \A m \in Seq(Octet) : Held(hs, m) => Held(g, m \o <<b>>)
<1> DEFINE h == Hash!AppendByte(hs, b)
           c == Hash!compress(h)
           a == Hash!add_length(c, BLOCK_SIZE * BITS)
           g == Hash!ProcessByte(hs, b)
<1>1. hs \in Full /\ <<b>> \in Seq(Octet)
  BY OpenIsFull
<1>2. Takes(h, hs, <<b>>) /\ SameLengths(h, hs)
  BY AppendTakes
<1>3. h \in Full /\ h.blocks = hs.blocks
  BY <1>2 DEF Takes
<1>4. \A m \in Seq(Octet) : Held(hs, m) => Held(h, m \o <<b>>)
  BY <1>1, <1>2, TakesHeld
<1>5. g = IF h.count = BLOCK_SIZE THEN a ELSE h
  BY DEF Hash!ProcessByte
<1> HIDE DEF h
<1>6. CASE h.count # BLOCK_SIZE
  <2>1. h \in Open
    <3>1. h.count \in 0 .. BLOCK_SIZE
      BY <1>3 DEF Full, Filling
    <3> QED BY <1>3, <1>6, <3>1, OpenIsFull, SizeAssumption
  <2>2. WholeBlocks(hs) => WholeBlocks(h)
    BY <1>2, <1>3 DEF WholeBlocks, Counts, SameLengths
  <2>3. g = h
    BY <1>5, <1>6
  <2> QED BY <1>4, <2>1, <2>2, <2>3
<1>7. CASE h.count = BLOCK_SIZE
  <2> DEFINE q == Len(hs.blocks)
  <2>1. /\ c \in Open /\ c.count = 0 /\ c.blocks = Append(h.blocks, h.buf)
        /\ SameLengths(c, h) /\ \A m : Held(h, m) => Held(c, m)
    BY <1>3, <1>7, Compressed
  <2>2. c \in Full
    BY <2>1, OpenIsFull
  <2>3. BLOCK_SIZE * BITS \in Nat /\ BLOCK_SIZE * BITS < Hash!WordRange
    <3>1. BLOCK_SIZE * BITS = BITS * BLOCK_SIZE /\ BLOCK_SIZE * BITS \in Nat
      BY SizeAssumption DEF Geometry
    <3> QED BY <3>1 DEF Geometry
  <2> HIDE DEF c
  <2>4. /\ a \in Full /\ a.blocks = c.blocks /\ a.buf = c.buf /\ a.count = c.count
        /\ \A x \in Nat : Counts(c, x) => Counts(a, x + BLOCK_SIZE * BITS)
    BY <2>2, <2>3, AddLength
  <2> HIDE DEF a
  <2>5. a \in Open
    BY <2>1, <2>4, OpenIsFull, SizeAssumption
  <2>6. q \in Nat /\ Len(a.blocks) = q + 1
    <3>1. h.blocks \in Seq(Buffer) /\ h.buf \in Buffer
      BY <1>3 DEF Full, Filling
    <3>2. a.blocks = Append(hs.blocks, h.buf)
      BY <1>3, <2>1, <2>4
    <3> QED BY <1>3, <3>1, <3>2
  <2> DEFINE x == BITS * (BLOCK_SIZE * q)
  <2>7. x \in Nat /\ BITS * (BLOCK_SIZE * (q + 1)) = x + BLOCK_SIZE * BITS
    <3> HIDE DEF q
    <3>1. BITS \in Nat /\ BLOCK_SIZE \in Nat /\ q \in Nat
      BY <2>6, SizeAssumption DEF Geometry
    <3>2. BLOCK_SIZE * q \in Nat /\ BLOCK_SIZE * (q + 1) = BLOCK_SIZE * q + BLOCK_SIZE
      BY <3>1
    <3> DEFINE y == BLOCK_SIZE * q
    <3> HIDE DEF y
    <3>3. BITS * (y + BLOCK_SIZE) = BITS * y + BLOCK_SIZE * BITS /\ BITS * y \in Nat
      BY <3>1, <3>2 DEF y
    <3> QED BY <3>2, <3>3 DEF y
  <2>8. WholeBlocks(hs) => Counts(c, x)
    BY <1>2, <2>1 DEF WholeBlocks, Counts, SameLengths
  <2> HIDE DEF x, q
  <2>9. WholeBlocks(hs) => WholeBlocks(a)
    BY <2>4, <2>6, <2>7, <2>8 DEF WholeBlocks
  <2>10. \A m \in Seq(Octet) : Held(hs, m) => Held(a, m \o <<b>>)
    BY <1>4, <2>1, <2>4, SameHeld
  <2>11. g = a
    BY <1>5, <1>7 DEF a, c
  <2> HIDE DEF g
  <2> QED BY <2>5, <2>9, <2>10, <2>11 DEF g
<1> QED BY <1>6, <1>7

\* A prefix and its next element.
LEMMA Longer ==
  ASSUME NEW s \in Seq(Octet), NEW i \in 1 .. Len(s)
  PROVE  /\ s[i] \in Octet /\ SubSeq(s, 1, i - 1) \in Seq(Octet)
         /\ SubSeq(s, 1, i - 1) \o <<s[i]>> = SubSeq(s, 1, i)
<1> DEFINE a == SubSeq(s, 1, i - 1)
           b == SubSeq(s, 1, i)
           e == s[i]
<1>1. e \in Octet /\ <<e>> \in Seq(Octet) /\ Len(<<e>>) = 1 /\ <<e>>[1] = e
  OBVIOUS
<1>2. a \in Seq(Octet) /\ Len(a) = i - 1 /\ \A j \in 1 .. (i - 1) : a[j] = s[j]
  OBVIOUS
<1>3. b \in Seq(Octet) /\ Len(b) = i /\ \A j \in 1 .. i : b[j] = s[j]
  OBVIOUS
<1> HIDE DEF a, b
<1>4. a \o <<e>> \in Seq(Octet) /\ Len(a \o <<e>>) = Len(b)
  BY <1>1, <1>2, <1>3
<1>5. ASSUME NEW j \in 1 .. Len(a \o <<e>>) PROVE (a \o <<e>>)[j] = b[j]
  <2>1. CASE j \in 1 .. (i - 1)
    BY <1>1, <1>2, <1>3, <2>1
  <2>2. CASE j = i
    <3>1. (a \o <<e>>)[Len(a) + 1] = e
      BY <1>1, <1>2
    <3>2. b[i] = e
      BY <1>3
    <3> QED BY <1>2, <2>2, <3>1, <3>2
  <2> QED BY <1>3, <1>4, <2>1, <2>2
<1>6. a \o <<e>> = b
  BY <1>3, <1>4, <1>5, SameSequence
<1> QED BY <1>1, <1>2, <1>6 DEF a, b

\* So is a whole piece.
LEMMA ProcessHeld ==
  ASSUME Geometry, NEW hs \in Open, NEW s \in Seq(Octet)
  PROVE  LET g == Hash!sha_process(hs, s)
         IN  /\ g \in Open /\ (WholeBlocks(hs) => WholeBlocks(g))
             /\ \A m \in Seq(Octet) : Held(hs, m) => Held(g, m \o s)
<1> DEFINE n == Len(s)
           E(f) == [i \in 0 .. n |-> IF i = 0 THEN hs ELSE Hash!ProcessByte(f[i - 1], s[i])]
           next(i, v) == IF i + 1 <= n THEN Hash!ProcessByte(v, s[i + 1]) ELSE v
           h == [i \in Nat |-> [v \in Open |-> next(i, v)]]
           c == CHOOSE f : f = E(f)
<1>1. n \in Nat /\ \A i \in 1 .. n : s[i] \in Octet
  OBVIOUS
<1>2. ASSUME NEW i \in Nat, NEW v \in Open PROVE next(i, v) \in Open
  <2>1. CASE i + 1 <= n
    <3>1. s[i + 1] \in Octet
      BY <1>1, <2>1
    <3>2. Hash!ProcessByte(v, s[i + 1]) \in Open
      BY <3>1, ProcessByteHeld
    <3> QED BY <2>1, <3>2
  <2>2. CASE ~(i + 1 <= n)
    BY <2>2
  <2> QED BY <2>1, <2>2
<1> HIDE DEF next
<1>3. h \in [Nat -> [Open -> Open]]
  BY <1>2
<1> HIDE DEF n
<1>4. PICK f \in [0 .. n -> Open] : Recurs(f, hs, h, n)
  <2> HIDE DEF h
  <2>1. h \in [Nat -> [Open -> Open]] /\ n \in Nat /\ hs \in Open
    BY <1>1, <1>3
  <2> QED BY <2>1, RecursionUpto
<1>5. f = E(f)
  <2>1. ASSUME NEW i \in 1 .. n PROVE f[i] = Hash!ProcessByte(f[i - 1], s[i])
    <3>1. i - 1 \in Nat /\ i - 1 \in 0 .. n /\ (i - 1) + 1 = i /\ i <= n
      BY <1>1
    <3>2. f[i] = next(i - 1, f[i - 1])
      BY <1>4, <3>1 DEF Recurs
    <3> QED BY <3>1, <3>2 DEF next
  <2>2. \A i \in 0 .. n : f[i] = IF i = 0 THEN hs ELSE Hash!ProcessByte(f[i - 1], s[i])
    BY <1>1, <1>4, <2>1 DEF Recurs
  <2>3. f = [i \in 0 .. n |-> f[i]]
    BY <1>4
  <2> QED BY <2>2, <2>3
<1>6. c = E(c)
  BY <1>5
<1>7. Hash!sha_process(hs, s) = c[n]
  BY DEF Hash!sha_process, n
<1> HIDE DEF c
<1>8. c[0] = hs /\ \A i \in 1 .. n : c[i] = Hash!ProcessByte(c[i - 1], s[i])
  <2>1. \A i \in 0 .. n : c[i] = IF i = 0 THEN hs ELSE Hash!ProcessByte(c[i - 1], s[i])
    BY <1>6
  <2> QED BY <1>1, <2>1
<1> DEFINE Good(i) == /\ c[i] \in Open /\ (WholeBlocks(hs) => WholeBlocks(c[i]))
                      /\ \A m \in Seq(Octet) : Held(hs, m) => Held(c[i], m \o SubSeq(s, 1, i))
           S == {i \in 0 .. n : Good(i)}
<1>9. Good(0)
  <2>1. \A m \in Seq(Octet) : m \o SubSeq(s, 1, 0) = m
    OBVIOUS
  <2> QED BY <1>8, <2>1
<1>10. ASSUME NEW i \in 1 .. n, Good(i - 1) PROVE Good(i)
  <2> DEFINE a == SubSeq(s, 1, i - 1)
             v == c[i - 1]
  <2>1. /\ s[i] \in Octet /\ a \in Seq(Octet)
        /\ a \o <<s[i]>> = SubSeq(s, 1, i) /\ <<s[i]>> \in Seq(Octet)
    BY Longer DEF n
  <2>2. v \in Open /\ c[i] = Hash!ProcessByte(v, s[i])
    BY <1>8, <1>10
  <2> HIDE DEF a, v
  <2>3. /\ c[i] \in Open /\ (WholeBlocks(v) => WholeBlocks(c[i]))
        /\ \A m \in Seq(Octet) : Held(v, m) => Held(c[i], m \o <<s[i]>>)
    BY <2>1, <2>2, ProcessByteHeld
  <2>4. ASSUME NEW m \in Seq(Octet), Held(hs, m) PROVE Held(c[i], m \o SubSeq(s, 1, i))
    <3>1. Held(v, m \o a) /\ m \o a \in Seq(Octet)
      BY <1>10, <2>1, <2>4 DEF a, v
    <3>2. Held(c[i], (m \o a) \o <<s[i]>>)
      BY <2>3, <3>1
    <3>3. (m \o a) \o <<s[i]>> = m \o (a \o <<s[i]>>)
      BY <2>1, Associative
    <3> QED BY <2>1, <3>2, <3>3
  <2>5. WholeBlocks(hs) => WholeBlocks(v)
    BY <1>10 DEF v
  <2> QED BY <2>3, <2>4, <2>5
<1> HIDE DEF Good
<1>11. 0 \in S /\ \A i \in 1 .. n : i - 1 \in S => i \in S
  BY <1>1, <1>9, <1>10
<1> HIDE DEF S
<1>12. Good(n)
  <2>1. 0 .. n \subseteq S
    BY <1>1, <1>11, InductionUpto
  <2> QED BY <1>1, <2>1 DEF S
<1>13. SubSeq(s, 1, n) = s
  BY DEF n
<1>14. \A m \in Seq(Octet) : Held(hs, m) => Held(c[n], m \o s)
  BY <1>12, <1>13 DEF Good
<1> QED BY <1>7, <1>12, <1>14 DEF Good

-----------------------------------------------------------------------------
(* The others: piece by piece.                                             *)

\* A pass of the loops: the state, and what is left of the piece.
Passes == [hs : Open, rest : Seq(Octet)]

\* Together with what is left, the state holds message t.
Reached(p, t) == \E w \in Seq(Octet) : Held(p.hs, w) /\ w \o p.rest = t

\* A piece fits the buffer and is not empty before the end.
LEMMA PieceFits ==
  ASSUME NEW p \in Passes
  PROVE  /\ Hash!Piece(p) \in 0 .. Len(p.rest)
         /\ p.hs.count + Hash!Piece(p) <= BLOCK_SIZE
         /\ p.rest # <<>> => Hash!Piece(p) >= 1
<1> DEFINE room == BLOCK_SIZE - p.hs.count
           L == Len(p.rest)
<1>1. p.hs \in Open /\ p.rest \in Seq(Octet)
  BY DEF Passes
<1>2. p.hs.count \in 0 .. (BLOCK_SIZE - 1)
  BY <1>1 DEF Open, Filling
<1>3. L \in Nat /\ (p.rest # <<>> => L # 0)
  BY <1>1
<1>4. Hash!Piece(p) = IF room < L THEN room ELSE L
  BY DEF Hash!Piece
<1> HIDE DEF L
<1>5. room \in Nat /\ room >= 1 /\ p.hs.count + room = BLOCK_SIZE
  BY <1>2, SizeAssumption
<1> DEFINE n == Hash!Piece(p)
<1>6. n \in 0 .. L /\ p.hs.count + n <= BLOCK_SIZE /\ (p.rest # <<>> => n >= 1)
  <2>1. CASE room < L
    <3> HIDE DEF room, n
    <3>1. n = room
      BY <1>4, <2>1 DEF n
    <3>2. p.hs.count \in Nat /\ BLOCK_SIZE \in Nat
      BY <1>2, SizeAssumption
    <3> QED BY <1>3, <1>5, <2>1, <3>1, <3>2
  <2>2. CASE ~(room < L)
    BY <1>2, <1>3, <1>4, <1>5, <2>2
  <2> QED BY <2>1, <2>2
<1> QED BY <1>6 DEF L

\* One pass copies a piece and compresses the buffer it has filled.
LEMMA FillStep ==
  ASSUME NEW p \in Passes
  PROVE  LET q == Hash!FillPass(p)
         IN  /\ q \in Passes /\ SameLengths(q.hs, p.hs)
             /\ Len(q.rest) < Len(p.rest) \/ (p.rest = <<>> /\ q = p)
             /\ \A t : Reached(p, t) => Reached(q, t)
<1> DEFINE n == Hash!Piece(p)
           a == SubSeq(p.rest, 1, n)
           b == SubSeq(p.rest, n + 1, Len(p.rest))
           h == Hash!Put(p.hs, a)
           g == IF h.count = BLOCK_SIZE THEN Hash!compress(h) ELSE h
           q == Hash!FillPass(p)
<1>1. CASE p.rest = <<>>
  <2>1. q = p
    BY <1>1 DEF Hash!FillPass
  <2> QED BY <1>1, <2>1 DEF SameLengths
<1>2. CASE p.rest # <<>>
  <2>1. p.hs \in Open /\ p.hs \in Full /\ p.rest \in Seq(Octet)
    BY OpenIsFull DEF Passes
  <2>2. n \in 0 .. Len(p.rest) /\ p.hs.count + n <= BLOCK_SIZE /\ n >= 1
    BY <1>2, PieceFits
  <2>3. q = [hs |-> g, rest |-> b]
    BY <1>2 DEF Hash!FillPass
  <2> HIDE DEF n
  <2>4. /\ a \in Seq(Octet) /\ b \in Seq(Octet) /\ a \o b = p.rest
        /\ Len(a) = n /\ Len(b) = Len(p.rest) - n
    BY <2>1, <2>2, Cut
  <2> HIDE DEF a, b
  <2>5. Takes(h, p.hs, a) /\ SameLengths(h, p.hs)
    BY <2>1, <2>2, <2>4, PutTakes
  <2> HIDE DEF h
  <2>6. /\ g \in Open /\ SameLengths(g, p.hs)
        /\ \A m : Held(h, m) => Held(g, m)
    <3>1. h \in Full /\ h.count \in 0 .. BLOCK_SIZE
      BY <2>5 DEF Takes, Full, Filling
    <3>2. CASE h.count = BLOCK_SIZE
      <4>1. /\ Hash!compress(h) \in Open /\ SameLengths(Hash!compress(h), h)
            /\ \A m : Held(h, m) => Held(Hash!compress(h), m)
        BY <3>1, <3>2, Compressed
      <4>2. g = Hash!compress(h)
        BY <3>2
      <4> HIDE DEF g
      <4> QED BY <2>5, <4>1, <4>2 DEF SameLengths
    <3>3. CASE h.count # BLOCK_SIZE
      <4>1. h \in Open
        BY <3>1, <3>3, OpenIsFull, SizeAssumption
      <4>2. g = h
        BY <3>3
      <4> HIDE DEF g
      <4> QED BY <2>5, <4>1, <4>2
    <3> QED BY <3>2, <3>3
  <2> HIDE DEF g
  <2>7. q \in Passes /\ q.hs = g /\ q.rest = b
    BY <2>3, <2>4, <2>6 DEF Passes
  <2> HIDE DEF q
  <2>8. Len(q.rest) < Len(p.rest)
    <3>1. Len(p.rest) \in Nat
      BY <2>1
    <3> QED BY <2>2, <2>4, <2>7, <3>1
  <2>9. ASSUME NEW t, Reached(p, t) PROVE Reached(q, t)
    <3>1. PICK w \in Seq(Octet) : Held(p.hs, w) /\ w \o p.rest = t
      BY <2>9 DEF Reached
    <3>2. Held(h, w \o a) /\ w \o a \in Seq(Octet)
      BY <2>1, <2>4, <2>5, <3>1, TakesHeld
    <3>3. Held(q.hs, w \o a)
      BY <2>6, <2>7, <3>2
    <3>4. (w \o a) \o q.rest = t
      <4>1. (w \o a) \o b = w \o (a \o b)
        BY <2>4, Associative
      <4> QED BY <2>4, <2>7, <3>1, <4>1
    <3> QED BY <3>2, <3>3, <3>4 DEF Reached
  <2>10. SameLengths(q.hs, p.hs)
    BY <2>6, <2>7
  <2> QED BY <2>7, <2>8, <2>9, <2>10 DEF q
<1> QED BY <1>1, <1>2

\* Passes that get on until nothing is left leave nothing after as many as
\* there were bytes, and keep what each of them keeps.
LEMMA LoopEnds ==
  ASSUME NEW F \in [Passes -> Passes], NEW p \in Passes, NEW I, NEW c,
         p \in I, \A q \in Passes : q \in I => F[q] \in I,
         \A q \in Passes : Len(F[q].rest) < Len(q.rest) \/ (q.rest = <<>> /\ F[q] = q),
         c[0] = p, \A i \in 1 .. Len(p.rest) : c[i - 1] \in Passes => c[i] = F[c[i - 1]]
  PROVE  c[Len(p.rest)] \in Passes /\ c[Len(p.rest)] \in I /\ c[Len(p.rest)].rest = <<>>
<1> DEFINE n == Len(p.rest)
           Good(i) == c[i] \in Passes /\ c[i] \in I /\ Len(c[i].rest) <= n - i
           S == {i \in 0 .. n : Good(i)}
<1>1. n \in Nat /\ \A q \in Passes : q.rest \in Seq(Octet) /\ Len(q.rest) \in Nat
  BY DEF Passes
<1>2. Good(0)
  BY <1>1
<1>3. ASSUME NEW i \in 1 .. n, Good(i - 1) PROVE Good(i)
  <2> DEFINE v == c[i - 1]
  <2>1. v \in Passes /\ v \in I /\ Len(v.rest) <= n - (i - 1)
    BY <1>3
  <2>2. c[i] = F[v]
    BY <2>1
  <2> HIDE DEF v, n
  <2>3. c[i] \in Passes /\ c[i] \in I
    BY <2>1, <2>2
  <2>4. CASE Len(F[v].rest) < Len(v.rest)
    <3>1. Len(F[v].rest) \in Nat /\ Len(v.rest) \in Nat
      BY <1>1, <2>1, <2>2, <2>3
    <3> QED BY <1>1, <2>1, <2>2, <2>3, <2>4, <3>1
  <2>5. CASE v.rest = <<>> /\ F[v] = v
    BY <1>1, <2>2, <2>3, <2>5
  <2> QED BY <2>1, <2>4, <2>5
<1> HIDE DEF n, Good
<1>4. 0 \in S /\ \A i \in 1 .. n : i - 1 \in S => i \in S
  BY <1>1, <1>2, <1>3
<1> HIDE DEF S
<1>5. Good(n)
  <2>1. 0 .. n \subseteq S
    BY <1>1, <1>4, InductionUpto
  <2> QED BY <1>1, <2>1 DEF S
<1>6. c[n].rest = <<>>
  <2>1. c[n].rest \in Seq(Octet) /\ Len(c[n].rest) = 0
    BY <1>1, <1>5 DEF Good
  <2> QED BY <2>1
<1> QED BY <1>5, <1>6 DEF Good, n

\* MD2.c and MD4.c: what the loop makes of a message is the message before it and
\* the piece it was given.
LEMMA FillHeld ==
  ASSUME NEW hs \in Open, NEW s \in Seq(Octet)
  PROVE  LET g == Hash!Fill(hs, s)
         IN  /\ g \in Open /\ SameLengths(g, hs)
             /\ \A m \in Seq(Octet) : Held(hs, m) => Held(g, m \o s)
<1> DEFINE p == [hs |-> hs, rest |-> s]
           n == Len(s)
           E(f) == [i \in 0 .. n |-> IF i = 0 THEN p ELSE Hash!FillPass(f[i - 1])]
           F == [q \in Passes |-> Hash!FillPass(q)]
           h == [i \in Nat |-> F]
           c == CHOOSE f : f = E(f)
<1>1. n \in Nat /\ p \in Passes /\ p.hs = hs /\ p.rest = s /\ n = Len(p.rest)
  BY DEF Passes
<1>2. F \in [Passes -> Passes] /\ h \in [Nat -> [Passes -> Passes]]
  <2>1. \A q \in Passes : Hash!FillPass(q) \in Passes
    BY FillStep
  <2>2. F \in [Passes -> Passes]
    BY <2>1
  <2> HIDE DEF F
  <2> QED BY <2>2
<1> HIDE DEF n, p
<1>3. PICK f \in [0 .. n -> Passes] : Recurs(f, p, h, n)
  <2> HIDE DEF h
  <2> QED BY <1>1, <1>2, RecursionUpto
<1>4. f = E(f)
  <2>1. ASSUME NEW i \in 1 .. n PROVE f[i] = Hash!FillPass(f[i - 1])
    <3>1. i - 1 \in Nat /\ i - 1 \in 0 .. n
      BY <1>1
    <3>2. f[i - 1] \in Passes /\ h[i - 1] = F
      BY <1>3, <3>1
    <3>3. f[i] = F[f[i - 1]]
      BY <1>3, <3>2 DEF Recurs
    <3> QED BY <3>2, <3>3
  <2>2. \A i \in 0 .. n : f[i] = IF i = 0 THEN p ELSE Hash!FillPass(f[i - 1])
    BY <1>1, <1>3, <2>1 DEF Recurs
  <2>3. f = [i \in 0 .. n |-> f[i]]
    BY <1>3
  <2> QED BY <2>2, <2>3
<1>5. c = E(c)
  BY <1>4
<1>6. Hash!Fill(hs, s) = c[n].hs
  BY DEF Hash!Fill, n, p
<1> HIDE DEF c
<1>7. c[0] = p /\ \A i \in 1 .. n : c[i - 1] \in Passes => c[i] = F[c[i - 1]]
  <2>1. \A i \in 0 .. n : c[i] = IF i = 0 THEN p ELSE Hash!FillPass(c[i - 1])
    BY <1>5
  <2> QED BY <1>1, <2>1
<1>8. \A q \in Passes : Len(F[q].rest) < Len(q.rest) \/ (q.rest = <<>> /\ F[q] = q)
  BY FillStep
<1> DEFINE I == {q \in Passes : (\A t : Reached(p, t) => Reached(q, t)) /\ SameLengths(q.hs, hs)}
<1>9. p \in I
  BY <1>1 DEF SameLengths
<1>10. \A q \in Passes : q \in I => F[q] \in I
  BY FillStep DEF SameLengths
<1> HIDE DEF F, I
<1>11. c[n] \in Passes /\ c[n] \in I /\ c[n].rest = <<>>
  BY <1>1, <1>2, <1>7, <1>8, <1>9, <1>10, LoopEnds
<1> DEFINE e == c[n]
<1>12. e \in Passes /\ e.hs \in Open /\ e.rest = <<>>
  BY <1>11 DEF Passes
<1>13. (\A t : Reached(p, t) => Reached(e, t)) /\ SameLengths(e.hs, hs)
  BY <1>11 DEF I
<1> HIDE DEF e
<1>14. ASSUME NEW m \in Seq(Octet), Held(hs, m) PROVE Held(e.hs, m \o s)
  <2>1. Reached(p, m \o s)
    BY <1>1, <1>14 DEF Reached
  <2>2. PICK w \in Seq(Octet) : Held(e.hs, w) /\ w \o e.rest = m \o s
    BY <1>13, <2>1 DEF Reached
  <2>3. w \o <<>> = w
    OBVIOUS
  <2> QED BY <1>12, <2>2, <2>3
<1> QED BY <1>6, <1>12, <1>13, <1>14 DEF e

\* RIPEMD160.c counts the bits of each piece.
LEMMA AddBitsCounts ==
  ASSUME Geometry, NEW hs \in Full, NEW n \in Nat
  PROVE  LET g == Hash!AddBits(hs, n)
         IN  /\ g \in Full /\ g.blocks = hs.blocks /\ g.buf = hs.buf /\ g.count = hs.count
             /\ \A x \in Nat : Counts(hs, x) => Counts(g, x + BITS * n)
<1> DEFINE W == Hash!WordRange
           sum == hs.len1 + n * BITS
           lower == sum % W
           upper == (hs.len2 + (sum \div W)) % W
           g == Hash!AddBits(hs, n)
<1>1. W \in Nat \ {0}
  BY WordRangeTyped
<1>2. hs.len1 \in Nat /\ hs.len2 \in Nat
  BY DEF Full, Filling
<1>3. BITS * n \in Nat /\ n * BITS = BITS * n
  BY DEF Geometry
<1>4. sum \in Nat
  BY <1>2, <1>3
<1>5. g = [hs EXCEPT !.len1 = lower, !.len2 = upper]
  BY DEF Hash!AddBits
<1> HIDE DEF W
<1>6. lower \in Nat /\ upper \in Nat
  <2> HIDE DEF sum
  <2>1. sum \div W \in Nat /\ lower \in Nat
    BY <1>1, <1>4, Divided
  <2> DEFINE d == hs.len2 + (sum \div W)
  <2>2. d \in Nat
    BY <1>2, <2>1
  <2> HIDE DEF d
  <2>3. d % W \in Nat
    BY <1>1, <2>2, Divided
  <2> QED BY <2>1, <2>3 DEF d
<1>7. ASSUME NEW x \in Nat, Counts(hs, x)
      PROVE  lower = (x + BITS * n) % W /\ upper = ((x + BITS * n) \div W) % W
  <2> DEFINE X == x \div W
             q == sum \div W
             Y == X \div W
             u == X % W
             y == x + BITS * n
  <2>1. hs.len1 = x % W /\ hs.len2 = u
    BY <1>7 DEF Counts, W
  <2>2. X \in Nat /\ x = W * X + hs.len1
    BY <1>1, <2>1, Divided
  <2>3. Y \in Nat /\ u \in 0 .. (W - 1) /\ X = W * Y + u
    <3> HIDE DEF X
    <3> QED BY <1>1, <2>2, Divided
  <2>4. q \in Nat /\ lower \in 0 .. (W - 1) /\ sum = W * q + lower
    <3> HIDE DEF sum
    <3> QED BY <1>1, <1>4, Divided
  <2>5. y = W * X + sum
    <3> HIDE DEF X, W
    <3>1. n * BITS \in Nat
      BY <1>3
    <3> QED BY <1>1, <1>2, <1>3, <2>2, <3>1
  <2> HIDE DEF X, q, Y, u, y, lower, sum
  <2>6. y = W * (X + q) + lower /\ X + q \in Nat
    BY <1>1, <2>2, <2>4, <2>5
  <2>7. y % W = lower /\ y \div W = X + q
    BY <1>1, <2>4, <2>6, DivMod
  <2>8. X + q = W * Y + (u + q) /\ u + q \in Nat
    BY <1>1, <2>3, <2>4
  <2>9. (W * Y + (u + q)) % W = (u + q) % W
    BY <1>1, <2>3, <2>8, AddMultiple
  <2>10. upper = (u + q) % W
    BY <2>1 DEF q
  <2> QED BY <2>7, <2>8, <2>9, <2>10 DEF y
<1> HIDE DEF lower, upper
<1>8. /\ g \in Full /\ g.blocks = hs.blocks /\ g.buf = hs.buf /\ g.count = hs.count
      /\ g.len1 = lower /\ g.len2 = upper
  BY <1>5, <1>6 DEF Full, Filling
<1> HIDE DEF g
<1>9. \A x \in Nat : Counts(hs, x) => Counts(g, x + BITS * n)
  BY <1>7, <1>8 DEF Counts, W
<1> QED BY <1>8, <1>9 DEF g

\* RIPEMD160.c relies on zeros behind the bytes in the buffer.
Zeroed(hs) == \A i \in (hs.count + 1) .. BLOCK_SIZE : hs.buf[i] = 0

\* What RIPEMD160.c keeps of the message m.
Counted(hs, m) == Held(hs, m) /\ Counts(hs, BITS * Len(m)) /\ Zeroed(hs)

\* Reached, for its loop.
CountReached(p, t) == \E w \in Seq(Octet) : Counted(p.hs, w) /\ w \o p.rest = t

\* One pass of the loop of ripemd160_update.
LEMMA UpdateStep ==
  ASSUME Geometry, NEW p \in Passes
  PROVE  LET q == Hash!UpdatePass(p)
         IN  /\ q \in Passes
             /\ Len(q.rest) < Len(p.rest) \/ (p.rest = <<>> /\ q = p)
             /\ \A t : CountReached(p, t) => CountReached(q, t)
<1> DEFINE n == Hash!Piece(p)
           a == SubSeq(p.rest, 1, n)
           b == SubSeq(p.rest, n + 1, Len(p.rest))
           u == Hash!Put(p.hs, a)
           h == Hash!AddBits(u, n)
           g == IF h.count = BLOCK_SIZE THEN Hash!ripemd160_compress(h) ELSE h
           q == Hash!UpdatePass(p)
<1>1. CASE p.rest = <<>>
  <2>1. q = p
    BY <1>1 DEF Hash!UpdatePass
  <2> QED BY <1>1, <2>1
<1>2. CASE p.rest # <<>>
  <2>1. p.hs \in Open /\ p.hs \in Full /\ p.rest \in Seq(Octet)
    BY OpenIsFull DEF Passes
  <2>2. n \in 0 .. Len(p.rest) /\ p.hs.count + n <= BLOCK_SIZE /\ n >= 1 /\ n \in Nat
    BY <1>2, PieceFits
  <2>3. q = [hs |-> g, rest |-> b]
    BY <1>2 DEF Hash!UpdatePass
  <2> HIDE DEF n
  <2>4. /\ a \in Seq(Octet) /\ b \in Seq(Octet) /\ a \o b = p.rest
        /\ Len(a) = n /\ Len(b) = Len(p.rest) - n
    BY <2>1, <2>2, Cut
  <2> HIDE DEF a, b
  <2>5. /\ Takes(u, p.hs, a) /\ SameLengths(u, p.hs)
        /\ \A i \in (p.hs.count + Len(a) + 1) .. BLOCK_SIZE : u.buf[i] = p.hs.buf[i]
    BY <2>1, <2>2, <2>4, PutTakes
  <2> HIDE DEF u
  <2>6. u \in Full /\ u.count = p.hs.count + n
    BY <2>4, <2>5 DEF Takes
  <2>7. /\ h \in Full /\ h.blocks = u.blocks /\ h.buf = u.buf /\ h.count = u.count
        /\ \A x \in Nat : Counts(u, x) => Counts(h, x + BITS * n)
    BY <2>2, <2>6, AddBitsCounts
  <2> HIDE DEF h
  <2>8. Zeroed(p.hs) => Zeroed(h)
    <3>1. p.hs.count \in Nat
      BY <2>1 DEF Full, Filling
    <3>2. \A i \in (h.count + 1) .. BLOCK_SIZE :
            i \in (p.hs.count + 1) .. BLOCK_SIZE /\ i \in (p.hs.count + Len(a) + 1) .. BLOCK_SIZE
      BY <2>2, <2>4, <2>6, <2>7, <3>1, SizeAssumption
    <3> QED BY <2>5, <2>7, <3>2 DEF Zeroed
  <2>9. g \in Open /\ \A m : Counted(h, m) => Counted(g, m)
    <3>1. h.count \in 0 .. BLOCK_SIZE
      BY <2>7 DEF Full, Filling
    <3>2. CASE h.count = BLOCK_SIZE
      <4> DEFINE r == Hash!ripemd160_compress(h)
      <4>1. /\ r \in Open /\ SameLengths(r, h) /\ \A i \in 1 .. BLOCK_SIZE : r.buf[i] = 0
            /\ r.count = 0 /\ \A m : Held(h, m) => Held(r, m)
        BY <2>7, <3>2, Compressed
      <4>2. g = r
        BY <3>2
      <4> HIDE DEF g, r
      <4>3. Zeroed(r)
        BY <4>1 DEF Zeroed
      <4> QED BY <4>1, <4>2, <4>3 DEF SameLengths, Counted, Counts
    <3>3. CASE h.count # BLOCK_SIZE
      <4>1. h \in Open
        BY <2>7, <3>1, <3>3, OpenIsFull, SizeAssumption
      <4>2. g = h
        BY <3>3
      <4> HIDE DEF g
      <4> QED BY <4>1, <4>2
    <3> QED BY <3>2, <3>3
  <2> HIDE DEF g
  <2>10. q \in Passes /\ q.hs = g /\ q.rest = b
    BY <2>3, <2>4, <2>9 DEF Passes
  <2> HIDE DEF q
  <2>11. Len(q.rest) < Len(p.rest)
    <3>1. Len(p.rest) \in Nat
      BY <2>1
    <3> QED BY <2>2, <2>4, <2>10, <3>1
  <2>12. ASSUME NEW t, CountReached(p, t) PROVE CountReached(q, t)
    <3>1. PICK w \in Seq(Octet) : Counted(p.hs, w) /\ w \o p.rest = t
      BY <2>12 DEF CountReached
    <3>2. Held(u, w \o a) /\ w \o a \in Seq(Octet) /\ Len(w \o a) = Len(w) + n
      <4>1. Held(u, w \o a) /\ w \o a \in Seq(Octet)
        BY <2>1, <2>4, <2>5, <3>1, TakesHeld DEF Counted
      <4>2. a \in Seq(Octet) /\ Len(a) = n
        BY <2>4
      <4>3. Len(w \o a) = Len(w) + Len(a)
        BY <4>2
      <4> QED BY <4>1, <4>2, <4>3
    <3>3. Held(h, w \o a)
      BY <2>7, <3>2, SameHeld
    <3>4. Counts(u, BITS * Len(w))
      BY <2>5, <3>1 DEF Counted, Counts, SameLengths
    <3>5. BITS * Len(w) \in Nat /\ BITS * Len(w) + BITS * n = BITS * (Len(w) + n)
      <4>1. BITS \in Nat /\ Len(w) \in Nat /\ n \in Nat
        BY <2>2 DEF Geometry
      <4> QED BY <4>1
    <3>6. Counted(h, w \o a)
      BY <2>7, <2>8, <3>1, <3>2, <3>3, <3>4, <3>5 DEF Counted
    <3>7. Counted(q.hs, w \o a)
      BY <2>9, <2>10, <3>6
    <3>8. (w \o a) \o q.rest = t
      <4>1. (w \o a) \o b = w \o (a \o b)
        BY <2>4, Associative
      <4> QED BY <2>4, <2>10, <3>1, <4>1
    <3> QED BY <3>2, <3>7, <3>8 DEF CountReached
  <2> QED BY <2>10, <2>11, <2>12 DEF q
<1> QED BY <1>1, <1>2

\* RIPEMD160.c: so does its loop, which counts and clears on the way.
LEMMA UpdateHeld ==
  ASSUME Geometry, NEW hs \in Open, NEW s \in Seq(Octet)
  PROVE  LET g == Hash!ripemd160_update(hs, s)
         IN  /\ g \in Open
             /\ \A m \in Seq(Octet) : Counted(hs, m) => Counted(g, m \o s)
<1> DEFINE p == [hs |-> hs, rest |-> s]
           n == Len(s)
           E(f) == [i \in 0 .. n |-> IF i = 0 THEN p ELSE Hash!UpdatePass(f[i - 1])]
           F == [q \in Passes |-> Hash!UpdatePass(q)]
           h == [i \in Nat |-> F]
           c == CHOOSE f : f = E(f)
<1>1. n \in Nat /\ p \in Passes /\ p.hs = hs /\ p.rest = s /\ n = Len(p.rest)
  BY DEF Passes
<1>2. F \in [Passes -> Passes] /\ h \in [Nat -> [Passes -> Passes]]
  <2>1. \A q \in Passes : Hash!UpdatePass(q) \in Passes
    BY UpdateStep
  <2>2. F \in [Passes -> Passes]
    BY <2>1
  <2> HIDE DEF F
  <2> QED BY <2>2
<1> HIDE DEF n, p
<1>3. PICK f \in [0 .. n -> Passes] : Recurs(f, p, h, n)
  <2> HIDE DEF h
  <2> QED BY <1>1, <1>2, RecursionUpto
<1>4. f = E(f)
  <2>1. ASSUME NEW i \in 1 .. n PROVE f[i] = Hash!UpdatePass(f[i - 1])
    <3>1. i - 1 \in Nat /\ i - 1 \in 0 .. n
      BY <1>1
    <3>2. f[i - 1] \in Passes /\ h[i - 1] = F
      BY <1>3, <3>1
    <3>3. f[i] = F[f[i - 1]]
      BY <1>3, <3>2 DEF Recurs
    <3> QED BY <3>2, <3>3
  <2>2. \A i \in 0 .. n : f[i] = IF i = 0 THEN p ELSE Hash!UpdatePass(f[i - 1])
    BY <1>1, <1>3, <2>1 DEF Recurs
  <2>3. f = [i \in 0 .. n |-> f[i]]
    BY <1>3
  <2> QED BY <2>2, <2>3
<1>5. c = E(c)
  BY <1>4
<1>6. Hash!ripemd160_update(hs, s) = c[n].hs
  BY DEF Hash!ripemd160_update, n, p
<1> HIDE DEF c
<1>7. c[0] = p /\ \A i \in 1 .. n : c[i - 1] \in Passes => c[i] = F[c[i - 1]]
  <2>1. \A i \in 0 .. n : c[i] = IF i = 0 THEN p ELSE Hash!UpdatePass(c[i - 1])
    BY <1>5
  <2> QED BY <1>1, <2>1
<1>8. \A q \in Passes : Len(F[q].rest) < Len(q.rest) \/ (q.rest = <<>> /\ F[q] = q)
  BY UpdateStep
<1> DEFINE I == {q \in Passes : (\A t : CountReached(p, t) => CountReached(q, t))}
<1>9. p \in I
  BY <1>1 DEF SameLengths
<1>10. \A q \in Passes : q \in I => F[q] \in I
  BY UpdateStep DEF SameLengths
<1> HIDE DEF F, I
<1>11. c[n] \in Passes /\ c[n] \in I /\ c[n].rest = <<>>
  BY <1>1, <1>2, <1>7, <1>8, <1>9, <1>10, LoopEnds
<1> DEFINE e == c[n]
<1>12. e \in Passes /\ e.hs \in Open /\ e.rest = <<>>
  BY <1>11 DEF Passes
<1>13. (\A t : CountReached(p, t) => CountReached(e, t))
  BY <1>11 DEF I
<1> HIDE DEF e
<1>14. ASSUME NEW m \in Seq(Octet), Counted(hs, m) PROVE Counted(e.hs, m \o s)
  <2>1. CountReached(p, m \o s)
    BY <1>1, <1>14 DEF CountReached
  <2>2. PICK w \in Seq(Octet) : Counted(e.hs, w) /\ w \o e.rest = m \o s
    BY <1>13, <2>1 DEF CountReached
  <2>3. w \o <<>> = w
    OBVIOUS
  <2> QED BY <1>12, <2>2, <2>3
<1> QED BY <1>6, <1>12, <1>14 DEF e

-----------------------------------------------------------------------------
(* The padding.                                                            *)

\* A byte repeated.
LEMMA Repeated ==
  ASSUME NEW b \in Octet, NEW n \in Nat
  PROVE  /\ Hash!Repeat(b, n) \in Seq(Octet) /\ Len(Hash!Repeat(b, n)) = n
         /\ \A i \in 1 .. n : Hash!Repeat(b, n)[i] = b
BY DEF Hash!Repeat

\* Zeros and more zeros.
LEMMA MoreZeros ==
  ASSUME NEW i \in Nat, NEW j \in Nat
  PROVE  Hash!Repeat(0, i) \o Hash!Repeat(0, j) = Hash!Repeat(0, i + j)
<1> DEFINE a == Hash!Repeat(0, i)
           b == Hash!Repeat(0, j)
           c == Hash!Repeat(0, i + j)
<1>1. 0 \in Octet /\ i + j \in Nat
  BY DEF Octet
<1>2. a \in Seq(Octet) /\ Len(a) = i /\ \A k \in 1 .. i : a[k] = 0
  BY <1>1, Repeated
<1>3. b \in Seq(Octet) /\ Len(b) = j /\ \A k \in 1 .. j : b[k] = 0
  BY <1>1, Repeated
<1>4. c \in Seq(Octet) /\ Len(c) = i + j /\ \A k \in 1 .. (i + j) : c[k] = 0
  BY <1>1, Repeated
<1> HIDE DEF a, b, c
<1>5. a \o b \in Seq(Octet) /\ Len(a \o b) = i + j
  BY <1>2, <1>3
<1>6. ASSUME NEW k \in 1 .. (i + j) PROVE (a \o b)[k] = 0
  <2>1. CASE k <= i
    BY <1>2, <1>3, <2>1
  <2>2. CASE ~(k <= i)
    <3>1. k - i \in 1 .. j /\ i + (k - i) = k
      BY <2>2
    <3>2. (a \o b)[Len(a) + (k - i)] = b[k - i]
      BY <1>2, <1>3, <3>1
    <3> QED BY <1>2, <1>3, <3>1, <3>2
  <2> QED BY <2>1, <2>2
<1>7. a \o b = c
  BY <1>4, <1>5, <1>6, SameSequence
<1> QED BY <1>7 DEF a, b, c

\* Zeros up to the count of g.
LEMMA ZerosHeld ==
  ASSUME NEW g \in Full, NEW h \in Full, NEW t \in Seq(Octet), Held(h, t),
         g.blocks = h.blocks, h.count <= g.count,
         \A i \in 1 .. h.count : g.buf[i] = h.buf[i],
         \A i \in (h.count + 1) .. g.count : g.buf[i] = 0
  PROVE  LET z == Hash!Repeat(0, g.count - h.count)
         IN  Held(g, t \o z) /\ t \o z \in Seq(Octet) /\ z \in Seq(Octet)
<1> DEFINE n == g.count - h.count
           z == Hash!Repeat(0, n)
<1>1. h.count \in Nat /\ g.count \in Nat
  BY DEF Full, Filling
<1>2. n \in Nat /\ h.count + n = g.count /\ 0 \in Octet
  BY <1>1 DEF Octet
<1>3. z \in Seq(Octet) /\ Len(z) = n /\ \A i \in 1 .. n : z[i] = 0
  <2> HIDE DEF n
  <2> QED BY <1>2, Repeated
<1> HIDE DEF z, n
<1>4. ASSUME NEW i \in 1 .. Len(z) PROVE g.buf[h.count + i] = z[i]
  <2>1. h.count + i \in (h.count + 1) .. g.count /\ i \in 1 .. n
    BY <1>1, <1>2, <1>3
  <2> QED BY <1>3, <2>1
<1>5. Takes(g, h, z)
  BY <1>2, <1>3, <1>4 DEF Takes
<1>6. Held(g, t \o z) /\ t \o z \in Seq(Octet)
  BY <1>3, <1>5, TakesHeld
<1> QED BY <1>3, <1>6 DEF z, n

\* The zeros after a message that ends with c bytes in the buffer: they and
\* the one bit and the length make whole blocks.
PadZeros(c) ==
  IF c + 1 <= Hash!LAST_BLOCK_SIZE
  THEN Hash!LAST_BLOCK_SIZE - (c + 1) ELSE (BLOCK_SIZE - (c + 1)) + Hash!LAST_BLOCK_SIZE

\* The length fills what is left of the last block.
LEMMA LastBlock ==
  ASSUME Geometry
  PROVE  /\ Hash!LAST_BLOCK_SIZE \in 1 .. BLOCK_SIZE
         /\ Hash!LAST_BLOCK_SIZE + 2 * WORD_SIZE = BLOCK_SIZE /\ 2 * WORD_SIZE \in Nat
BY SizeAssumption DEF Geometry, Hash!LAST_BLOCK_SIZE

\* PadZeros is the number of zeros that fills the last block.
LEMMA Zeros ==
  ASSUME Geometry, NEW q \in Nat, NEW c \in 0 .. (BLOCK_SIZE - 1), NEW L, L = BLOCK_SIZE * q + c
  PROVE  /\ PadZeros(c) \in 0 .. (BLOCK_SIZE - 1)
         /\ \E d \in Nat : L + 1 + PadZeros(c) + 2 * WORD_SIZE = BLOCK_SIZE * d
         /\ PadZeros(c) = CHOOSE k \in 0 .. (BLOCK_SIZE - 1) :
                            (L + 1 + k + 2 * WORD_SIZE) % BLOCK_SIZE = 0
<1> DEFINE z == PadZeros(c)
           two == 2 * WORD_SIZE
           last == Hash!LAST_BLOCK_SIZE
           P(k) == (L + 1 + k + two) % BLOCK_SIZE = 0
<1>1. BLOCK_SIZE \in Nat \ {0} /\ two \in Nat /\ last \in 1 .. BLOCK_SIZE /\ last + two = BLOCK_SIZE
  BY LastBlock, SizeAssumption
<1>2. z = IF c + 1 <= last THEN last - (c + 1) ELSE (BLOCK_SIZE - (c + 1)) + last
  BY DEF PadZeros
<1>3. L \in Nat
  BY <1>1
<1> HIDE DEF z, two, last
<1>4. z \in 0 .. (BLOCK_SIZE - 1)
  BY <1>1, <1>2
<1>5. PICK d \in Nat : L + 1 + z + two = BLOCK_SIZE * d
  <2>1. CASE c + 1 <= last
    <3>1. L + 1 + z + two = BLOCK_SIZE * q + BLOCK_SIZE
      BY <1>1, <1>2, <2>1
    <3>2. BLOCK_SIZE * (q + 1) = BLOCK_SIZE * q + BLOCK_SIZE /\ q + 1 \in Nat
      BY <1>1
    <3> QED BY <3>1, <3>2
  <2>2. CASE ~(c + 1 <= last)
    <3>1. L + 1 + z + two = BLOCK_SIZE * q + BLOCK_SIZE + BLOCK_SIZE
      BY <1>1, <1>2, <2>2
    <3>2. BLOCK_SIZE * (q + 2) = BLOCK_SIZE * q + BLOCK_SIZE + BLOCK_SIZE /\ q + 2 \in Nat
      BY <1>1
    <3> QED BY <3>1, <3>2
  <2> QED BY <2>1, <2>2
<1>6. P(z)
  <2>1. BLOCK_SIZE * d + 0 = BLOCK_SIZE * d /\ 0 \in 0 .. (BLOCK_SIZE - 1)
    BY <1>1
  <2>2. (BLOCK_SIZE * d + 0) % BLOCK_SIZE = 0
    BY <1>1, <2>1, DivMod
  <2> QED BY <1>5, <2>1, <2>2
<1>7. ASSUME NEW k \in 0 .. (BLOCK_SIZE - 1), NEW j \in 0 .. (BLOCK_SIZE - 1), k < j, P(k), P(j)
      PROVE  FALSE
  <2> DEFINE x == L + 1 + k + two
             y == L + 1 + j + two
             e == x \div BLOCK_SIZE
  <2>1. /\ x \in Nat /\ y = x + (j - k) /\ j - k \in 1 .. (BLOCK_SIZE - 1)
        /\ j - k \in 0 .. (BLOCK_SIZE - 1)
    BY <1>1, <1>3, <1>7
  <2>2. x % BLOCK_SIZE = 0 /\ y % BLOCK_SIZE = 0
    BY <1>7
  <2> HIDE DEF x, y
  <2>3. e \in Nat /\ x = BLOCK_SIZE * e + 0
    BY <1>1, <2>1, <2>2, Divided
  <2> HIDE DEF e
  <2>4. y = BLOCK_SIZE * e + (j - k)
    BY <1>1, <2>1, <2>3
  <2>5. (BLOCK_SIZE * e + (j - k)) % BLOCK_SIZE = j - k
    BY <1>1, <2>1, <2>3, DivMod
  <2> QED BY <2>1, <2>2, <2>4, <2>5
<1> HIDE DEF P
<1>8. z = CHOOSE k \in 0 .. (BLOCK_SIZE - 1) : P(k)
  <2>1. \A k \in 0 .. (BLOCK_SIZE - 1) : P(k) => k = z
    <3> SUFFICES ASSUME NEW k \in 0 .. (BLOCK_SIZE - 1), P(k), k # z PROVE FALSE
      OBVIOUS
    <3>1. k < z \/ z < k
      BY <1>4
    <3> QED BY <1>4, <1>6, <1>7, <3>1
  <2> QED BY <1>4, <1>6, <2>1
<1> QED BY <1>4, <1>5, <1>8 DEF z, two, P

\* The last block is filled with the length.
LEMMA FinalBlock ==
  ASSUME Geometry, NEW g \in Full, g.count = Hash!LAST_BLOCK_SIZE,
         NEW t \in Seq(Octet), Held(g, t), NEW l \in Seq(Octet), Len(l) = 2 * WORD_SIZE
  PROVE  Append(g.blocks, Hash!Copied(g.buf, Hash!LAST_BLOCK_SIZE, l)) = Hash!Blocks(t \o l)
<1> DEFINE k == Hash!Put(g, l)
           c == Hash!compress(k)
<1>1. g.count + Len(l) = BLOCK_SIZE /\ BLOCK_SIZE \in Nat
  BY LastBlock, SizeAssumption
<1>2. Takes(k, g, l)
  BY <1>1, PutTakes
<1>3. Held(k, t \o l) /\ t \o l \in Seq(Octet)
  BY <1>2, TakesHeld
<1>4. k \in Full /\ k.count = BLOCK_SIZE /\ k.blocks = g.blocks
  BY <1>1, <1>2 DEF Takes
<1>5. k.buf = Hash!Copied(g.buf, Hash!LAST_BLOCK_SIZE, l)
  BY DEF Hash!Put, Full, Filling
<1> HIDE DEF k
<1>6. c \in Open /\ c.count = 0 /\ c.blocks = Append(k.blocks, k.buf) /\ Held(c, t \o l)
  BY <1>3, <1>4, Compressed
<1>7. c \in Full
  BY <1>6, OpenIsFull
<1> HIDE DEF c
<1>8. c.blocks = Hash!Blocks(t \o l)
  BY <1>3, <1>6, <1>7, BlocksOf
<1> QED BY <1>4, <1>5, <1>6, <1>8

\* A word of a length in bytes.
LEMMA Encoded ==
  ASSUME Geometry, NEW w \in Nat
  PROVE  /\ Hash!BigEndian(w) \in Seq(Octet) /\ Len(Hash!BigEndian(w)) = WORD_SIZE
         /\ Hash!LittleEndian(w) \in Seq(Octet) /\ Len(Hash!LittleEndian(w)) = WORD_SIZE
<1> DEFINE b == Hash!BigEndian(w)
<1>1. WORD_SIZE \in Nat /\ BITS \in Nat
  BY DEF Geometry
<1>2. ASSUME NEW i \in 1 .. WORD_SIZE
      PROVE  (w \div Hash!PowerOfTwo[BITS * (WORD_SIZE - i)]) % Hash!PowerOfTwo[BITS] \in Octet
  <2> DEFINE p == Hash!PowerOfTwo[BITS * (WORD_SIZE - i)]
             u == Hash!PowerOfTwo[BITS]
             d == w \div p
  <2>1. BITS * (WORD_SIZE - i) \in Nat
    <3>1. WORD_SIZE - i \in Nat
      BY <1>1
    <3> QED BY <1>1, <3>1
  <2>2. p \in Nat \ {0} /\ u \in Nat \ {0}
    BY <1>1, <2>1, Powers
  <2> HIDE DEF p, u
  <2>3. d \in Nat
    BY <2>2, Divided
  <2> HIDE DEF d
  <2>4. d % u \in Octet
    <3>1. d % u \in 0 .. (u - 1)
      BY <2>2, <2>3, Divided
    <3> QED BY <2>2, <3>1 DEF Octet
  <2> QED BY <2>4 DEF d, p, u
<1>3. b = [i \in 1 .. WORD_SIZE |->
             (w \div Hash!PowerOfTwo[BITS * (WORD_SIZE - i)]) % Hash!PowerOfTwo[BITS]]
  BY DEF Hash!BigEndian
<1>4. b \in [1 .. WORD_SIZE -> Octet]
  BY <1>2, <1>3
<1> HIDE DEF b
<1>5. b \in Seq(Octet) /\ Len(b) = WORD_SIZE
  BY <1>1, <1>4
<1>6. Hash!LittleEndian(w) = [i \in 1 .. Len(b) |-> b[(Len(b) - i) + 1]]
  BY DEF Hash!LittleEndian, Hash!Reverse, b
<1>7. \A i \in 1 .. WORD_SIZE : (WORD_SIZE - i) + 1 \in 1 .. WORD_SIZE
  BY <1>1
<1>8. [i \in 1 .. Len(b) |-> b[(Len(b) - i) + 1]] \in [1 .. WORD_SIZE -> Octet]
  BY <1>4, <1>5, <1>7
<1>9. Hash!LittleEndian(w) \in Seq(Octet) /\ Len(Hash!LittleEndian(w)) = WORD_SIZE
  BY <1>1, <1>6, <1>8
<1> QED BY <1>5, <1>9 DEF b

\* Both words of a length.
LEMMA LengthEncoded ==
  ASSUME Geometry, NEW a \in Nat, NEW b \in Nat
  PROVE  LET big == Hash!BigEndian(a) \o Hash!BigEndian(b)
             little == Hash!LittleEndian(a) \o Hash!LittleEndian(b)
         IN  /\ big \in Seq(Octet) /\ Len(big) = 2 * WORD_SIZE
             /\ little \in Seq(Octet) /\ Len(little) = 2 * WORD_SIZE
<1>1. \A u, v \in Seq(Octet) :
        Len(u) = WORD_SIZE /\ Len(v) = WORD_SIZE =>
          u \o v \in Seq(Octet) /\ Len(u \o v) = 2 * WORD_SIZE
  <2> SUFFICES ASSUME NEW u \in Seq(Octet), NEW v \in Seq(Octet),
                      Len(u) = WORD_SIZE, Len(v) = WORD_SIZE
               PROVE  u \o v \in Seq(Octet) /\ Len(u \o v) = 2 * WORD_SIZE
    OBVIOUS
  <2>1. Len(u \o v) = WORD_SIZE + WORD_SIZE
    OBVIOUS
  <2> QED BY <2>1 DEF Geometry
<1>2. \A w \in Nat :
        /\ Hash!BigEndian(w) \in Seq(Octet) /\ Len(Hash!BigEndian(w)) = WORD_SIZE
        /\ Hash!LittleEndian(w) \in Seq(Octet) /\ Len(Hash!LittleEndian(w)) = WORD_SIZE
  BY Encoded
<1> QED BY <1>1, <1>2

\* PadTo fills with zeros.
LEMMA PadToHeld ==
  ASSUME NEW hs \in Full, NEW n \in 0 .. BLOCK_SIZE, hs.count <= n
  PROVE  LET g == Hash!PadTo(hs, n)
         IN  /\ g \in Full /\ g.count = n /\ SameLengths(g, hs)
             /\ \A t \in Seq(Octet) : Held(hs, t) =>
                  /\ Held(g, t \o Hash!Repeat(0, n - hs.count))
                  /\ t \o Hash!Repeat(0, n - hs.count) \in Seq(Octet)
<1> DEFINE buf == [i \in 1 .. BLOCK_SIZE |-> IF i \in (hs.count + 1) .. n THEN 0 ELSE hs.buf[i]]
           g == Hash!PadTo(hs, n)
<1>1. hs.count \in Nat /\ hs.buf \in Buffer /\ BLOCK_SIZE \in Nat
  BY SizeAssumption DEF Full, Filling
<1>2. buf \in Buffer
  <2>1. \A i \in 1 .. BLOCK_SIZE : hs.buf[i] \in Octet /\ 0 \in Octet
    BY <1>1 DEF Buffer, Octet
  <2> QED BY <2>1 DEF Buffer
<1>3. \A i \in 1 .. hs.count : buf[i] = hs.buf[i]
  <2>1. \A i \in 1 .. hs.count : i \in 1 .. BLOCK_SIZE /\ i \notin (hs.count + 1) .. n
    BY <1>1
  <2> QED BY <2>1
<1>4. \A i \in (hs.count + 1) .. n : buf[i] = 0
  <2>1. \A i \in (hs.count + 1) .. n : i \in 1 .. BLOCK_SIZE
    BY <1>1
  <2> QED BY <2>1
<1>5. g = [hs EXCEPT !.buf = buf, !.count = n]
  BY DEF Hash!PadTo
<1> HIDE DEF buf
<1>6. /\ g \in Full /\ g.count = n /\ g.buf = buf /\ g.blocks = hs.blocks /\ SameLengths(g, hs)
  BY <1>2, <1>5 DEF Full, Filling, SameLengths
<1> HIDE DEF g
<1>7. ASSUME NEW t \in Seq(Octet), Held(hs, t)
      PROVE  /\ Held(g, t \o Hash!Repeat(0, n - hs.count))
             /\ t \o Hash!Repeat(0, n - hs.count) \in Seq(Octet)
  BY <1>3, <1>4, <1>6, <1>7, ZerosHeld
<1> QED BY <1>6, <1>7 DEF g

\* The padded message, with the zeros counted from the bytes in the buffer.
WithZeros(m, c) == (m \o <<Hash!OneBit>>) \o Hash!Repeat(0, PadZeros(c))

\* The blocks of the padded message.
LEMMA StrengthenedIs ==
  ASSUME Geometry, NEW hs \in Open, NEW m \in Seq(Octet), Held(hs, m), NEW l
  PROVE  Hash!Strengthened(m, l) = Hash!Blocks(WithZeros(m, hs.count) \o l)
<1> DEFINE q == Len(hs.blocks)
           c == hs.count
<1>1. q \in Nat /\ c \in 0 .. (BLOCK_SIZE - 1) /\ Len(m) = BLOCK_SIZE * q + c
  BY DEF Open, Filling, Held
<1> HIDE DEF q, c
<1>2. PadZeros(c) = CHOOSE k \in 0 .. (BLOCK_SIZE - 1) :
                      (Len(m) + 1 + k + 2 * WORD_SIZE) % BLOCK_SIZE = 0
  BY <1>1, Zeros
<1> QED BY <1>2, Zenon DEF Hash!Strengthened, WithZeros, c

\* The byte that starts the padding is one.
LEMMA OneBitTyped == ASSUME Geometry PROVE Hash!OneBit \in Octet
<1>1. BITS - 1 \in Nat
  BY DEF Geometry
<1> QED BY <1>1, Powers DEF Hash!OneBit, Octet

\* SHA-2 pads as FIPS 180 says.
LEMMA ShaDone ==
  ASSUME Geometry, NEW hs \in Open, NEW m \in Seq(Octet), Held(hs, m), WholeBlocks(hs)
  PROVE  Hash!sha_done(hs).blocks =
           Hash!Strengthened(m, Hash!BigEndian(Hash!Upper(m)) \o Hash!BigEndian(Hash!Lower(m)))
<1> DEFINE c == hs.count
           last == Hash!LAST_BLOCK_SIZE
           a == Hash!add_length(hs, hs.count * BITS)
           h1 == Hash!AppendByte(a, Hash!OneBit)
           h2 == IF h1.count > Hash!LAST_BLOCK_SIZE
                 THEN Hash!compress(Hash!PadTo(h1, BLOCK_SIZE)) ELSE h1
           h3 == Hash!PadTo(h2, Hash!LAST_BLOCK_SIZE)
           l == Hash!BigEndian(h3.len2) \o Hash!BigEndian(h3.len1)
           m1 == m \o <<Hash!OneBit>>
<1>1. /\ hs \in Full /\ c \in 0 .. (BLOCK_SIZE - 1) /\ BLOCK_SIZE \in Nat /\ BITS \in Nat
      /\ last \in 1 .. BLOCK_SIZE
  BY OpenIsFull, LastBlock, SizeAssumption DEF Open, Filling, Geometry
<1>2. c * BITS \in Nat /\ c * BITS < Hash!WordRange
  <2> DEFINE W == Hash!WordRange
  <2>1. BITS * BLOCK_SIZE < W /\ W \in Nat /\ BITS * BLOCK_SIZE \in Nat
    BY <1>1, WordRangeTyped DEF Geometry
  <2> HIDE DEF c, W
  <2>2. BLOCK_SIZE - c \in Nat /\ c \in Nat
    BY <1>1
  <2>3. c * BITS \in Nat /\ (BLOCK_SIZE - c) * BITS \in Nat
    BY <1>1, <2>2
  <2>4. BITS * BLOCK_SIZE = c * BITS + (BLOCK_SIZE - c) * BITS
    BY <1>1
  <2> QED BY <2>1, <2>3, <2>4 DEF W
<1>3. /\ a \in Full /\ a.blocks = hs.blocks /\ a.buf = hs.buf /\ a.count = c
      /\ \A x \in Nat : Counts(hs, x) => Counts(a, x + c * BITS)
  BY <1>1, <1>2, AddLength
<1> HIDE DEF a
<1>4. Counts(a, BITS * Len(m))
  <2> DEFINE q == Len(hs.blocks)
             x == BITS * (BLOCK_SIZE * q)
  <2>1. q \in Nat /\ Len(m) = BLOCK_SIZE * q + c
    BY <1>1 DEF Full, Filling, Held
  <2>2. Counts(hs, x)
    BY DEF WholeBlocks
  <2> HIDE DEF q, c
  <2>3. x \in Nat /\ x + c * BITS = BITS * Len(m)
    <3> DEFINE y == BLOCK_SIZE * q
    <3>1. y \in Nat
      BY <1>1, <2>1
    <3>2. Len(m) = y + c /\ x = BITS * y
      BY <2>1
    <3> HIDE DEF y, x
    <3> QED BY <1>1, <3>1, <3>2
  <2> QED BY <1>3, <2>2, <2>3
<1>5. a \in Open /\ Held(a, m)
  BY <1>1, <1>3, OpenIsFull, SameHeld
<1>6. Takes(h1, a, <<Hash!OneBit>>) /\ SameLengths(h1, a) /\ Hash!OneBit \in Octet
  BY <1>5, AppendTakes, OneBitTyped
<1> HIDE DEF h1
<1>7. h1 \in Full /\ h1.count = c + 1 /\ Held(h1, m1) /\ m1 \in Seq(Octet)
  <2>1. <<Hash!OneBit>> \in Seq(Octet) /\ Len(<<Hash!OneBit>>) = 1
    BY <1>6
  <2> QED BY <1>3, <1>5, <1>6, <2>1, TakesHeld DEF Takes
<1> HIDE DEF c, last, m1
<1>8. /\ h3 \in Full /\ h3.count = last /\ SameLengths(h3, h1)
      /\ Held(h3, m1 \o Hash!Repeat(0, PadZeros(c)))
      /\ m1 \o Hash!Repeat(0, PadZeros(c)) \in Seq(Octet)
  <2>1. CASE c + 1 <= last
    <3>1. h2 = h1
      BY <1>1, <1>7, <2>1 DEF last
    <3>2. PadZeros(c) = last - (c + 1)
      BY <2>1 DEF PadZeros, last
    <3> HIDE DEF h2
    <3>3. last \in 0 .. BLOCK_SIZE /\ h1.count <= last
      BY <1>1, <1>7, <2>1
    <3>4. h3 = Hash!PadTo(h1, last)
      BY <3>1 DEF last
    <3> HIDE DEF h3
    <3> QED BY <1>7, <3>2, <3>3, <3>4, PadToHeld
  <2>2. CASE ~(c + 1 <= last)
    <3> DEFINE p == Hash!PadTo(h1, BLOCK_SIZE)
               z1 == Hash!Repeat(0, BLOCK_SIZE - (c + 1))
               z2 == Hash!Repeat(0, last)
    <3>1. h2 = Hash!compress(p)
      BY <1>1, <1>7, <2>2 DEF last
    <3>2. PadZeros(c) = (BLOCK_SIZE - (c + 1)) + last
      BY <2>2 DEF PadZeros, last
    <3>3. BLOCK_SIZE \in 0 .. BLOCK_SIZE /\ h1.count <= BLOCK_SIZE /\ last \in 0 .. BLOCK_SIZE
      BY <1>1, <1>7
    <3>4. /\ p \in Full /\ p.count = BLOCK_SIZE /\ SameLengths(p, h1)
          /\ Held(p, m1 \o z1) /\ m1 \o z1 \in Seq(Octet)
      BY <1>7, <3>3, PadToHeld
    <3> HIDE DEF p, h2
    <3>5. h2 \in Open /\ h2.count = 0 /\ SameLengths(h2, p) /\ Held(h2, m1 \o z1)
      BY <3>1, <3>4, Compressed
    <3>6. h2 \in Full /\ h2.count <= last
      BY <1>1, <3>5, OpenIsFull
    <3>7. h3 = Hash!PadTo(h2, last)
      BY DEF last
    <3> HIDE DEF h3, z1
    <3>8. /\ h3 \in Full /\ h3.count = last /\ SameLengths(h3, h2)
          /\ Held(h3, (m1 \o z1) \o Hash!Repeat(0, last - h2.count))
          /\ (m1 \o z1) \o Hash!Repeat(0, last - h2.count) \in Seq(Octet)
      BY <3>3, <3>4, <3>5, <3>6, <3>7, PadToHeld
    <3>9. last - h2.count = last
      BY <1>1, <3>5
    <3>10. (m1 \o z1) \o z2 = m1 \o Hash!Repeat(0, PadZeros(c))
      <4>1. BLOCK_SIZE - (c + 1) \in Nat /\ last \in Nat /\ 0 \in Octet
        BY <1>1 DEF Octet
      <4>2. z1 \in Seq(Octet) /\ z2 \in Seq(Octet)
        BY <4>1, Repeated DEF z1
      <4>3. z1 \o z2 = Hash!Repeat(0, PadZeros(c))
        BY <3>2, <4>1, MoreZeros DEF z1
      <4> HIDE DEF z2
      <4>4. (m1 \o z1) \o z2 = m1 \o (z1 \o z2)
        BY <1>7, <4>2, Associative
      <4> QED BY <4>3, <4>4
    <3> QED BY <3>4, <3>5, <3>8, <3>9, <3>10 DEF SameLengths
  <2> QED BY <2>1, <2>2
<1>9. Hash!sha_done(hs).blocks = Append(h3.blocks, Hash!Copied(h3.buf, last, l))
  <2> DEFINE k == [h3 EXCEPT !.buf = Hash!Copied(h3.buf, last, l)]
  <2>1. Hash!sha_done(hs) = Hash!compress(k)
    BY DEF Hash!sha_done, a, h1, last
  <2> HIDE DEF h3, l
  <2>2. Hash!compress(k).blocks = Append(h3.blocks, Hash!Copied(h3.buf, last, l))
    BY <1>8 DEF Hash!compress, Full, Filling
  <2> QED BY <2>1, <2>2
<1> HIDE DEF h3
<1>10. h3.len1 = Hash!Lower(m) /\ h3.len2 = Hash!Upper(m)
  BY <1>4, <1>6, <1>8 DEF SameLengths, Counts, Hash!Lower, Hash!Upper
<1>11. l \in Seq(Octet) /\ Len(l) = 2 * WORD_SIZE
  <2>1. h3.len1 \in Nat /\ h3.len2 \in Nat
    BY <1>8 DEF Full, Filling
  <2> QED BY <2>1, LengthEncoded
<1> HIDE DEF l
<1>12. Append(h3.blocks, Hash!Copied(h3.buf, last, l)) = Hash!Blocks(WithZeros(m, c) \o l)
  BY <1>8, <1>11, FinalBlock DEF WithZeros, m1, last
<1>13. Hash!Strengthened(m, l) = Hash!Blocks(WithZeros(m, c) \o l)
  BY StrengthenedIs DEF c
<1> QED BY <1>9, <1>10, <1>12, <1>13 DEF l

\* RIPEMD160.c takes the zeros from the buffer it cleared.
LEMMA RipemdDigest ==
  ASSUME Geometry, NEW hs \in Open, NEW m \in Seq(Octet), Counted(hs, m)
  PROVE  Hash!ripemd160_digest(hs).blocks =
           Hash!Strengthened(m, Hash!LittleEndian(Hash!Lower(m))
                                \o Hash!LittleEndian(Hash!Upper(m)))
<1> DEFINE c == hs.count
           last == Hash!LAST_BLOCK_SIZE
           h1 == Hash!AppendByte(hs, Hash!OneBit)
           h2 == IF h1.count > Hash!LAST_BLOCK_SIZE THEN Hash!ripemd160_compress(h1) ELSE h1
           g == [h2 EXCEPT !.count = last]
           l == Hash!LittleEndian(hs.len1) \o Hash!LittleEndian(hs.len2)
           m1 == m \o <<Hash!OneBit>>
<1>1. /\ hs \in Full /\ c \in 0 .. (BLOCK_SIZE - 1) /\ BLOCK_SIZE \in Nat
      /\ last \in 1 .. BLOCK_SIZE /\ Held(hs, m)
  BY OpenIsFull, LastBlock, SizeAssumption DEF Open, Filling, Counted
<1>2. /\ Takes(h1, hs, <<Hash!OneBit>>) /\ Hash!OneBit \in Octet
      /\ \A i \in 1 .. BLOCK_SIZE : i # c + 1 => h1.buf[i] = hs.buf[i]
  BY AppendTakes, OneBitTyped
<1> HIDE DEF h1
<1>3. h1 \in Full /\ h1.count = c + 1 /\ Held(h1, m1) /\ m1 \in Seq(Octet)
  <2>1. <<Hash!OneBit>> \in Seq(Octet) /\ Len(<<Hash!OneBit>>) = 1
    BY <1>2
  <2> QED BY <1>1, <1>2, <2>1, TakesHeld DEF Takes
<1>4. \A i \in (c + 2) .. BLOCK_SIZE : h1.buf[i] = 0
  <2>1. \A i \in (c + 2) .. BLOCK_SIZE :
          i \in 1 .. BLOCK_SIZE /\ i # c + 1 /\ i \in (hs.count + 1) .. BLOCK_SIZE
    BY <1>1
  <2> QED BY <1>2, <2>1 DEF Counted, Zeroed
<1> HIDE DEF c, last, m1
<1>5. /\ g \in Full /\ g.count = last /\ g.blocks = h2.blocks /\ g.buf = h2.buf
      /\ Held(g, m1 \o Hash!Repeat(0, PadZeros(c)))
      /\ m1 \o Hash!Repeat(0, PadZeros(c)) \in Seq(Octet)
  <2>1. CASE c + 1 <= last
    <3>1. h2 = h1
      BY <1>1, <1>3, <2>1 DEF last
    <3>2. PadZeros(c) = last - (c + 1)
      BY <2>1 DEF PadZeros, last
    <3> HIDE DEF h2
    <3>3. last \in 0 .. BLOCK_SIZE
      BY <1>1
    <3>4. g \in Full /\ g.count = last /\ g.blocks = h1.blocks /\ g.buf = h1.buf
      BY <1>3, <3>1, <3>3 DEF Full, Filling
    <3> HIDE DEF g
    <3>5. \A i \in (h1.count + 1) .. g.count : g.buf[i] = 0
      <4>1. \A i \in (h1.count + 1) .. g.count : i \in (c + 2) .. BLOCK_SIZE
        BY <1>1, <1>3, <3>4
      <4> QED BY <1>4, <3>4, <4>1
    <3> QED BY <1>3, <2>1, <3>1, <3>2, <3>4, <3>5, ZerosHeld
  <2>2. CASE ~(c + 1 <= last)
    <3> DEFINE p == [h1 EXCEPT !.count = BLOCK_SIZE]
               z1 == Hash!Repeat(0, BLOCK_SIZE - (c + 1))
               z2 == Hash!Repeat(0, last)
    <3>1. h2 = Hash!ripemd160_compress(h1)
      BY <1>1, <1>3, <2>2 DEF last
    <3>2. PadZeros(c) = (BLOCK_SIZE - (c + 1)) + last
      BY <2>2 DEF PadZeros, last
    <3>3. BLOCK_SIZE \in 0 .. BLOCK_SIZE /\ last \in 0 .. BLOCK_SIZE
      BY <1>1
    <3>4. p \in Full /\ p.count = BLOCK_SIZE /\ p.blocks = h1.blocks /\ p.buf = h1.buf
      BY <1>3, <3>3 DEF Full, Filling
    <3>5. Hash!ripemd160_compress(p) = Hash!ripemd160_compress(h1)
      BY <1>3 DEF Hash!ripemd160_compress, Hash!compress, Full, Filling
    <3> HIDE DEF p, h2
    <3>6. \A i \in (h1.count + 1) .. p.count : p.buf[i] = 0
      <4>1. \A i \in (h1.count + 1) .. p.count : i \in (c + 2) .. BLOCK_SIZE
        BY <1>1, <1>3, <3>4
      <4> QED BY <1>4, <3>4, <4>1
    <3>7. Held(p, m1 \o z1) /\ m1 \o z1 \in Seq(Octet)
      <4>1. h1.count <= p.count /\ p.count - h1.count = BLOCK_SIZE - (c + 1)
        BY <1>1, <1>3, <3>4
      <4> QED BY <1>3, <3>4, <3>6, <4>1, ZerosHeld
    <3>8. /\ h2 \in Open /\ h2.count = 0 /\ Held(h2, m1 \o z1)
          /\ \A i \in 1 .. BLOCK_SIZE : h2.buf[i] = 0
      BY <3>1, <3>4, <3>5, <3>7, Compressed
    <3>9. h2 \in Full
      BY <3>8, OpenIsFull
    <3>10. g \in Full /\ g.count = last /\ g.blocks = h2.blocks /\ g.buf = h2.buf
      BY <3>3, <3>9 DEF Full, Filling
    <3> HIDE DEF g, z1
    <3>11. /\ Held(g, (m1 \o z1) \o Hash!Repeat(0, g.count - h2.count))
           /\ (m1 \o z1) \o Hash!Repeat(0, g.count - h2.count) \in Seq(Octet)
      <4>1. h2.count <= g.count
        BY <1>1, <3>8, <3>10
      <4>2. \A i \in (h2.count + 1) .. g.count : g.buf[i] = 0
        <5>1. \A i \in (h2.count + 1) .. g.count : i \in 1 .. BLOCK_SIZE
          BY <1>1, <3>8, <3>10
        <5> QED BY <3>8, <3>10, <5>1
      <4> QED BY <3>7, <3>8, <3>9, <3>10, <4>1, <4>2, ZerosHeld
    <3>12. g.count - h2.count = last
      BY <1>1, <3>8, <3>10
    <3>13. (m1 \o z1) \o z2 = m1 \o Hash!Repeat(0, PadZeros(c))
      <4>1. BLOCK_SIZE - (c + 1) \in Nat /\ last \in Nat /\ 0 \in Octet
        BY <1>1 DEF Octet
      <4>2. z1 \in Seq(Octet) /\ z2 \in Seq(Octet)
        BY <4>1, Repeated DEF z1
      <4>3. z1 \o z2 = Hash!Repeat(0, PadZeros(c))
        BY <3>2, <4>1, MoreZeros DEF z1
      <4> HIDE DEF z2
      <4>4. (m1 \o z1) \o z2 = m1 \o (z1 \o z2)
        BY <1>3, <4>2, Associative
      <4> QED BY <4>3, <4>4
    <3> QED BY <3>10, <3>11, <3>12, <3>13
  <2> QED BY <2>1, <2>2
<1>6. Hash!ripemd160_digest(hs).blocks = Append(h2.blocks, Hash!Copied(h2.buf, last, l))
  <2> DEFINE k == [h2 EXCEPT !.buf = Hash!Copied(h2.buf, last, l)]
  <2>1. Hash!ripemd160_digest(hs) = Hash!ripemd160_compress(k)
    BY DEF Hash!ripemd160_digest, h1, last
  <2>2. h2 \in Full
    <3>1. CASE h1.count > Hash!LAST_BLOCK_SIZE
      <4> DEFINE z == Hash!Repeat(0, BLOCK_SIZE)
      <4>1. z \in Buffer /\ 0 \in 0 .. BLOCK_SIZE
        BY <1>1 DEF Buffer, Octet, Hash!Repeat
      <4>2. Append(h1.blocks, h1.buf) \in Seq(Buffer)
        BY <1>3 DEF Full, Filling
      <4>3. h2 = [h1 EXCEPT !.blocks = Append(h1.blocks, h1.buf), !.count = 0, !.buf = z]
        BY <1>3, <3>1 DEF Hash!ripemd160_compress, Hash!compress, Full, Filling
      <4> HIDE DEF h2, z
      <4> QED BY <1>3, <4>1, <4>2, <4>3 DEF Full, Filling
    <3>2. CASE ~(h1.count > Hash!LAST_BLOCK_SIZE)
      BY <1>3, <3>2
    <3> QED BY <3>1, <3>2
  <2> HIDE DEF h2, l
  <2>3. Hash!ripemd160_compress(k).blocks = Append(h2.blocks, Hash!Copied(h2.buf, last, l))
    BY <2>2 DEF Hash!ripemd160_compress, Hash!compress, Full, Filling
  <2> QED BY <2>1, <2>3
<1> HIDE DEF h2, g
<1>7. hs.len1 = Hash!Lower(m) /\ hs.len2 = Hash!Upper(m)
  BY DEF Counted, Counts, Hash!Lower, Hash!Upper
<1>8. l \in Seq(Octet) /\ Len(l) = 2 * WORD_SIZE
  <2>1. hs.len1 \in Nat /\ hs.len2 \in Nat
    BY <1>1 DEF Full, Filling
  <2> QED BY <2>1, LengthEncoded
<1> HIDE DEF l
<1>9. Append(g.blocks, Hash!Copied(g.buf, last, l)) = Hash!Blocks(WithZeros(m, c) \o l)
  BY <1>5, <1>8, FinalBlock DEF WithZeros, m1, last
<1>10. Hash!Strengthened(m, l) = Hash!Blocks(WithZeros(m, c) \o l)
  BY <1>1, StrengthenedIs DEF c
<1> QED BY <1>5, <1>6, <1>7, <1>9, <1>10 DEF l

\* MD4.c counts the whole piece before its loop.
LEMMA MD4Update ==
  ASSUME Geometry, NEW hs \in Open, NEW s \in Seq(Octet)
  PROVE  LET g == Hash!md4_update(hs, s)
         IN  /\ g \in Open
             /\ \A m \in Seq(Octet) : Held(hs, m) => Held(g, m \o s)
             /\ \A x \in Nat : Counts(hs, x) => Counts(g, x + BITS * Len(s))
<1> DEFINE W == Hash!WordRange
           bits == Len(s) * BITS
           len1 == (hs.len1 + (bits % W)) % W
           over == IF len1 < hs.len1 THEN 1 ELSE 0
           len2 == ((hs.len2 + over) + (bits \div W)) % W
           h == [hs EXCEPT !.len1 = len1, !.len2 = len2]
           g == Hash!md4_update(hs, s)
<1>1. W \in Nat \ {0} /\ hs.len1 \in Nat /\ hs.len2 \in Nat
  BY WordRangeTyped DEF Open, Filling
<1>2. bits \in Nat /\ bits = BITS * Len(s)
  <2>1. Len(s) \in Nat /\ BITS \in Nat
    BY DEF Geometry
  <2> QED BY <2>1
<1>3. g = Hash!Fill(h, s)
  BY DEF Hash!md4_update
<1> HIDE DEF W, bits
<1>4. len1 \in Nat /\ len2 \in Nat
  <2>1. bits % W \in Nat /\ bits \div W \in Nat
    <3>1. bits % W \in 0 .. (W - 1) /\ bits \div W \in Nat
      BY <1>1, <1>2, Divided
    <3> QED BY <1>1, <3>1
  <2> DEFINE x == hs.len1 + (bits % W)
             y == (hs.len2 + over) + (bits \div W)
  <2>2. x \in Nat /\ y \in Nat
    <3>1. over \in Nat
      OBVIOUS
    <3> DEFINE a == bits % W
               b == bits \div W
    <3>2. a \in Nat /\ b \in Nat
      BY <2>1
    <3> HIDE DEF over, a, b
    <3>3. hs.len1 + a \in Nat /\ (hs.len2 + over) + b \in Nat
      BY <1>1, <3>1, <3>2
    <3> QED BY <3>3 DEF a, b
  <2> HIDE DEF x, y
  <2>3. x % W \in Nat /\ y % W \in Nat
    BY <1>1, <2>2, Divided
  <2> QED BY <2>3 DEF x, y
<1>5. ASSUME NEW x \in Nat, Counts(hs, x)
      PROVE  len1 = (x + bits) % W /\ len2 = ((x + bits) \div W) % W
  <2> DEFINE low == ((x % W) + (bits % W)) % W
             bit == IF low < x % W THEN 1 ELSE 0
  <2>1. hs.len1 = x % W /\ hs.len2 = (x \div W) % W
    BY <1>5 DEF Counts, W
  <2>2. /\ low = (x + bits) % W
        /\ ((((x \div W) % W) + bit) + (bits \div W)) % W = ((x + bits) \div W) % W
    BY <1>1, <1>2, CountMore
  <2>3. low = len1 /\ bit = over
    BY <2>1
  <2> HIDE DEF low, bit, len1, over
  <2> QED BY <2>1, <2>2, <2>3
<1> HIDE DEF len1, len2
<1>6. h \in Open /\ h.blocks = hs.blocks /\ h.buf = hs.buf /\ h.count = hs.count
  BY <1>4 DEF Open, Filling
<1>7. h.len1 = len1 /\ h.len2 = len2
  BY DEF Open, Filling
<1> HIDE DEF h, g
<1>8. /\ g \in Open /\ SameLengths(g, h)
      /\ \A m \in Seq(Octet) : Held(h, m) => Held(g, m \o s)
  BY <1>3, <1>6, FillHeld
<1>9. \A m \in Seq(Octet) : Held(hs, m) => Held(g, m \o s)
  BY <1>6, <1>8, SameHeld
<1>10. \A x \in Nat : Counts(hs, x) => Counts(g, x + BITS * Len(s))
  BY <1>2, <1>5, <1>7, <1>8 DEF Counts, SameLengths, W
<1> QED BY <1>8, <1>9, <1>10 DEF g

\* A whole number of blocks leaves nothing in the buffer.
LEMMA NothingLeft ==
  ASSUME NEW hs \in Open, NEW t \in Seq(Octet), Held(hs, t),
         NEW d \in Nat, Len(t) = BLOCK_SIZE * d
  PROVE  hs.count = 0 /\ hs.blocks = Hash!Blocks(t)
<1> DEFINE q == Len(hs.blocks)
<1>1. hs \in Full /\ q \in Nat /\ hs.count \in 0 .. (BLOCK_SIZE - 1) /\ BLOCK_SIZE \in Nat \ {0}
  BY OpenIsFull, SizeAssumption DEF Open, Filling
<1>2. Len(t) = BLOCK_SIZE * q + hs.count
  BY DEF Held
<1> HIDE DEF q
<1>3. hs.count = 0
  <2> DEFINE L == Len(t)
  <2>1. L = BLOCK_SIZE * d + 0 /\ 0 \in 0 .. (BLOCK_SIZE - 1)
    BY <1>1
  <2>2. L % BLOCK_SIZE = 0
    BY <1>1, <2>1, DivMod
  <2>3. L % BLOCK_SIZE = hs.count
    BY <1>1, <1>2, DivMod
  <2> QED BY <2>2, <2>3
<1> QED BY <1>1, <1>3, BlocksOf

\* MD4.c pads by an update with zeros and one with the length.
LEMMA MD4Digest ==
  ASSUME Geometry, NEW hs \in Open, NEW m \in Seq(Octet), Held(hs, m), Counts(hs, BITS * Len(m))
  PROVE  Hash!md4_digest(hs).blocks =
           Hash!Strengthened(m, Hash!LittleEndian(Hash!Lower(m))
                                \o Hash!LittleEndian(Hash!Upper(m)))
<1> DEFINE c == hs.count
           last == Hash!LAST_BLOCK_SIZE
           padlen == IF Hash!LAST_BLOCK_SIZE <= hs.count
                     THEN (Hash!LAST_BLOCK_SIZE - hs.count) + BLOCK_SIZE
                     ELSE Hash!LAST_BLOCK_SIZE - hs.count
           z == PadZeros(c)
           one == <<Hash!OneBit>>
           pad == SubSeq(one \o Hash!Repeat(0, BLOCK_SIZE - 1), 1, padlen)
           padded == Hash!md4_update(hs, pad)
           l == Hash!LittleEndian(hs.len1) \o Hash!LittleEndian(hs.len2)
           g == Hash!md4_update(padded, l)
           t == WithZeros(m, c)
<1>1. /\ c \in 0 .. (BLOCK_SIZE - 1) /\ BLOCK_SIZE \in Nat \ {0} /\ last \in 1 .. BLOCK_SIZE
      /\ hs.len1 \in Nat /\ hs.len2 \in Nat
  BY LastBlock, SizeAssumption DEF Open, Filling
<1>2. padlen = z + 1 /\ z \in 0 .. (BLOCK_SIZE - 1)
  <2>1. z = IF c + 1 <= last THEN last - (c + 1) ELSE (BLOCK_SIZE - (c + 1)) + last
    BY DEF PadZeros
  <2>2. padlen = IF last <= c THEN (last - c) + BLOCK_SIZE ELSE last - c
    OBVIOUS
  <2> HIDE DEF z, padlen, c, last
  <2>3. CASE c + 1 <= last
    BY <1>1, <2>1, <2>2, <2>3
  <2>4. CASE ~(c + 1 <= last)
    BY <1>1, <2>1, <2>2, <2>4
  <2> QED BY <2>3, <2>4
<1>3. Hash!md4_digest(hs) = g
  BY DEF Hash!md4_digest
<1> HIDE DEF padlen
<1>4. one \in Seq(Octet) /\ Len(one) = 1 /\ 0 \in Octet
  BY OneBitTyped DEF Octet
<1>5. pad = one \o Hash!Repeat(0, z)
  <2> DEFINE all == Hash!Repeat(0, BLOCK_SIZE - 1)
             some == Hash!Repeat(0, z)
             whole == one \o all
  <2>1. BLOCK_SIZE - 1 \in Nat /\ z \in Nat
    BY <1>1, <1>2
  <2>2. /\ all \in Seq(Octet) /\ Len(all) = BLOCK_SIZE - 1
        /\ \A i \in 1 .. (BLOCK_SIZE - 1) : all[i] = 0
    BY <1>4, <2>1, Repeated
  <2>3. some \in Seq(Octet) /\ Len(some) = z /\ \A i \in 1 .. z : some[i] = 0
    BY <1>4, <2>1, Repeated
  <2> HIDE DEF all, some, one, z
  <2> DEFINE short == one \o some
  <2>4. /\ whole \in Seq(Octet) /\ Len(whole) = Len(one) + Len(all)
        /\ \A i \in 1 .. Len(one) : whole[i] = one[i]
        /\ \A i \in 1 .. Len(all) : whole[Len(one) + i] = all[i]
    BY <1>4, <2>2, Joined
  <2>5. /\ short \in Seq(Octet) /\ Len(short) = Len(one) + Len(some)
        /\ \A i \in 1 .. Len(one) : short[i] = one[i]
        /\ \A i \in 1 .. Len(some) : short[Len(one) + i] = some[i]
    BY <1>4, <2>3, Joined
  <2> HIDE DEF whole, short
  <2>6. whole \in Seq(Octet) /\ Len(whole) = BLOCK_SIZE
    BY <1>1, <1>4, <2>2, <2>4
  <2>7. short \in Seq(Octet) /\ Len(short) = z + 1
    BY <1>4, <2>1, <2>3, <2>5
  <2>8. pad \in Seq(Octet) /\ Len(pad) = z + 1 /\ \A i \in 1 .. (z + 1) : pad[i] = whole[i]
    <3>1. padlen \in 0 .. Len(whole)
      BY <1>1, <1>2, <2>6
    <3>2. pad = SubSeq(whole, 1, padlen)
      BY DEF whole, all
    <3> HIDE DEF pad
    <3> QED BY <1>2, <2>6, <3>1, <3>2
  <2> HIDE DEF pad
  <2>9. ASSUME NEW i \in 1 .. Len(pad) PROVE pad[i] = short[i]
    <3>1. CASE i = 1
      <4>1. i \in 1 .. Len(one) /\ i \in 1 .. (z + 1)
        BY <1>4, <2>8, <3>1
      <4> QED BY <2>8, <2>4, <2>5, <4>1
    <3>2. CASE i # 1
      <4>0. i \in 2 .. (z + 1) /\ z \in 0 .. (BLOCK_SIZE - 1) /\ BLOCK_SIZE \in Nat
        BY <1>1, <1>2, <2>8, <3>2
      <4>1. /\ i - 1 \in 1 .. Len(some) /\ i - 1 \in 1 .. Len(all)
            /\ Len(one) + (i - 1) = i /\ i \in 1 .. (z + 1)
        <5>1. i - 1 \in 1 .. z /\ i - 1 \in 1 .. (BLOCK_SIZE - 1) /\ 1 + (i - 1) = i
          BY <4>0
        <5> QED BY <1>4, <2>2, <2>3, <4>0, <5>1
      <4>2. short[i] = some[i - 1] /\ whole[i] = all[i - 1]
        BY <2>4, <2>5, <4>1
      <4> QED BY <2>2, <2>3, <2>8, <4>1, <4>2
    <3> QED BY <3>1, <3>2
  <2>10. pad = short
    BY <2>7, <2>8, <2>9, SameSequence
  <2> QED BY <2>10 DEF some, short
<1>6. Hash!Repeat(0, z) \in Seq(Octet) /\ Len(Hash!Repeat(0, z)) = z
  BY <1>2, <1>4, Repeated
<1>7. pad \in Seq(Octet) /\ m \o pad = t
  <2> DEFINE some == Hash!Repeat(0, z)
  <2>1. some \in Seq(Octet)
    BY <1>6
  <2>2. t = (m \o one) \o some
    BY DEF WithZeros
  <2>3. pad = one \o some
    BY <1>5
  <2> HIDE DEF some, t, one, pad
  <2>4. (m \o one) \o some = m \o (one \o some)
    BY <1>4, <2>1, Associative
  <2> QED BY <1>4, <2>1, <2>2, <2>3, <2>4
<1> HIDE DEF pad, t
<1>8. padded \in Open /\ Held(padded, t) /\ t \in Seq(Octet)
  <2>1. /\ padded \in Open
        /\ \A x \in Seq(Octet) : Held(hs, x) => Held(padded, x \o pad)
    BY <1>7, MD4Update
  <2>2. m \o pad \in Seq(Octet)
    BY <1>7, Joined
  <2> HIDE DEF padded
  <2> QED BY <1>7, <2>1, <2>2
<1> HIDE DEF padded
<1>9. l \in Seq(Octet) /\ Len(l) = 2 * WORD_SIZE
  BY <1>1, LengthEncoded
<1> HIDE DEF l
<1>10. g \in Open /\ Held(g, t \o l) /\ t \o l \in Seq(Octet)
  <2>1. /\ g \in Open
        /\ \A x \in Seq(Octet) : Held(padded, x) => Held(g, x \o l)
    BY <1>8, <1>9, MD4Update
  <2> HIDE DEF g
  <2> QED BY <1>8, <1>9, <2>1
<1> HIDE DEF g
<1>11. PICK d \in Nat : Len(t \o l) = BLOCK_SIZE * d
  <2> DEFINE q == Len(hs.blocks)
  <2>1. q \in Nat /\ Len(m) = BLOCK_SIZE * q + c /\ Len(m) \in Nat
    BY DEF Open, Filling, Held
  <2> HIDE DEF q, c
  <2>2. \E d \in Nat : Len(m) + 1 + PadZeros(c) + 2 * WORD_SIZE = BLOCK_SIZE * d
    <3>1. q \in Nat /\ c \in 0 .. (BLOCK_SIZE - 1) /\ Len(m) = BLOCK_SIZE * q + c
      BY <1>1, <2>1
    <3> QED BY <3>1, Zeros
  <2>3. Len(t) = Len(m) + 1 + z
    <3> DEFINE some == Hash!Repeat(0, z)
    <3>1. some \in Seq(Octet) /\ Len(some) = z
      BY <1>6
    <3>2. t = (m \o one) \o some
      BY DEF t, WithZeros
    <3> HIDE DEF some, one, z
    <3>3. m \o one \in Seq(Octet) /\ Len(m \o one) = Len(m) + Len(one)
      BY <1>4, Joined
    <3>4. Len((m \o one) \o some) = Len(m \o one) + Len(some)
      BY <3>1, <3>3, Joined
    <3> QED BY <1>4, <3>1, <3>2, <3>3, <3>4
  <2>4. Len(t \o l) = Len(m) + 1 + z + 2 * WORD_SIZE
    BY <1>8, <1>9, <2>3
  <2> QED BY <2>2, <2>4
<1>12. g.blocks = Hash!Blocks(t \o l)
  BY <1>10, <1>11, NothingLeft
<1>13. Hash!Strengthened(m, l) = Hash!Blocks(t \o l)
  BY StrengthenedIs DEF t
<1>14. hs.len1 = Hash!Lower(m) /\ hs.len2 = Hash!Upper(m)
  BY DEF Counts, Hash!Lower, Hash!Upper
<1> QED BY <1>3, <1>12, <1>13, <1>14 DEF l

\* MD2.c pads with the number of bytes missing.
LEMMA MD2Digest ==
  ASSUME NEW hs \in Open, NEW m \in Seq(Octet), Held(hs, m)
  PROVE  Hash!md2_digest(hs).blocks = Hash!PaddedMD2(m)
<1> DEFINE q == Len(hs.blocks)
           padlen == BLOCK_SIZE - hs.count
           pad == Hash!Repeat(padlen, padlen)
           g == Hash!Fill(hs, pad)
<1>1. /\ q \in Nat /\ hs.count \in 0 .. (BLOCK_SIZE - 1) /\ BLOCK_SIZE \in Nat \ {0}
      /\ Len(m) = BLOCK_SIZE * q + hs.count /\ Len(m) \in Nat
  BY SizeAssumption DEF Open, Filling, Held
<1>2. Len(m) % BLOCK_SIZE = hs.count
  <2> HIDE DEF q
  <2>1. (BLOCK_SIZE * q + hs.count) % BLOCK_SIZE = hs.count
    BY <1>1, DivMod
  <2> QED BY <1>1, <2>1
<1>3. padlen \in Nat /\ padlen \in Octet
  BY <1>1 DEF Octet
<1>4. pad \in Seq(Octet) /\ Len(pad) = padlen
  <2> HIDE DEF padlen
  <2> QED BY <1>3, Repeated
<1> HIDE DEF pad
<1>5. g \in Open /\ Held(g, m \o pad) /\ m \o pad \in Seq(Octet)
  BY <1>4, FillHeld
<1>6. Hash!md2_digest(hs).blocks = Append(g.blocks, [checksum |-> g.blocks])
  <2>1. Hash!md2_digest(hs) = [g EXCEPT !.blocks = Append(g.blocks, [checksum |-> g.blocks])]
    BY DEF Hash!md2_digest, Hash!md2_update, pad
  <2> HIDE DEF g
  <2> QED BY <1>5, <2>1 DEF Open, Filling
<1> HIDE DEF g
<1>7. Len(m \o pad) = BLOCK_SIZE * (q + 1) /\ q + 1 \in Nat
  <2>1. Len(m \o pad) = Len(m) + padlen
    BY <1>4
  <2>2. BLOCK_SIZE * (q + 1) = BLOCK_SIZE * q + BLOCK_SIZE
    <3> HIDE DEF q
    <3> QED BY <1>1
  <2> HIDE DEF q
  <2> QED BY <1>1, <2>1, <2>2
<1> HIDE DEF q
<1>8. g.blocks = Hash!Blocks(m \o pad)
  BY <1>5, <1>7, NothingLeft
<1>9. Hash!PaddedMD2(m) = Append(Hash!Blocks(m \o pad), [checksum |-> Hash!Blocks(m \o pad)])
  BY <1>2 DEF Hash!PaddedMD2, pad
<1> QED BY <1>6, <1>8, <1>9

-----------------------------------------------------------------------------
(* The hash objects.                                                       *)

\* What an algorithm keeps of the message m it was fed.
Represents(hs, m) ==
  /\ hs \in Open /\ Held(hs, m)
  /\ alg = "SHA2" => WholeBlocks(hs)
  /\ alg = "MD4" => Counts(hs, BITS * Len(m))
  /\ alg = "RIPEMD160" => Counted(hs, m)

\* The inductive invariant: every object represents the message it was fed.
HashInv ==
  /\ alg \in Algorithms
  /\ st \in [Objects -> Open \cup {Hash!None}]
  /\ message \in [Objects -> Seq(Bytes)]
  /\ \A o \in Objects : Hash!Live(o) => Represents(st[o], message[o])

\* What the four algorithms are for, and pieces of any length.
HashParameters ==
  Geometry /\ Algorithms \subseteq {"SHA2", "MD2", "MD4", "RIPEMD160"} /\ MaxPiece \in Nat

\* Messages are made of bytes.
LEMMA MessagesAreBytes == Seq(Bytes) \subseteq Seq(Octet)
BY DEF Octet

\* A new object has been fed nothing.
LEMMA InitHolds ==
  ASSUME HashParameters, alg \in Algorithms
  PROVE  Represents(Hash!hash_init(alg), <<>>)
<1> DEFINE fresh(b) == Hash!Fresh(Hash!Repeat(b, BLOCK_SIZE))
           hs == Hash!hash_init(alg)
<1>1. /\ hs = fresh(Hash!Junk) \/ hs = fresh(0)
      /\ alg = "RIPEMD160" => hs = fresh(0)
  BY DEF HashParameters, Hash!hash_init, Hash!sha_init, Hash!md4_init, Hash!md2_init,
         Hash!ripemd160_init
<1>2. Hash!Junk \in Int /\ BLOCK_SIZE \in Nat \ {0}
  BY SizeAssumption DEF Hash!Junk
<1>3. ASSUME NEW b \in Int
      PROVE  /\ fresh(b) \in Open /\ fresh(b).blocks = <<>> /\ fresh(b).count = 0
             /\ fresh(b).len1 = 0 /\ fresh(b).len2 = 0
             /\ \A i \in 1 .. BLOCK_SIZE : fresh(b).buf[i] = b
  <2> DEFINE buf == Hash!Repeat(b, BLOCK_SIZE)
  <2>1. buf \in Buffer /\ \A i \in 1 .. BLOCK_SIZE : buf[i] = b
    BY DEF Hash!Repeat, Buffer, Octet
  <2>2. 0 \in 0 .. (BLOCK_SIZE - 1) /\ <<>> \in Seq(Buffer)
    BY <1>2
  <2> HIDE DEF buf
  <2>3. fresh(b) = [blocks |-> <<>>, buf |-> buf, count |-> 0, len1 |-> 0, len2 |-> 0]
    BY DEF Hash!Fresh, buf
  <2> HIDE DEF fresh
  <2> QED BY <2>1, <2>2, <2>3 DEF Open, Filling
<1> HIDE DEF fresh, hs
<1>4. /\ hs \in Open /\ hs.blocks = <<>> /\ hs.count = 0 /\ hs.len1 = 0 /\ hs.len2 = 0
      /\ alg = "RIPEMD160" => \A i \in 1 .. BLOCK_SIZE : hs.buf[i] = 0
  BY <1>1, <1>2, <1>3
<1>5. Held(hs, <<>>)
  <2>1. Len(hs.blocks) = 0 /\ BLOCK_SIZE * 0 = 0
    BY <1>2, <1>4
  <2> QED BY <1>4, <2>1 DEF Held
<1>6. Counts(hs, 0)
  <2> DEFINE W == Hash!WordRange
  <2>1. W \in Nat \ {0}
    BY WordRangeTyped DEF HashParameters
  <2> HIDE DEF W
  <2>2. W * 0 + 0 = 0 /\ 0 \in 0 .. (W - 1)
    BY <2>1
  <2>3. (W * 0 + 0) \div W = 0 /\ (W * 0 + 0) % W = 0
    BY <2>1, <2>2, DivMod
  <2>4. 0 \div W = 0 /\ 0 % W = 0
    BY <2>2, <2>3
  <2> QED BY <1>4, <2>4 DEF Counts, W
<1>7. WholeBlocks(hs) /\ Counts(hs, BITS * Len(<<>>))
  <2>1. Len(hs.blocks) = 0 /\ BLOCK_SIZE * 0 = 0 /\ BITS * 0 = 0
    BY <1>2, <1>4 DEF HashParameters, Geometry
  <2> QED BY <1>6, <2>1 DEF WholeBlocks
<1>8. alg = "RIPEMD160" => Counted(hs, <<>>)
  BY <1>4, <1>5, <1>7 DEF Counted, Zeroed
<1> QED BY <1>4, <1>5, <1>7, <1>8 DEF Represents, hs

\* A piece more, of any length, is held at the end of the message.
LEMMA UpdateHolds ==
  ASSUME HashParameters, alg \in Algorithms, NEW hs, NEW m \in Seq(Octet), Represents(hs, m),
         NEW s \in Seq(Octet)
  PROVE  Represents(Hash!hash_update(alg, hs, s), m \o s)
<1> DEFINE g == Hash!hash_update(alg, hs, s)
<1>1. hs \in Open /\ Held(hs, m) /\ Geometry
  BY DEF Represents, HashParameters
<1>2. CASE alg = "SHA2"
  <2>1. g = Hash!sha_process(hs, s)
    BY <1>2 DEF Hash!hash_update
  <2> HIDE DEF g
  <2>2. g \in Open /\ WholeBlocks(g) /\ Held(g, m \o s)
    BY <1>1, <1>2, <2>1, ProcessHeld DEF Represents
  <2> QED BY <1>2, <2>2 DEF Represents, g
<1>3. CASE alg = "MD4"
  <2>1. g = Hash!md4_update(hs, s)
    BY <1>3 DEF Hash!hash_update
  <2> HIDE DEF g
  <2>2. /\ g \in Open /\ Held(g, m \o s)
        /\ \A x \in Nat : Counts(hs, x) => Counts(g, x + BITS * Len(s))
    BY <1>1, <2>1, MD4Update
  <2>3. BITS * Len(m) \in Nat /\ BITS * Len(m) + BITS * Len(s) = BITS * Len(m \o s)
    <3>1. BITS \in Nat /\ Len(m) \in Nat /\ Len(s) \in Nat /\ Len(m \o s) = Len(m) + Len(s)
      BY <1>1, Joined DEF Geometry
    <3>2. \A a, b \in Nat : BITS * a + BITS * b = BITS * (a + b) /\ BITS * a \in Nat
      BY <3>1
    <3> QED BY <3>1, <3>2
  <2>4. Counts(g, BITS * Len(m \o s))
    BY <1>3, <2>2, <2>3 DEF Represents
  <2> QED BY <1>3, <2>2, <2>4 DEF Represents, g
<1>4. CASE alg = "MD2"
  <2>1. g = Hash!Fill(hs, s)
    BY <1>4 DEF Hash!hash_update, Hash!md2_update
  <2> HIDE DEF g
  <2>2. g \in Open /\ Held(g, m \o s)
    BY <1>1, <2>1, FillHeld
  <2> QED BY <1>4, <2>2 DEF Represents, g
<1>5. CASE alg = "RIPEMD160"
  <2>1. g = Hash!ripemd160_update(hs, s)
    BY <1>5 DEF Hash!hash_update
  <2> HIDE DEF g
  <2>2. g \in Open /\ Counted(g, m \o s)
    BY <1>1, <1>5, <2>1, UpdateHeld DEF Represents
  <2> QED BY <1>5, <2>2 DEF Represents, Counted, g
<1> QED BY <1>2, <1>3, <1>4, <1>5 DEF HashParameters

\* A copy holds what its original holds, though not the bytes behind it.
LEMMA CopyHolds ==
  ASSUME HashParameters, alg \in Algorithms, NEW hs, NEW m, Represents(hs, m)
  PROVE  Represents(Hash!hash_copy(alg, hs), m)
<1> DEFINE buf == [i \in 1 .. BLOCK_SIZE |-> IF i <= hs.count THEN hs.buf[i] ELSE Hash!Junk]
           g == Hash!hash_copy(alg, hs)
<1>1. CASE alg \in {"MD2", "MD4"}
  <2>1. g = [hs EXCEPT !.buf = buf]
    BY <1>1 DEF Hash!hash_copy, Hash!CopyUsed
  <2>2. hs \in Open /\ hs.buf \in Buffer /\ hs.count \in 0 .. (BLOCK_SIZE - 1)
    BY DEF Represents, Open, Filling
  <2>3. Hash!Junk \in Octet /\ \A i \in 1 .. BLOCK_SIZE : hs.buf[i] \in Octet
    <3>1. Hash!Junk \in Octet
      BY DEF Hash!Junk, Octet
    <3> QED BY <2>2, <3>1 DEF Buffer
  <2>4. buf \in Buffer
    BY <2>3 DEF Buffer
  <2>5. \A i \in 1 .. hs.count : buf[i] = hs.buf[i]
    BY <2>2, SizeAssumption
  <2> HIDE DEF buf, g
  <2>6. /\ g \in Open /\ g.blocks = hs.blocks /\ g.count = hs.count /\ g.buf = buf
        /\ SameLengths(g, hs)
    BY <2>1, <2>2, <2>4 DEF Open, Filling, SameLengths
  <2>7. Held(g, m)
    BY <2>5, <2>6 DEF Held, Represents
  <2>8. alg = "MD4" => Counts(g, BITS * Len(m))
    BY <2>6 DEF Represents, Counts, SameLengths
  <2> QED BY <1>1, <2>6, <2>7, <2>8 DEF Represents, g
<1>2. CASE alg \notin {"MD2", "MD4"}
  BY <1>2 DEF Hash!hash_copy, Hash!CopyAll
<1> QED BY <1>1, <1>2

\* The digest of what represents a message is that of the padded message.
LEMMA DigestHolds ==
  ASSUME HashParameters, alg \in Algorithms, NEW hs, NEW m \in Seq(Octet), Represents(hs, m)
  PROVE  Hash!hash_digest(alg, hs) = Hash!Padded(m)
<1>1. hs \in Open /\ Held(hs, m) /\ Geometry
  BY DEF Represents, HashParameters
<1>2. CASE alg = "SHA2"
  BY <1>1, <1>2, ShaDone DEF Represents, Hash!hash_digest, Hash!Padded
<1>3. CASE alg = "MD4"
  BY <1>1, <1>3, MD4Digest DEF Represents, Hash!hash_digest, Hash!Padded
<1>4. CASE alg = "MD2"
  BY <1>1, <1>4, MD2Digest DEF Represents, Hash!hash_digest, Hash!Padded
<1>5. CASE alg = "RIPEMD160"
  BY <1>1, <1>5, RipemdDigest DEF Represents, Hash!hash_digest, Hash!Padded
<1> QED BY <1>2, <1>3, <1>4, <1>5 DEF HashParameters

\* An object after a step: what it holds represents its message.
LEMMA OneObject ==
  ASSUME HashInv, alg' = alg, NEW o \in Objects, NEW hs, NEW m \in Seq(Bytes),
         hs = Hash!None \/ Represents(hs, m),
         st' = [st EXCEPT ![o] = hs], message' = [message EXCEPT ![o] = m]
  PROVE  HashInv'
<1>1. /\ alg \in Algorithms /\ st \in [Objects -> Open \cup {Hash!None}]
      /\ message \in [Objects -> Seq(Bytes)]
      /\ \A u \in Objects : st[u] # Hash!None => Represents(st[u], message[u])
  BY DEF HashInv, Hash!Live
<1>2. hs \in Open \cup {Hash!None}
  BY DEF Represents
<1>3. /\ st' \in [Objects -> Open \cup {Hash!None}] /\ message' \in [Objects -> Seq(Bytes)]
      /\ st'[o] = hs /\ message'[o] = m
      /\ \A u \in Objects : u # o => st'[u] = st[u] /\ message'[u] = message[u]
  BY <1>1, <1>2
<1>4. ASSUME NEW u \in Objects, st'[u] # Hash!None PROVE Represents(st[u], message[u])'
  <2>1. CASE u = o
    BY <1>3, <1>4, <2>1 DEF Represents
  <2>2. CASE u # o
    <3>1. Represents(st[u], message[u])
      BY <1>1, <1>3, <1>4, <2>2
    <3> QED BY <1>3, <2>2, <3>1 DEF Represents
  <2> QED BY <2>1, <2>2
<1> QED BY <1>1, <1>3, <1>4 DEF HashInv, Hash!Live, Hash!None

\* It holds at every step.
LEMMA HashInvHolds == ASSUME HashParameters PROVE Hash!Spec => []HashInv
<1>1. Hash!Init => HashInv
  BY DEF Hash!Init, HashInv, Hash!Live
<1>2. ASSUME HashInv, [Hash!Next]_<<alg, st, message>> PROVE HashInv'
  <2>1. /\ alg \in Algorithms /\ message \in [Objects -> Seq(Bytes)]
        /\ \A o \in Objects : Hash!Live(o) => Represents(st[o], message[o])
    BY <1>2 DEF HashInv
  <2>2. \A s \in Hash!Pieces : s \in Seq(Bytes) /\ s \in Seq(Octet)
    BY MessagesAreBytes DEF Hash!Pieces, HashParameters
  <2>3. ASSUME NEW o \in Objects, NEW s \in Hash!Pieces, Hash!ALG_new(o, s) PROVE HashInv'
    <3> DEFINE g == Hash!hash_update(alg, Hash!hash_init(alg), s)
    <3>1. Represents(Hash!hash_init(alg), <<>>) /\ <<>> \in Seq(Octet)
      BY <2>1, InitHolds
    <3>2. Represents(g, <<>> \o s)
      BY <2>1, <2>2, <3>1, UpdateHolds
    <3>3. <<>> \o s = s
      BY <2>2
    <3>4. alg' = alg /\ st' = [st EXCEPT ![o] = g] /\ message' = [message EXCEPT ![o] = s]
      BY <2>3 DEF Hash!ALG_new
    <3> HIDE DEF g
    <3> QED BY <1>2, <2>2, <3>2, <3>3, <3>4, OneObject
  <2>4. ASSUME NEW o \in Objects, NEW s \in Hash!Pieces, Hash!ALG_update(o, s) PROVE HashInv'
    <3> DEFINE g == Hash!hash_update(alg, st[o], s)
               m == message[o]
    <3>1. Represents(st[o], m) /\ m \in Seq(Bytes) /\ m \in Seq(Octet)
      BY <2>1, <2>4, MessagesAreBytes DEF Hash!ALG_update
    <3>2. Represents(g, m \o s)
      BY <2>1, <2>2, <3>1, UpdateHolds
    <3>3. m \o s \in Seq(Bytes)
      BY <2>2, <3>1
    <3>4. alg' = alg /\ st' = [st EXCEPT ![o] = g] /\ message' = [message EXCEPT ![o] = m \o s]
      BY <2>4 DEF Hash!ALG_update
    <3> HIDE DEF g, m
    <3> QED BY <1>2, <3>2, <3>3, <3>4, OneObject
  <2>5. ASSUME NEW o \in Objects, NEW new \in Objects, Hash!ALG_copy(o, new) PROVE HashInv'
    <3> DEFINE g == Hash!hash_copy(alg, st[o])
               m == message[o]
    <3>1. Represents(st[o], m) /\ m \in Seq(Bytes)
      BY <2>1, <2>5 DEF Hash!ALG_copy
    <3>2. Represents(g, m)
      BY <2>1, <3>1, CopyHolds
    <3>3. alg' = alg /\ st' = [st EXCEPT ![new] = g] /\ message' = [message EXCEPT ![new] = m]
      BY <2>5 DEF Hash!ALG_copy
    <3> HIDE DEF g, m
    <3> QED BY <1>2, <3>1, <3>2, <3>3, OneObject
  <2>6. ASSUME NEW o \in Objects, Hash!ALG_dealloc(o) PROVE HashInv'
    <3>1. /\ alg' = alg /\ st' = [st EXCEPT ![o] = Hash!None]
          /\ message' = [message EXCEPT ![o] = <<>>] /\ <<>> \in Seq(Bytes)
      BY <2>6 DEF Hash!ALG_dealloc
    <3> QED BY <1>2, <3>1, OneObject
  <2>7. CASE UNCHANGED <<alg, st, message>>
    BY <1>2, <2>7 DEF HashInv, Hash!Live, Represents
  <2> QED BY <1>2, <2>3, <2>4, <2>5, <2>6, <2>7 DEF Hash!Next
<1> QED BY <1>1, <1>2, PTL DEF Hash!Spec, Hash!vars

\* For every geometry in which a block holds more than a length and a word
\* counts the bits of a block, and messages of any bytes and length: the digest
\* of an object is that of the whole message it was fed, in whatever pieces, by
\* itself or before it was copied (hash_template.c:91-179).
THEOREM DigestIsOfWholeMessageHolds ==
  ASSUME HashParameters PROVE Hash!Spec => []DigestIsOfWholeMessage
<1>1. HashInv => DigestIsOfWholeMessage
  <2> SUFFICES ASSUME HashInv, NEW o \in Objects, Hash!Live(o)
               PROVE  Hash!hash_digest(alg, st[o]) = Hash!Padded(message[o])
    BY DEF DigestIsOfWholeMessage, Hash!DigestIsOfWholeMessage, Hash!ALG_digest
  <2>1. /\ alg \in Algorithms /\ Represents(st[o], message[o])
        /\ message[o] \in Seq(Bytes) /\ message[o] \in Seq(Octet)
    BY MessagesAreBytes DEF HashInv
  <2> QED BY <2>1, DigestHolds
<1> QED BY <1>1, HashInvHolds, PTL

=============================================================================
