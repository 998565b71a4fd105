----------------------------- MODULE BlockModes -----------------------------
(***************************************************************************)
(* The chaining modes of block_template.c other than CTR: two cipher       *)
(* objects of one key, mode and IV, one encrypting and one decrypting what *)
(* reaches it.  A step is one pass of a loop in ALG_Encrypt or ALG_Decrypt *)
(* -- a block, in CFB a segment -- so that a string handed over in several *)
(* calls and one handed over at once are the same behaviour here.  The     *)
(* block cipher is any permutation, bytes are XORed by any function that   *)
(* undoes itself.                                                          *)
(***************************************************************************)
EXTENDS Integers, Sequences

CONSTANTS
  BLOCK_SIZE,
  Byte,
  Xor,       \* [Byte -> [Byte -> Byte]]
  Keys,
  block_encrypt,  \* by key, a function on blocks
  block_decrypt,
  MaxAhead   \* bound on the segments on their way

Block == [1 .. BLOCK_SIZE -> Byte]

ASSUME SizeAssumption == BLOCK_SIZE \in Nat \ {0}

\* What C's ^ does.
ASSUME XorAssumption ==
  /\ Xor \in [Byte -> [Byte -> Byte]]
  /\ \A a, b \in Byte : Xor[Xor[a][b]][b] = a

\* Any cipher the template is compiled with.
ASSUME CipherAssumption ==
  /\ block_encrypt \in [Keys -> [Block -> Block]]
  /\ block_decrypt \in [Keys -> [Block -> Block]]
  /\ \A k \in Keys, b \in Block : block_decrypt[k][block_encrypt[k][b]] = b

Modes == {"ECB", "CBC", "CFB", "OFB"}

VARIABLES
  mode, segment_size,  \* segment_size in bytes
  key,
  sender,    \* the IV of the encrypting object
  receiver,  \* the IV of the decrypting object
  chan,      \* segments on their way
  since      \* history: bytes that arrived unchanged since the last change

vars == <<mode, segment_size, key, sender, receiver, chan, since>>

-----------------------------------------------------------------------------
\* ALGnew: the IV is checked in the modes that use one; segment_size counts
\* bits, 0 stands for 8.
Accepted(m, ivlen, bits) ==
  /\ m \in Modes
  /\ m # "ECB" => ivlen = BLOCK_SIZE
  /\ m = "CFB" => bits \in 0 .. (BLOCK_SIZE * 8) /\ bits % 8 = 0

SegmentBytes(m, bits) == IF m = "CFB" THEN (IF bits = 0 THEN 1 ELSE bits \div 8) ELSE 0

\* Bytes of one pass of the loop.
Step(m, seg) == IF m = "CFB" THEN seg ELSE BLOCK_SIZE

XorWith(s, t) == [j \in DOMAIN s |-> Xor[s[j]][t[j]]]

\* memmove and memcpy on the IV: out pushed in from the right.
ShiftIn(iv, out, seg) ==
  [j \in 1 .. BLOCK_SIZE |->
     IF j + seg <= BLOCK_SIZE THEN iv[j + seg] ELSE out[j + seg - BLOCK_SIZE]]

\* One pass of ALG_Encrypt's loop: what it writes, and the IV it leaves.
EncryptECB(k, iv, str) == [out |-> block_encrypt[k][str], IV |-> iv]

EncryptCBC(k, iv, str) ==
  LET out == block_encrypt[k][XorWith(str, iv)] IN [out |-> out, IV |-> out]

EncryptCFB(k, iv, str, seg) ==
  LET out == XorWith(str, block_encrypt[k][iv])
  IN [out |-> out, IV |-> ShiftIn(iv, out, seg)]

EncryptOFB(k, iv, str) ==
  LET temp == block_encrypt[k][iv] IN [out |-> XorWith(str, temp), IV |-> temp]

Encrypted(m, k, iv, str, seg) ==
  CASE m = "ECB" -> EncryptECB(k, iv, str)
    [] m = "CBC" -> EncryptCBC(k, iv, str)
    [] m = "CFB" -> EncryptCFB(k, iv, str, seg)
    [] m = "OFB" -> EncryptOFB(k, iv, str)

\* One pass of ALG_Decrypt's loop.
DecryptECB_Encrypts(k, iv, str) == [out |-> block_encrypt[k][str], IV |-> iv]

DecryptECB(k, iv, str) == [out |-> block_decrypt[k][str], IV |-> iv]

DecryptCBC(k, iv, str) == [out |-> XorWith(block_decrypt[k][str], iv), IV |-> str]

DecryptCFB_ShiftsOut(k, iv, str, seg) ==
  LET out == XorWith(str, block_encrypt[k][iv])
  IN [out |-> out, IV |-> ShiftIn(iv, out, seg)]

DecryptCFB(k, iv, str, seg) ==
  [out |-> XorWith(str, block_encrypt[k][iv]), IV |-> ShiftIn(iv, str, seg)]

DecryptOFB(k, iv, str) == EncryptOFB(k, iv, str)

Decrypted(m, k, iv, str, seg) ==
  CASE m = "ECB" -> DecryptECB(k, iv, str)
    [] m = "CBC" -> DecryptCBC(k, iv, str)
    [] m = "CFB" -> DecryptCFB(k, iv, str, seg)
    [] m = "OFB" -> DecryptOFB(k, iv, str)

-----------------------------------------------------------------------------
\* ALGnew for both ends.
Init ==
  /\ mode \in Modes /\ key \in Keys
  /\ \E ivlen \in 0 .. BLOCK_SIZE, bits \in 0 .. (8 * BLOCK_SIZE) :
       Accepted(mode, ivlen, bits) /\ segment_size = SegmentBytes(mode, bits)
  /\ sender \in Block /\ receiver = sender
  /\ chan = <<>> /\ since = BLOCK_SIZE

Strings == [1 .. Step(mode, segment_size) -> Byte]

\* What travels is text; the rest of the record is history.
ALG_Encrypt(str) ==
  /\ Len(chan) < MaxAhead
  /\ LET e == Encrypted(mode, key, sender, str, segment_size)
     IN /\ sender' = e.IV
        /\ chan' = Append(chan, [text |-> e.out, sent |-> e.out, plain |-> str,
                                 before |-> sender, after |-> e.IV])
  /\ UNCHANGED <<mode, segment_size, key, receiver, since>>

Unchanged(m) == m.text = m.sent

ALG_Decrypt ==
  /\ chan # <<>>
  /\ receiver' = Decrypted(mode, key, receiver, Head(chan).text, segment_size).IV
  /\ chan' = Tail(chan)
  /\ since' = LET s == since + Step(mode, segment_size)
              IN IF ~Unchanged(Head(chan)) THEN 0
                 ELSE IF s <= BLOCK_SIZE THEN s ELSE BLOCK_SIZE
  /\ UNCHANGED <<mode, segment_size, key, sender>>

\* External: the transport between the two ends changes a segment.
Damage(text) ==
  /\ chan # <<>> /\ Unchanged(Head(chan)) /\ text # Head(chan).text
  /\ chan' = [chan EXCEPT ![1].text = text]
  /\ UNCHANGED <<mode, segment_size, key, sender, receiver, since>>

Next ==
  \/ \E str \in Strings : ALG_Encrypt(str) \/ Damage(str)
  \/ ALG_Decrypt

Spec == Init /\ [][Next]_vars

-----------------------------------------------------------------------------
(* Properties.                                                             *)

\* The IV the sender had before the segment the receiver is to get next.
Expected == IF chan = <<>> THEN sender ELSE Head(chan).before

\* Modes whose next IV does not depend on what arrives.
Unaffected == mode \in {"ECB", "OFB"}

\* Both ends chain alike.  What a changed segment does to the receiver's IV
\* is gone once as many bytes as a block holds have arrived unchanged: every
\* byte that did is where the sender has it, however the segments divide the
\* block (block_template.c:325-329, :559-563).
IVsAgree ==
  \A j \in 1 .. BLOCK_SIZE :
    Unaffected \/ j + since > BLOCK_SIZE => receiver[j] = Expected[j]

\* A segment that arrives unchanged, at a receiver that is in step, decrypts
\* to what was encrypted.
DecryptsWhatWasSent ==
  chan # <<>> /\ Unchanged(Head(chan)) /\ (Unaffected \/ since = BLOCK_SIZE) =>
    Decrypted(mode, key, receiver, Head(chan).text, segment_size).out = Head(chan).plain

=============================================================================
