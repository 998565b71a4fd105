---------------------------- MODULE HashPadding -----------------------------
(***************************************************************************)
(* How pycrypto's hash modules cut a message into blocks: the buffers and  *)
(* length counters of hash_SHA2_template.c, MD4.c, MD2.c and RIPEMD160.c,  *)
(* each with its own way to count, to pad and to copy.  What a compression *)
(* function computes is left out: the state is the sequence of the blocks  *)
(* it was given, so two digests are equal when the same blocks were        *)
(* compressed in the same order.                                           *)
(*                                                                         *)
(* The geometry is a parameter, for the length counters to overflow within *)
(* reach.  Memory nobody has written holds Junk.                           *)
(***************************************************************************)
EXTENDS Integers, Sequences, SequencesExt

CONSTANTS
  BLOCK_SIZE,  \* bytes of a block: 64 or 128; 16 in MD2
  WORD_SIZE,   \* bytes of each of the two words of a length: 4 or 8
  BITS         \* bits of a byte: 8

\* As there, a block holds more than a length, its size fits a byte (MD2's
\* padding) and the bits of a block fit a word (SHA-2's count).

PowerOfTwo[n \in Nat] == IF n = 0 THEN 1 ELSE 2 * PowerOfTwo[n - 1]

LAST_BLOCK_SIZE == BLOCK_SIZE - 2 * WORD_SIZE
WordRange == PowerOfTwo[BITS * WORD_SIZE]
Junk == -1
OneBit == PowerOfTwo[BITS - 1]  \* 0x80

\* The bytes of one length word, most significant first.
BigEndian(w) ==
  [i \in 1 .. WORD_SIZE |-> (w \div PowerOfTwo[BITS * (WORD_SIZE - i)]) % PowerOfTwo[BITS]]
LittleEndian(w) == Reverse(BigEndian(w))

Repeat(x, n) == [i \in 1 .. n |-> x]

\* memcpy: s into buf from 0-based offset at.
Copied(buf, at, s) ==
  [i \in 1 .. BLOCK_SIZE |-> IF i - at \in DOMAIN s THEN s[i - at] ELSE buf[i]]

\* hash_state: curlen, count or bufpos is count here; length_lower and len1
\* are len1, length_upper and len2 are len2, and RIPEMD160's length is both.
Fresh(buf) ==
  [blocks |-> <<>>, buf |-> buf, count |-> 0, len1 |-> 0, len2 |-> 0]

compress(hs) == [hs EXCEPT !.blocks = Append(@, hs.buf), !.count = 0]

\* Only RIPEMD160.c clears the buffer.
sha_init == Fresh(Repeat(Junk, BLOCK_SIZE))
md4_init == Fresh(Repeat(Junk, BLOCK_SIZE))
md2_init == Fresh(Repeat(Junk, BLOCK_SIZE))
ripemd160_init == Fresh(Repeat(0, BLOCK_SIZE))

-----------------------------------------------------------------------------
\* hash_SHA2_template.c.  add_length's overflow test compares length_upper with
\* itself, and its callers do not look at the result.
add_length_NoCarry(hs, inc) == [hs EXCEPT !.len1 = (@ + inc) % WordRange]

add_length(hs, inc) ==
  LET lower == (hs.len1 + inc) % WordRange
      upper == IF hs.len1 > lower THEN (hs.len2 + 1) % WordRange ELSE hs.len2
  IN [hs EXCEPT !.len1 = lower, !.len2 = upper]

AppendByte(hs, b) == [hs EXCEPT !.buf[hs.count + 1] = b, !.count = @ + 1]

ProcessByte(hs, b) ==
  LET h == AppendByte(hs, b)
  IN IF h.count = BLOCK_SIZE THEN add_length(compress(h), BLOCK_SIZE * BITS) ELSE h

\* state[i] is the state after i bytes.
sha_process(hs, s) ==
  LET state[i \in 0 .. Len(s)] == IF i = 0 THEN hs ELSE ProcessByte(state[i - 1], s[i])
  IN state[Len(s)]

PadTo(hs, n) ==
  [hs EXCEPT !.buf = [i \in 1 .. BLOCK_SIZE |-> IF i \in (hs.count + 1) .. n THEN 0 ELSE @[i]],
             !.count = n]

sha_done(hs) ==
  LET h1 == AppendByte(add_length(hs, hs.count * BITS), OneBit)
      h2 == IF h1.count > LAST_BLOCK_SIZE THEN compress(PadTo(h1, BLOCK_SIZE)) ELSE h1
      h3 == PadTo(h2, LAST_BLOCK_SIZE)
  IN compress([h3 EXCEPT !.buf = Copied(@, LAST_BLOCK_SIZE, BigEndian(h3.len2) \o BigEndian(h3.len1))])

-----------------------------------------------------------------------------
\* The loops of the others fill the buffer by pieces: n bytes from the front of
\* what is left of the message.  pass[i] is where i passes have got to.
Piece(p) ==
  LET room == BLOCK_SIZE - p.hs.count IN IF room < Len(p.rest) THEN room ELSE Len(p.rest)

Put(hs, s) == [hs EXCEPT !.buf = Copied(@, hs.count, s), !.count = @ + Len(s)]

\* MD2.c and MD4.c.
FillPass(p) ==
  LET n == Piece(p)
      h == Put(p.hs, SubSeq(p.rest, 1, n))
  IN IF p.rest = <<>> THEN p
     ELSE [hs |-> IF h.count = BLOCK_SIZE THEN compress(h) ELSE h,
           rest |-> SubSeq(p.rest, n + 1, Len(p.rest))]

Fill(hs, s) ==
  LET pass[i \in 0 .. Len(s)] ==
        IF i = 0 THEN [hs |-> hs, rest |-> s] ELSE FillPass(pass[i - 1])
  IN pass[Len(s)].hs

\* MD4.c counts before it copies, in two 32 bit words.
md4_update(hs, s) ==
  LET bits == Len(s) * BITS
      len1 == (hs.len1 + (bits % WordRange)) % WordRange
      carry == IF len1 < hs.len1 THEN 1 ELSE 0
  IN Fill([hs EXCEPT !.len1 = len1, !.len2 = (@ + carry + (bits \div WordRange)) % WordRange], s)

md4_digest(hs) ==
  LET padlen == IF LAST_BLOCK_SIZE <= hs.count
                THEN LAST_BLOCK_SIZE - hs.count + BLOCK_SIZE ELSE LAST_BLOCK_SIZE - hs.count
      padded == md4_update(hs, SubSeq(<<OneBit>> \o Repeat(0, BLOCK_SIZE - 1), 1, padlen))
  IN md4_update(padded, LittleEndian(hs.len1) \o LittleEndian(hs.len2))

\* MD2.c pads with the number of bytes missing, then compresses the checksum
\* of the blocks so far, which is named by them.
md2_update(hs, s) == Fill(hs, s)

md2_digest(hs) ==
  LET padlen == BLOCK_SIZE - hs.count
      padded == md2_update(hs, Repeat(padlen, padlen))
  IN [padded EXCEPT !.blocks = Append(@, [checksum |-> padded.blocks])]

-----------------------------------------------------------------------------
\* RIPEMD160.c clears the buffer after each block, and relies on it.
ripemd160_compress(hs) == [compress(hs) EXCEPT !.buf = Repeat(0, BLOCK_SIZE)]

AddBits(hs, n) ==
  LET sum == hs.len1 + n * BITS
  IN [hs EXCEPT !.len1 = sum % WordRange, !.len2 = (@ + (sum \div WordRange)) % WordRange]

UpdatePass(p) ==
  LET n == Piece(p)
      h == AddBits(Put(p.hs, SubSeq(p.rest, 1, n)), n)
  IN IF p.rest = <<>> THEN p
     ELSE [hs |-> IF h.count = BLOCK_SIZE THEN ripemd160_compress(h) ELSE h,
           rest |-> SubSeq(p.rest, n + 1, Len(p.rest))]

ripemd160_update(hs, s) ==
  LET pass[i \in 0 .. Len(s)] ==
        IF i = 0 THEN [hs |-> hs, rest |-> s] ELSE UpdatePass(pass[i - 1])
  IN pass[Len(s)].hs

ripemd160_digest(hs) ==
  LET h1 == AppendByte(hs, OneBit)
      h2 == IF h1.count > LAST_BLOCK_SIZE THEN ripemd160_compress(h1) ELSE h1
  IN ripemd160_compress([h2 EXCEPT !.buf =
       Copied(@, LAST_BLOCK_SIZE, LittleEndian(hs.len1) \o LittleEndian(hs.len2))])

-----------------------------------------------------------------------------
\* hash_copy: MD2.c and MD4.c copy the bytes in use, the others everything.
CopyUsed(hs) ==
  [hs EXCEPT !.buf = [i \in 1 .. BLOCK_SIZE |-> IF i <= hs.count THEN hs.buf[i] ELSE Junk]]

CopyAll(hs) == hs

\* What hash_template.c is compiled with.
hash_init(alg) ==
  CASE alg = "SHA2" -> sha_init [] alg = "MD4" -> md4_init
    [] alg = "MD2" -> md2_init [] alg = "RIPEMD160" -> ripemd160_init

hash_update(alg, hs, s) ==
  CASE alg = "SHA2" -> sha_process(hs, s) [] alg = "MD4" -> md4_update(hs, s)
    [] alg = "MD2" -> md2_update(hs, s) [] alg = "RIPEMD160" -> ripemd160_update(hs, s)

hash_digest(alg, hs) ==
  CASE alg = "SHA2" -> sha_done(hs).blocks [] alg = "MD4" -> md4_digest(hs).blocks
    [] alg = "MD2" -> md2_digest(hs).blocks [] alg = "RIPEMD160" -> ripemd160_digest(hs).blocks

hash_copy(alg, hs) == IF alg \in {"MD2", "MD4"} THEN CopyUsed(hs) ELSE CopyAll(hs)

=============================================================================
