------------------------------- MODULE Words --------------------------------
(***************************************************************************)
(* Bytes, and unsigned words of 32 or 64 bits as the sequence of their     *)
(* bytes, most significant first: what the C types u8, u32 and U64 of the  *)
(* ciphers and hashes hold, their arithmetic included.                     *)
(***************************************************************************)
EXTENDS Integers, Sequences

Byte == 0 .. 255

LOCAL Bit(x, k) == (x \div (2 ^ k)) % 2
LOCAL NibbleXor ==
  [x \in 0 .. 15 |-> [y \in 0 .. 15 |->
     LET d(k) == (2 ^ k) * ((Bit(x, k) + Bit(y, k)) % 2) IN d(0) + d(1) + d(2) + d(3)]]

\* ByteXor[x][y] is x ^ y.
ByteXor ==
  [x \in Byte |-> [y \in Byte |->
     (16 * NibbleXor[x \div 16][y \div 16]) + NibbleXor[x % 16][y % 16]]]
ByteAnd(x, y) == (x + y - ByteXor[x][y]) \div 2

\* Operations on words of one width.  <<>> \o f is f, evaluated.
Xor(u, v) == <<>> \o [i \in DOMAIN u |-> ByteXor[u[i]][v[i]]]
And(u, v) == <<>> \o [i \in DOMAIN u |-> ByteAnd(u[i], v[i])]
Or(u, v) == <<>> \o [i \in DOMAIN u |-> u[i] + v[i] - ByteAnd(u[i], v[i])]
Not(u) == <<>> \o [i \in DOMAIN u |-> 255 - u[i]]

\* The two's complement sum, the carry out of the top byte lost.
Add(u, v) ==
  LET n == Len(u)
      carry[i \in 1 .. (n + 1)] ==
        IF i = n + 1 THEN 0 ELSE (u[i] + v[i] + carry[i + 1]) \div 256
  IN <<>> \o [i \in 1 .. n |-> (u[i] + v[i] + carry[i + 1]) % 256]
Sub(u, v) == Add(Add(u, Not(v)), [i \in DOMAIN u |-> IF i = Len(u) THEN 1 ELSE 0])

\* Shifts and rotations by k bits.
ROTL(u, k) ==
  LET n == Len(u)
      B(j) == u[1 + (j % n)]
  IN <<>> \o [i \in 1 .. n |->
       ((B(i - 1 + (k \div 8)) * (2 ^ (k % 8))) % 256)
         + (B(i + (k \div 8)) \div (2 ^ (8 - (k % 8))))]
ROTR(u, k) == ROTL(u, (8 * Len(u)) - k)
SHR(u, k) ==
  LET B(j) == IF j \in DOMAIN u THEN u[j] ELSE 0
  IN <<>> \o [i \in DOMAIN u |->
       (B(i - (k \div 8)) \div (2 ^ (k % 8)))
         + ((B(i - (k \div 8) - 1) * (2 ^ (8 - (k % 8)))) % 256)]

\* s cut into words of n bytes.
InWords(s, n) == <<>> \o [k \in 1 .. (Len(s) \div n) |-> SubSeq(s, ((k - 1) * n) + 1, k * n)]
Backwards(u) == <<>> \o [i \in DOMAIN u |-> u[Len(u) + 1 - i]]

=============================================================================
