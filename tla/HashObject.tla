----------------------------- MODULE HashObject -----------------------------
(***************************************************************************)
(* The hash objects of hash_template.c: made, fed by pieces, copied and    *)
(* asked for a digest in any order, each object by one thread.  The        *)
(* algorithm is one of those HashPadding models.                           *)
(***************************************************************************)
EXTENDS HashPadding

CONSTANTS
  Algorithms,
  Objects,
  Bytes,      \* what messages are made of
  MaxPiece,   \* longest piece of one update
  MaxMessage  \* bound on the length of a message

VARIABLES
  alg,
  st,      \* hash_state of each object, or None
  message  \* history: what each object was fed

vars == <<alg, st, message>>

None == [blocks |-> <<>>]

Pieces == UNION {[1 .. n -> Bytes] : n \in 0 .. MaxPiece}

Init ==
  /\ alg \in Algorithms
  /\ st = [o \in Objects |-> None] /\ message = [o \in Objects |-> <<>>]

Live(o) == st[o] # None

ALG_new(o, s) ==
  /\ ~Live(o)
  /\ st' = [st EXCEPT ![o] = hash_update(alg, hash_init(alg), s)]
  /\ message' = [message EXCEPT ![o] = s] /\ UNCHANGED alg

ALG_update(o, s) ==
  /\ Live(o) /\ Len(message[o]) + Len(s) <= MaxMessage
  /\ st' = [st EXCEPT ![o] = hash_update(alg, @, s)]
  /\ message' = [message EXCEPT ![o] = @ \o s] /\ UNCHANGED alg

ALG_copy(o, new) ==
  /\ Live(o) /\ ~Live(new)
  /\ st' = [st EXCEPT ![new] = hash_copy(alg, st[o])]
  /\ message' = [message EXCEPT ![new] = message[o]] /\ UNCHANGED alg

ALG_dealloc(o) ==
  /\ Live(o) /\ st' = [st EXCEPT ![o] = None]
  /\ message' = [message EXCEPT ![o] = <<>>] /\ UNCHANGED alg

Next ==
  \E o \in Objects :
    \/ \E s \in Pieces : ALG_new(o, s) \/ ALG_update(o, s)
    \/ \E new \in Objects : ALG_copy(o, new)
    \/ ALG_dealloc(o)

Spec == Init /\ [][Next]_vars

\* ALG_digest and ALG_hexdigest work on a copy and leave the object alone.
ALG_digest(o) == hash_digest(alg, st[o])

-----------------------------------------------------------------------------
(* The padding rules, stated on the message as a whole.                    *)

Blocks(s) ==
  [k \in 1 .. (Len(s) \div BLOCK_SIZE) |-> SubSeq(s, (k - 1) * BLOCK_SIZE + 1, k * BLOCK_SIZE)]

\* A one bit, zeros, and the length in bits, to a whole number of blocks.
Strengthened(s, length) ==
  LET n == CHOOSE k \in 0 .. (BLOCK_SIZE - 1) :
             (Len(s) + 1 + k + 2 * WORD_SIZE) % BLOCK_SIZE = 0
  IN Blocks(s \o <<OneBit>> \o Repeat(0, n) \o length)

Lower(s) == (BITS * Len(s)) % WordRange
Upper(s) == ((BITS * Len(s)) \div WordRange) % WordRange

PaddedMD2(s) ==
  LET n == BLOCK_SIZE - (Len(s) % BLOCK_SIZE)
      blocks == Blocks(s \o Repeat(n, n))
  IN Append(blocks, [checksum |-> blocks])

Padded(s) ==
  CASE alg = "SHA2" -> Strengthened(s, BigEndian(Upper(s)) \o BigEndian(Lower(s)))
    [] alg \in {"MD4", "RIPEMD160"} ->
         Strengthened(s, LittleEndian(Lower(s)) \o LittleEndian(Upper(s)))
    [] alg = "MD2" -> PaddedMD2(s)

-----------------------------------------------------------------------------
(* Properties.                                                             *)

\* Whatever the pieces a message came in, and whether the object is a copy or
\* was copied or asked for its digest on the way, the digest is that of the
\* whole message, padded as the algorithm says, its length counted through
\* the overflow of the lower word; no byte of memory that was never written
\* is compressed.
DigestIsOfWholeMessage ==
  \A o \in Objects : Live(o) => ALG_digest(o) = Padded(message[o])

=============================================================================
