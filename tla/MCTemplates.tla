---------------------------- MODULE MCTemplates -----------------------------
(***************************************************************************)
(* What block_template.c, hash_template.c and _counter.c put around a      *)
(* primitive: the chaining modes, CTR mode, the counter objects and the    *)
(* hash objects.  Each is an extension module of its own and this model    *)
(* takes one at a time.                                                    *)
(*                                                                         *)
(* Chaining: bytes of one bit, blocks of three, hence CFB segments of one, *)
(* two and three bytes, the second of which does not divide the block.     *)
(***************************************************************************)
EXTENDS BlockModes, TLC

\* Parameters of Counter, CtrMode and HashObject, beside BLOCK_SIZE.
CONSTANTS Base, MaxBytes, MaxFailed
CONSTANTS Threads, Limit, Shortcuts, Customs, MaxLen, MaxUsed
CONSTANTS WORD_SIZE, BITS, Algorithms, Objects, Bytes, MaxPiece, MaxMessage

Bits == 0 .. 1
BitXor == [a \in Bits |-> [b \in Bits |-> (a + b) % 2]]

Size == 3
Blocks == [1 .. Size -> Bits]
Number(b) == b[1] + 2 * b[2] + 4 * b[3]
OfNumber(n) == CHOOSE b \in Blocks : Number(b) = n

\* Two permutations of the eight blocks, without a fixed point they share.
Encrypt == "k" :> [b \in Blocks |-> OfNumber((3 * Number(b) + 1) % 8)]
        @@ "l" :> [b \in Blocks |-> OfNumber(7 - Number(b))]
Decrypt == [k \in DOMAIN Encrypt |-> [b \in Blocks |-> CHOOSE a \in Blocks : Encrypt[k][a] = b]]

-----------------------------------------------------------------------------
VARIABLES
  part,
  obj, given, outcome, leaked,                                    \* Counter
  shortcut, custom, allow_wraparound, fits, val, carry, pc, todo, \* CtrMode
  count, IV, tmp, drawn, used,
  alg, st, message                                                \* HashObject

counterVars == <<obj, given, outcome, leaked>>
ctrVars == <<shortcut, custom, allow_wraparound, fits, val, carry, pc, todo, count, IV, tmp,
             drawn, used>>
hashVars == <<alg, st, message>>
allVars == <<part, vars, counterVars, ctrVars, hashVars>>

Cnt == INSTANCE Counter
Ctr == INSTANCE CtrMode
Hash == INSTANCE HashObject

Parts == {"chaining", "counter", "CTR", "hash", "hash, long"}

\* Every module's Init; those of the others in one of their initial states.
MCInit ==
  /\ part \in Parts
  /\ Init /\ Cnt!Init /\ Ctr!Init /\ Hash!Init
  /\ part # "chaining" =>
       mode = "ECB" /\ key = "k" /\ sender = [j \in 1 .. BLOCK_SIZE |-> 0]
  /\ part # "CTR" => ~shortcut /\ ~custom /\ ~allow_wraparound /\ fits /\ val = 0
  /\ part \notin {"hash", "hash, long"} => alg = "MD2"

Chaining == part = "chaining" /\ Next /\ UNCHANGED <<part, counterVars, ctrVars, hashVars>>

CounterStep == part = "counter" /\ Cnt!Next /\ UNCHANGED <<part, vars, ctrVars, hashVars>>

CTRStep == part = "CTR" /\ Ctr!Next /\ UNCHANGED <<part, vars, counterVars, hashVars>>

\* Short messages in every way to cut them, of two objects; long ones of one.
Short == \A o \in Objects : Len(message'[o]) <= 5
Long ==
  \A o \in Objects : Hash!Live(o)' =>
    /\ o = CHOOSE u \in Objects : TRUE
    /\ Hash!Range(message'[o]) \subseteq {8}

HashStep ==
  /\ Hash!Next
  /\ \/ part = "hash" /\ Short
     \/ part = "hash, long" /\ Long
  /\ UNCHANGED <<part, vars, counterVars, ctrVars>>

MCNext == Chaining \/ CounterStep \/ CTRStep \/ HashStep

MCSpec == MCInit /\ [][MCNext]_allVars

-----------------------------------------------------------------------------
(* Properties, with those of BlockModes.                                   *)

\* Counter objects are sources of blocks (_counter.c:273-289).
ImplementsBlockSource == Cnt!ImplementsBlockSource

\* The keystream of CTR mode is the encryptions of the counter blocks drawn,
\* in order, none left out and none used twice: by one cipher object, however
\* its data is cut into calls and whichever calls of the counter fail, and by
\* two that call the same counter object (block_template.c:353, :368-387).
KeystreamSound == Ctr!KeystreamSound

\* The digest is that of the whole message, whatever pieces it came in and
\* whatever was copied (hash_template.c).
DigestIsOfWholeMessage == Hash!DigestIsOfWholeMessage

=============================================================================
