------------------------------ MODULE Counter -------------------------------
(***************************************************************************)
(* pycrypto's counter objects (_counter.c): made by CounterLE_new or       *)
(* CounterBE_new, called for the next counter block, asked for the number  *)
(* in it, deallocated.  One object at a time; every call holds the GIL.    *)
(* CtrMode has the cipher that goes around the call without it.            *)
(***************************************************************************)
EXTENDS Naturals, Sequences, SequencesExt

CONSTANTS
  Base,      \* values of one byte, more than one: 256 in the program
  MaxBytes,  \* longest counter, prefix or suffix accepted: 65535 in the program
  MaxFailed  \* bound on constructions that fail

-----------------------------------------------------------------------------
(* The counter as bytes.  A counter block is the bytes of the prefix, the  *)
(* counter and the suffix; only the middle ever changes.                   *)

CounterByte == 0 .. (Base - 1)

\* How many values a counter of n bytes has: Base ^ n.
Period[n \in Nat] == IF n = 0 THEN 1 ELSE Base * Period[n - 1]

-----------------------------------------------------------------------------
\* The loop from the first byte up.  carry[i] goes out of the i-th byte.
CounterLEObject_increment_NoCarryOut(p) ==
  LET carry[i \in 0 .. Len(p)] ==
        IF i = 0 THEN 1 ELSE (p[i] + carry[i - 1]) \div Base
  IN [p |-> [i \in DOMAIN p |-> (p[i] + carry[i - 1]) % Base], carry |-> 0]

CounterLEObject_increment(p) ==
  LET carry[i \in 0 .. Len(p)] ==
        IF i = 0 THEN 1 ELSE (p[i] + carry[i - 1]) \div Base
  IN [p |-> [i \in DOMAIN p |-> (p[i] + carry[i - 1]) % Base], carry |-> carry[Len(p)]]

\* The loop from the last byte down.
CounterBEObject_increment(p) ==
  LET n == Len(p)
      carry[i \in 1 .. (n + 1)] ==
        IF i = n + 1 THEN 1 ELSE (p[i] + carry[i + 1]) \div Base
  IN [p |-> [i \in DOMAIN p |-> (p[i] + carry[i + 1]) % Base], carry |-> carry[1]]

inc_func(p, little_endian) ==
  IF little_endian THEN CounterLEObject_increment(p) ELSE CounterBEObject_increment(p)

\* _CounterObject_next_value: from the most significant byte, x = (x << 8) | ch.
next_value(p, little_endian) ==
  LET ch(i) == IF little_endian THEN p[Len(p) - i + 1] ELSE p[i]
      x[i \in 0 .. Len(p)] == IF i = 0 THEN 0 ELSE x[i - 1] * Base + ch(i)
  IN x[Len(p)]

\* Counter.py's _encode: n bytes of v, what does not fit cut off.
_encode(v, n, little_endian) ==
  LET le == [i \in 1 .. n |-> (v \div Period[i - 1]) % Base]
  IN IF little_endian THEN le ELSE Reverse(le)

-----------------------------------------------------------------------------
VARIABLES
  obj,      \* the counter, or NoObject
  given,    \* history: numbers handed out since it last wrapped
  outcome,  \* how the last call ended
  leaked    \* objects nobody refers to that were never freed

vars == <<obj, given, outcome, leaked>>

NoObject == [live |-> FALSE]

LiveObjects ==
  [live : {TRUE}, p : UNION {[1 .. n -> CounterByte] : n \in 1 .. MaxBytes},
   around : 0 .. (2 * MaxBytes), little_endian : BOOLEAN, carry : 0 .. 1,
   allow_wraparound : BOOLEAN, shortcut_disabled : BOOLEAN]

TypeOK ==
  /\ obj \in LiveObjects \cup {NoObject}
  /\ given \subseteq 0 .. (Period[MaxBytes] - 1)
  /\ outcome \in {"none", "block", "OverflowError", "ValueError"}
  /\ leaked \in 0 .. MaxFailed

Init ==
  /\ obj = NoObject /\ given = {}
  /\ outcome = "none" /\ leaked = 0

-----------------------------------------------------------------------------
\* CounterObject_init accepts these lengths.
Accepted(nbytes, prefix, suffix) ==
  nbytes \in 1 .. MaxBytes /\ prefix <= MaxBytes /\ suffix <= MaxBytes

\* CounterObject_init: prefix and suffix matter by their lengths.
InitObject(initval, around, le, allow, disable) ==
  [live |-> TRUE, p |-> initval, around |-> around, little_endian |-> le,
   carry |-> 0, allow_wraparound |-> allow, shortcut_disabled |-> disable]

\* The arguments a caller passes: a number cut to nbytes, and the lengths.
new(nbytes, prefix, suffix, initial, le, allow, disable) ==
  /\ ~obj.live /\ Accepted(nbytes, prefix, suffix)
  /\ obj' = InitObject(_encode(initial, nbytes, le), prefix + suffix, le, allow, disable)
  /\ given' = {} /\ outcome' = "none" /\ UNCHANGED leaked

\* The initializer failed.  The new object is neither returned nor freed.
new_fails(nbytes, prefix, suffix) ==
  /\ ~obj.live /\ ~Accepted(nbytes, prefix, suffix) /\ leaked < MaxFailed
  /\ leaked' = leaked + 1 /\ outcome' = "ValueError"
  /\ UNCHANGED <<obj, given>>

\* The test CounterObject_call and _CounterObject_next_value begin with.
Overflowed(o) == o.carry = 1 /\ ~o.allow_wraparound

buf_size(o) == Len(o.p) + o.around

CounterObject_call ==
  /\ obj.live /\ ~Overflowed(obj)
  /\ LET inc == inc_func(obj.p, obj.little_endian)
     IN /\ obj' = [obj EXCEPT !.p = inc.p, !.carry = inc.carry]
        /\ given' = IF inc.carry = 1 /\ obj.allow_wraparound THEN {}
                    ELSE given \cup {next_value(obj.p, obj.little_endian)}
  /\ outcome' = "block" /\ UNCHANGED leaked

call_raises ==
  /\ obj.live /\ Overflowed(obj)
  /\ outcome' = "OverflowError" /\ UNCHANGED <<obj, given, leaked>>

\* The buffer is wiped and the object is gone.
CounterObject_dealloc ==
  /\ obj.live /\ obj' = NoObject
  /\ given' = {} /\ outcome' = "none" /\ UNCHANGED leaked

Next ==
  \/ \E nbytes, prefix, suffix \in 0 .. (MaxBytes + 1) :
       \/ \E initial \in 0 .. Period[MaxBytes], le, allow, disable \in BOOLEAN :
            new(nbytes, prefix, suffix, initial, le, allow, disable)
       \/ new_fails(nbytes, prefix, suffix)
  \/ CounterObject_call \/ call_raises \/ CounterObject_dealloc

Spec == Init /\ [][Next]_vars

-----------------------------------------------------------------------------
(* Properties.                                                             *)

\* The source of blocks that the counter object is.
Source ==
  INSTANCE BlockSource WITH
    limit <- IF obj.live THEN Period[Len(obj.p)] ELSE 1,
    wraps <- IF obj.live THEN obj.allow_wraparound ELSE FALSE,
    value <- IF ~obj.live THEN 0
             ELSE IF Overflowed(obj) THEN Period[Len(obj.p)]
             ELSE next_value(obj.p, obj.little_endian)

\* A counter object is a source of blocks: it gives each number of a round once,
\* in order, and starts over only if it may wrap (_counter.c:273-289).
ImplementsBlockSource == Source!Spec

=============================================================================
