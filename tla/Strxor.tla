------------------------------- MODULE Strxor -------------------------------
(***************************************************************************)
(* Crypto.Util.strxor (strxor.c).  A caller masks a string, and what it    *)
(* got again, with strings and with single bytes.                          *)
(***************************************************************************)
EXTENDS Words, FiniteSets

CONSTANTS
  Strings,  \* strings to mask and masks
  Numbers   \* integers given for a byte

VARIABLES
  module,  \* "new", "loaded", or "failed": AssertionError while importing
  value,   \* the string the caller has
  status,  \* how the last call ended
  odd,     \* history: the masks applied an odd number of times
  text     \* history: the string the caller started from

vars == <<module, value, status, odd, text>>

Init ==
  /\ module = "new" /\ text \in Strings /\ value = text
  /\ status = "none" /\ odd = {}

xor_strings(a, b) == Xor(a, b)

\* The integer is cut to a char, and so is what comes of a negative one.
xor_string_with_char(s, c) == [i \in DOMAIN s |-> ByteXor[s[i]][c]]

\* Two known answers, checked whenever the module is imported.
Hello == <<0, 104, 101, 108, 108, 111, 0>>
World == <<255, 119, 111, 114, 108, 100, 0>>
runtime_test ==
  /\ xor_strings(Hello, World) = <<255, 31, 10, 30, 0, 11, 0>>
  /\ xor_string_with_char(Hello, 170) = <<170, 194, 207, 198, 198, 197, 170>>

Import ==
  /\ module = "new" /\ module' = IF runtime_test THEN "loaded" ELSE "failed"
  /\ UNCHANGED <<value, status, odd, text>>

\* A mask applied a second time is off again.
Toggled(mask) == IF mask \in odd THEN odd \ {mask} ELSE odd \cup {mask}

\* Strings of unequal lengths raise ValueError.  A pointer plus n has to be
\* above the pointer, or the assertion ends the process: setup.py takes care
\* that assertions are compiled in.
strxor_function(b) ==
  /\ module = "loaded" /\ status # "aborted"
  /\ IF Len(b) # Len(value)
     THEN status' = "ValueError" /\ UNCHANGED <<value, odd>>
     ELSE IF value = <<>>
     THEN status' = "aborted" /\ UNCHANGED <<value, odd>>
     ELSE status' = "done" /\ value' = xor_strings(value, b) /\ odd' = Toggled(b)
  /\ UNCHANGED <<module, text>>

strxor_c_function(c) ==
  /\ module = "loaded" /\ status # "aborted"
  /\ IF c \notin Byte
     THEN status' = "ValueError" /\ UNCHANGED <<value, odd>>
     ELSE IF value = <<>>
     THEN status' = "aborted" /\ UNCHANGED <<value, odd>>
     ELSE /\ status' = "done" /\ value' = xor_string_with_char(value, c)
          /\ odd' = Toggled([i \in DOMAIN value |-> c])
  /\ UNCHANGED <<module, text>>

Next ==
  \/ Import
  \/ \E b \in Strings : strxor_function(b)
  \/ \E c \in Numbers : strxor_c_function(c)

Spec == Init /\ [][Next]_vars

-----------------------------------------------------------------------------
(* Properties.                                                             *)

\* What is masked an even number of times with every mask is the text again,
\* in whatever order the masks came and whether as a string or as a byte; a
\* refused mask leaves it alone.
MasksCancel == odd = {} => value = text

=============================================================================
