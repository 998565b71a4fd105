---------------------------- MODULE BlockSource -----------------------------
(***************************************************************************)
(* What a counter promises to the cipher that draws its blocks from it:    *)
(* numbers one after the other, none of them twice before it says so.  A   *)
(* source that may wrap starts over after its last number; one that may    *)
(* not refuses from then on.                                               *)
(***************************************************************************)
EXTENDS Integers

VARIABLES
  limit,  \* numbers the source has
  wraps,  \* it may start over
  value,  \* the next number; limit: none is left
  given   \* numbers handed out in this round

vars == <<limit, wraps, value, given>>

Fresh ==
  /\ limit \in Nat \ {0} /\ wraps \in BOOLEAN
  /\ value \in Nat /\ value < limit /\ given = {}

Init == Fresh

\* Another source takes the place of this one.
Start == Fresh'

LastOfRound == wraps /\ value + 1 = limit

Give ==
  /\ value < limit
  /\ value' = IF LastOfRound THEN 0 ELSE value + 1
  /\ given' = IF LastOfRound THEN {} ELSE given \cup {value}
  /\ UNCHANGED <<limit, wraps>>

Next == Start \/ Give

Spec == Init /\ [][Next]_vars

-----------------------------------------------------------------------------
(* Properties.                                                             *)

\* Everything given in this round lies below what comes next.
Numbers ==
  /\ limit \in Nat \ {0} /\ value \in Nat /\ value <= limit
  /\ \A v \in given : v \in Nat /\ v < value

GivenBelow == wraps \in BOOLEAN /\ Numbers

\* No number is handed out twice in a round.
NeverTwice == [][Give => value \notin given]_vars

=============================================================================
