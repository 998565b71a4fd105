--------------------------- MODULE MCEventDelivery ---------------------------
(* Instances of EventDelivery for TLC.                                     *)
EXTENDS EventDelivery, TLC

\* Intents of one kind are alike.
Symmetry == Permutations(MainIntents) \cup Permutations(Intents \ MainIntents)

=============================================================================
