--------------------------- MODULE MCTriageHistory ---------------------------
(***************************************************************************)
(* Small instances of TriageHistory for TLC.                               *)
(***************************************************************************)
EXTENDS TriageHistory, TLC

\* Stores are told apart by nothing but their name.
Symmetry == Permutations(Store)

=============================================================================
