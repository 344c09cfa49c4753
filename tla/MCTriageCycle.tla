---------------------------- MODULE MCTriageCycle ----------------------------
(***************************************************************************)
(* Small instances of TriageCycle for TLC.                                 *)
(***************************************************************************)
EXTENDS TriageCycle, TLC

\* Stores are told apart by nothing but their name.
Symmetry == Permutations(Store)

=============================================================================
