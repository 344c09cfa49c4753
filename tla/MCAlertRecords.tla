---------------------------- MODULE MCAlertRecords ----------------------------
(***************************************************************************)
(* A small instance of AlertRecords for TLC.                               *)
(***************************************************************************)
EXTENDS AlertRecords, TLC

\* Stores are told apart by nothing but their name.
Symmetry == Permutations(Store)

=============================================================================
