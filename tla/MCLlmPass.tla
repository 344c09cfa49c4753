------------------------------ MODULE MCLlmPass ------------------------------
(***************************************************************************)
(* A small instance of LlmPass for TLC.                                    *)
(***************************************************************************)
EXTENDS LlmPass, TLC

\* Stores and ids are told apart by nothing but their name.
Symmetry == Permutations(Store) \cup Permutations(Id)

=============================================================================
