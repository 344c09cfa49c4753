---------------------------- MODULE MCSplunkCache ----------------------------
(***************************************************************************)
(* Small instances of SplunkCache for TLC.                                 *)
(***************************************************************************)
EXTENDS SplunkCache, TLC

\* Callers are told apart by nothing but their name.
Symmetry == Permutations(Caller)

=============================================================================
