----------------------------- MODULE MCAgentLoop -----------------------------
(***************************************************************************)
(* A small instance of AgentLoop for TLC.                                  *)
(***************************************************************************)
EXTENDS AgentLoop

\* A cycle and the awaits of the history take time, the others next to none.
MCAllowance ==
  [a \in Await |->
     CASE a \in {"enter", "open", "call", "poll", "pause"} -> 1
       [] OTHER -> 0]

=============================================================================
