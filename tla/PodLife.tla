------------------------------- MODULE PodLife -------------------------------
(***************************************************************************)
(* The life of the agent's pod as the kubelet and an operator see it, with *)
(* no history, no clients and no budgets.  A process starts, runs cycles   *)
(* one after the other and ends.  A cycle never takes the process down:    *)
(* without a signal it dies only while it starts or between two cycles.    *)
(* Nothing but the end of a cycle makes its heartbeat young again, so that *)
(* one that hangs anywhere ages until the probe sees it; and the probe     *)
(* sends its signal only to a process that was slow since its last cycle.  *)
(* At most one cycle begins after a signal.  AgentLoop implements this     *)
(* specification.                                                          *)
(***************************************************************************)
EXTENDS Integers

CONSTANT ProbeLimit  \* the age of the heartbeat at which the probe fails

VARIABLES
  phase,  \* "down", "starting", "between" two cycles, in a "cycle", "ending"
  age,    \* of the heartbeat, up to ProbeLimit
  slow,   \* something took longer than it is allowed since the last cycle
  stop,   \* the signal of this process: "no", a "rollout", a failing "probe"
  late    \* cycles begun since the signal

vars == <<phase, age, slow, stop, late>>

Init == phase = "down" /\ age = 0 /\ slow = FALSE /\ stop = "no" /\ late = 0

Start ==
  /\ phase = "down"
  /\ phase' = "starting"
  /\ UNCHANGED <<age, slow, stop, late>>

Serve ==
  /\ phase = "starting"
  /\ phase' = "between"
  /\ UNCHANGED <<age, slow, stop, late>>

BeginCycle ==
  /\ phase = "between"
  /\ late = 0
  /\ phase' = "cycle"
  /\ late' = IF stop = "no" THEN 0 ELSE 1
  /\ UNCHANGED <<age, slow, stop>>

\* Completed or failed, the cycle is a sign of life.
EndCycle ==
  /\ phase = "cycle"
  /\ phase' = "between"
  /\ age' = 0 /\ slow' = FALSE
  /\ UNCHANGED <<stop, late>>

Tick ==
  /\ phase # "down"
  /\ age' = IF age < ProbeLimit THEN age + 1 ELSE ProbeLimit
  /\ slow' \in {slow, TRUE}
  /\ UNCHANGED <<phase, stop, late>>

Signal(cause) ==
  /\ phase \in {"starting", "between", "cycle"}
  /\ stop = "no"
  /\ cause = "probe" => age >= ProbeLimit /\ slow
  /\ stop' = cause
  /\ UNCHANGED <<phase, age, slow, late>>

\* The loop has seen the signal.
Leave ==
  /\ phase = "between"
  /\ stop # "no"
  /\ phase' = "ending"
  /\ UNCHANGED <<age, slow, stop, late>>

\* The process ends: an error outside of the cycles, the end of its loop, or
\* the end of the grace period after a signal.
Die ==
  /\ phase \in {"starting", "between", "ending"} \/ stop # "no"
  /\ phase' = "down"
  /\ age' = 0 /\ slow' = FALSE
  /\ stop' = "no"
  /\ late' = 0

Next ==
  \/ Start \/ Serve \/ BeginCycle \/ EndCycle \/ Tick
  \/ \E cause \in {"rollout", "probe"} : Signal(cause)
  \/ Leave \/ Die

Spec == Init /\ [][Next]_vars

=============================================================================
