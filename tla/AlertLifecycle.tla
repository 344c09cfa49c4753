---------------------------- MODULE AlertLifecycle ----------------------------
(***************************************************************************)
(* What the agent promises about the incidents it reports, with none of    *)
(* the machinery that keeps the promise: no poll cycle, no LLM, no POST in *)
(* flight.  A store has an incident or not.  An incident opens once the    *)
(* cooldown of the previous one is over, is updated only by a card that    *)
(* says something else, keeps the time it was first seen, and closes.  A   *)
(* restart of the process forgets everything.  TriageCycle implements this *)
(* specification.                                                          *)
(***************************************************************************)
EXTENDS Integers

CONSTANTS Store, Content, Cooldown, None

VARIABLES
  now,       \* the clock
  incident,  \* the incident of a store, None when there is none
  closedAt   \* when the store's last incident closed, None if never

vars == <<now, incident, closedAt>>

Init ==
  /\ now = 0
  /\ incident = [s \in Store |-> None]
  /\ closedAt = [s \in Store |-> None]

Open(s, content) ==
  /\ incident[s] = None
  /\ closedAt[s] # None => now - closedAt[s] >= Cooldown
  /\ incident' = [incident EXCEPT ![s] =
                    [content |-> content, firstSeen |-> now, lastSent |-> now]]
  /\ UNCHANGED <<now, closedAt>>

Update(s, content) ==
  /\ incident[s] # None
  /\ content # incident[s].content
  /\ incident' = [incident EXCEPT ![s] =
                    [content   |-> content,
                     firstSeen |-> incident[s].firstSeen,
                     lastSent  |-> now]]
  /\ UNCHANGED <<now, closedAt>>

Close(s) ==
  /\ incident[s] # None
  /\ incident' = [incident EXCEPT ![s] = None]
  /\ closedAt' = [closedAt EXCEPT ![s] = now]
  /\ UNCHANGED now

Forget ==
  /\ incident' = [s \in Store |-> None]
  /\ closedAt' = [s \in Store |-> None]
  /\ UNCHANGED now

Advance ==
  /\ now' = now + 1
  /\ UNCHANGED <<incident, closedAt>>

Next ==
  \/ \E s \in Store, content \in Content : Open(s, content) \/ Update(s, content)
  \/ \E s \in Store : Close(s)
  \/ Forget
  \/ Advance

Spec == Init /\ [][Next]_vars

=============================================================================
