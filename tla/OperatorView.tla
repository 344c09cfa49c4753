----------------------------- MODULE OperatorView -----------------------------
(***************************************************************************)
(* What the operators of the Teams channel may rely on, in terms of what   *)
(* they can see there: the last card about each store and the notices that *)
(* come with time.  There is no poll cycle, no memory of the agent and no  *)
(* POST in flight.  A store is in doubt when the channel lost the outcome  *)
(* of a card about it, or the agent restarted while it was alerting; a     *)
(* card whose outcome is known ends the doubt.  TriageHistory implements   *)
(* this specification.                                                     *)
(***************************************************************************)
EXTENDS Integers

CONSTANTS
  Store,
  AlertCard,         \* the alert cards there can be
  NoCard, Resolved,  \* the two other things shown of a store
  ReminderInterval,
  None

VARIABLES
  now,       \* the clock
  shown,     \* the last card about each store
  doubtful,  \* the stores in doubt
  notice     \* the last card or reminder about a store that was acknowledged

vars == <<now, shown, doubtful, notice>>

Alerting(s) == shown[s] \in AlertCard

Init ==
  /\ now = 0
  /\ shown = [s \in Store |-> NoCard]
  /\ doubtful = {}
  /\ notice = [s \in Store |-> None]

\* It says what is not shown yet; out of doubt nothing is said twice.
IsNews(s, card) == s \in doubtful \/ shown[s] # card

\* An alert card appears, and its outcome is known ...
Post(s, card) ==
  /\ IsNews(s, card)
  /\ shown' = [shown EXCEPT ![s] = card]
  /\ doubtful' = doubtful \ {s}
  /\ notice' = [notice EXCEPT ![s] = [kind |-> "card", at |-> now]]
  /\ UNCHANGED now

\* ... or it is lost.
PostUnanswered(s, card) ==
  /\ IsNews(s, card)
  /\ shown' = [shown EXCEPT ![s] = card]
  /\ doubtful' = doubtful \cup {s}
  /\ UNCHANGED <<now, notice>>

\* RESOLVED appears where there was an alert, and nowhere else.
Resolve(s) ==
  /\ Alerting(s)
  /\ shown' = [shown EXCEPT ![s] = Resolved]
  /\ doubtful' = doubtful \ {s}
  /\ UNCHANGED <<now, notice>>

\* The RESOLVED card of a store does not come: the alert stays.
ResolveLost(s) ==
  /\ Alerting(s)
  /\ doubtful' = doubtful \cup {s}
  /\ UNCHANGED <<now, shown, notice>>

\* A reminder of an alert, an interval after the last acknowledged notice of it.
Remind(s) ==
  /\ Alerting(s)
  /\ notice[s] # None
  /\ now - notice[s].at >= ReminderInterval
  /\ notice' = [notice EXCEPT ![s] = [kind |-> "reminder", at |-> now]]
  /\ UNCHANGED <<now, shown, doubtful>>

\* The agent restarts.  Every alert is in doubt, and what was on its way may
\* still appear: RESOLVED cards, or one alert card.
Restart ==
  /\ doubtful' \in SUBSET Store
  /\ doubtful \cup {s \in Store : Alerting(s)} \subseteq doubtful'
  /\ \/ \E D \in SUBSET Store :
          /\ \A s \in D : Alerting(s)
          /\ shown' = [s \in Store |-> IF s \in D THEN Resolved ELSE shown[s]]
     \/ \E s \in doubtful', card \in AlertCard :
          /\ IsNews(s, card)
          /\ shown' = [shown EXCEPT ![s] = card]
  /\ UNCHANGED <<now, notice>>

Advance ==
  /\ now' = now + 1
  /\ UNCHANGED <<shown, doubtful, notice>>

Next ==
  \/ \E s \in Store, card \in AlertCard : Post(s, card) \/ PostUnanswered(s, card)
  \/ \E s \in Store : Resolve(s) \/ ResolveLost(s) \/ Remind(s)
  \/ Restart
  \/ Advance

Spec == Init /\ [][Next]_vars

=============================================================================
