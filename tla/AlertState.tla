------------------------------ MODULE AlertState ------------------------------
(***************************************************************************)
(* The per-store alert memory of the agent: class AlertState of            *)
(* src/state.py.  Five Python dictionaries keyed by store become five      *)
(* total functions on Store; a key that is absent from the dictionary is   *)
(* the value the code's .get() or .pop() default gives it (None, 0 or      *)
(* NoDowngrade).  The module holds the state and one operator per method;  *)
(* TriageCycle says who calls them and in which order.                     *)
(*                                                                         *)
(* Abstracted data: a card is its severity and a Signature, the value of   *)
(* the triple (scope, root_cause_key, set of domains_affected) that the    *)
(* dedup backstop compares.  The site is only printed on cards.            *)
(***************************************************************************)
EXTENDS Integers

CONSTANTS
  Store,        \* the stores the agent watches
  Severity,     \* what a triage report may give as its severity
  Signature,    \* the values of (scope, root cause, domains) of a card
  HoldCycles,   \* DOWNGRADE_HOLD_CYCLES
  ClearCycles,  \* cfg.recovery_clear_cycles
  Cooldown,     \* cfg.recovery_cooldown_seconds, in ticks of the clock
  None          \* a missing dictionary entry, Python's None

ASSUME HoldAssumption == HoldCycles \in Nat
ASSUME ClearAssumption == ClearCycles \in Nat
ASSUME CooldownAssumption == Cooldown \in Nat

VARIABLES
  now,           \* the wall clock, read by datetime.now(timezone.utc)
  active,        \* _active: the open alerts
  downgrade,     \* _downgrade: the pending lower tier and its streak
  recoveredAt,   \* _recovered_at: when the store last recovered
  clearStreak,   \* _clear_streak: consecutive cycles without a fault
  lastReminder   \* _last_reminder: when the last reminder went out

alertVars == <<active, downgrade, recoveredAt, clearStreak, lastReminder>>

Time == Nat

\* _Active without the fields that are only displayed.
Incident ==
  [severity : Severity, signature : Signature, firstSeen : Time, lastSent : Time]

\* None is told apart from whatever it stands for the absence of.
ASSUME NoneAssumption == None \notin Time \cup Severity \cup Incident

Downgrade == [cand : Severity \cup {None}, count : Nat]

NoDowngrade == [cand |-> None, count |-> 0]

AlertTypeOK ==
  /\ now \in Time
  /\ active \in [Store -> Incident \cup {None}]
  /\ downgrade \in [Store -> Downgrade]
  /\ recoveredAt \in [Store -> Time \cup {None}]
  /\ clearStreak \in [Store -> Nat]
  /\ lastReminder \in [Store -> Time \cup {None}]

\* A process that has just started: every dictionary is empty.
EmptyAlertState ==
  /\ active = [s \in Store |-> None]
  /\ downgrade = [s \in Store |-> NoDowngrade]
  /\ recoveredAt = [s \in Store |-> None]
  /\ clearStreak = [s \in Store |-> 0]
  /\ lastReminder = [s \in Store |-> None]

IsActive(s) == active[s] # None

UpTo(n, bound) == IF n < bound THEN n ELSE bound

\* The passes without a store that close it.  A ClearCycles of 0 does not close
\* a store that the pass has just correlated.
PassesToClear == IF ClearCycles = 0 THEN 1 ELSE ClearCycles

-----------------------------------------------------------------------------
(***************************************************************************)
(* Severity tiers and their hysteresis.                                    *)
(***************************************************************************)

SevRank == [P1 |-> 3, P2 |-> 2, P3 |-> 1]

Rank(sev) == IF sev \in DOMAIN SevRank THEN SevRank[sev] ELSE -1

\* A tier the code knows that ranks below the one on the open card.
IsDowngrade(s, proposed) ==
  /\ IsActive(s)
  /\ Rank(proposed) >= 0
  /\ Rank(active[s].severity) >= 0
  /\ Rank(proposed) < Rank(active[s].severity)

\* The streak the downgrade reaches with this proposal.
DowngradeCount(s, proposed) ==
  IF downgrade[s].cand = proposed THEN downgrade[s].count + 1 ELSE 1

\* Seeded fault: the hold is forgotten, any lower tier is believed at once.
NeverHeld(s, proposed) == FALSE

\* A lower tier that has not been proposed often enough yet.
Held(s, proposed) ==
  /\ IsDowngrade(s, proposed)
  /\ DowngradeCount(s, proposed) < HoldCycles

\* What effective_severity returns ...
EffectiveSeverity(s, proposed) ==
  IF Held(s, proposed) THEN active[s].severity ELSE proposed

\* ... and what it leaves in _downgrade.
AdvanceDowngrade(s, proposed) ==
  downgrade' = [downgrade EXCEPT ![s] =
                  IF Held(s, proposed)
                    THEN [cand |-> proposed, count |-> DowngradeCount(s, proposed)]
                    ELSE NoDowngrade]

-----------------------------------------------------------------------------
(***************************************************************************)
(* Cards.                                                                  *)
(***************************************************************************)

\* Seeded fault: no deterministic backstop behind the LLM's own verdict.
NeverUnchanged(s, sev, sig) == FALSE

\* The dedup backstop: the card would repeat the store's last one.
IsUnchanged(s, sev, sig) ==
  /\ IsActive(s)
  /\ active[s].severity = sev
  /\ active[s].signature = sig

\* Seeded fault: an update starts a new incident.
RecordSentAsNew(s, sev, sig) ==
  /\ active' = [active EXCEPT ![s] =
                  [severity |-> sev, signature |-> sig, firstSeen |-> now, lastSent |-> now]]
  /\ UNCHANGED <<downgrade, recoveredAt, clearStreak, lastReminder>>

RecordSent(s, sev, sig) ==
  /\ active' = [active EXCEPT ![s] =
                  [severity  |-> sev,
                   signature |-> sig,
                   firstSeen |-> IF IsActive(s) THEN active[s].firstSeen ELSE now,
                   lastSent  |-> now]]
  /\ UNCHANGED <<downgrade, recoveredAt, clearStreak, lastReminder>>

-----------------------------------------------------------------------------
(***************************************************************************)
(* Recovery.                                                               *)
(***************************************************************************)

\* Seeded fault: a faulting store pauses its streak and does not restart it.
StreakPauses(faulting, s) ==
  IF ~IsActive(s) \/ s \in faulting
    THEN clearStreak[s]
    ELSE UpTo(clearStreak[s] + 1, PassesToClear)

\* Seeded fault: a faulting cycle takes one off the streak.
StreakDecays(faulting, s) ==
  IF ~IsActive(s) THEN clearStreak[s]
  ELSE IF s \in faulting THEN clearStreak[s] - 1
  ELSE UpTo(clearStreak[s] + 1, PassesToClear)

\* The clear streak of a store after a detection pass that returned faulting.
\* It stops at PassesToClear: the code counts on, and compares the streak with
\* nothing but clear_cycles.
StreakAfter(faulting, s) ==
  IF ~IsActive(s) THEN clearStreak[s]
  ELSE IF s \in faulting THEN 0
  ELSE UpTo(clearStreak[s] + 1, PassesToClear)

\* The recovery specs that advance_recovery returns.
ReadyToRecover(faulting) ==
  {s \in Store : /\ IsActive(s)
                 /\ s \notin faulting
                 /\ StreakAfter(faulting, s) >= ClearCycles}

AdvanceRecovery(faulting) ==
  /\ clearStreak' = [s \in Store |-> StreakAfter(faulting, s)]
  /\ UNCHANGED <<active, downgrade, recoveredAt, lastReminder>>

\* Seeded fault: the recovery leaves the store's streak behind.
ClearKeepsStreak(s) ==
  /\ downgrade' = [downgrade EXCEPT ![s] = NoDowngrade]
  /\ lastReminder' = [lastReminder EXCEPT ![s] = None]
  /\ active' = [active EXCEPT ![s] = None]
  /\ recoveredAt' = [recoveredAt EXCEPT ![s] = now]
  /\ UNCHANGED clearStreak

Clear(s) ==
  /\ downgrade' = [downgrade EXCEPT ![s] = NoDowngrade]
  /\ clearStreak' = [clearStreak EXCEPT ![s] = 0]
  /\ lastReminder' = [lastReminder EXCEPT ![s] = None]
  /\ active' = [active EXCEPT ![s] = None]
  /\ recoveredAt' = [recoveredAt EXCEPT ![s] = IF IsActive(s) THEN now ELSE @]

\* Seeded fault: the recovery opens no window.
NeverInCooldown(s) == FALSE

InCooldown(s) == recoveredAt[s] # None /\ now - recoveredAt[s] < Cooldown

-----------------------------------------------------------------------------
(***************************************************************************)
(* Reminders.                                                              *)
(***************************************************************************)

\* Seeded fault: the last card is not a notice, only the last reminder is.
NoticeIgnoringCards(s) ==
  IF lastReminder[s] = None THEN active[s].firstSeen ELSE lastReminder[s]

\* The latest notice about an open alert, a card or a reminder.
LastNotice(s) ==
  IF lastReminder[s] = None \/ lastReminder[s] < active[s].lastSent
    THEN active[s].lastSent
    ELSE lastReminder[s]

\* An interval of 0 switches the reminders off.
DueForReminder(interval) ==
  {s \in Store : /\ interval > 0
                 /\ IsActive(s)
                 /\ now - LastNotice(s) >= interval}

MarkReminded(s) ==
  /\ lastReminder' = [lastReminder EXCEPT ![s] = now]
  /\ UNCHANGED <<active, downgrade, recoveredAt, clearStreak>>

=============================================================================
