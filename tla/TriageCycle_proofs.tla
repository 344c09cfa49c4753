-------------------------- MODULE TriageCycle_proofs --------------------------
(***************************************************************************)
(* Proofs about TriageCycle, for every value of its constants.             *)
(***************************************************************************)
EXTENDS TriageCycle, TLAPS

-----------------------------------------------------------------------------
(***************************************************************************)
(* Type correctness.                                                       *)
(***************************************************************************)

\* The severity that the hysteresis lets through is the proposed one or the one
\* on the open card (AlertState.effective_severity).
LEMMA EffectiveSeverityType ==
  ASSUME AlertTypeOK, NEW s \in Store, NEW p \in Severity
  PROVE  EffectiveSeverity(s, p) \in Severity
BY NoneAssumption DEF AlertTypeOK, EffectiveSeverity, Held, IsDowngrade, IsActive, Incident

\* Advancing the hysteresis keeps the type of _downgrade.
LEMMA AdvanceDowngradeType ==
  ASSUME AlertTypeOK, NEW s \in Store, NEW p \in Severity, AdvanceDowngrade(s, p)
  PROVE  downgrade' \in [Store -> Downgrade]
<1>1. DowngradeCount(s, p) \in Nat
  BY DEF AlertTypeOK, DowngradeCount, Downgrade
<1>2. NoDowngrade \in Downgrade
  BY DEF NoDowngrade, Downgrade
<1>3. [cand |-> p, count |-> DowngradeCount(s, p)] \in Downgrade
  BY <1>1 DEF Downgrade
<1> QED
  BY <1>2, <1>3 DEF AlertTypeOK, AdvanceDowngrade

\* The clear streaks stay natural numbers.
LEMMA AdvanceRecoveryType ==
  ASSUME AlertTypeOK, NEW F \in SUBSET Store, AdvanceRecovery(F), UNCHANGED now
  PROVE  AlertTypeOK'
BY ClearAssumption DEF AlertTypeOK, AdvanceRecovery, StreakAfter, UpTo, PassesToClear

\* Closing an alert keeps the types.
LEMMA ClearType ==
  ASSUME AlertTypeOK, NEW s \in Store, Clear(s), UNCHANGED now
  PROVE  AlertTypeOK'
<1>1. NoDowngrade \in Downgrade
  BY DEF NoDowngrade, Downgrade
<1> QED
  BY <1>1 DEF AlertTypeOK, Clear

\* Recording a card keeps the types.
LEMMA RecordSentType ==
  ASSUME AlertTypeOK, NEW s \in Store, NEW v \in Severity, NEW g \in Signature,
         RecordSent(s, v, g), UNCHANGED now
  PROVE  AlertTypeOK'
<1>1. (IF IsActive(s) THEN active[s].firstSeen ELSE now) \in Time
  BY DEF AlertTypeOK, IsActive, Incident
<1> DEFINE inc == [severity |-> v, signature |-> g,
                   firstSeen |-> IF IsActive(s) THEN active[s].firstSeen ELSE now,
                   lastSent |-> now]
<1>2. inc \in Incident
  BY <1>1 DEF AlertTypeOK, Incident
<1>3. active' \in [Store -> Incident \cup {None}]
  BY <1>2 DEF AlertTypeOK, RecordSent
<1> QED
  BY <1>3 DEF AlertTypeOK, RecordSent

\* The card that is being posted is one Teams can show.
LEMMA ShowCardType ==
  ASSUME CycleTypeOK, card # None, ShowCard
  PROVE  shown' \in [Store -> CardShown]
<1>1. card \in PendingCard
  BY DEF CycleTypeOK
<1>2. Alert(card.severity, card.signature) \in CardShown
  BY <1>1 DEF PendingCard, Alert, CardShown
<1> QED
  BY <1>2 DEF CycleTypeOK, ShowCard

\* What Teams shows after a restart are cards too.
LEMMA CrashType ==
  ASSUME CycleTypeOK, NEW D \in SUBSET InFlight
  PROVE  ShownAfterCrash(D) \in [Store -> CardShown]
<1> SUFFICES ASSUME NEW s \in Store, s \in D, s \notin resolving
             PROVE  Alert(card.severity, card.signature) \in CardShown
  BY DEF CycleTypeOK, ShownAfterCrash, CardShown
<1>1. card \in PendingCard
  BY DEF CycleTypeOK, InFlight
<1> QED
  BY <1>1 DEF PendingCard, Alert, CardShown

\* An empty memory has the types of the dictionaries.
LEMMA EmptyType ==
  ASSUME now \in Time, EmptyAlertState
  PROVE  AlertTypeOK
<1>1. NoDowngrade \in Downgrade
  BY DEF NoDowngrade, Downgrade
<1> QED
  BY <1>1 DEF AlertTypeOK, EmptyAlertState

\* Each step of the cycle keeps the types of the alert memory and of the
\* cycle's own variables.
LEMMA TypeStep ==
  ASSUME TypeOK, [Next]_vars
  PROVE  TypeOK'
<1> USE DEF TypeOK
<1>1. CASE BeginCycle
  BY <1>1 DEF BeginCycle, GoTo, AlertTypeOK, CycleTypeOK, alertVars, Phases
<1>2. CASE ScansAnswered
  BY <1>2 DEF ScansAnswered, GoTo, AlertTypeOK, CycleTypeOK, alertVars, Phases
<1>3. ASSUME NEW F \in SUBSET Store, Detected(F) PROVE TypeOK'
  <2>1. AlertTypeOK'
    BY <1>3, AdvanceRecoveryType DEF Detected
  <2>2. CycleTypeOK'
    BY <1>3 DEF Detected, CycleTypeOK, Phases, ReadyToRecover
  <2> QED BY <2>1, <2>2
<1>4. CASE CycleFails
  BY <1>4 DEF CycleFails, EndCycle, AlertTypeOK, CycleTypeOK, alertVars, Phases
<1>5. ASSUME NEW s \in Store, StartRecovery(s) PROVE TypeOK'
  <2>1. AlertTypeOK'
    BY <1>5, ClearType DEF StartRecovery
  <2>2. CycleTypeOK'
    BY <1>5 DEF StartRecovery, CycleTypeOK
  <2> QED BY <2>1, <2>2
<1>6. ASSUME NEW s \in Store, NEW d \in BOOLEAN, EndRecovery(s, d) PROVE TypeOK'
  <2>1. AlertTypeOK'
    BY <1>6 DEF EndRecovery, AlertTypeOK, alertVars
  <2>2. CycleTypeOK'
    BY <1>6 DEF EndRecovery, CycleTypeOK, CardShown
  <2> QED BY <2>1, <2>2
<1>7. ASSUME NEW i \in {0, ReminderInterval}, RecoveriesDone(i) PROVE TypeOK'
  BY <1>7 DEF RecoveriesDone, DueForReminder, AlertTypeOK, CycleTypeOK, alertVars, Phases
<1>8. ASSUME NEW s \in Store, NEW ok \in BOOLEAN, Remind(s, ok) PROVE TypeOK'
  BY <1>8 DEF Remind, MarkReminded, AlertTypeOK, CycleTypeOK, alertVars, Phases
<1>9. CASE RemindersDone
  BY <1>9 DEF RemindersDone, EndCycle, GoTo, AlertTypeOK, CycleTypeOK, alertVars, Phases
<1>10. CASE DrillsAnswered
  BY <1>10 DEF DrillsAnswered, GoTo, AlertTypeOK, CycleTypeOK, alertVars, Phases
<1>11. CASE TriageAnswered
  BY <1>11 DEF TriageAnswered, GoTo, AlertTypeOK, CycleTypeOK, alertVars, Phases
<1>12. ASSUME NEW r \in Report, HandleReport(r) PROVE TypeOK'
  <2>1. r.store \in Store /\ r.severity \in Severity /\ r.signature \in Signature
    BY DEF Report
  <2>2. downgrade' \in [Store -> Downgrade]
    BY <1>12, <2>1, AdvanceDowngradeType DEF HandleReport, AlertTypeOK
  <2>3. CardFor(r) \in PendingCard \cup {None}
    BY <2>1, EffectiveSeverityType DEF CardFor, PendingCard
  <2>4. card' \in PendingCard \cup {None}
    BY <1>12, <2>3 DEF HandleReport, CycleTypeOK
  <2> QED
    BY <1>12, <2>2, <2>4 DEF HandleReport, AlertTypeOK, CycleTypeOK
<1>13. CASE CardAccepted
  <2>1. card \in PendingCard
    BY <1>13 DEF CardAccepted, CycleTypeOK
  <2>2. AlertTypeOK'
    BY <1>13, <2>1, RecordSentType DEF CardAccepted, PendingCard
  <2>3. CycleTypeOK'
    BY <1>13, ShowCardType DEF CardAccepted, CycleTypeOK
  <2> QED BY <2>2, <2>3
<1>14. CASE CardRefused
  BY <1>14 DEF CardRefused, AlertTypeOK, CycleTypeOK, alertVars
<1>15. CASE CardAnswerLost
  BY <1>15, ShowCardType DEF CardAnswerLost, AlertTypeOK, CycleTypeOK, alertVars
<1>16. CASE ReportsDone
  BY <1>16 DEF ReportsDone, EndCycle, AlertTypeOK, CycleTypeOK, alertVars, Phases
<1>17. CASE Tick
  BY <1>17 DEF Tick, AlertTypeOK, CycleTypeOK, alertVars, cycleVars, Time
<1>18. ASSUME NEW D \in SUBSET InFlight, Restart(D) PROVE TypeOK'
  <2>1. AlertTypeOK'
    <3>1. NoDowngrade \in Downgrade
      BY DEF NoDowngrade, Downgrade
    <3> QED BY <1>18, <3>1 DEF Restart, AlertTypeOK
  <2>2. CycleTypeOK'
    BY <1>18, CrashType DEF Restart, CycleTypeOK, Phases
  <2> QED BY <2>1, <2>2
<1>19. ASSUME NEW F \in SUBSET Store, DetectedAndRaised(F) PROVE TypeOK'
  <2>1. AlertTypeOK'
    BY <1>19, AdvanceRecoveryType DEF DetectedAndRaised
  <2>2. CycleTypeOK'
    BY <1>19 DEF DetectedAndRaised, EndCycle, CycleTypeOK, Phases
  <2> QED BY <2>1, <2>2
<1>20. CASE UNCHANGED vars
  BY <1>20 DEF vars, AlertTypeOK, CycleTypeOK, alertVars, cycleVars
<1> QED
  BY <1>1, <1>2, <1>3, <1>4, <1>5, <1>6, <1>7, <1>8, <1>9, <1>10, <1>11, <1>12,
     <1>13, <1>14, <1>15, <1>16, <1>17, <1>18, <1>19, <1>20 DEF Next

\* The variables of TriageCycle have their types in every reachable state.
THEOREM TypeCorrect == Spec => []TypeOK
<1>1. Init => TypeOK
  BY EmptyType DEF Init, AtRest, TypeOK, CycleTypeOK, Phases, CardShown, NoCard, Time
<1>2. TypeOK /\ [Next]_vars => TypeOK'
  BY TypeStep
<1> QED
  BY <1>1, <1>2, PTL DEF Spec

-----------------------------------------------------------------------------
(***************************************************************************)
(* The inductive invariant.                                                *)
(***************************************************************************)

\* Every await belongs to one phase of the cycle: recoveries, reminders and
\* alert cards are never in flight together, so nothing closes an alert between
\* the guards on a report and the end of its POST.
PhaseOwnership ==
  /\ ready # {} => pc = "recover"
  /\ resolving # {} => pc = "recover"
  /\ due # {} => pc = "remind"
  /\ card # None => pc = "post"

\* A store whose RESOLVED card is being posted is closed, one that is due for a
\* reminder is open.
InFlightStores ==
  /\ \A s \in resolving : ~IsActive(s)
  /\ \A s \in due : IsActive(s)

\* The card that is being posted passed the cooldown and the dedup backstop, and
\* what these looked at has not changed since in a way that matters.
PendingCardGuarded ==
  card # None => /\ ~InCooldown(card.store)
                 /\ ~IsUnchanged(card.store, card.severity, card.signature)

IInv ==
  /\ TypeOK
  /\ PhaseOwnership
  /\ InFlightStores
  /\ PendingCardGuarded
  /\ IncidentsApart
  /\ NothingLeftBehind
  /\ NoPhantomAlert

\* The initial state: nothing is open and nothing is in flight.
LEMMA InvInit == Init => IInv
<1> SUFFICES ASSUME Init PROVE IInv
  OBVIOUS
<1>1. TypeOK
  BY EmptyType DEF Init, AtRest, TypeOK, CycleTypeOK, Phases, CardShown, NoCard, Time
<1>2. \A s \in Store : ~IsActive(s)
  BY DEF Init, EmptyAlertState, IsActive
<1> QED
  BY <1>1, <1>2 DEF Init, EmptyAlertState, AtRest, IInv, PhaseOwnership, InFlightStores,
     PendingCardGuarded, IncidentsApart, NothingLeftBehind, NoPhantomAlert

\* A step that leaves the alert memory, the clock and Teams alone, and only moves
\* the cycle on, keeps the invariant if it respects the ownership of the phases.
LEMMA MoveOn ==
  ASSUME IInv, TypeOK', UNCHANGED <<now, alertVars, shown>>,
         PhaseOwnership', resolving' \subseteq resolving,
         \A s \in due' : IsActive(s), card' \in {card, None}
  PROVE  IInv'
<1> USE DEF alertVars, IInv
<1>1. InFlightStores'
  BY DEF InFlightStores, IsActive
<1>2. PendingCardGuarded'
  BY DEF PendingCardGuarded, InCooldown, IsUnchanged, IsActive
<1>3. IncidentsApart' /\ NothingLeftBehind' /\ NoPhantomAlert'
  BY DEF IncidentsApart, NothingLeftBehind, NoPhantomAlert, IsActive
<1> QED
  BY <1>1, <1>2, <1>3

\* advance_recovery moves streaks of open alerts only.
LEMMA DetectedInv ==
  ASSUME IInv, TypeOK', NEW F \in SUBSET Store, Detected(F) \/ DetectedAndRaised(F)
  PROVE  IInv'
<1> USE DEF IInv, Detected, DetectedAndRaised, EndCycle, AdvanceRecovery
<1>1. PhaseOwnership'
  BY DEF PhaseOwnership
<1>2. InFlightStores' /\ PendingCardGuarded' /\ IncidentsApart' /\ NoPhantomAlert'
  BY DEF InFlightStores, PendingCardGuarded, InCooldown, IsUnchanged, IncidentsApart,
     NoPhantomAlert, IsActive
<1>3. NothingLeftBehind'
  BY DEF NothingLeftBehind, StreakAfter, IsActive
<1> QED
  BY <1>1, <1>2, <1>3

\* clear() takes all of the store's memory, and no alert card is in flight.
LEMMA StartRecoveryInv ==
  ASSUME IInv, TypeOK', NEW s \in Store, StartRecovery(s)
  PROVE  IInv'
<1> USE DEF IInv, StartRecovery, Clear
<1> active \in [Store -> Incident \cup {None}] /\ recoveredAt \in [Store -> Time \cup {None}]
  BY DEF TypeOK, AlertTypeOK
<1> clearStreak \in [Store -> Nat] /\ downgrade \in [Store -> Downgrade]
    /\ lastReminder \in [Store -> Time \cup {None}]
  BY DEF TypeOK, AlertTypeOK
<1>1. PhaseOwnership' /\ card' = None /\ due' = {}
  BY DEF PhaseOwnership
<1>2. \A t \in Store : IsActive(t)' <=> IsActive(t) /\ t # s
  BY DEF IsActive
<1>3. InFlightStores'
  BY <1>1, <1>2 DEF InFlightStores, TypeOK, CycleTypeOK
<1>4. PendingCardGuarded'
  BY <1>1 DEF PendingCardGuarded
<1>5. IncidentsApart'
  BY <1>2 DEF IncidentsApart
<1>6. NothingLeftBehind'
  BY <1>2 DEF NothingLeftBehind
<1>7. NoPhantomAlert'
  BY <1>2 DEF NoPhantomAlert
<1> QED
  BY <1>1, <1>3, <1>4, <1>5, <1>6, <1>7

\* A RESOLVED card reaches Teams for a store that is closed already.
LEMMA EndRecoveryInv ==
  ASSUME IInv, TypeOK', NEW s \in Store, NEW d \in BOOLEAN, EndRecovery(s, d)
  PROVE  IInv'
<1> USE DEF IInv, EndRecovery, alertVars
<1>1. PhaseOwnership' /\ card' = None
  BY DEF PhaseOwnership
<1>2. InFlightStores' /\ PendingCardGuarded' /\ IncidentsApart' /\ NothingLeftBehind'
  BY <1>1 DEF InFlightStores, PendingCardGuarded, IncidentsApart, NothingLeftBehind, IsActive
<1>3. NoPhantomAlert'
  BY DEF NoPhantomAlert, InFlightStores, IsActive, TypeOK, CycleTypeOK
<1> QED
  BY <1>1, <1>2, <1>3

\* A reminder is marked for an open alert only.
LEMMA RemindInv ==
  ASSUME IInv, TypeOK', NEW s \in Store, NEW ok \in BOOLEAN, Remind(s, ok)
  PROVE  IInv'
<1> USE DEF IInv, Remind, MarkReminded, alertVars
<1>1. PhaseOwnership' /\ card' = None
  BY DEF PhaseOwnership
<1>2. InFlightStores' /\ PendingCardGuarded' /\ IncidentsApart' /\ NoPhantomAlert'
  BY <1>1 DEF InFlightStores, PendingCardGuarded, IncidentsApart, NoPhantomAlert, IsActive
<1>3. NothingLeftBehind'
  BY DEF NothingLeftBehind, InFlightStores, IsActive, TypeOK, AlertTypeOK
<1> QED
  BY <1>1, <1>2, <1>3

\* A report leaves a pending downgrade behind for an open alert only, and the card
\* it starts has passed the guards.
LEMMA HandleReportInv ==
  ASSUME IInv, TypeOK', NEW r \in Report, HandleReport(r)
  PROVE  IInv'
<1> USE DEF IInv, HandleReport
<1>1. PhaseOwnership' /\ InFlightStores' /\ IncidentsApart' /\ NoPhantomAlert'
  BY DEF PhaseOwnership, InFlightStores, IncidentsApart, NoPhantomAlert, IsActive
<1>2. PendingCardGuarded'
  <2> SUFFICES ASSUME card' # None
               PROVE  (~InCooldown(card.store)
                       /\ ~IsUnchanged(card.store, card.severity, card.signature))'
    BY DEF PendingCardGuarded
  <2>1. ~Suppressed(r) /\ card' = CardFor(r)
    OBVIOUS
  <2>2. /\ card'.store = r.store
        /\ ~InCooldown(r.store)
        /\ ~IsUnchanged(r.store, card'.severity, card'.signature)
    BY <2>1 DEF CardFor, Suppressed
  <2> QED
    BY <2>2 DEF InCooldown, IsUnchanged, IsActive
<1>3. NothingLeftBehind'
  BY DEF NothingLeftBehind, AdvanceDowngrade, Held, IsDowngrade, IsActive, TypeOK, AlertTypeOK
<1> QED
  BY <1>1, <1>2, <1>3

\* An accepted card opens or updates an alert that is out of its cooldown, and
\* Teams shows it.
LEMMA CardAcceptedInv ==
  ASSUME IInv, TypeOK', CardAccepted
  PROVE  IInv'
<1> USE DEF IInv, CardAccepted, RecordSent
<1> DEFINE c == card.store
<1>0. c \in Store
  BY DEF TypeOK, CycleTypeOK, PendingCard
<1>1. PhaseOwnership' /\ PendingCardGuarded' /\ resolving = {} /\ due = {}
  BY DEF PhaseOwnership, PendingCardGuarded
<1>2. InFlightStores'
  BY <1>1 DEF InFlightStores
<1>3. active'[c] # None
  <2>1. active'[c] \in Incident \/ active'[c] = None
    BY <1>0 DEF TypeOK, AlertTypeOK
  <2>2. active'[c] = [severity  |-> card.severity,
                      signature |-> card.signature,
                      firstSeen |-> IF IsActive(c) THEN active[c].firstSeen ELSE now,
                      lastSent  |-> now]
    BY <1>0 DEF TypeOK, AlertTypeOK
  <2>3. (IF IsActive(c) THEN active[c].firstSeen ELSE now) \in Time
    BY <1>0 DEF TypeOK, AlertTypeOK, IsActive, Incident
  <2>4. active'[c] \in Incident
    BY <2>2, <2>3 DEF TypeOK, AlertTypeOK, CycleTypeOK, PendingCard, Incident
  <2> QED
    BY <2>4, NoneAssumption
<1>4. IncidentsApart'
  <2> SUFFICES ASSUME NEW s \in Store, IsActive(s)', recoveredAt[s] # None
               PROVE  active'[s].firstSeen - recoveredAt[s] >= Cooldown
    BY DEF IncidentsApart
  <2>1. CASE s # c
    BY <2>1 DEF IncidentsApart, IsActive, TypeOK, AlertTypeOK
  <2>2. CASE s = c /\ IsActive(c)
    BY <2>2 DEF IncidentsApart, IsActive, TypeOK, AlertTypeOK
  <2>3. CASE s = c /\ ~IsActive(c)
    <3>1. active'[c].firstSeen = now
      BY <2>3, <1>0 DEF TypeOK, AlertTypeOK
    <3>2. ~(now - recoveredAt[c] < Cooldown)
      BY <2>3 DEF PendingCardGuarded, InCooldown
    <3>3. now \in Nat /\ recoveredAt[c] \in Nat
      BY <2>3, <1>0 DEF TypeOK, AlertTypeOK, Time
    <3> QED
      BY <2>3, <3>1, <3>2, <3>3, CooldownAssumption
  <2> QED
    BY <2>1, <2>2, <2>3
<1>5. NothingLeftBehind'
  BY <1>3 DEF NothingLeftBehind, IsActive, TypeOK, AlertTypeOK
<1>6. NoPhantomAlert'
  BY <1>0 DEF NoPhantomAlert, ShowCard, Alert, IsActive, TypeOK, AlertTypeOK, CycleTypeOK
<1> QED
  BY <1>1, <1>2, <1>4, <1>5, <1>6

\* A card of which the answer is lost is shown, and nothing is recorded.
LEMMA CardAnswerLostInv ==
  ASSUME IInv, TypeOK', CardAnswerLost
  PROVE  IInv'
<1> USE DEF IInv, CardAnswerLost, alertVars
<1>1. /\ PhaseOwnership' /\ InFlightStores' /\ PendingCardGuarded'
      /\ IncidentsApart' /\ NothingLeftBehind'
  BY DEF PhaseOwnership, InFlightStores, PendingCardGuarded, IncidentsApart,
     NothingLeftBehind, IsActive
<1>2. NoPhantomAlert'
  BY DEF NoPhantomAlert, ShowCard, Alert, IsActive, TypeOK, CycleTypeOK
<1> QED
  BY <1>1, <1>2

\* Time takes stores out of their cooldown and never back into it.
LEMMA TickInv ==
  ASSUME IInv, TypeOK', Tick
  PROVE  IInv'
<1> USE DEF IInv, Tick, alertVars, cycleVars
<1>1. PhaseOwnership' /\ InFlightStores' /\ IncidentsApart' /\ NothingLeftBehind' /\ NoPhantomAlert'
  BY DEF PhaseOwnership, InFlightStores, IncidentsApart, NothingLeftBehind,
     NoPhantomAlert, IsActive
<1>2. PendingCardGuarded'
  <2> SUFFICES ASSUME card # None
               PROVE  (~InCooldown(card.store)
                       /\ ~IsUnchanged(card.store, card.severity, card.signature))'
    BY DEF PendingCardGuarded
  <2>1. card.store \in Store
    BY DEF TypeOK, CycleTypeOK, PendingCard
  <2>2. now \in Nat /\ recoveredAt[card.store] \in Nat \cup {None}
    BY <2>1 DEF TypeOK, AlertTypeOK, Time
  <2>3. ~InCooldown(card.store)'
    BY <2>2, CooldownAssumption DEF PendingCardGuarded, InCooldown
  <2> QED
    BY <2>3 DEF PendingCardGuarded, IsUnchanged, IsActive
<1> QED
  BY <1>1, <1>2

\* A restart forgets all of it.
LEMMA RestartInv ==
  ASSUME IInv, TypeOK', NEW D \in SUBSET InFlight, Restart(D)
  PROVE  IInv'
<1>1. \A s \in Store : ~IsActive(s)'
  BY DEF Restart, IsActive
<1> QED
  BY <1>1 DEF Restart, IInv, PhaseOwnership, InFlightStores, PendingCardGuarded,
     IncidentsApart, NothingLeftBehind, NoPhantomAlert

\* Each step of the cycle keeps the inductive invariant.
LEMMA InvStep ==
  ASSUME IInv, [Next]_vars
  PROVE  IInv'
<1> TypeOK'
  BY TypeStep DEF IInv
<1> USE DEF IInv, GoTo, EndCycle, PhaseOwnership, InFlightStores
<1>1. CASE BeginCycle
  BY <1>1, MoveOn DEF BeginCycle
<1>2. CASE ScansAnswered
  BY <1>2, MoveOn DEF ScansAnswered
<1>3. CASE \E F \in SUBSET Store : Detected(F) \/ DetectedAndRaised(F)
  BY <1>3, DetectedInv
<1>4. CASE CycleFails
  BY <1>4, MoveOn DEF CycleFails, MayRaise
<1>5. CASE \E s \in Store : StartRecovery(s)
  BY <1>5, StartRecoveryInv
<1>6. CASE \E s \in Store, d \in BOOLEAN : EndRecovery(s, d)
  BY <1>6, EndRecoveryInv
<1>7. ASSUME NEW i \in {0, ReminderInterval}, RecoveriesDone(i) PROVE IInv'
  BY <1>7, MoveOn DEF RecoveriesDone, DueForReminder
<1>8. CASE \E s \in Store, ok \in BOOLEAN : Remind(s, ok)
  BY <1>8, RemindInv
<1>9. CASE RemindersDone
  BY <1>9, MoveOn DEF RemindersDone
<1>10. CASE DrillsAnswered
  BY <1>10, MoveOn DEF DrillsAnswered
<1>11. CASE TriageAnswered
  BY <1>11, MoveOn DEF TriageAnswered
<1>12. CASE \E r \in Report : HandleReport(r)
  BY <1>12, HandleReportInv
<1>13. CASE CardAccepted
  BY <1>13, CardAcceptedInv
<1>14. CASE CardRefused
  BY <1>14, MoveOn DEF CardRefused
<1>15. CASE CardAnswerLost
  BY <1>15, CardAnswerLostInv
<1>16. CASE ReportsDone
  BY <1>16, MoveOn DEF ReportsDone
<1>17. CASE Tick
  BY <1>17, TickInv
<1>18. CASE \E D \in SUBSET InFlight : Restart(D)
  BY <1>18, RestartInv
<1>19. CASE UNCHANGED vars
  BY <1>19, MoveOn DEF vars, cycleVars
<1> QED
  BY <1>1, <1>2, <1>3, <1>4, <1>5, <1>6, <1>7, <1>8, <1>9, <1>10, <1>11, <1>12,
     <1>13, <1>14, <1>15, <1>16, <1>17, <1>18, <1>19 DEF Next

\* The inductive invariant holds in every reachable state.
THEOREM InvHolds == Spec => []IInv
<1>1. IInv /\ [Next]_vars => IInv'
  BY InvStep
<1> QED
  BY InvInit, <1>1, PTL DEF Spec

\* Whatever the LLM says, two incidents of a store are a full cooldown apart.
THEOREM IncidentsAlwaysApart == Spec => []IncidentsApart
<1>1. IInv => IncidentsApart
  BY DEF IInv
<1> QED
  BY InvHolds, <1>1, PTL

\* A store that is not open carries nothing of an earlier incident.
THEOREM NothingIsLeftBehind == Spec => []NothingLeftBehind
<1>1. IInv => NothingLeftBehind
  BY DEF IInv
<1> QED
  BY InvHolds, <1>1, PTL

\* The agent never holds an alert open that Teams does not show as one.
THEOREM NoAlertIsPhantom == Spec => []NoPhantomAlert
<1>1. IInv => NoPhantomAlert
  BY DEF IInv
<1> QED
  BY InvHolds, <1>1, PTL

=============================================================================
