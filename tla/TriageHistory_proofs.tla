------------------------- MODULE TriageHistory_proofs -------------------------
(***************************************************************************)
(* Proofs about TriageHistory.  The history only watches TriageCycle, so   *)
(* the invariant of TriageCycle_proofs holds here too, and the proofs add  *)
(* what relates the history variables to the state.                        *)
(***************************************************************************)
EXTENDS TriageHistory, TriageCycle_proofs

-----------------------------------------------------------------------------
(***************************************************************************)
(* From TriageHistory to TriageCycle.                                      *)
(***************************************************************************)

\* A step with history is a step of the cycle.
LEMMA HistoryWatches ==
  ASSUME [HNext]_hvars
  PROVE  [Next]_vars
BY DEF HNext, Next, hvars, HBeginCycle, HDetected, HEndRecovery, HRemind, HHandleReport,
   HCardAccepted, HCardAnswerLost, HRestart

\* The invariant of the cycle holds with history.
THEOREM HInvHolds == HSpec => []IInv
<1>1. HInit => IInv
  BY InvInit DEF HInit
<1>2. IInv /\ [HNext]_hvars => IInv'
  BY InvStep, HistoryWatches
<1> QED
  BY <1>1, <1>2, PTL DEF HSpec

\* The runs of lower tiers keep their type.
LEMMA RunTypes ==
  ASSUME NEW run \in Run, NEW v \in Severity
  PROVE  Prolonged(run, v) \in Run /\ NoRun \in Run
<1>1. /\ UpTo(1, HoldCycles) \in Nat
      /\ UpTo(run.row + 1, HoldCycles) \in Nat
      /\ UpTo(run.cycles + 1, HoldCycles) \in Nat
  BY HoldAssumption DEF Run, UpTo
<1>2. NoRun \in Run
  BY DEF NoRun, Run
<1>3. Prolonged(run, v) \in Run
  BY <1>1 DEF Prolonged, Run
<1> QED
  BY <1>2, <1>3

\* Each step keeps the types of the history variables.
LEMMA HistoryTypeStep ==
  ASSUME TypeOK, HistoryTypeOK, [HNext]_hvars
  PROVE  HistoryTypeOK'
<1> USE DEF HistoryTypeOK
<1>1. ASSUME UNCHANGED history PROVE HistoryTypeOK'
  BY <1>1 DEF history
<1>2. CASE HBeginCycle
  BY <1>2 DEF HBeginCycle, Aged, Run
<1>3. ASSUME NEW F \in SUBSET Store, HDetected(F) PROVE HistoryTypeOK'
  BY <1>3, ClearAssumption DEF HDetected, UpTo, PassesToClear
<1>4. ASSUME NEW s \in Store, NEW d \in BOOLEAN, HEndRecovery(s, d) PROVE HistoryTypeOK'
  BY <1>4 DEF HEndRecovery
<1>5. ASSUME NEW s \in Store, NEW ok \in BOOLEAN, HRemind(s, ok) PROVE HistoryTypeOK'
  BY <1>5 DEF HRemind, TypeOK, AlertTypeOK, Notice
<1>6. ASSUME NEW r \in Report, HHandleReport(r) PROVE HistoryTypeOK'
  <2>1. r.store \in Store /\ r.severity \in Severity
    BY DEF Report
  <2>2. Prolonged(lowRun[r.store], r.severity) \in Run /\ NoRun \in Run
    BY <2>1, RunTypes
  <2> QED
    BY <1>6, <2>1, <2>2 DEF HHandleReport
<1>7. CASE HCardAccepted \/ HCardAnswerLost
  <2>1. card.store \in Store /\ now \in Time
    BY <1>7 DEF HCardAccepted, CardAccepted, HCardAnswerLost, CardAnswerLost,
       TypeOK, AlertTypeOK, CycleTypeOK, PendingCard
  <2> QED
    BY <1>7, <2>1 DEF HCardAccepted, HCardAnswerLost, Notice
<1>8. ASSUME NEW D \in SUBSET InFlight, HRestart(D) PROVE HistoryTypeOK'
  <2>1. InFlight \subseteq Store
    BY DEF InFlight, TypeOK, CycleTypeOK, PendingCard
  <2>2. NoRun \in Run
    BY DEF NoRun, Run
  <2> QED
    BY <1>8, <2>1, <2>2 DEF HRestart
<1> QED
  BY <1>1, <1>2, <1>3, <1>4, <1>5, <1>6, <1>7, <1>8 DEF HNext, hvars

\* The state and the history have their types in every reachable state.
THEOREM HTypeCorrect == HSpec => []HTypeOK
<1>1. HInit => HistoryTypeOK
  BY DEF HInit, HistoryTypeOK, NoRun, Run
<1>2. TypeOK /\ HistoryTypeOK /\ [HNext]_hvars => HistoryTypeOK'
  BY HistoryTypeStep
<1>3. IInv => TypeOK
  BY DEF IInv
<1> QED
  BY <1>1, <1>2, <1>3, HInvHolds, PTL DEF HSpec, HTypeOK

-----------------------------------------------------------------------------
(***************************************************************************)
(* Recoveries.                                                             *)
(***************************************************************************)

\* The streak of an open store counts just the detection passes that there were.
StreaksSeen ==
  /\ absent \in [Store -> Nat]
  /\ \A s \in Store : IsActive(s) => absent[s] = clearStreak[s]

\* The three invariants of this section.
QuietInv == StreaksSeen /\ RecoveriesAreQuiet /\ AlertsDoNotLinger

LEMMA PassesType == PassesToClear \in Nat /\ PassesToClear > 0 /\ PassesToClear >= ClearCycles
BY ClearAssumption DEF PassesToClear

\* A detection pass lengthens absences and streaks alike, whether the cycle gets
\* over its answer or not; if it does, a store is ready just when its streak has
\* reached its end.
LEMMA DetectedQuiet ==
  ASSUME IInv, QuietInv, NEW F \in SUBSET Store, HDetected(F)
  PROVE  QuietInv'
<1> USE PassesType, ClearAssumption
    DEF HDetected, Detected, DetectedAndRaised, EndCycle, AdvanceRecovery
<1> clearStreak \in [Store -> Nat] /\ absent \in [Store -> Nat]
  BY DEF IInv, TypeOK, AlertTypeOK, QuietInv, StreaksSeen
<1>1. ready = {} /\ resolving = {}
  BY DEF IInv, PhaseOwnership
<1>2. absent' \in [Store -> Nat]
  BY DEF UpTo
<1>3. ASSUME NEW s \in Store, IsActive(s)
      PROVE  absent'[s] = clearStreak'[s] /\ clearStreak'[s] = StreakAfter(F, s)
  BY <1>3 DEF QuietInv, StreaksSeen, StreakAfter
<1>4. StreaksSeen'
  BY <1>2, <1>3 DEF StreaksSeen, IsActive
<1>5. CASE DetectedAndRaised(F)
  BY <1>1, <1>4, <1>5 DEF QuietInv, RecoveriesAreQuiet, AlertsDoNotLinger, PassHandled
<1>6. CASE Detected(F)
  <2>1. ASSUME NEW s \in Store, IsActive(s)
        PROVE  s \in ready' <=> absent'[s] >= PassesToClear
    BY <1>3, <1>6, <2>1 DEF ReadyToRecover, StreakAfter, UpTo, PassesToClear
  <2>2. RecoveriesAreQuiet'
    BY <1>1, <1>6, <2>1 DEF RecoveriesAreQuiet, ReadyToRecover
  <2>3. AlertsDoNotLinger'
    <3> SUFFICES ASSUME NEW s \in Store, s \notin ready', IsActive(s)
                 PROVE  absent'[s] < PassesToClear
      BY <1>6 DEF AlertsDoNotLinger, IsActive
    <3> QED
      BY <1>2, <2>1
  <2> QED
    BY <1>4, <2>2, <2>3 DEF QuietInv
<1> QED
  BY <1>5, <1>6

\* An alert that opens starts with no streak and no absence.
LEMMA CardAcceptedQuiet ==
  ASSUME IInv, QuietInv, HCardAccepted
  PROVE  QuietInv'
<1> USE PassesType DEF HCardAccepted, CardAccepted, RecordSent
<1>1. card.store \in Store /\ ready = {} /\ resolving = {}
  BY DEF IInv, TypeOK, CycleTypeOK, PendingCard, PhaseOwnership
<1>2. ~IsActive(card.store) => clearStreak[card.store] = 0
  BY <1>1 DEF IInv, NothingLeftBehind
<1>3. \A t \in Store : t # card.store => active'[t] = active[t]
  BY <1>1 DEF IInv, TypeOK, AlertTypeOK
<1>4. StreaksSeen'
  BY <1>1, <1>2, <1>3 DEF QuietInv, StreaksSeen, IsActive
<1>5. RecoveriesAreQuiet'
  BY <1>1 DEF RecoveriesAreQuiet
<1>6. AlertsDoNotLinger'
  <2>1. PassHandled
    BY DEF IInv, PhaseOwnership, PassHandled
  <2>2. \A t \in Store : IsActive(t)' => absent'[t] < PassesToClear
    BY <1>1, <1>3, <2>1 DEF QuietInv, StreaksSeen, AlertsDoNotLinger, IsActive
  <2> QED
    BY <2>2 DEF AlertsDoNotLinger, IsActive
<1> QED
  BY <1>4, <1>5, <1>6 DEF QuietInv

\* The history of the recoveries is kept by every step.
LEMMA QuietStep ==
  ASSUME IInv, QuietInv, [HNext]_hvars
  PROVE  QuietInv'
<1> USE DEF QuietInv
<1>1. ASSUME UNCHANGED <<absent, clearStreak, active, ready>>, resolving' \subseteq resolving,
             PassHandled' => PassHandled
      PROVE  QuietInv'
  BY <1>1 DEF StreaksSeen, RecoveriesAreQuiet, AlertsDoNotLinger, IsActive
<1> USE DEF GoTo, EndCycle, PassHandled, alertVars
<1>2. CASE HBeginCycle
  BY <1>1, <1>2 DEF HBeginCycle, BeginCycle
<1>3. CASE \E F \in SUBSET Store : HDetected(F)
  BY <1>3, DetectedQuiet
<1>4. CASE /\ ScansAnswered \/ CycleFails \/ RemindersDone \/ DrillsAnswered
              \/ TriageAnswered \/ CardRefused \/ ReportsDone \/ Tick
           /\ UNCHANGED history
  BY <1>1, <1>4 DEF history, ScansAnswered, CycleFails, RemindersDone, DrillsAnswered,
     TriageAnswered, CardRefused, ReportsDone, Tick, cycleVars
<1>5. ASSUME NEW s \in Store, StartRecovery(s), UNCHANGED history PROVE QuietInv'
  <2>1. ~IsActive(s)' /\ \A t \in Store : t # s => /\ active'[t] = active[t]
                                                  /\ clearStreak'[t] = clearStreak[t]
    BY <1>5 DEF StartRecovery, Clear, IInv, TypeOK, AlertTypeOK, IsActive
  <2>2. StreaksSeen'
    BY <1>5, <2>1 DEF history, StartRecovery, StreaksSeen, IsActive
  <2>3. RecoveriesAreQuiet'
    BY <1>5 DEF history, StartRecovery, RecoveriesAreQuiet
  <2>4. AlertsDoNotLinger'
    BY <1>5, <2>1 DEF history, StartRecovery, AlertsDoNotLinger, IsActive
  <2> QED BY <2>2, <2>3, <2>4
<1>6. ASSUME NEW s \in Store, NEW d \in BOOLEAN, HEndRecovery(s, d) PROVE QuietInv'
  BY <1>1, <1>6 DEF HEndRecovery, EndRecovery
<1>7. ASSUME NEW i \in {0, ReminderInterval}, RecoveriesDone(i), UNCHANGED history
      PROVE  QuietInv'
  BY <1>1, <1>7 DEF RecoveriesDone, history
<1>8. ASSUME NEW s \in Store, NEW ok \in BOOLEAN, HRemind(s, ok) PROVE QuietInv'
  BY <1>1, <1>8 DEF HRemind, Remind, MarkReminded
<1>9. ASSUME NEW r \in Report, HHandleReport(r) PROVE QuietInv'
  BY <1>1, <1>9 DEF HHandleReport, HandleReport
<1>10. CASE HCardAccepted
  BY <1>10, CardAcceptedQuiet
<1>11. CASE HCardAnswerLost
  BY <1>1, <1>11 DEF HCardAnswerLost, CardAnswerLost
<1>12. ASSUME NEW D \in SUBSET InFlight, HRestart(D) PROVE QuietInv'
  BY <1>12 DEF HRestart, Restart, StreaksSeen, RecoveriesAreQuiet,
     AlertsDoNotLinger, IsActive
<1>13. CASE UNCHANGED hvars
  BY <1>1, <1>13 DEF hvars, history, vars, cycleVars
<1> QED
  BY <1>2, <1>3, <1>4, <1>5, <1>6, <1>7, <1>8, <1>9, <1>10, <1>11, <1>12, <1>13 DEF HNext

\* Streaks and absences stay in step.
LEMMA QuietInvHolds == HSpec => []QuietInv
<1>1. HInit => QuietInv
  BY DEF HInit, Init, EmptyAlertState, AtRest, QuietInv, StreaksSeen, RecoveriesAreQuiet,
     AlertsDoNotLinger, PassHandled, IsActive
<1>2. IInv /\ QuietInv /\ [HNext]_hvars => QuietInv'
  BY QuietStep
<1> QED
  BY <1>1, <1>2, HInvHolds, PTL DEF HSpec

\* A RESOLVED card is only ever posted after ClearCycles detection passes in a row
\* without the store, all since its alert opened.
THEOREM RecoveriesAreAlwaysQuiet == HSpec => []RecoveriesAreQuiet
<1>1. QuietInv => RecoveriesAreQuiet
  BY DEF QuietInv
<1> QED
  BY <1>1, QuietInvHolds, PTL

\* In a cycle that got over the answer of its detection pass, an alert absent from
\* that many passes in a row is being closed, whatever failed in the cycles before.
THEOREM AlertsNeverLinger == HSpec => []AlertsDoNotLinger
<1>1. QuietInv => AlertsDoNotLinger
  BY DEF QuietInv
<1> QED
  BY <1>1, QuietInvHolds, PTL

-----------------------------------------------------------------------------
(***************************************************************************)
(* The channel.                                                            *)
(***************************************************************************)

\* The agreement of the channel is kept by each step.
LEMMA ChannelStep ==
  ASSUME IInv, ChannelAgrees, [HNext]_hvars
  PROVE  ChannelAgrees'
<1> TypeOK
  BY DEF IInv
<1>1. ASSUME UNCHANGED <<active, shown, diverged>>, resolving \subseteq resolving'
      PROVE  ChannelAgrees'
  BY <1>1 DEF ChannelAgrees, IsActive
<1> USE DEF GoTo, EndCycle, alertVars
<1>2. CASE HBeginCycle
  BY <1>1, <1>2 DEF HBeginCycle, BeginCycle
<1>3. ASSUME NEW F \in SUBSET Store, HDetected(F) PROVE ChannelAgrees'
  BY <1>1, <1>3 DEF HDetected, Detected, DetectedAndRaised, AdvanceRecovery
<1>4. CASE /\ ScansAnswered \/ CycleFails \/ RemindersDone \/ DrillsAnswered
              \/ TriageAnswered \/ CardRefused \/ ReportsDone \/ Tick
           /\ UNCHANGED history
  BY <1>1, <1>4 DEF history, ScansAnswered, CycleFails, RemindersDone, DrillsAnswered,
     TriageAnswered, CardRefused, ReportsDone, Tick, cycleVars
<1>5. ASSUME NEW s \in Store, StartRecovery(s), UNCHANGED history PROVE ChannelAgrees'
  <2>1. \A t \in Store : t # s => active'[t] = active[t]
    BY <1>5 DEF StartRecovery, Clear, TypeOK, AlertTypeOK
  <2>2. IsActive(s) => s \in resolving'
    BY <1>5 DEF StartRecovery
  <2>3. ~IsActive(s) => active'[s] = active[s]
    BY <1>5 DEF StartRecovery, Clear, IsActive, TypeOK, AlertTypeOK
  <2> QED
    BY <1>5, <2>1, <2>2, <2>3 DEF StartRecovery, history, ChannelAgrees, IsActive
<1>6. ASSUME NEW s \in Store, NEW d \in BOOLEAN, HEndRecovery(s, d) PROVE ChannelAgrees'
  <2>1. ~IsActive(s)
    BY <1>6 DEF HEndRecovery, EndRecovery, IInv, InFlightStores
  <2>2. d => shown'[s] = Resolved
    BY <1>6 DEF HEndRecovery, EndRecovery, TypeOK, CycleTypeOK
  <2>3. \A t \in Store : t # s => shown'[t] = shown[t]
    BY <1>6 DEF HEndRecovery, EndRecovery, TypeOK, CycleTypeOK
  <2> QED
    BY <1>6, <2>1, <2>2, <2>3
       DEF HEndRecovery, EndRecovery, ChannelAgrees, IsActive, Resolved
<1>7. ASSUME NEW i \in {0, ReminderInterval}, RecoveriesDone(i), UNCHANGED history
      PROVE  ChannelAgrees'
  BY <1>1, <1>7 DEF RecoveriesDone, history
<1>8. ASSUME NEW s \in Store, NEW ok \in BOOLEAN, HRemind(s, ok) PROVE ChannelAgrees'
  BY <1>1, <1>8 DEF HRemind, Remind, MarkReminded
<1>9. ASSUME NEW r \in Report, HHandleReport(r) PROVE ChannelAgrees'
  BY <1>1, <1>9 DEF HHandleReport, HandleReport
<1>10. CASE HCardAccepted
  <2>1. card.store \in Store
    BY <1>10 DEF HCardAccepted, CardAccepted, TypeOK, CycleTypeOK, PendingCard
  <2>2. active'[card.store] # None
    <3>1. IInv'
      BY <1>10, InvStep, HistoryWatches DEF HNext
    <3>2. active'[card.store] =
            [severity  |-> card.severity,
             signature |-> card.signature,
             firstSeen |-> IF IsActive(card.store) THEN active[card.store].firstSeen ELSE now,
             lastSent  |-> now]
      BY <1>10, <2>1 DEF HCardAccepted, CardAccepted, RecordSent, TypeOK, AlertTypeOK
    <3>3. active'[card.store] \in Incident
      BY <1>10, <2>1, <3>2 DEF HCardAccepted, CardAccepted, TypeOK, AlertTypeOK, CycleTypeOK,
         PendingCard, Incident, IsActive
    <3> QED
      BY <3>3, NoneAssumption
  <2>3. /\ active'[card.store].severity = card.severity
        /\ active'[card.store].signature = card.signature
        /\ shown'[card.store] = Alert(card.severity, card.signature)
    BY <1>10, <2>1 DEF HCardAccepted, CardAccepted, RecordSent, ShowCard,
       TypeOK, AlertTypeOK, CycleTypeOK
  <2>4. \A t \in Store : t # card.store => active'[t] = active[t] /\ shown'[t] = shown[t]
    BY <1>10, <2>1 DEF HCardAccepted, CardAccepted, RecordSent, ShowCard,
       TypeOK, AlertTypeOK, CycleTypeOK
  <2> QED
    BY <1>10, <2>2, <2>3, <2>4 DEF HCardAccepted, CardAccepted, ChannelAgrees, IsActive
<1>11. CASE HCardAnswerLost
  BY <1>11 DEF HCardAnswerLost, CardAnswerLost, ShowCard, ChannelAgrees, IsActive,
     TypeOK, CycleTypeOK
<1>12. ASSUME NEW D \in SUBSET InFlight, HRestart(D) PROVE ChannelAgrees'
  <2> SUFFICES ASSUME NEW s \in Store, s \notin diverged'
               PROVE  ~IsActive(s)' /\ shown'[s].kind # "alert"
    BY DEF ChannelAgrees
  <2>1. s \notin diverged /\ s \notin InFlight /\ ~IsActive(s)
    BY <1>12 DEF HRestart
  <2>2. shown[s].kind # "alert"
    BY <2>1 DEF ChannelAgrees, InFlight
  <2>3. shown'[s] = shown[s]
    BY <1>12, <2>1 DEF HRestart, Restart, ShownAfterCrash
  <2> QED
    BY <1>12, <2>2, <2>3 DEF HRestart, Restart, IsActive
<1>13. CASE UNCHANGED hvars
  BY <1>1, <1>13 DEF hvars, history, vars, cycleVars
<1> QED
  BY <1>2, <1>3, <1>4, <1>5, <1>6, <1>7, <1>8, <1>9, <1>10, <1>11, <1>12, <1>13 DEF HNext

\* Teams and the agent agree about each store, unless an outcome was lost or the
\* store's RESOLVED card is on its way.
THEOREM ChannelAlwaysAgrees == HSpec => []ChannelAgrees
<1>1. HInit => ChannelAgrees
  <2>1. HInit => \A s \in Store : active[s] = None /\ shown[s] = NoCard
    BY DEF HInit, Init, EmptyAlertState
  <2>2. NoCard.kind = "none"
    BY DEF NoCard
  <2> QED
    BY <2>1, <2>2 DEF ChannelAgrees, IsActive
<1>2. IInv /\ ChannelAgrees /\ [HNext]_hvars => ChannelAgrees'
  BY ChannelStep
<1> QED
  BY <1>1, <1>2, HInvHolds, PTL DEF HSpec

\* While no outcome was lost, each card says what Teams does not show yet.
THEOREM NoCardIsRepeated == HSpec => []NoRepeatedCard
<1>1. IInv /\ ChannelAgrees => NoRepeatedCard
  <2> SUFFICES ASSUME IInv, ChannelAgrees, card # None, card.store \notin diverged
               PROVE  shown[card.store] # Alert(card.severity, card.signature)
    BY DEF NoRepeatedCard
  <2>1. card.store \in Store /\ card.store \notin resolving
    BY DEF IInv, TypeOK, CycleTypeOK, PendingCard, PhaseOwnership
  <2>2. CASE ~IsActive(card.store)
    <3>1. shown[card.store].kind # "alert"
      BY <2>1, <2>2 DEF ChannelAgrees
    <3>2. Alert(card.severity, card.signature).kind = "alert"
      BY DEF Alert
    <3> QED
      BY <3>1, <3>2
  <2>3. CASE IsActive(card.store)
    <3>1. shown[card.store]
            = Alert(active[card.store].severity, active[card.store].signature)
      BY <2>1, <2>3 DEF ChannelAgrees
    <3>2. /\ shown[card.store].severity = active[card.store].severity
          /\ shown[card.store].signature = active[card.store].signature
      BY <3>1 DEF Alert
    <3>3. /\ Alert(card.severity, card.signature).severity = card.severity
          /\ Alert(card.severity, card.signature).signature = card.signature
      BY DEF Alert
    <3>4. ~IsUnchanged(card.store, card.severity, card.signature)
      BY DEF IInv, PendingCardGuarded
    <3> QED
      BY <2>3, <3>2, <3>3, <3>4 DEF IsUnchanged
  <2> QED
    BY <2>2, <2>3
<1> QED
  BY <1>1, HInvHolds, ChannelAlwaysAgrees, PTL

-----------------------------------------------------------------------------
(***************************************************************************)
(* Reminders.                                                              *)
(***************************************************************************)

\* The two clocks of an open alert are not ahead of the wall clock.
ClocksBehind ==
  \A s \in Store : IsActive(s) =>
    /\ active[s].lastSent <= now
    /\ lastReminder[s] # None => lastReminder[s] <= now

\* The memory knows when Teams last acknowledged a notice about an open alert.
NoticeKnown ==
  \A s \in Store : IsActive(s) => notice[s] # None /\ notice[s].at = LastNotice(s)

\* A reminder that is still to be posted stays an interval apart.
DueIsApart == \A s \in due : now - LastNotice(s) >= ReminderInterval

ReminderInv == ClocksBehind /\ NoticeKnown /\ DueIsApart

\* The times of an open alert are natural numbers.
LEMMA NoticeIsTime ==
  ASSUME TypeOK, NEW s \in Store, IsActive(s)
  PROVE  active[s].lastSent \in Nat /\ LastNotice(s) \in Nat
BY DEF TypeOK, AlertTypeOK, IsActive, Incident, LastNotice, Time

\* A notice is no missing one.
LEMMA NoticeIsRecord ==
  ASSUME now \in Time, NEW k \in {"card", "reminder"}
  PROVE  [kind |-> k, at |-> now] # None /\ [kind |-> k, at |-> now].at = now
BY NoNoticeAssumption DEF Notice

\* A reminder that Teams took is the last notice from now on.
LEMMA RemindNotice ==
  ASSUME IInv, IInv', ReminderInv, NEW s \in Store, NEW ok \in BOOLEAN, HRemind(s, ok),
         notice \in [Store -> Notice \cup {None}]
  PROVE  ReminderInv'
<1> USE DEF HRemind, Remind, MarkReminded, alertVars
<1>0. TypeOK /\ TypeOK' /\ s \in due /\ IsActive(s)
  BY DEF IInv, InFlightStores
<1>1. CASE ~ok
  BY <1>1 DEF ReminderInv, ClocksBehind, NoticeKnown, DueIsApart, LastNotice, IsActive
<1>2. CASE ok
  <2>1. /\ lastReminder'[s] = now /\ notice'[s].at = now /\ notice'[s] # None /\ now \in Nat
        /\ \A t \in Store : t # s => lastReminder'[t] = lastReminder[t] /\ notice'[t] = notice[t]
    BY <1>0, <1>2, NoticeIsRecord DEF TypeOK, AlertTypeOK, Time
  <2>2. LastNotice(s)' = now
    BY <1>0, <2>1, NoticeIsTime, NoneAssumption DEF LastNotice, ReminderInv, ClocksBehind, Time
  <2>3. \A t \in Store : t # s => LastNotice(t)' = LastNotice(t)
    BY <2>1 DEF LastNotice
  <2>4. ClocksBehind'
    BY <2>1 DEF ReminderInv, ClocksBehind, IsActive
  <2>5. NoticeKnown'
    BY <2>1, <2>2, <2>3 DEF ReminderInv, NoticeKnown, IsActive
  <2>6. DueIsApart'
    BY <1>0, <2>3 DEF ReminderInv, DueIsApart, TypeOK, CycleTypeOK
  <2> QED
    BY <2>4, <2>5, <2>6 DEF ReminderInv
<1> QED
  BY <1>1, <1>2

\* A card that was recorded is the last notice from now on.
LEMMA CardNotice ==
  ASSUME IInv, IInv', ReminderInv, HCardAccepted,
         notice \in [Store -> Notice \cup {None}]
  PROVE  ReminderInv'
<1> USE DEF HCardAccepted, CardAccepted, RecordSent
<1>0. TypeOK /\ card.store \in Store /\ due = {} /\ now \in Nat
  BY DEF IInv, TypeOK, AlertTypeOK, CycleTypeOK, PendingCard, PhaseOwnership, Time
<1> PICK c \in Store : c = card.store
  BY <1>0
<1>1. /\ active'[c].lastSent = now /\ notice'[c].at = now /\ notice'[c] # None
      /\ \A t \in Store : t # c => active'[t] = active[t] /\ notice'[t] = notice[t]
  BY <1>0, NoticeIsRecord DEF TypeOK, AlertTypeOK
<1>2. lastReminder[c] # None => lastReminder[c] \in Nat /\ lastReminder[c] <= now
  <2>1. CASE IsActive(c)
    BY <1>0, <2>1 DEF ReminderInv, ClocksBehind, TypeOK, AlertTypeOK, Time
  <2>2. CASE ~IsActive(c)
    BY <1>0, <2>2 DEF IInv, NothingLeftBehind
  <2> QED BY <2>1, <2>2
<1>3. LastNotice(c)' = now
  BY <1>0, <1>1, <1>2 DEF LastNotice
<1>4. \A t \in Store : t # c => LastNotice(t)' = LastNotice(t)
  BY <1>1 DEF LastNotice
<1>5. ClocksBehind'
  BY <1>0, <1>1, <1>2 DEF ReminderInv, ClocksBehind, IsActive
<1>6. NoticeKnown'
  BY <1>0, <1>1, <1>3, <1>4 DEF ReminderInv, NoticeKnown, IsActive
<1>7. DueIsApart'
  BY <1>0 DEF DueIsApart
<1> QED
  BY <1>5, <1>6, <1>7 DEF ReminderInv

\* The clocks of the reminders are kept by each step.
LEMMA ReminderStep ==
  ASSUME IInv, IInv', ReminderInv, notice \in [Store -> Notice \cup {None}], [HNext]_hvars
  PROVE  ReminderInv'
<1> TypeOK
  BY DEF IInv
<1>1. ASSUME UNCHANGED <<now, active, lastReminder, notice>>, due' \subseteq due
      PROVE  ReminderInv'
  BY <1>1 DEF ReminderInv, ClocksBehind, NoticeKnown, DueIsApart, LastNotice, IsActive
<1> USE DEF GoTo, EndCycle, alertVars
<1>2. CASE HBeginCycle
  BY <1>1, <1>2 DEF HBeginCycle, BeginCycle
<1>3. ASSUME NEW F \in SUBSET Store, HDetected(F) PROVE ReminderInv'
  BY <1>1, <1>3 DEF HDetected, Detected, DetectedAndRaised, AdvanceRecovery
<1>4. CASE /\ ScansAnswered \/ CycleFails \/ RemindersDone \/ DrillsAnswered
              \/ TriageAnswered \/ CardRefused \/ ReportsDone
           /\ UNCHANGED history
  BY <1>1, <1>4 DEF history, ScansAnswered, CycleFails, RemindersDone, DrillsAnswered,
     TriageAnswered, CardRefused, ReportsDone
<1>5. ASSUME NEW s \in Store, StartRecovery(s), UNCHANGED history PROVE ReminderInv'
  <2>1. /\ ~IsActive(s)'
        /\ \A t \in Store : t # s => /\ active'[t] = active[t]
                                     /\ lastReminder'[t] = lastReminder[t]
    BY <1>5 DEF StartRecovery, Clear, IsActive, TypeOK, AlertTypeOK
  <2>2. due' = {}
    BY <1>5 DEF StartRecovery, IInv, PhaseOwnership
  <2> QED
    BY <1>5, <2>1, <2>2 DEF history, StartRecovery, ReminderInv, ClocksBehind, NoticeKnown,
       DueIsApart, LastNotice, IsActive
<1>6. ASSUME NEW s \in Store, NEW d \in BOOLEAN, HEndRecovery(s, d) PROVE ReminderInv'
  BY <1>1, <1>6 DEF HEndRecovery, EndRecovery
<1>7. ASSUME NEW i \in {0, ReminderInterval}, RecoveriesDone(i), UNCHANGED history
      PROVE  ReminderInv'
  <2>1. DueIsApart'
    BY <1>7, ReminderAssumption DEF RecoveriesDone, DueForReminder, DueIsApart, LastNotice
  <2> QED
    BY <1>7, <2>1 DEF RecoveriesDone, history, ReminderInv, ClocksBehind, NoticeKnown,
       LastNotice, IsActive
<1>8. ASSUME NEW s \in Store, NEW ok \in BOOLEAN, HRemind(s, ok) PROVE ReminderInv'
  BY <1>8, RemindNotice
<1>9. ASSUME NEW r \in Report, HHandleReport(r) PROVE ReminderInv'
  BY <1>1, <1>9 DEF HHandleReport, HandleReport
<1>10. CASE HCardAccepted
  BY <1>10, CardNotice
<1>11. CASE HCardAnswerLost
  BY <1>1, <1>11 DEF HCardAnswerLost, CardAnswerLost
<1>12. CASE Tick /\ UNCHANGED history
  <2>1. /\ now' = now + 1 /\ now \in Nat
        /\ UNCHANGED <<active, lastReminder, notice, due>>
    BY <1>12 DEF Tick, history, cycleVars, TypeOK, AlertTypeOK, Time
  <2>2. \A s \in Store : IsActive(s) => active[s].lastSent \in Nat /\ LastNotice(s) \in Nat
    BY NoticeIsTime
  <2>3. ClocksBehind'
    BY <2>1, <2>2 DEF ReminderInv, ClocksBehind, IsActive, TypeOK, AlertTypeOK, Time
  <2>4. NoticeKnown'
    BY <2>1 DEF ReminderInv, NoticeKnown, LastNotice, IsActive
  <2>5. DueIsApart'
    <3> SUFFICES ASSUME NEW s \in due PROVE now' - LastNotice(s) >= ReminderInterval
      BY <2>1 DEF DueIsApart, LastNotice
    <3>1. s \in Store /\ LastNotice(s) \in Nat
      BY <2>2 DEF IInv, InFlightStores, TypeOK, CycleTypeOK
    <3> QED
      BY <2>1, <3>1, ReminderAssumption DEF ReminderInv, DueIsApart
  <2> QED
    BY <2>3, <2>4, <2>5 DEF ReminderInv
<1>13. ASSUME NEW D \in SUBSET InFlight, HRestart(D) PROVE ReminderInv'
  BY <1>13 DEF HRestart, Restart, ReminderInv, ClocksBehind, NoticeKnown, DueIsApart, IsActive
<1>14. CASE UNCHANGED hvars
  BY <1>1, <1>14 DEF hvars, history, vars, cycleVars
<1> QED
  BY <1>2, <1>3, <1>4, <1>5, <1>6, <1>7, <1>8, <1>9, <1>10, <1>11, <1>12, <1>13, <1>14
     DEF HNext

\* A mark moves in a step only where a due reminder has been posted.
LEMMA RemindersApartStep ==
  ASSUME IInv, ReminderInv, [HNext]_hvars, NEW s \in Store,
         lastReminder'[s] \notin {lastReminder[s], None}
  PROVE  notice[s] # None /\ now - notice[s].at >= ReminderInterval
<1> TypeOK
  BY DEF IInv
<1> USE DEF alertVars
<1>1. PICK t \in Store, ok \in BOOLEAN : HRemind(t, ok)
  <2>1. ASSUME NEW t \in Store, StartRecovery(t) PROVE FALSE
    BY <2>1 DEF StartRecovery, Clear, TypeOK, AlertTypeOK
  <2>2. ASSUME NEW D \in SUBSET InFlight, HRestart(D) PROVE FALSE
    BY <2>2 DEF HRestart, Restart
  <2>3. lastReminder' # lastReminder
    OBVIOUS
  <2> QED
    BY <2>1, <2>2, <2>3 DEF HNext, HBeginCycle, BeginCycle, ScansAnswered, HDetected, Detected,
       DetectedAndRaised, AdvanceRecovery, CycleFails,
       HEndRecovery, EndRecovery, RecoveriesDone, RemindersDone,
       DrillsAnswered, TriageAnswered, HHandleReport, HandleReport, HCardAccepted, CardAccepted,
       RecordSent, CardRefused, HCardAnswerLost, CardAnswerLost, ReportsDone, Tick, hvars, vars
<1>2. s = t
  BY <1>1 DEF HRemind, Remind, MarkReminded, TypeOK, AlertTypeOK
<1>3. s \in due /\ IsActive(s)
  BY <1>1, <1>2 DEF HRemind, Remind, IInv, InFlightStores
<1>4. notice[s] # None /\ notice[s].at = LastNotice(s) /\ LastNotice(s) \in Nat
  BY <1>3, NoticeIsTime DEF ReminderInv, NoticeKnown
<1> QED
  BY <1>3, <1>4, NoneAssumption DEF ReminderInv, DueIsApart, Time

\* The clocks of the reminders are kept.
LEMMA ReminderInvHolds == HSpec => []ReminderInv
<1>1. HInit => ReminderInv
  BY DEF HInit, Init, EmptyAlertState, AtRest, ReminderInv, ClocksBehind, NoticeKnown,
     DueIsApart, IsActive
<1>2. HTypeOK /\ IInv /\ IInv' /\ ReminderInv /\ [HNext]_hvars => ReminderInv'
  BY ReminderStep DEF HTypeOK, HistoryTypeOK
<1> QED
  BY <1>1, <1>2, HInvHolds, HTypeCorrect, PTL DEF HSpec

\* A reminder comes at least ReminderInterval after the last card or reminder that
\* Teams acknowledged about the store.
THEOREM RemindersAlwaysApart == HSpec => RemindersApart
<1>1. IInv /\ ReminderInv /\ [HNext]_hvars
        => [\A s \in Store :
              lastReminder'[s] \notin {lastReminder[s], None}
                => notice[s] # None /\ now - notice[s].at >= ReminderInterval]_hvars
  BY RemindersApartStep
<1> QED
  BY <1>1, HInvHolds, ReminderInvHolds, PTL DEF HSpec, RemindersApart

-----------------------------------------------------------------------------
(***************************************************************************)
(* What the operators see.  A step that posts a card, loses one or reminds *)
(* is the step of OperatorView of that name; the steps between two posts   *)
(* leave the view unchanged.                                               *)
(***************************************************************************)

\* A store whose RESOLVED card is on its way still shows the alert it answers:
\* the phases keep every other card out of the way.
ResolvingShowsAlert == \A s \in resolving : shown[s].kind = "alert"

LEMMA ResolvingStep ==
  ASSUME IInv, ResolvingShowsAlert, [HNext]_hvars
  PROVE  ResolvingShowsAlert'
<1> TypeOK
  BY DEF IInv
<1> USE DEF ResolvingShowsAlert
<1>1. ASSUME resolving' = {} PROVE ResolvingShowsAlert'
  BY <1>1
<1>2. ASSUME UNCHANGED shown, resolving' \subseteq resolving PROVE ResolvingShowsAlert'
  BY <1>2
<1> USE DEF GoTo, EndCycle, alertVars
<1>3. CASE HBeginCycle
  BY <1>2, <1>3 DEF HBeginCycle, BeginCycle
<1>4. ASSUME NEW F \in SUBSET Store, HDetected(F) PROVE ResolvingShowsAlert'
  BY <1>2, <1>4 DEF HDetected, Detected, DetectedAndRaised
<1>5. CASE ScansAnswered \/ CycleFails \/ RemindersDone \/ DrillsAnswered
           \/ TriageAnswered \/ CardRefused \/ ReportsDone \/ Tick
  BY <1>2, <1>5 DEF ScansAnswered, CycleFails, RemindersDone, DrillsAnswered,
     TriageAnswered, CardRefused, ReportsDone, Tick, cycleVars
<1>6. ASSUME NEW s \in Store, StartRecovery(s) PROVE ResolvingShowsAlert'
  BY <1>6 DEF StartRecovery, IInv, NoPhantomAlert
<1>7. ASSUME NEW s \in Store, NEW d \in BOOLEAN, HEndRecovery(s, d)
      PROVE  ResolvingShowsAlert'
  BY <1>7 DEF HEndRecovery, EndRecovery
<1>8. CASE \E i \in {0, ReminderInterval} : RecoveriesDone(i)
  BY <1>2, <1>8 DEF RecoveriesDone
<1>9. CASE \E s \in Store, ok \in BOOLEAN : HRemind(s, ok)
  BY <1>2, <1>9 DEF HRemind, Remind
<1>10. CASE \E r \in Report : HHandleReport(r)
  BY <1>2, <1>10 DEF HHandleReport, HandleReport
<1>11. CASE HCardAccepted
  BY <1>1, <1>11 DEF HCardAccepted, CardAccepted, IInv, PhaseOwnership
<1>12. CASE HCardAnswerLost
  BY <1>1, <1>12 DEF HCardAnswerLost, CardAnswerLost, IInv, PhaseOwnership
<1>13. CASE \E D \in SUBSET InFlight : HRestart(D)
  BY <1>1, <1>13 DEF HRestart, Restart
<1>14. CASE UNCHANGED hvars
  BY <1>2, <1>14 DEF hvars, vars, cycleVars
<1> QED
  BY <1>3, <1>4, <1>5, <1>6, <1>7, <1>8, <1>9, <1>10, <1>11, <1>12, <1>13, <1>14 DEF HNext

LEMMA ResolvingHolds == HSpec => []ResolvingShowsAlert
<1>1. HInit => ResolvingShowsAlert
  BY DEF HInit, Init, AtRest, ResolvingShowsAlert
<1>2. IInv /\ ResolvingShowsAlert /\ [HNext]_hvars => ResolvingShowsAlert'
  BY ResolvingStep
<1> QED
  BY <1>1, <1>2, HInvHolds, PTL DEF HSpec

\* The alert cards of Teams.
AlertCards == [kind : {"alert"}, severity : Severity, signature : Signature]

\* What the steps below know of the state before them.
ViewInv ==
  /\ IInv
  /\ HistoryTypeOK
  /\ ResolvingShowsAlert
  /\ ChannelAgrees
  /\ NoRepeatedCard
  /\ ReminderInv

\* A store shows one of the alert cards when what it shows is of that kind.
LEMMA AlertingByKind ==
  ASSUME TypeOK, NEW s \in Store
  PROVE  View!Alerting(s) <=> shown[s].kind = "alert"
BY DEF View!Alerting, TypeOK, CycleTypeOK, CardShown, NoCard, Resolved

\* The card that is being posted is an alert card, and news unless in doubt.
LEMMA PendingIsNews ==
  ASSUME ViewInv, card # None
  PROVE  /\ card.store \in Store
         /\ Alert(card.severity, card.signature) \in AlertCards
         /\ View!IsNews(card.store, Alert(card.severity, card.signature))
<1>1. card \in PendingCard
  BY DEF ViewInv, IInv, TypeOK, CycleTypeOK
<1> QED
  BY <1>1 DEF PendingCard, Alert, AlertCards, View!IsNews, ViewInv, NoRepeatedCard

\* A restart leaves every alert in doubt.
LEMMA RestartView ==
  ASSUME ViewInv, NEW D \in SUBSET InFlight, HRestart(D)
  PROVE  View!Restart
<1> USE DEF ViewInv
<1> TypeOK /\ resolving \subseteq Store /\ diverged \subseteq Store /\ D \subseteq Store
  BY DEF IInv, TypeOK, CycleTypeOK, HistoryTypeOK, InFlight, PendingCard
<1>1. /\ shown' = ShownAfterCrash(D)
      /\ diverged' = diverged \cup InFlight \cup {s \in Store : IsActive(s)}
      /\ UNCHANGED <<now, notice>>
  BY DEF HRestart, Restart
<1>2. diverged' \in SUBSET Store
  BY <1>1 DEF InFlight, IInv, TypeOK, CycleTypeOK, PendingCard
<1>3. diverged \cup {s \in Store : View!Alerting(s)} \subseteq diverged'
  <2> SUFFICES ASSUME NEW s \in Store, shown[s].kind = "alert", s \notin diverged'
               PROVE  FALSE
    BY <1>1, AlertingByKind
  <2> QED
    BY <1>1 DEF ChannelAgrees, InFlight
<1>4. CASE card = None
  <2>1. D \subseteq resolving
    BY <1>4 DEF InFlight
  <2>2. \A s \in D : View!Alerting(s)
    BY <2>1, AlertingByKind DEF ResolvingShowsAlert
  <2>3. shown' = [s \in Store |-> IF s \in D THEN Resolved ELSE shown[s]]
    BY <1>1, <2>1 DEF ShownAfterCrash
  <2> QED
    BY <1>1, <1>2, <1>3, <2>2, <2>3 DEF View!Restart
<1>5. CASE card # None
  <2>1. resolving = {} /\ InFlight = {card.store}
    BY <1>5 DEF IInv, PhaseOwnership, InFlight
  <2>2. CASE D = {}
    <3>1. shown' = [s \in Store |-> IF s \in D THEN Resolved ELSE shown[s]]
      BY <1>1, <2>2 DEF ShownAfterCrash
    <3> QED
      BY <1>1, <1>2, <1>3, <2>2, <3>1 DEF View!Restart
  <2>3. CASE D = {card.store}
    <3> DEFINE c == Alert(card.severity, card.signature)
    <3>1. card.store \in diverged' /\ c \in AlertCards /\ View!IsNews(card.store, c)
      BY <1>1, <1>5, <2>1, PendingIsNews
    <3>2. shown' = [shown EXCEPT ![card.store] = c]
      BY <1>1, <2>1, <2>3 DEF ShownAfterCrash, TypeOK, CycleTypeOK
    <3> QED
      BY <1>1, <1>2, <1>3, <3>1, <3>2 DEF View!Restart, AlertCards
  <2> QED
    BY <2>1, <2>2, <2>3
<1> QED
  BY <1>4, <1>5

\* Each step is a step of OperatorView or leaves the view unchanged.
LEMMA ViewStep ==
  ASSUME ViewInv, [HNext]_hvars
  PROVE  [View!Next]_(View!vars)
<1> TypeOK
  BY DEF ViewInv, IInv
<1> USE DEF alertVars, View!Next
<1>1. ASSUME UNCHANGED <<now, shown, diverged, notice>> PROVE UNCHANGED View!vars
  BY <1>1 DEF View!vars
<1>2. CASE HBeginCycle
  BY <1>1, <1>2 DEF HBeginCycle, BeginCycle
<1>3. ASSUME NEW F \in SUBSET Store, HDetected(F) PROVE UNCHANGED View!vars
  BY <1>1, <1>3 DEF HDetected, Detected, DetectedAndRaised
<1>4. CASE /\ ScansAnswered \/ CycleFails \/ RemindersDone \/ DrillsAnswered
              \/ TriageAnswered \/ CardRefused \/ ReportsDone
           /\ UNCHANGED history
  BY <1>1, <1>4 DEF history, ScansAnswered, CycleFails, RemindersDone, DrillsAnswered,
     TriageAnswered, CardRefused, ReportsDone
<1>5. CASE \E s \in Store : StartRecovery(s) /\ UNCHANGED history
  BY <1>1, <1>5 DEF StartRecovery, history
<1>6. ASSUME NEW s \in Store, NEW d \in BOOLEAN, HEndRecovery(s, d) PROVE View!Next
  <2>1. View!Alerting(s)
    BY <1>6, AlertingByKind DEF HEndRecovery, EndRecovery, ViewInv, ResolvingShowsAlert
  <2>2. CASE d
    <3>1. View!Resolve(s)
      BY <1>6, <2>1, <2>2 DEF HEndRecovery, EndRecovery, View!Resolve
    <3> QED
      BY <3>1
  <2>3. CASE ~d
    <3>1. View!ResolveLost(s)
      BY <1>6, <2>1, <2>3 DEF HEndRecovery, EndRecovery, View!ResolveLost
    <3> QED
      BY <3>1
  <2> QED
    BY <2>2, <2>3
<1>7. CASE \E i \in {0, ReminderInterval} : RecoveriesDone(i) /\ UNCHANGED history
  BY <1>1, <1>7 DEF RecoveriesDone, history
<1>8. ASSUME NEW s \in Store, NEW ok \in BOOLEAN, HRemind(s, ok)
      PROVE  View!Next \/ UNCHANGED View!vars
  <2>1. CASE ~ok
    BY <1>1, <1>8, <2>1 DEF HRemind, Remind
  <2>2. CASE ok
    <3>1. IsActive(s) /\ s \in due
      BY <1>8 DEF HRemind, Remind, ViewInv, IInv, InFlightStores
    <3>2. View!Alerting(s)
      BY <3>1, AlertingByKind DEF ViewInv, IInv, NoPhantomAlert
    <3>3. notice[s] # None /\ notice[s].at = LastNotice(s) /\ LastNotice(s) \in Nat
      BY <3>1, NoticeIsTime DEF ViewInv, ReminderInv, NoticeKnown
    <3>4. notice[s] # None /\ now - notice[s].at >= ReminderInterval
      BY <3>1, <3>3, NoneAssumption DEF ViewInv, ReminderInv, DueIsApart, Time
    <3>5. View!Remind(s)
      BY <1>8, <2>2, <3>2, <3>4 DEF HRemind, Remind, View!Remind
    <3> QED
      BY <3>5
  <2> QED
    BY <2>1, <2>2
<1>9. ASSUME NEW r \in Report, HHandleReport(r) PROVE UNCHANGED View!vars
  BY <1>1, <1>9 DEF HHandleReport, HandleReport
<1>10. CASE HCardAccepted
  <2>1. View!Post(card.store, Alert(card.severity, card.signature))
    BY <1>10, PendingIsNews DEF HCardAccepted, CardAccepted, ShowCard, View!Post
  <2> QED
    BY <1>10, <2>1, PendingIsNews DEF HCardAccepted, CardAccepted, AlertCards
<1>11. CASE HCardAnswerLost
  <2>1. View!PostUnanswered(card.store, Alert(card.severity, card.signature))
    BY <1>11, PendingIsNews
       DEF HCardAnswerLost, CardAnswerLost, ShowCard, View!PostUnanswered
  <2> QED
    BY <1>11, <2>1, PendingIsNews DEF HCardAnswerLost, CardAnswerLost, AlertCards
<1>12. CASE Tick /\ UNCHANGED history
  <2>1. View!Advance
    BY <1>12 DEF Tick, history, View!Advance
  <2> QED
    BY <2>1
<1>13. CASE \E D \in SUBSET InFlight : HRestart(D)
  BY <1>13, RestartView
<1>14. CASE UNCHANGED hvars
  BY <1>1, <1>14 DEF hvars, history, vars
<1> QED
  BY <1>2, <1>3, <1>4, <1>5, <1>6, <1>7, <1>8, <1>9, <1>10, <1>11, <1>12, <1>13, <1>14
     DEF HNext

\* The poll cycle, with all its failures and restarts, implements what OperatorView
\* promises the readers of the channel.
THEOREM CycleImplementsOperatorView == HSpec => ImplementsOperatorView
<1>1. HInit => View!Init
  BY DEF HInit, Init, View!Init
<1>2. ViewInv /\ [HNext]_hvars => [View!Next]_(View!vars)
  BY ViewStep
<1>3. IInv /\ HTypeOK /\ ResolvingShowsAlert /\ ChannelAgrees /\ NoRepeatedCard /\ ReminderInv
        => ViewInv
  BY DEF ViewInv, HTypeOK
<1> QED
  BY <1>1, <1>2, <1>3, HInvHolds, HTypeCorrect, ResolvingHolds, ChannelAlwaysAgrees,
     NoCardIsRepeated, ReminderInvHolds, PTL DEF HSpec, ImplementsOperatorView, View!Spec

-----------------------------------------------------------------------------
(***************************************************************************)
(* Downgrades, when the LLM reports once on a store in a cycle.            *)
(***************************************************************************)

\* A proposal of this cycle is one of a store that was reported on.
FreshIsReported == \A s \in Store : lowRun[s].fresh => s \in reported

\* The streak of the memory counts no more than the cycles of the history.
StreakInRun ==
  \A s \in Store :
    downgrade[s].count > 0 =>
      /\ lowRun[s].tier = downgrade[s].cand
      /\ lowRun[s].cycles >= UpTo(downgrade[s].count, HoldCycles)

\* A card that goes down a tier has waited for it.
LowerCardWaited ==
  card # None /\ IsActive(card.store) /\ Rank(card.severity) < Rank(active[card.store].severity)
    => lowRun[card.store].cycles >= HoldCycles

HoldInv == FreshIsReported /\ StreakInRun /\ LowerCardWaited

\* A report prolongs the streak of the memory and the run of the history alike.
LEMMA ReportHold ==
  ASSUME OneReportEach, IInv, HTypeOK, HTypeOK', HoldInv,
         NEW r \in Report, HHandleReport(r)
  PROVE  HoldInv'
<1> USE HoldAssumption DEF HHandleReport, HandleReport
<1> DEFINE s == r.store
           v == r.severity
<1>0. s \in Store /\ v \in Severity /\ s \notin reported /\ reported' = reported \cup {s}
  BY DEF Report
<1> TypeOK /\ HistoryTypeOK /\ card = None
  BY DEF HTypeOK
<1>1. CASE Suppressed(r)
  BY <1>1, <1>0 DEF HoldInv, FreshIsReported, StreakInRun, LowerCardWaited
<1>2. CASE ~Suppressed(r)
  <2>1. ~lowRun[s].fresh
    BY <1>0 DEF HoldInv, FreshIsReported
  <2>2. /\ lowRun'[s] = IF IsDowngrade(s, v) THEN Prolonged(lowRun[s], v) ELSE NoRun
        /\ \A t \in Store : t # s => lowRun'[t] = lowRun[t]
    BY <1>0, <1>2 DEF HistoryTypeOK
  <2>3. /\ downgrade'[s] = IF Held(s, v)
                             THEN [cand |-> v, count |-> DowngradeCount(s, v)]
                             ELSE NoDowngrade
        /\ \A t \in Store : t # s => downgrade'[t] = downgrade[t]
    BY <1>0, <1>2 DEF AdvanceDowngrade, TypeOK, AlertTypeOK
  <2>4. /\ downgrade[s].count \in Nat
        /\ lowRun[s].cycles \in Nat
    BY <1>0 DEF TypeOK, AlertTypeOK, Downgrade, HistoryTypeOK, Run
  <2>5. IsDowngrade(s, v) =>
          /\ lowRun'[s].tier = v
          /\ lowRun'[s].cycles >= UpTo(DowngradeCount(s, v), HoldCycles)
    <3> SUFFICES ASSUME IsDowngrade(s, v)
                 PROVE  /\ lowRun'[s].tier = v
                        /\ lowRun'[s].cycles >= UpTo(DowngradeCount(s, v), HoldCycles)
      OBVIOUS
    <3>1. CASE lowRun[s].tier = v
      <4>1. lowRun'[s].tier = v /\ lowRun'[s].cycles = UpTo(lowRun[s].cycles + 1, HoldCycles)
        BY <2>1, <2>2, <3>1 DEF Prolonged
      <4>2. CASE downgrade[s].cand = v /\ downgrade[s].count > 0
        <5>1. lowRun[s].cycles >= UpTo(downgrade[s].count, HoldCycles)
          BY <1>0, <4>2 DEF HoldInv, StreakInRun
        <5> QED
          BY <4>1, <4>2, <5>1, <2>4 DEF DowngradeCount, UpTo
      <4>3. CASE ~(downgrade[s].cand = v /\ downgrade[s].count > 0)
        <5>1. DowngradeCount(s, v) = 1
          BY <4>3, <2>4 DEF DowngradeCount
        <5> QED
          BY <4>1, <5>1, <2>4 DEF UpTo
      <4> QED
        BY <4>2, <4>3
    <3>2. CASE lowRun[s].tier # v
      <4>1. lowRun'[s].tier = v /\ lowRun'[s].cycles = UpTo(1, HoldCycles)
        BY <2>2, <3>2 DEF Prolonged
      <4>2. ~(downgrade[s].cand = v /\ downgrade[s].count > 0)
        BY <1>0, <3>2 DEF HoldInv, StreakInRun
      <4>3. DowngradeCount(s, v) = 1
        BY <4>2, <2>4 DEF DowngradeCount
      <4> QED
        BY <4>1, <4>3 DEF UpTo
    <3> QED
      BY <3>1, <3>2
  <2>6. FreshIsReported'
    BY <1>0, <2>2 DEF HoldInv, FreshIsReported
  <2>7. StreakInRun'
    <3> SUFFICES ASSUME NEW t \in Store, downgrade'[t].count > 0
                 PROVE  /\ lowRun'[t].tier = downgrade'[t].cand
                        /\ lowRun'[t].cycles >= UpTo(downgrade'[t].count, HoldCycles)
      BY DEF StreakInRun
    <3>1. CASE t # s
      BY <3>1, <2>2, <2>3 DEF HoldInv, StreakInRun
    <3>2. CASE t = s
      <4>1. Held(s, v)
        BY <3>2, <2>3 DEF NoDowngrade
      <4>2. downgrade'[s].cand = v /\ downgrade'[s].count = DowngradeCount(s, v)
        BY <4>1, <2>3
      <4> QED
        BY <3>2, <4>1, <4>2, <2>5 DEF Held
    <3> QED
      BY <3>1, <3>2
  <2>8. LowerCardWaited'
    <3> SUFFICES ASSUME card' # None, IsActive(card'.store),
                        Rank(card'.severity) < Rank(active[card'.store].severity)
                 PROVE  lowRun'[card'.store].cycles >= HoldCycles
      BY DEF LowerCardWaited, IsActive
    <3>1. card'.store = s /\ card'.severity = EffectiveSeverity(s, v)
      BY <1>2 DEF CardFor
    <3>2. Rank(active[s].severity) \in Int /\ Rank(v) \in Int
      BY DEF Rank, SevRank
    <3>3. ~Held(s, v)
      BY <3>1, <3>2 DEF EffectiveSeverity
    <3>4. EffectiveSeverity(s, v) = v
      BY <3>3 DEF EffectiveSeverity
    <3>5. Rank(v) >= 0
      BY <1>2, <3>2 DEF Suppressed
    <3>6. IsDowngrade(s, v)
      BY <3>1, <3>2, <3>4, <3>5 DEF IsDowngrade
    <3>7. DowngradeCount(s, v) \in Nat /\ DowngradeCount(s, v) >= HoldCycles
      BY <3>3, <3>6, <2>4 DEF Held, DowngradeCount
    <3> QED
      BY <3>1, <3>6, <3>7, <2>5 DEF UpTo
  <2> QED
    BY <2>6, <2>7, <2>8 DEF HoldInv
<1> QED
  BY <1>1, <1>2

\* Streaks and runs stay in step.
LEMMA HoldStep ==
  ASSUME OneReportEach, IInv, HTypeOK, HTypeOK', HoldInv, [HNext]_hvars
  PROVE  HoldInv'
<1> TypeOK /\ HistoryTypeOK
  BY DEF HTypeOK
<1>1. ASSUME UNCHANGED <<downgrade, lowRun, reported>>, card' = None \/ UNCHANGED <<card, active>>
      PROVE  HoldInv'
  BY <1>1 DEF HoldInv, FreshIsReported, StreakInRun, LowerCardWaited, IsActive
<1> USE DEF GoTo, EndCycle, alertVars
<1>2. CASE HBeginCycle
  <2>1. \A s \in Store : /\ ~lowRun'[s].fresh
                         /\ lowRun'[s].tier = lowRun[s].tier
                         /\ lowRun'[s].cycles = lowRun[s].cycles
    BY <1>2 DEF HBeginCycle, Aged, HistoryTypeOK, Run
  <2>2. UNCHANGED downgrade /\ card' = None
    BY <1>2 DEF HBeginCycle, BeginCycle, IInv, PhaseOwnership
  <2> QED
    BY <2>1, <2>2 DEF HoldInv, FreshIsReported, StreakInRun, LowerCardWaited
<1>3. CASE \E F \in SUBSET Store : HDetected(F)
  BY <1>1, <1>3 DEF HDetected, Detected, DetectedAndRaised, AdvanceRecovery
<1>4. CASE /\ ScansAnswered \/ CycleFails \/ RemindersDone \/ DrillsAnswered
              \/ TriageAnswered \/ CardRefused \/ ReportsDone \/ Tick
           /\ UNCHANGED history
  BY <1>1, <1>4 DEF history, ScansAnswered, CycleFails, RemindersDone, DrillsAnswered,
     TriageAnswered, CardRefused, ReportsDone, Tick, cycleVars
<1>5. ASSUME NEW s \in Store, StartRecovery(s), UNCHANGED history PROVE HoldInv'
  <2>1. downgrade'[s].count = 0 /\ \A t \in Store : t # s => downgrade'[t] = downgrade[t]
    BY <1>5 DEF StartRecovery, Clear, NoDowngrade, TypeOK, AlertTypeOK
  <2>2. card' = None
    BY <1>5 DEF StartRecovery, IInv, PhaseOwnership
  <2> QED
    BY <1>5, <2>1, <2>2 DEF history, HoldInv, FreshIsReported, StreakInRun, LowerCardWaited
<1>6. CASE \E s \in Store, d \in BOOLEAN : HEndRecovery(s, d)
  BY <1>1, <1>6 DEF HEndRecovery, EndRecovery
<1>7. CASE \E i \in {0, ReminderInterval} : RecoveriesDone(i) /\ UNCHANGED history
  BY <1>1, <1>7 DEF RecoveriesDone, history
<1>8. CASE \E s \in Store, ok \in BOOLEAN : HRemind(s, ok)
  BY <1>1, <1>8 DEF HRemind, Remind, MarkReminded
<1>9. CASE \E r \in Report : HHandleReport(r)
  BY <1>9, ReportHold
<1>10. CASE HCardAccepted
  BY <1>1, <1>10 DEF HCardAccepted, CardAccepted, RecordSent
<1>11. CASE HCardAnswerLost
  BY <1>1, <1>11 DEF HCardAnswerLost, CardAnswerLost
<1>12. ASSUME NEW D \in SUBSET InFlight, HRestart(D) PROVE HoldInv'
  BY <1>12 DEF HRestart, Restart, HoldInv, FreshIsReported, StreakInRun, LowerCardWaited,
     NoRun, NoDowngrade
<1>13. CASE UNCHANGED hvars
  BY <1>1, <1>13 DEF hvars, history, vars, cycleVars
<1> QED
  BY <1>2, <1>3, <1>4, <1>5, <1>6, <1>7, <1>8, <1>9, <1>10, <1>11, <1>12, <1>13 DEF HNext

\* A tier goes down only with a card, and the card has waited.
LEMMA LoweredStep ==
  ASSUME IInv, HoldInv, [HNext]_hvars, NEW s \in Store, Lowered(s)
  PROVE  lowRun[s].cycles >= HoldCycles
<1> TypeOK
  BY DEF IInv
<1> USE DEF alertVars
<1>1. active'[s] # active[s] /\ active'[s] # None /\ IsActive(s)
  <2>1. Rank(active[s].severity) \in Int
    BY DEF Rank, SevRank
  <2> QED
    BY <2>1 DEF Lowered
<1>2. HCardAccepted
  <2>1. ASSUME NEW t \in Store, StartRecovery(t) PROVE FALSE
    BY <1>1, <2>1 DEF StartRecovery, Clear, TypeOK, AlertTypeOK
  <2>2. ASSUME NEW D \in SUBSET InFlight, HRestart(D) PROVE FALSE
    BY <1>1, <2>2 DEF HRestart, Restart
  <2>3. active' # active
    BY <1>1
  <2> QED
    BY <2>1, <2>2, <2>3 DEF HNext, HBeginCycle, BeginCycle, ScansAnswered, HDetected, Detected,
       DetectedAndRaised, AdvanceRecovery, CycleFails,
       HEndRecovery, EndRecovery, RecoveriesDone, HRemind, Remind,
       MarkReminded, RemindersDone, DrillsAnswered, TriageAnswered, HHandleReport, HandleReport,
       CardRefused, HCardAnswerLost, CardAnswerLost, ReportsDone, Tick, hvars, vars
<1>3. card # None /\ card.store = s /\ active'[s].severity = card.severity
  BY <1>1, <1>2 DEF HCardAccepted, CardAccepted, RecordSent, TypeOK, AlertTypeOK
<1> QED
  BY <1>1, <1>3 DEF Lowered, HoldInv, LowerCardWaited

\* When the LLM reports once on a store in a cycle, a card goes down a tier only after
\* HoldCycles different cycles proposed the tier with no other verdict in between.
THEOREM LoweringTakesCycles ==
  ASSUME OneReportEach
  PROVE  HSpec => LoweredOverCycles
<1>1. HInit => HoldInv
  BY DEF HInit, Init, EmptyAlertState, AtRest, HoldInv, FreshIsReported, StreakInRun,
     LowerCardWaited, NoRun, NoDowngrade
<1>2. IInv /\ HTypeOK /\ HTypeOK' /\ HoldInv /\ [HNext]_hvars => HoldInv'
  BY HoldStep
<1>3. IInv /\ HoldInv /\ [HNext]_hvars
        => [\A s \in Store : Lowered(s) => lowRun[s].cycles >= HoldCycles]_hvars
  BY LoweredStep
<1> QED
  BY <1>1, <1>2, <1>3, HInvHolds, HTypeCorrect, PTL DEF HSpec, LoweredOverCycles

=============================================================================
