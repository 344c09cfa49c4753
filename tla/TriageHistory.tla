---------------------------- MODULE TriageHistory ----------------------------
(***************************************************************************)
(* TriageCycle with history variables: what an observer of the detection   *)
(* passes, of the reports and of the Teams channel remembers, and the      *)
(* properties that are stated in these terms.  The history only watches;   *)
(* the one thing that restricts the cycle is OneReportEach, which keeps    *)
(* the LLM from reporting twice on a store in one cycle when it is TRUE.   *)
(***************************************************************************)
EXTENDS TriageCycle

CONSTANT OneReportEach

ASSUME OneReportAssumption == OneReportEach \in BOOLEAN

VARIABLES
  diverged,  \* stores of which an outcome was lost: a RESOLVED card refused,
             \* the answer to a card lost, or a restart while they mattered
  absent,    \* detection passes in a row without the store since it was last
             \* correlated or its alert opened, counted up to PassesToClear
  notice,    \* the last card or reminder about a store that Teams acknowledged
  lowRun,    \* the cycles in which a lower tier has been proposed for a store
  reported   \* the stores reported on in this cycle

history == <<diverged, absent, notice, lowRun, reported>>
hvars == <<vars, history>>

\* tier has been proposed in the last `row` cycles in a row, and in `cycles`
\* cycles since another verdict; fresh: this cycle is one of them.  Both
\* numbers stop at HoldCycles.
Run == [tier : Severity \cup {None}, row : Nat, cycles : Nat, fresh : BOOLEAN]

NoRun == [tier |-> None, row |-> 0, cycles |-> 0, fresh |-> FALSE]

Notice == [kind : {"card", "reminder"}, at : Time]

ASSUME NoNoticeAssumption == None \notin Notice

HistoryTypeOK ==
  /\ diverged \subseteq Store
  /\ absent \in [Store -> Nat]
  /\ notice \in [Store -> Notice \cup {None}]
  /\ lowRun \in [Store -> Run]
  /\ reported \subseteq Store

HInit ==
  /\ Init
  /\ diverged = {}
  /\ absent = [s \in Store |-> 0]
  /\ notice = [s \in Store |-> None]
  /\ lowRun = [s \in Store |-> NoRun]
  /\ reported = {}

-----------------------------------------------------------------------------
\* A run that was not prolonged in the cycle before is no longer in a row.
Aged(run) ==
  IF run.fresh THEN [run EXCEPT !.fresh = FALSE] ELSE [run EXCEPT !.row = 0]

HBeginCycle ==
  /\ BeginCycle
  /\ lowRun' = [s \in Store |-> Aged(lowRun[s])]
  /\ reported' = {}
  /\ UNCHANGED <<diverged, absent, notice>>

\* A pass counts whether the cycle got over its answer or not.
HDetected(stores) ==
  /\ Detected(stores) \/ DetectedAndRaised(stores)
  /\ absent' = [s \in Store |->
                  IF s \in stores THEN 0 ELSE UpTo(absent[s] + 1, PassesToClear)]
  /\ UNCHANGED <<diverged, notice, lowRun, reported>>

HEndRecovery(s, delivered) ==
  /\ EndRecovery(s, delivered)
  /\ diverged' = IF delivered THEN diverged \ {s} ELSE diverged \cup {s}
  /\ UNCHANGED <<absent, notice, lowRun, reported>>

HRemind(s, ok) ==
  /\ Remind(s, ok)
  /\ notice' = IF ok THEN [notice EXCEPT ![s] = [kind |-> "reminder", at |-> now]]
                    ELSE notice
  /\ UNCHANGED <<diverged, absent, lowRun, reported>>

\* The run of a store once `tier` has been proposed for it in this cycle.
Prolonged(run, tier) ==
  IF run.tier # tier
    THEN [tier |-> tier, row |-> UpTo(1, HoldCycles),
          cycles |-> UpTo(1, HoldCycles), fresh |-> TRUE]
  ELSE IF run.fresh THEN run
  ELSE [tier |-> tier, row |-> UpTo(run.row + 1, HoldCycles),
        cycles |-> UpTo(run.cycles + 1, HoldCycles), fresh |-> TRUE]

HHandleReport(r) ==
  /\ OneReportEach => r.store \notin reported
  /\ HandleReport(r)
  /\ reported' = IF OneReportEach THEN reported \cup {r.store} ELSE {}
  /\ lowRun' = IF Suppressed(r) THEN lowRun
               ELSE [lowRun EXCEPT ![r.store] =
                       IF IsDowngrade(r.store, r.severity)
                         THEN Prolonged(@, r.severity) ELSE NoRun]
  /\ UNCHANGED <<diverged, absent, notice>>

HCardAccepted ==
  /\ CardAccepted
  /\ diverged' = diverged \ {card.store}
  /\ notice' = [notice EXCEPT ![card.store] = [kind |-> "card", at |-> now]]
  /\ absent' = IF IsActive(card.store) THEN absent
               ELSE [absent EXCEPT ![card.store] = 0]
  /\ UNCHANGED <<lowRun, reported>>

HCardAnswerLost ==
  /\ CardAnswerLost
  /\ diverged' = diverged \cup {card.store}
  /\ UNCHANGED <<absent, notice, lowRun, reported>>

\* A restart matters to the stores with an open alert or a card on its way.
HRestart(delivered) ==
  /\ Restart(delivered)
  /\ diverged' = diverged \cup InFlight \cup {s \in Store : IsActive(s)}
  /\ lowRun' = [s \in Store |-> NoRun]
  /\ reported' = {}
  /\ UNCHANGED <<absent, notice>>

HNext ==
  \/ HBeginCycle
  \/ ScansAnswered /\ UNCHANGED history
  \/ \E stores \in SUBSET Store : HDetected(stores)
  \/ CycleFails /\ UNCHANGED history
  \/ \E s \in Store : StartRecovery(s) /\ UNCHANGED history
  \/ \E s \in Store, delivered \in BOOLEAN : HEndRecovery(s, delivered)
  \/ \E interval \in {0, ReminderInterval} : RecoveriesDone(interval) /\ UNCHANGED history
  \/ \E s \in Store, ok \in BOOLEAN : HRemind(s, ok)
  \/ RemindersDone /\ UNCHANGED history
  \/ DrillsAnswered /\ UNCHANGED history
  \/ TriageAnswered /\ UNCHANGED history
  \/ \E r \in Report : HHandleReport(r)
  \/ HCardAccepted
  \/ CardRefused /\ UNCHANGED history
  \/ HCardAnswerLost
  \/ ReportsDone /\ UNCHANGED history
  \/ Tick /\ UNCHANGED history
  \/ \E delivered \in SUBSET InFlight : HRestart(delivered)

HSpec == HInit /\ [][HNext]_hvars

-----------------------------------------------------------------------------
(***************************************************************************)
(* Properties.                                                             *)
(***************************************************************************)

\* The state and the history have their types.
HTypeOK == TypeOK /\ HistoryTypeOK

\* A store is closed, and its RESOLVED card posted, only after ClearCycles
\* detection passes in a row that did not correlate it (one, if that is 0), all
\* of them since its alert opened; passes without an answer, other stores and
\* restarts do not count.
RecoveriesAreQuiet == \A s \in ready \cup resolving : absent[s] >= PassesToClear

\* The cycle is behind a detection pass whose answer it got over.
PassHandled == pc \in {"recover", "remind", "drill", "triage", "post"}

\* And no longer than it has to be: in a cycle that got over its detection pass,
\* every open alert that has been absent from so many passes in a row is on its
\* way out.  Cycles that failed before, in front of their pass, behind it or on
\* its answer, cost the store none of its streak; an alert outlives the last pass
\* it had to wait for only if the answer of that pass raised, and then until the
\* next one that does not.
AlertsDoNotLinger ==
  PassHandled => \A s \in Store \ ready : IsActive(s) => absent[s] < PassesToClear

\* The agent and Teams agree about every store, unless an outcome was lost or its
\* RESOLVED card is on its way: a store is open for the agent exactly when Teams
\* shows an alert card about it, and then with the tier and the content recorded.
ChannelAgrees ==
  \A s \in Store \ (diverged \cup resolving) :
    IF IsActive(s)
      THEN shown[s] = Alert(active[s].severity, active[s].signature)
      ELSE shown[s].kind # "alert"

\* No card says what Teams already shows of the store, whatever the LLM's dedup
\* verdict: only where an outcome was lost can a card be posted twice.
NoRepeatedCard ==
  card # None /\ card.store \notin diverged
    => shown[card.store] # Alert(card.severity, card.signature)

\* A reminder comes at least ReminderInterval after the last card or reminder
\* that Teams acknowledged about the store: never right after an escalation,
\* and never on the clock of an earlier incident.
RemindersApart ==
  [][\A s \in Store :
       lastReminder'[s] \notin {lastReminder[s], None}
         => notice[s] # None /\ now - notice[s].at >= ReminderInterval]_hvars

\* The store's card is updated to a lower tier in this step.
Lowered(s) ==
  /\ IsActive(s)
  /\ active'[s] # None
  /\ Rank(active'[s].severity) < Rank(active[s].severity)

\* When the LLM reports once on a store in a cycle, a card goes down a tier only
\* after the lower tier was proposed in HoldCycles different cycles with no other
\* verdict on the store in between.
LoweredOverCycles ==
  [][\A s \in Store : Lowered(s) => lowRun[s].cycles >= HoldCycles]_hvars

\* What src/state.py says of the severity hysteresis: a downgrade persists for
\* DOWNGRADE_HOLD_CYCLES consecutive cycles before it is accepted.
LoweredOverConsecutiveCycles ==
  [][\A s \in Store : Lowered(s) => lowRun[s].row >= HoldCycles]_hvars

\* What src/state.py and the system prompt say of a recovery: the RESOLVED card
\* is posted and the alert is cleared.  Between two cycles, a store this process
\* has recovered, and has not alerted on since, shows RESOLVED.
RecoveredMeansResolved ==
  pc = "idle" =>
    \A s \in Store : ~IsActive(s) /\ recoveredAt[s] # None => shown[s] = Resolved

\* The contract of the channel, with what the observer remembers as its doubts.
View ==
  INSTANCE OperatorView WITH
    AlertCard <- [kind : {"alert"}, severity : Severity, signature : Signature],
    doubtful <- diverged

\* What the operators see: out of doubt no card is repeated, RESOLVED only ever
\* answers an alert, reminders come an interval after the last notice of an
\* alert that is shown, and after a restart nothing but what was on its way.
ImplementsOperatorView == View!Spec

=============================================================================
