----------------------------- MODULE TriageCycle -----------------------------
(***************************************************************************)
(* The poll cycle of the agent, src/main.py: _run_cycle and its callees    *)
(* _send_recovery and _run_all_drills, run again and again by run().       *)
(*                                                                         *)
(* The agent is one asyncio task, so the state changes between two awaits  *)
(* are one action, and everything that may happen during an await (time    *)
(* passes, another recovery of the same gather proceeds, the process dies) *)
(* is an action that can come in between.  pc names the await or the loop  *)
(* the cycle is in.                                                        *)
(*                                                                         *)
(* Environment.  Splunk and the LLM answer or raise; what the LLM answers  *)
(* is any set of correlated stores and any list of reports, whatever the   *)
(* scan rows and previous_alerts it is shown, which is why these are not   *)
(* in the state.  Teams keeps the last card it got about each store        *)
(* (shown); a POST can be accepted, refused, or accepted with its answer   *)
(* lost.  MaxTime bounds the clock.                                        *)
(***************************************************************************)
EXTENDS AlertState

CONSTANTS
  ReminderInterval,  \* the interval of the control file when it is not 0
  MaxTime            \* bound on the clock

ASSUME ReminderAssumption == ReminderInterval \in Nat
ASSUME MaxTimeAssumption  == MaxTime \in Nat

VARIABLES
  pc,         \* where the cycle is
  faulting,   \* the stores of decision.correlate_stores
  ready,      \* recovery specs whose task has not started
  resolving,  \* stores whose RESOLVED card is being posted
  due,        \* reminders of this cycle that are still to be posted
  card,       \* the alert card being posted, None between two reports
  shown       \* Teams: the last card about each store

cycleVars == <<pc, faulting, ready, resolving, due, card>>
vars == <<now, alertVars, cycleVars, shown>>

Phases == {"idle", "scan", "detect", "recover", "remind", "drill", "triage", "post"}

\* What the triage LLM says of a store (one element of triage.reports).
Report ==
  [store : Store, action : {"alert", "no_alert"}, severity : Severity,
   signature : Signature, dedup : {"send", "skip"}]

PendingCard == [store : Store, severity : Severity, signature : Signature]

ASSUME NoPendingCardAssumption == None \notin PendingCard

\* What Teams shows of a store.
NoCard == [kind |-> "none"]
Resolved == [kind |-> "resolved"]
Alert(sev, sig) == [kind |-> "alert", severity |-> sev, signature |-> sig]

CardShown ==
  {NoCard, Resolved} \cup [kind : {"alert"}, severity : Severity, signature : Signature]

CycleTypeOK ==
  /\ pc \in Phases
  /\ faulting \subseteq Store
  /\ ready \subseteq Store
  /\ resolving \subseteq Store
  /\ due \subseteq Store
  /\ card \in PendingCard \cup {None}
  /\ shown \in [Store -> CardShown]

-----------------------------------------------------------------------------
(***************************************************************************)
(* The cycle, one action per stage.                                        *)
(***************************************************************************)

AtRest ==
  /\ pc = "idle"
  /\ faulting = {}
  /\ ready = {}
  /\ resolving = {}
  /\ due = {}
  /\ card = None

Init ==
  /\ now = 0
  /\ EmptyAlertState
  /\ AtRest
  /\ shown = [s \in Store |-> NoCard]

\* The end of a cycle, completed or failed: nothing of it is kept.
EndCycle ==
  /\ pc' = "idle"
  /\ faulting' = {}
  /\ UNCHANGED <<ready, resolving, due, card>>

GoTo(phase) ==
  /\ pc' = phase
  /\ UNCHANGED <<faulting, ready, resolving, due, card>>

\* The poll timer fires and the loop calls poll_once.
BeginCycle ==
  /\ pc = "idle"
  /\ GoTo("scan")
  /\ UNCHANGED <<now, alertVars, shown>>

\* The four scans and the snapshot for the LLM.
ScansAnswered ==
  /\ pc = "scan"
  /\ GoTo("detect")
  /\ UNCHANGED <<now, alertVars, shown>>

\* The detection pass returns and advance_recovery runs on its answer.
Detected(stores) ==
  /\ pc = "detect"
  /\ pc' = "recover"
  /\ faulting' = stores
  /\ AdvanceRecovery(stores)
  /\ ready' = ReadyToRecover(stores)
  /\ UNCHANGED <<now, resolving, due, card, shown>>

\* The detection pass returns and advance_recovery runs on its answer, and then
\* a store among the LLM's recovery_stores that cannot be in a set raises before
\* the gather of the recoveries: the streaks have moved, the specs are lost.
DetectedAndRaised(stores) ==
  /\ pc = "detect"
  /\ EndCycle
  /\ AdvanceRecovery(stores)
  /\ UNCHANGED <<now, shown>>

\* Where the cycle may raise and leave nothing behind but its end: in a scan, a
\* drill or an LLM pass, and once the recoveries are over, when the control file
\* of the reminders cannot be decoded.
MayRaise ==
  \/ pc \in {"scan", "detect", "drill", "triage"}
  \/ pc = "recover" /\ ready = {} /\ resolving = {}

\* Seeded fault: a cycle that fails takes the streaks back to zero.
CycleFailsResettingStreaks ==
  /\ MayRaise
  /\ EndCycle
  /\ clearStreak' = [s \in Store |-> 0]
  /\ UNCHANGED <<now, active, downgrade, recoveredAt, lastReminder, shown>>

\* An exception leaves the cycle: poll.failed, the cycle is over.
CycleFails ==
  /\ MayRaise
  /\ EndCycle
  /\ UNCHANGED <<now, alertVars, shown>>

\* _send_recovery up to its await: the alert is closed, then the card posted.
StartRecovery(s) ==
  /\ pc = "recover"
  /\ s \in ready
  /\ ready' = ready \ {s}
  /\ Clear(s)
  /\ resolving' = IF IsActive(s) THEN resolving \cup {s} ELSE resolving
  /\ UNCHANGED <<now, pc, faulting, due, card, shown>>

\* The POST of a RESOLVED card ends.  Whether it raised changes nothing.
EndRecovery(s, delivered) ==
  /\ pc = "recover"
  /\ s \in resolving
  /\ resolving' = resolving \ {s}
  /\ shown' = IF delivered THEN [shown EXCEPT ![s] = Resolved] ELSE shown
  /\ UNCHANGED <<now, alertVars, pc, faulting, ready, due, card>>

\* The gather of the recoveries is over: the reminders due are looked up,
\* with the interval the control file gives at this moment.
RecoveriesDone(interval) ==
  /\ pc = "recover"
  /\ ready = {}
  /\ resolving = {}
  /\ pc' = "remind"
  /\ due' = DueForReminder(interval)
  /\ UNCHANGED <<now, alertVars, faulting, ready, resolving, card, shown>>

\* One reminder is posted and marked, or its POST raises and it is not.
Remind(s, ok) ==
  /\ pc = "remind"
  /\ s \in due
  /\ due' = due \ {s}
  /\ IF ok THEN MarkReminded(s) ELSE UNCHANGED alertVars
  /\ UNCHANGED <<now, pc, faulting, ready, resolving, card, shown>>

\* The reminders are over; a cycle that correlated nothing is complete.
RemindersDone ==
  /\ pc = "remind"
  /\ due = {}
  /\ IF faulting = {} THEN EndCycle ELSE GoTo("drill")
  /\ UNCHANGED <<now, alertVars, shown>>

DrillsAnswered ==
  /\ pc = "drill"
  /\ GoTo("triage")
  /\ UNCHANGED <<now, alertVars, shown>>

TriageAnswered ==
  /\ pc = "triage"
  /\ GoTo("post")
  /\ UNCHANGED <<now, alertVars, shown>>

-----------------------------------------------------------------------------
(***************************************************************************)
(* The loop over the triage reports.  A report is handled up to the await  *)
(* of its POST; the reports are chosen one by one, which is the same as    *)
(* choosing the list first, since nothing that follows depends on it.      *)
(***************************************************************************)

\* The continue statements before the severity hysteresis.
Suppressed(r) ==
  \/ r.action # "alert"
  \/ Rank(r.severity) < 0
  \/ InCooldown(r.store)

\* The card a report leads to, None when its POST is suppressed.
CardFor(r) ==
  LET severity == EffectiveSeverity(r.store, r.severity)
  IN  IF r.dedup = "send" /\ ~IsUnchanged(r.store, severity, r.signature)
        THEN [store |-> r.store, severity |-> severity, signature |-> r.signature]
        ELSE None

HandleReport(r) ==
  /\ pc = "post"
  /\ card = None
  /\ IF Suppressed(r)
       THEN UNCHANGED <<downgrade, card>>
       ELSE /\ AdvanceDowngrade(r.store, r.severity)
            /\ card' = CardFor(r)
  /\ UNCHANGED <<now, active, recoveredAt, clearStreak, lastReminder, pc,
                 faulting, ready, resolving, due, shown>>

\* Teams takes the pending alert card.
ShowCard ==
  shown' = [shown EXCEPT ![card.store] = Alert(card.severity, card.signature)]

\* Seeded fault: the card is recorded although its POST was refused.
CardRefusedRecorded ==
  /\ card # None
  /\ card' = None
  /\ RecordSent(card.store, card.severity, card.signature)
  /\ UNCHANGED <<now, pc, faulting, ready, resolving, due, shown>>

\* The POST is accepted and record_sent runs.
CardAccepted ==
  /\ card # None
  /\ card' = None
  /\ ShowCard
  /\ RecordSent(card.store, card.severity, card.signature)
  /\ UNCHANGED <<now, pc, faulting, ready, resolving, due>>

\* The POST is refused: card.failed.
CardRefused ==
  /\ card # None
  /\ card' = None
  /\ UNCHANGED <<now, alertVars, pc, faulting, ready, resolving, due, shown>>

\* Teams took the card, but the answer is lost or late: card.failed as well.
CardAnswerLost ==
  /\ card # None
  /\ card' = None
  /\ ShowCard
  /\ UNCHANGED <<now, alertVars, pc, faulting, ready, resolving, due>>

ReportsDone ==
  /\ pc = "post"
  /\ card = None
  /\ EndCycle
  /\ UNCHANGED <<now, alertVars, shown>>

-----------------------------------------------------------------------------
(***************************************************************************)
(* Time and the death of the process.                                      *)
(***************************************************************************)

Tick ==
  /\ now < MaxTime
  /\ now' = now + 1
  /\ UNCHANGED <<alertVars, cycleVars, shown>>

\* What Teams shows if the cards of the stores in delivered arrived although
\* the process that was posting them is gone.
ShownAfterCrash(delivered) ==
  [s \in Store |->
     IF s \notin delivered THEN shown[s]
     ELSE IF s \in resolving THEN Resolved
     ELSE Alert(card.severity, card.signature)]

InFlight == resolving \cup (IF card = None THEN {} ELSE {card.store})

\* The pod is killed or redeployed, or an exception leaves run(): the alert
\* memory is lost, and the history read back at startup does not restore it.
Restart(delivered) ==
  /\ delivered \subseteq InFlight
  /\ shown' = ShownAfterCrash(delivered)
  /\ active' = [s \in Store |-> None]
  /\ downgrade' = [s \in Store |-> NoDowngrade]
  /\ recoveredAt' = [s \in Store |-> None]
  /\ clearStreak' = [s \in Store |-> 0]
  /\ lastReminder' = [s \in Store |-> None]
  /\ pc' = "idle"
  /\ faulting' = {}
  /\ ready' = {}
  /\ resolving' = {}
  /\ due' = {}
  /\ card' = None
  /\ UNCHANGED now

-----------------------------------------------------------------------------
Next ==
  \/ BeginCycle
  \/ ScansAnswered
  \/ \E stores \in SUBSET Store : Detected(stores) \/ DetectedAndRaised(stores)
  \/ CycleFails
  \/ \E s \in Store : StartRecovery(s)
  \/ \E s \in Store, delivered \in BOOLEAN : EndRecovery(s, delivered)
  \/ \E interval \in {0, ReminderInterval} : RecoveriesDone(interval)
  \/ \E s \in Store, ok \in BOOLEAN : Remind(s, ok)
  \/ RemindersDone
  \/ DrillsAnswered
  \/ TriageAnswered
  \/ \E r \in Report : HandleReport(r)
  \/ CardAccepted
  \/ CardRefused
  \/ CardAnswerLost
  \/ ReportsDone
  \/ Tick
  \/ \E delivered \in SUBSET InFlight : Restart(delivered)

Spec == Init /\ [][Next]_vars

(***************************************************************************)
(* Fairness.  The event loop keeps running: an await that ends is followed *)
(* by the code after it (WF).  The rest is about the environment, which    *)
(* the code cannot ensure: a POST ends, and the outages of Splunk and of   *)
(* the LLM end, so that scans and detection passes that are tried again    *)
(* and again answer again and again, with an answer that can be handled    *)
(* (SF).  Nothing is assumed of the drills, of the triage pass, of the     *)
(* reminders or of what any pass says.                                     *)
(***************************************************************************)
Fairness ==
  /\ WF_vars(BeginCycle)
  /\ SF_vars(ScansAnswered)
  /\ SF_vars(\E stores \in SUBSET Store : Detected(stores))
  /\ \A s \in Store : WF_vars(StartRecovery(s))
  /\ \A s \in Store : WF_vars(\E delivered \in BOOLEAN : EndRecovery(s, delivered))
  /\ WF_vars(CycleFails \/ \E interval \in {0, ReminderInterval} : RecoveriesDone(interval))
  /\ \A s \in Store : WF_vars(\E ok \in BOOLEAN : Remind(s, ok))
  /\ WF_vars(RemindersDone)
  /\ WF_vars(CycleFails \/ DrillsAnswered)
  /\ WF_vars(CycleFails \/ TriageAnswered)
  /\ WF_vars(CardAccepted \/ CardRefused \/ CardAnswerLost)
  /\ SF_vars(ReportsDone)

FairSpec == Spec /\ Fairness

-----------------------------------------------------------------------------
(***************************************************************************)
(* Properties.                                                             *)
(***************************************************************************)

\* The state has the types of src/state.py and of the locals of _run_cycle.
TypeOK == AlertTypeOK /\ CycleTypeOK

\* Two incidents of a store are a full cooldown apart: an open alert was first
\* seen at least Cooldown after the store's last recovery, whatever the LLM
\* says in between and however long a POST takes (in_cooldown is asked before
\* the POST, record_sent reads the clock after it).
IncidentsApart ==
  \A s \in Store :
    IsActive(s) /\ recoveredAt[s] # None
      => active[s].firstSeen - recoveredAt[s] >= Cooldown

\* What an incident leaves behind is gone when it is over: a store without an
\* open alert has no clear streak, no pending downgrade and no reminder, so
\* the next incident starts its recovery, its hysteresis and its reminders
\* from nothing.
NothingLeftBehind ==
  \A s \in Store :
    ~IsActive(s) => /\ clearStreak[s] = 0
                    /\ downgrade[s] = NoDowngrade
                    /\ lastReminder[s] = None

\* The agent never believes in an alert the operators have not seen: while a
\* store is open for the agent, the last card Teams has about it is an alert
\* card.  Reminders and RESOLVED cards then always follow one.
NoPhantomAlert == \A s \in Store : IsActive(s) => shown[s].kind = "alert"

\* A detection pass correlates the store.
Correlates(s) ==
  \E stores \in SUBSET Store :
    s \in stores /\ (Detected(stores) \/ DetectedAndRaised(stores))

\* A store that the detection passes stop correlating is closed in the end, though
\* cycles keep failing behind the recoveries, and in front of them time and again:
\* under FairSpec a store is closed or correlated again and again.
QuietStoresClose ==
  \A s \in Store : []<>~IsActive(s) \/ []<><<Correlates(s)>>_vars

\* An open alert as AlertLifecycle sees it: a card's content and two times.
IncidentOf(s) ==
  IF IsActive(s)
    THEN [content   |-> <<active[s].severity, active[s].signature>>,
          firstSeen |-> active[s].firstSeen,
          lastSent  |-> active[s].lastSent]
    ELSE None

ASSUME NoIncidentAssumption ==
  None \notin [content : Severity \X Signature, firstSeen : Time, lastSent : Time]

\* The contract the cycle implements.
Lifecycle ==
  INSTANCE AlertLifecycle WITH
    Content <- Severity \X Signature,
    incident <- [s \in Store |-> IncidentOf(s)],
    closedAt <- recoveredAt

\* The cycle implements AlertLifecycle: incidents open only after the cooldown,
\* change only when a card says something new, keep their first_seen and close.
ImplementsLifecycle == Lifecycle!Spec

=============================================================================
