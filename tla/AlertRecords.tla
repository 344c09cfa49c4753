----------------------------- MODULE AlertRecords -----------------------------
(***************************************************************************)
(* The records of the agent: every report of the triage pass is printed as *)
(* an event, a collector brings the events into Splunk late, in any order, *)
(* or never, and three readers make something of the ones that have come:  *)
(* the history the agent reads back for its prompt and for the recurrence  *)
(* note on its cards, and the two history tools of the chat surface.       *)
(*                                                                         *)
(* A record stands at its position in log; readers return sets of          *)
(* positions.  The cache in front of the readers is SplunkCache, the       *)
(* session and the failures of reading the history are AgentLoop, and the  *)
(* way from a report to a card is TriageCycle.                             *)
(***************************************************************************)
EXTENDS Integers, Sequences, FiniteSets

CONSTANTS
  Store,
  Severity,      \* severities that are reported
  Hours,         \* what a user may give for hours
  Limits,        \* and for limit
  Gaps,          \* and for the gap, from its floor on
  RowLimit,      \* SPLUNK_ROW_LIMIT
  Lookback,      \* history_lookback_hours
  DefaultLimit,  \* the limit of a call that gives none
  MaxReports,    \* bound on the reports of a behaviour
  MaxTime        \* bound on the clock

ASSUME RecordsAssumption ==
  /\ Severity \subseteq {"P1", "P2", "P3", "RESOLVED"}
  /\ Hours \subseteq Nat /\ Limits \subseteq Int /\ Gaps \subseteq Nat
  /\ RowLimit \in Nat \ {0} /\ DefaultLimit \in Int
  /\ Lookback \in Nat /\ MaxReports \in Nat /\ MaxTime \in Nat

VARIABLES
  now,         \* the clock
  log,         \* the reports, in the order they were printed
  indexed,     \* the ones that have come to Splunk
  pc,          \* "idle" between cycles, or "cycle"
  history,     \* startup_history
  taken,       \* when history was read
  recurrence   \* alerts by store, as this cycle counts them

vars == <<now, log, indexed, pc, history, taken, recurrence>>

\* What sev.startswith(("P1", "P2", "P3")) lets through.
Tier == {"P1", "P2", "P3"}

Report ==
  [at : Nat, store : Store, severity : Severity, action : {"alert", "no_alert"}]

TypeOK ==
  /\ now \in 0 .. MaxTime /\ taken \in 0 .. now
  /\ log \in Seq(Report) /\ Len(log) <= MaxReports
  /\ \A i \in DOMAIN log : log[i].at <= now
  /\ indexed \subseteq DOMAIN log
  /\ pc \in {"idle", "cycle"}
  /\ history \subseteq indexed
  /\ recurrence \in [Store -> 0 .. MaxReports]

Init ==
  /\ now = 0
  /\ log = <<>> /\ indexed = {}
  /\ pc = "idle"
  /\ history = {} /\ taken = 0
  /\ recurrence = [s \in Store |-> 0]

-----------------------------------------------------------------------------
(***************************************************************************)
(* get_alert_history.                                                      *)
(***************************************************************************)

Least(m, n) == IF m < n THEN m ELSE n

Clamp(limit) == IF limit > RowLimit THEN RowLimit ELSE IF limit < 1 THEN 1 ELSE limit

\* Seeded fault: reports are read from stdout, before they are in Splunk.
MatchingPrinted(stores, hours) ==
  {i \in DOMAIN log : log[i].store \in stores /\ log[i].at >= now - hours}

\* search ... earliest=-{hours}h
Matching(stores, hours) ==
  {i \in indexed : log[i].store \in stores /\ log[i].at >= now - hours}

\* Seeded fault: sort _time, the oldest first.
OldestOf(S, limit) ==
  {T \in SUBSET S :
    /\ Cardinality(T) = Least(Cardinality(S), limit)
    /\ \A i \in T, j \in S \ T : log[i].at <= log[j].at}

\* sort -_time | head {limit}: which of two equal times comes first is open.
NewestOf(S, limit) ==
  {T \in SUBSET S :
    /\ Cardinality(T) = Least(Cardinality(S), limit)
    /\ \A i \in T, j \in S \ T : log[i].at >= log[j].at}

\* What the tool makes of what Splunk sends.  An answer that is no error and
\* cannot be read either counts as one without rows.
Answers(S, limit) == NewestOf(S, limit) \cup {{}}

\* Seeded fault: only an answer beyond its limit would count as cut.
TruncatedBeyond(rows, limit) == Cardinality(rows) > Clamp(limit)

Truncated(rows, limit) == Cardinality(rows) >= Clamp(limit)

-----------------------------------------------------------------------------
(***************************************************************************)
(* get_alert_summary, at a gap.                                            *)
(***************************************************************************)

AlertsOf(store, hours) ==
  {i \in Matching({store}, hours) : log[i].action = "alert"}

Latest(S) == CHOOSE i \in S : \A j \in S : j <= i

Before(S, i) == {j \in S : j < i}

\* Seeded fault: the silence is measured from the first alert.
OpensFromFirst(S, i, gap) ==
  \/ Before(S, i) = {}
  \/ \A j \in Before(S, i) : Before(S, j) = {} => log[i].at - log[j].at > gap

\* eval new_incident: there is no alert before, or it is too long ago.
Opens(S, i, gap) ==
  Before(S, i) = {} \/ log[i].at - log[Latest(Before(S, i))].at > gap

\* streamstats sum(new_incident)
IncidentSeq(S, i, gap) == Cardinality({j \in S : j <= i /\ Opens(S, j, gap)})

\* _rank
Rank(severity) ==
  CASE severity = "P1" -> 3 [] severity = "P2" -> 2 [] severity = "P3" -> 1 [] OTHER -> 0

\* Seeded fault: the lower rank wins the comparison.
PeakIsLowest(severities) ==
  CHOOSE v \in severities : \A w \in severities : Rank(v) <= Rank(w)

\* _peak
Peak(severities) ==
  CHOOSE v \in severities : \A w \in severities : Rank(v) >= Rank(w)

\* stats ... by store incident_seq
Incident(store, S, seq, gap) ==
  LET cycles == {i \in S : IncidentSeq(S, i, gap) = seq}
      times == {log[i].at : i \in cycles}
  IN  [store |-> store, incident_seq |-> seq,
       peak_severity |-> Peak({log[i].severity : i \in cycles}),
       alert_cycles |-> Cardinality(cycles),
       first_seen |-> CHOOSE t \in times : \A u \in times : t <= u,
       last_seen |-> CHOOSE t \in times : \A u \in times : t >= u]

Incidents(store, hours, gap) ==
  LET S == AlertsOf(store, hours)
  IN  {Incident(store, S, seq, gap) : seq \in {IncidentSeq(S, i, gap) : i \in S}}

\* run_query asks for RowLimit rows and drops the mark of an answer that was
\* cut: any RowLimit of the incidents, as the names of the stores fall; none of
\* them if the answer cannot be read.
SummaryRows(stores, hours, gap) ==
  LET rows == UNION {Incidents(store, hours, gap) : store \in stores}
  IN  {cut \in SUBSET rows : Cardinality(cut) = Least(Cardinality(rows), RowLimit)}
        \cup {{}}

-----------------------------------------------------------------------------
(***************************************************************************)
(* The agent.                                                              *)
(***************************************************************************)

\* _recurrence_summary counts the reports in a tier, whatever their action.
AlertsIn(store) ==
  Cardinality({i \in history : log[i].store = store /\ log[i].severity \in Tier})

BeginCycle ==
  /\ pc = "idle"
  /\ pc' = "cycle"
  /\ recurrence' = [s \in Store |-> AlertsIn(s)]
  /\ UNCHANGED <<now, log, indexed, history, taken>>

\* The loop over the reports prints each before anything is decided on it.
Reported(store, severity, action) ==
  /\ pc = "cycle" /\ Len(log) < MaxReports
  /\ log' = Append(log, [at |-> now, store |-> store,
                         severity |-> severity, action |-> action])
  /\ UNCHANGED <<now, indexed, pc, history, taken, recurrence>>

\* The cycle is done or has failed.
EndCycle ==
  /\ pc = "cycle"
  /\ pc' = "idle"
  /\ UNCHANGED <<now, log, indexed, history, taken, recurrence>>

\* The note on a card of the store.
Recurring(store) == recurrence[store] >= 2

\* Seeded fault: a refresh adds to what the agent has.
RefreshAppends(rows) ==
  /\ pc = "idle"
  /\ rows \in Answers(Matching(Store, Lookback), Clamp(DefaultLimit))
  /\ history' = history \cup rows
  /\ taken' = now
  /\ UNCHANGED <<now, log, indexed, pc, recurrence>>

\* The history is read, at startup or again; a failure keeps what there is, but
\* an answer that could not be read, on the way from Splunk or from the tool,
\* leaves nothing of it.
Refresh(rows) ==
  /\ pc = "idle"
  /\ rows \in Answers(Matching(Store, Lookback), Clamp(DefaultLimit))
  /\ history' = rows
  /\ taken' = now
  /\ UNCHANGED <<now, log, indexed, pc, recurrence>>

\* The process starts anew, and knows nothing before it reads the history.
Restart ==
  /\ pc' = "idle"
  /\ history' = {} /\ taken' = now
  /\ recurrence' = [s \in Store |-> 0]
  /\ UNCHANGED <<now, log, indexed>>

-----------------------------------------------------------------------------
(***************************************************************************)
(* The collector and the clock.                                            *)
(***************************************************************************)
Index(i) ==
  /\ i \in DOMAIN log \ indexed
  /\ indexed' = indexed \cup {i}
  /\ UNCHANGED <<now, log, pc, history, taken, recurrence>>

Tick ==
  /\ now < MaxTime
  /\ now' = now + 1
  /\ UNCHANGED <<log, indexed, pc, history, taken, recurrence>>

Next ==
  \/ BeginCycle \/ EndCycle
  \/ \E store \in Store, severity \in Severity, action \in {"alert", "no_alert"} :
       Reported(store, severity, action)
  \/ \E rows \in SUBSET DOMAIN log : Refresh(rows)
  \/ Restart
  \/ \E i \in DOMAIN log : Index(i)
  \/ Tick

Spec == Init /\ [][Next]_vars

-----------------------------------------------------------------------------
(***************************************************************************)
(* Properties.                                                             *)
(***************************************************************************)

\* A recurrence note never claims more alerts than there were: its count is
\* of different reports of the store in a tier, printed within the window that
\* ended when the history was read, however often it was read since the start.
NoteIsBacked ==
  pc = "cycle" =>
    \A store \in Store : Recurring(store) =>
      recurrence[store] <=
        Cardinality({i \in DOMAIN log :
          /\ log[i].store = store /\ log[i].severity \in Tier
          /\ taken - Lookback <= log[i].at /\ log[i].at <= taken})

\* Reading the history again loses only what has left the window, or what the
\* limit cuts off because that many others are no older; or everything, when the
\* answer was empty or could not be read.
ForgetsOnlyTheOld ==
  [][\A i \in history \ history' :
       \/ history' = {}
       \/ log[i].at < now - Lookback
       \/ /\ Cardinality(history') = Clamp(DefaultLimit)
          /\ \A j \in history' : log[j].at >= log[i].at]_vars

\* Whatever window and limit are asked for, an answer that is not marked
\* truncated is all or nothing: it lacks no report that has come to Splunk and is
\* in the window, or it is empty, as it also is when Splunk's answer could not be
\* read.  A reader may rely on the mark only for an answer that has reports.
CompleteOrTruncated ==
  \A hours \in Hours, limit \in Limits, stores \in {{s} : s \in Store} \cup {Store} :
    \A rows \in Answers(Matching(stores, hours), Clamp(limit)) :
      rows = Matching(stores, hours) \/ rows = {} \/ Truncated(rows, limit)

\* Two incidents of a store are a silence longer than the gap apart, and no
\* such silence lies within one: the next alert comes within the gap until the
\* incident is over.
SplitAtSilence ==
  \A store \in Store, hours \in Hours, gap \in Gaps :
    LET S == AlertsOf(store, hours)
        rows == Incidents(store, hours, gap)
    IN  /\ \A p, q \in rows :
             p.incident_seq < q.incident_seq => q.first_seen - p.last_seen > gap
        /\ \A r \in rows, t \in 0 .. now :
             r.first_seen <= t /\ t < r.last_seen =>
               \E i \in S : t < log[i].at /\ log[i].at <= t + gap

\* A summary that has incidents counts in each as many cycles as there were
\* alerts, and accounts for every alert of the window, in the incident during
\* which it was printed and which is at least that severe; unless it has as many
\* rows as Splunk may return, when incidents are missing.  A summary without
\* incidents says nothing: so does an answer of Splunk that could not be read.
\* In both cases the tool says "truncated": false.
SummaryAddsUp ==
  \A hours \in Hours, gap \in Gaps, stores \in {{s} : s \in Store} \cup {Store} :
    \A rows \in SummaryRows(stores, hours, gap) :
      LET S == UNION {AlertsOf(store, hours) : store \in stores}
          In(i, r) == /\ r.store = log[i].store
                      /\ r.first_seen <= log[i].at /\ log[i].at <= r.last_seen
      IN  /\ \A r \in rows : r.alert_cycles = Cardinality({i \in S : In(i, r)})
          /\ \/ rows = {}
             \/ Cardinality(rows) = RowLimit
             \/ \A i \in S : \E r \in rows :
                  In(i, r) /\ Rank(log[i].severity) <= Rank(r.peak_severity)

=============================================================================
