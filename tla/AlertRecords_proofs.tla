------------------------- MODULE AlertRecords_proofs -------------------------
(***************************************************************************)
(* What holds of the readers of the records for every set of stores, every *)
(* window, limit and gap, and any number of reports.                       *)
(***************************************************************************)
EXTENDS AlertRecords, FiniteSetTheorems, WellFoundedInduction, TLAPS

\* Every action of the module, for the proofs that go through all of them.
LEMMA StepCases ==
  ASSUME [Next]_vars
  PROVE  \/ BeginCycle \/ EndCycle
         \/ \E store \in Store, severity \in Severity, action \in {"alert", "no_alert"} :
              Reported(store, severity, action)
         \/ \E rows \in SUBSET DOMAIN log : Refresh(rows)
         \/ Restart
         \/ \E i \in DOMAIN log : Index(i)
         \/ Tick
         \/ UNCHANGED vars
BY DEF Next

-----------------------------------------------------------------------------
(***************************************************************************)
(* Positions in the log.                                                   *)
(***************************************************************************)

\* Sets of positions are finite, and so are what a cycle counts in them.
LEMMA PositionsFinite ==
  ASSUME TypeOK, NEW S \in SUBSET DOMAIN log
  PROVE  /\ IsFiniteSet(S)
         /\ Cardinality(S) \in 0 .. MaxReports
<1>1. Len(log) \in Nat /\ DOMAIN log = 1 .. Len(log)
  BY DEF TypeOK
<1>2. IsFiniteSet(1 .. Len(log)) /\ Cardinality(1 .. Len(log)) = Len(log)
  BY <1>1, FS_Interval
<1>3. IsFiniteSet(S) /\ Cardinality(S) <= Len(log)
  BY <1>1, <1>2, FS_Subset
<1>4. Cardinality(S) \in Nat
  BY <1>3, FS_CardinalityType
<1> QED
  BY <1>1, <1>3, <1>4, RecordsAssumption DEF TypeOK

\* What is at a position.
LEMMA LogType ==
  ASSUME TypeOK
  PROVE  \A i \in DOMAIN log : log[i] \in Report /\ log[i].at \in Nat
<1>1. \A i \in DOMAIN log : log[i] \in Report
  BY DEF TypeOK
<1> QED
  BY <1>1 DEF Report

\* A limit is at least 1.
LEMMA ClampType ==
  ASSUME NEW limit \in Int
  PROVE  Clamp(limit) \in 1 .. RowLimit
BY RecordsAssumption DEF Clamp

\* The newest of some positions are some of them, all of them unless they are
\* as many as the limit, and none that is left out is newer.
LEMMA Newest ==
  ASSUME TypeOK,
         NEW S \in SUBSET DOMAIN log, NEW limit \in Nat,
         NEW rows \in NewestOf(S, limit)
  PROVE  /\ rows \subseteq S
         /\ rows = S \/ Cardinality(rows) = limit
         /\ \A i \in rows, j \in S \ rows : log[i].at >= log[j].at
<1>1. rows \subseteq S /\ Cardinality(rows) = Least(Cardinality(S), limit)
  BY DEF NewestOf
<1>2. IsFiniteSet(S) /\ Cardinality(S) \in Nat
  BY PositionsFinite
<1>3. Cardinality(rows) = Cardinality(S) => rows = S
  BY <1>1, <1>2, FS_Subset
<1> QED
  BY <1>1, <1>2, <1>3 DEF Least, NewestOf

-----------------------------------------------------------------------------
(***************************************************************************)
(* Types.                                                                  *)
(***************************************************************************)

\* What is printed stays as it is.
LEMMA LogGrows ==
  ASSUME TypeOK, [Next]_vars
  PROVE  /\ DOMAIN log \subseteq DOMAIN log'
         /\ \A i \in DOMAIN log : log'[i] = log[i]
<1>1. CASE UNCHANGED log
  BY <1>1
<1>2. CASE \E store \in Store, severity \in Severity, action \in {"alert", "no_alert"} :
             Reported(store, severity, action)
  BY <1>2 DEF Reported, TypeOK
<1> QED
  BY <1>1, <1>2, StepCases DEF BeginCycle, EndCycle, Refresh, Restart, Index, Tick, vars

LEMMA TypeInitially == Init => TypeOK
BY RecordsAssumption DEF Init, TypeOK

LEMMA TypeStep ==
  ASSUME TypeOK, [Next]_vars
  PROVE  TypeOK'
<1> USE RecordsAssumption
<1>1. CASE BeginCycle
  <2>1. \A s \in Store : AlertsIn(s) \in 0 .. MaxReports
    BY PositionsFinite DEF AlertsIn, TypeOK
  <2> QED
    BY <1>1, <2>1 DEF BeginCycle, TypeOK
<1>2. CASE EndCycle
  BY <1>2 DEF EndCycle, TypeOK
<1>3. ASSUME NEW store \in Store, NEW severity \in Severity,
             NEW action \in {"alert", "no_alert"},
             Reported(store, severity, action)
      PROVE  TypeOK'
  <2> DEFINE report == [at |-> now, store |-> store, severity |-> severity,
                        action |-> action]
  <2>1. report \in Report /\ report.at = now
    BY DEF Report, TypeOK
  <2>2. log' = Append(log, report) /\ now' = now /\ Len(log) < MaxReports
    BY <1>3 DEF Reported
  <2> HIDE DEF report
  <2>3. log' \in Seq(Report) /\ Len(log') = Len(log) + 1
    BY <2>1, <2>2 DEF TypeOK
  <2>4. \A i \in DOMAIN log' : log'[i] = IF i \in DOMAIN log THEN log[i] ELSE report
    BY <2>2 DEF TypeOK
  <2>5. \A i \in DOMAIN log' : log'[i].at <= now'
    BY <2>1, <2>2, <2>4 DEF TypeOK
  <2>6. DOMAIN log \subseteq DOMAIN log'
    BY <2>3 DEF TypeOK
  <2>7. UNCHANGED <<indexed, pc, history, taken, recurrence>>
    BY <1>3 DEF Reported
  <2> QED
    BY <2>2, <2>3, <2>5, <2>6, <2>7 DEF TypeOK
<1>4. ASSUME NEW rows, Refresh(rows)
      PROVE  TypeOK'
  <2>1. rows \subseteq indexed
    BY <1>4 DEF Refresh, Answers, NewestOf, Matching
  <2> QED
    BY <1>4, <2>1 DEF Refresh, TypeOK
<1>5. CASE Restart
  BY <1>5 DEF Restart, TypeOK
<1>6. ASSUME NEW i, Index(i)
      PROVE  TypeOK'
  BY <1>6 DEF Index, TypeOK
<1>7. CASE Tick
  <2>1. log' = log /\ \A i \in DOMAIN log : log[i].at \in Nat /\ log[i].at <= now
    BY <1>7, LogType DEF Tick, TypeOK
  <2>2. \A i \in DOMAIN log' : log'[i].at <= now'
    BY <1>7, <2>1 DEF Tick, TypeOK
  <2> QED
    BY <1>7, <2>2 DEF Tick, TypeOK
<1>8. CASE UNCHANGED vars
  BY <1>8 DEF vars, TypeOK
<1> QED
  BY <1>1, <1>2, <1>3, <1>4, <1>5, <1>6, <1>7, <1>8, StepCases

\* The log, what of it is in Splunk and what the agent made of it have their
\* types, and no reader knows of a report that Splunk does not.
THEOREM TypeCorrect == Spec => []TypeOK
BY TypeInitially, TypeStep, PTL DEF Spec

-----------------------------------------------------------------------------
(***************************************************************************)
(* The recurrence note.                                                    *)
(***************************************************************************)

\* The reports of a store in a tier within the window that ended at a time.
InWindow(store, time) ==
  {i \in DOMAIN log :
     /\ log[i].store = store /\ log[i].severity \in Tier
     /\ time - Lookback <= log[i].at /\ log[i].at <= time}

\* The history was in its window when it was read, and while a cycle runs it is
\* the one that the cycle counted.
HistoryInv ==
  /\ \A i \in history : taken - Lookback <= log[i].at /\ log[i].at <= taken
  /\ pc = "cycle" => \A s \in Store : recurrence[s] = AlertsIn(s)

LEMMA HistoryInitially == Init => HistoryInv
BY DEF Init, HistoryInv

LEMMA HistoryStep ==
  ASSUME TypeOK, HistoryInv, [Next]_vars
  PROVE  HistoryInv'
<1> USE RecordsAssumption
<1>1. CASE BeginCycle
  <2>1. UNCHANGED <<log, history, taken>>
    BY <1>1 DEF BeginCycle
  <2>2. \A s \in Store : recurrence'[s] = AlertsIn(s)
    BY <1>1 DEF BeginCycle
  <2>3. \A s \in Store : AlertsIn(s)' = AlertsIn(s)
    BY <2>1 DEF AlertsIn
  <2> QED
    BY <2>1, <2>2, <2>3 DEF HistoryInv
<1>2. CASE EndCycle
  BY <1>2 DEF EndCycle, HistoryInv
<1>3. ASSUME NEW store \in Store, NEW severity \in Severity,
             NEW action \in {"alert", "no_alert"},
             Reported(store, severity, action)
      PROVE  HistoryInv'
  <2>1. UNCHANGED <<pc, history, taken, recurrence>>
    BY <1>3 DEF Reported
  <2>2. \A i \in history : log'[i] = log[i]
    BY LogGrows DEF TypeOK
  <2>3. \A s \in Store : AlertsIn(s)' = AlertsIn(s)
    <3> SUFFICES ASSUME NEW s \in Store
                 PROVE  AlertsIn(s)' = AlertsIn(s)
      OBVIOUS
    <3>1. {i \in history' : log'[i].store = s /\ log'[i].severity \in Tier}
            = {i \in history : log[i].store = s /\ log[i].severity \in Tier}
      BY <2>1, <2>2
    <3> QED
      BY <3>1 DEF AlertsIn
  <2> QED
    BY <2>1, <2>2, <2>3 DEF HistoryInv
<1>4. ASSUME NEW rows, Refresh(rows)
      PROVE  HistoryInv'
  <2>1. rows \subseteq Matching(Store, Lookback)
    BY <1>4 DEF Refresh, Answers, NewestOf
  <2>2. history' = rows /\ taken' = now /\ log' = log /\ pc' = "idle"
    BY <1>4 DEF Refresh
  <2>3. \A i \in rows : now - Lookback <= log[i].at /\ log[i].at <= now
    BY <2>1 DEF Matching, TypeOK
  <2> QED
    BY <2>2, <2>3 DEF HistoryInv
<1>5. CASE Restart
  BY <1>5 DEF Restart, HistoryInv
<1>6. CASE \E i \in DOMAIN log : Index(i)
  <2>1. UNCHANGED <<log, pc, history, taken, recurrence>>
    BY <1>6 DEF Index
  <2> QED
    BY <2>1 DEF HistoryInv, AlertsIn
<1>7. CASE Tick
  <2>1. UNCHANGED <<log, pc, history, taken, recurrence>>
    BY <1>7 DEF Tick
  <2> QED
    BY <2>1 DEF HistoryInv, AlertsIn
<1>8. CASE UNCHANGED vars
  BY <1>8 DEF vars, HistoryInv, AlertsIn
<1> QED
  BY <1>1, <1>2, <1>3, <1>4, <1>5, <1>6, <1>7, <1>8, StepCases

LEMMA CountsAreBacked ==
  ASSUME TypeOK, HistoryInv
  PROVE  NoteIsBacked
<1> SUFFICES ASSUME pc = "cycle", NEW store \in Store
             PROVE  recurrence[store] <= Cardinality(InWindow(store, taken))
  BY DEF NoteIsBacked, InWindow
<1> DEFINE counted == {i \in history : log[i].store = store /\ log[i].severity \in Tier}
<1>1. recurrence[store] = Cardinality(counted)
  BY DEF HistoryInv, AlertsIn
<1>2. counted \subseteq InWindow(store, taken)
  BY DEF HistoryInv, InWindow, TypeOK
<1>3. IsFiniteSet(InWindow(store, taken))
  BY PositionsFinite DEF InWindow
<1> HIDE DEF counted
<1> QED
  BY <1>1, <1>2, <1>3, FS_Subset

\* For any window, limit and number of reports, whatever comes late or never
\* and however long the last reading of the history is ago, a recurrence note
\* claims no more alerts than were reported in the window it was read for.
THEOREM NotesAreBacked == Spec => []NoteIsBacked
<1>1. Init => TypeOK /\ HistoryInv
  BY TypeInitially, HistoryInitially
<1>2. TypeOK /\ HistoryInv /\ [Next]_vars => TypeOK' /\ HistoryInv'
  BY TypeStep, HistoryStep
<1>3. TypeOK /\ HistoryInv => NoteIsBacked
  BY CountsAreBacked
<1> QED
  BY <1>1, <1>2, <1>3, PTL DEF Spec

-----------------------------------------------------------------------------
(***************************************************************************)
(* What the readers leave out.                                             *)
(***************************************************************************)

\* What a step takes out of the history.
OnlyTheOld ==
  \A i \in history \ history' :
    \/ history' = {}
    \/ log[i].at < now - Lookback
    \/ /\ Cardinality(history') = Clamp(DefaultLimit)
       /\ \A j \in history' : log[j].at >= log[i].at

LEMMA RefreshForgets ==
  ASSUME TypeOK, NEW rows, Refresh(rows)
  PROVE  OnlyTheOld
<1> DEFINE matching == Matching(Store, Lookback)
<1>1. matching \in SUBSET DOMAIN log
  BY DEF Matching, TypeOK
<1>2. Clamp(DefaultLimit) \in Nat
  BY ClampType, RecordsAssumption
<1>3. /\ rows = {} \/ rows \in NewestOf(matching, Clamp(DefaultLimit))
      /\ history' = rows
  BY DEF Refresh, Answers
<1> USE DEF OnlyTheOld
<1> SUFFICES ASSUME rows # {}
             PROVE  OnlyTheOld
  BY <1>3
<1>4. /\ rows = matching \/ Cardinality(rows) = Clamp(DefaultLimit)
      /\ \A i \in rows, j \in matching \ rows : log[i].at >= log[j].at
  BY <1>1, <1>2, <1>3, Newest
<1> SUFFICES ASSUME NEW i \in history \ rows, ~(log[i].at < now - Lookback)
             PROVE  /\ Cardinality(rows) = Clamp(DefaultLimit)
                    /\ \A j \in rows : log[j].at >= log[i].at
  BY <1>3
<1>5. log[i].store \in Store /\ log[i].at >= now - Lookback
  BY LogType, RecordsAssumption DEF TypeOK, Report
<1>6. i \in matching
  BY <1>5 DEF Matching, TypeOK
<1> QED
  BY <1>4, <1>6

\* Whatever happens between two readings, the agent loses a report it knew of
\* only to age, to its limit or to a restart.
THEOREM TheOldIsForgotten == Spec => ForgetsOnlyTheOld
<1>1. TypeOK /\ [Next]_vars => OnlyTheOld
  <2> SUFFICES ASSUME TypeOK, [Next]_vars
               PROVE  OnlyTheOld
    OBVIOUS
  <2>1. CASE \E rows \in SUBSET DOMAIN log : Refresh(rows)
    BY <2>1, RefreshForgets
  <2>2. CASE Restart
    BY <2>2 DEF Restart, OnlyTheOld
  <2>3. CASE UNCHANGED history
    BY <2>3 DEF OnlyTheOld
  <2> QED
    BY <2>1, <2>2, <2>3, StepCases DEF BeginCycle, EndCycle, Reported, Index, Tick, vars
<1>2. TypeOK /\ [Next]_vars => [OnlyTheOld]_vars
  BY <1>1
<1>3. Spec => [][OnlyTheOld]_vars
  BY <1>2, TypeCorrect, PTL DEF Spec
<1>4. ForgetsOnlyTheOld <=> [][OnlyTheOld]_vars
  BY DEF ForgetsOnlyTheOld, OnlyTheOld
<1> QED
  BY <1>3, <1>4

LEMMA CutIsMarked == TypeOK => CompleteOrTruncated
<1> SUFFICES ASSUME TypeOK, NEW hours \in Hours, NEW limit \in Limits,
                    NEW stores,
                    NEW rows \in NewestOf(Matching(stores, hours), Clamp(limit))
             PROVE  rows = Matching(stores, hours) \/ Truncated(rows, limit)
  BY DEF CompleteOrTruncated, Answers
<1>1. Matching(stores, hours) \in SUBSET DOMAIN log
  BY DEF Matching, TypeOK
<1>2. Clamp(limit) \in Nat
  BY ClampType, RecordsAssumption
<1>3. rows = Matching(stores, hours) \/ Cardinality(rows) = Clamp(limit)
  BY <1>1, <1>2, Newest
<1> QED
  BY <1>2, <1>3 DEF Truncated

\* For any window, limit and number of reports, an answer that has reports and
\* lacks one says so.
THEOREM CutsAreMarked == Spec => []CompleteOrTruncated
<1>1. TypeOK => CompleteOrTruncated
  BY CutIsMarked
<1> QED
  BY <1>1, TypeCorrect, PTL

-----------------------------------------------------------------------------
(***************************************************************************)
(* Finite sets of positions have a first and a last element.               *)
(***************************************************************************)

LEMMA LastExists ==
  ASSUME NEW S \in SUBSET Nat, IsFiniteSet(S), S # {}
  PROVE  \E i \in S : \A j \in S : j <= i
<1> DEFINE Above(i) == {j \in S : i < j}
           T == {Above(i) : i \in S}
           Smaller == StrictSubsetOrdering(S)
<1>1. IsWellFoundedOn(Smaller, SUBSET S)
  BY FS_StrictSubsetOrderingWellFounded, FS_FiniteSubsetsOfFinite
<1>2. T \subseteq SUBSET S /\ T # {}
  OBVIOUS
<1> HIDE DEF Smaller
<1>3. PICK x \in T : \A y \in T : ~(<<y, x>> \in Smaller)
  <2> HIDE DEF T
  <2> QED
    BY <1>1, <1>2, WFMin
<1>4. PICK i \in S : x = Above(i)
  BY <1>3
<1>5. \A j \in S : j <= i
  <2> SUFFICES ASSUME NEW j \in S, i < j
               PROVE  FALSE
    BY <1>4
  <2>1. j \in Above(i) /\ j \notin Above(j)
    OBVIOUS
  <2>2. Above(j) \subseteq Above(i)
    <3>1. \A m \in S : j < m => i < m
      BY <1>4
    <3> QED
      BY <3>1
  <2>3. <<Above(j), Above(i)>> \in Smaller
    BY <2>1, <2>2 DEF Smaller, StrictSubsetOrdering
  <2> QED
    BY <1>3, <1>4, <2>3
<1> QED
  BY <1>5

LEMMA FirstExists ==
  ASSUME NEW S \in SUBSET Nat, IsFiniteSet(S), S # {}
  PROVE  \E i \in S : \A j \in S : i <= j
<1> DEFINE Below(i) == {j \in S : j < i}
           T == {Below(i) : i \in S}
           Smaller == StrictSubsetOrdering(S)
<1>1. IsWellFoundedOn(Smaller, SUBSET S)
  BY FS_StrictSubsetOrderingWellFounded, FS_FiniteSubsetsOfFinite
<1>2. T \subseteq SUBSET S /\ T # {}
  OBVIOUS
<1> HIDE DEF Smaller
<1>3. PICK x \in T : \A y \in T : ~(<<y, x>> \in Smaller)
  <2> HIDE DEF T
  <2> QED
    BY <1>1, <1>2, WFMin
<1>4. PICK i \in S : x = Below(i)
  BY <1>3
<1>5. \A j \in S : i <= j
  <2> SUFFICES ASSUME NEW j \in S, j < i
               PROVE  FALSE
    BY <1>4
  <2>1. j \in Below(i) /\ j \notin Below(j)
    OBVIOUS
  <2>2. Below(j) \subseteq Below(i)
    <3>1. \A m \in S : m < j => m < i
      BY <1>4
    <3> QED
      BY <3>1
  <2>3. <<Below(j), Below(i)>> \in Smaller
    BY <2>1, <2>2 DEF Smaller, StrictSubsetOrdering
  <2> QED
    BY <1>3, <1>4, <2>3
<1> QED
  BY <1>5

-----------------------------------------------------------------------------
(***************************************************************************)
(* Incidents.                                                              *)
(***************************************************************************)

\* Reports are printed in the order of their times.
LogInOrder == \A i, j \in DOMAIN log : i <= j => log[i].at <= log[j].at

LEMMA OrderInitially == Init => LogInOrder
BY DEF Init, LogInOrder

LEMMA OrderStep ==
  ASSUME TypeOK, LogInOrder, [Next]_vars
  PROVE  LogInOrder'
<1>1. CASE UNCHANGED log
  BY <1>1 DEF LogInOrder
<1>2. ASSUME NEW store \in Store, NEW severity \in Severity,
             NEW action \in {"alert", "no_alert"},
             Reported(store, severity, action)
      PROVE  LogInOrder'
  <2> DEFINE report == [at |-> now, store |-> store, severity |-> severity,
                        action |-> action]
  <2>1. log' = Append(log, report) /\ report.at = now
    BY <1>2 DEF Reported
  <2> HIDE DEF report
  <2>2. \A i \in DOMAIN log' : log'[i] = IF i \in DOMAIN log THEN log[i] ELSE report
    BY <2>1 DEF TypeOK
  <2>3. \A i, j \in DOMAIN log' : i <= j /\ j \in DOMAIN log => i \in DOMAIN log
    BY <2>1 DEF TypeOK
  <2>4. \A i \in DOMAIN log : log[i].at <= now
    BY DEF TypeOK
  <2>5. now <= now
    BY DEF TypeOK
  <2> QED
    BY <2>1, <2>2, <2>3, <2>4, <2>5 DEF LogInOrder
<1> QED
  BY <1>1, <1>2, StepCases DEF BeginCycle, EndCycle, Refresh, Restart, Index, Tick, vars

\* The alerts of a store up to i that open an incident.
Opening(S, i, gap) == {j \in S : j <= i /\ Opens(S, j, gap)}

LEMMA SeqMonotone ==
  ASSUME TypeOK, NEW S \in SUBSET DOMAIN log, NEW gap,
         NEW i \in S, NEW j \in S
  PROVE  /\ IncidentSeq(S, i, gap) \in Nat
         /\ i <= j => IncidentSeq(S, i, gap) <= IncidentSeq(S, j, gap)
<1>1. /\ Opening(S, i, gap) \in SUBSET DOMAIN log
      /\ Opening(S, j, gap) \in SUBSET DOMAIN log
  BY DEF Opening
<1>2. /\ IsFiniteSet(Opening(S, j, gap))
      /\ Cardinality(Opening(S, i, gap)) \in Nat
  BY <1>1, PositionsFinite
<1>3. i <= j => Opening(S, i, gap) \subseteq Opening(S, j, gap)
  BY DEF TypeOK, Opening
<1>4. i <= j => Cardinality(Opening(S, i, gap)) <= Cardinality(Opening(S, j, gap))
  BY <1>2, <1>3, FS_Subset
<1> QED
  BY <1>2, <1>4 DEF IncidentSeq, Opening

\* Of two alerts, the one of the later incident comes later, and one that opens
\* an incident lies between.
LEMMA SeqRises ==
  ASSUME TypeOK, NEW S \in SUBSET DOMAIN log, NEW gap,
         NEW i \in S, NEW j \in S
  PROVE  IncidentSeq(S, i, gap) < IncidentSeq(S, j, gap)
           <=> \E k \in S : i < k /\ k <= j /\ Opens(S, k, gap)
<1> DEFINE seq(n) == IncidentSeq(S, n, gap)
<1>1. DOMAIN log \subseteq Nat
  BY DEF TypeOK
<1>2. /\ Opening(S, i, gap) \in SUBSET DOMAIN log
      /\ Opening(S, j, gap) \in SUBSET DOMAIN log
  BY DEF Opening
<1>3. /\ IsFiniteSet(Opening(S, i, gap)) /\ IsFiniteSet(Opening(S, j, gap))
      /\ Cardinality(Opening(S, i, gap)) \in Nat
      /\ Cardinality(Opening(S, j, gap)) \in Nat
  BY <1>2, PositionsFinite
<1>4. seq(i) = Cardinality(Opening(S, i, gap)) /\ seq(j) = Cardinality(Opening(S, j, gap))
  BY DEF IncidentSeq, Opening
<1>5. ASSUME \A k \in S : i < k /\ k <= j => ~Opens(S, k, gap)
      PROVE  seq(j) <= seq(i)
  <2>1. Opening(S, j, gap) \subseteq Opening(S, i, gap)
    BY <1>1, <1>5 DEF Opening
  <2> QED
    BY <1>3, <1>4, <2>1, FS_Subset
<1>6. ASSUME NEW k \in S, i < k, k <= j, Opens(S, k, gap)
      PROVE  seq(i) < seq(j)
  <2>1. Opening(S, i, gap) \subseteq Opening(S, j, gap)
    BY <1>1, <1>6 DEF Opening
  <2>2. k \in Opening(S, j, gap) /\ k \notin Opening(S, i, gap)
    BY <1>1, <1>6 DEF Opening
  <2>3. /\ Cardinality(Opening(S, i, gap)) <= Cardinality(Opening(S, j, gap))
        /\ Cardinality(Opening(S, i, gap)) # Cardinality(Opening(S, j, gap))
    BY <1>3, <2>1, <2>2, FS_Subset
  <2> QED
    BY <1>3, <1>4, <2>3
<1>7. seq(i) \in Nat /\ seq(j) \in Nat
  BY <1>3, <1>4
<1> HIDE DEF seq
<1>8. seq(i) < seq(j) <=> \E k \in S : i < k /\ k <= j /\ Opens(S, k, gap)
  BY <1>5, <1>6, <1>7
<1> QED
  BY <1>8 DEF seq

\* What comes before an opening alert comes a silence before it, and what
\* does not open an incident follows another alert within the gap.
LEMMA OpensAfterSilence ==
  ASSUME TypeOK, LogInOrder,
         NEW S \in SUBSET DOMAIN log, NEW gap \in Nat,
         NEW k \in S, NEW i \in S, i < k
  PROVE  /\ Opens(S, k, gap) => log[k].at - log[i].at > gap
         /\ ~Opens(S, k, gap) => \E j \in S : j < k /\ log[k].at - log[j].at <= gap
<1> DEFINE latest == Latest(Before(S, k))
<1>1. DOMAIN log \subseteq Nat
  BY DEF TypeOK
<1>2. i \in Before(S, k) /\ Before(S, k) \subseteq S
  BY DEF Before
<1>3. IsFiniteSet(Before(S, k))
  BY <1>2, PositionsFinite
<1>4. latest \in Before(S, k) /\ i <= latest
  <2>1. \E n \in Before(S, k) : \A m \in Before(S, k) : m <= n
    BY <1>1, <1>2, <1>3, LastExists
  <2> QED
    BY <1>2, <2>1 DEF Latest
<1>5. latest \in S /\ latest < k
  BY <1>4 DEF Before
<1> HIDE DEF latest
<1>6. /\ log[k].at \in Nat /\ log[i].at \in Nat /\ log[latest].at \in Nat
      /\ log[i].at <= log[latest].at
  BY <1>4, <1>5, LogType DEF LogInOrder
<1>7. Opens(S, k, gap) <=> log[k].at - log[latest].at > gap
  BY <1>2 DEF Opens, latest
<1> QED
  BY <1>5, <1>6, <1>7

\* A row of a summary gives the first and the last alert of its incident.
LEMMA RowSpans ==
  ASSUME TypeOK, LogInOrder,
         NEW S \in SUBSET DOMAIN log, NEW gap, NEW store, NEW e \in S
  PROVE  LET r == Incident(store, S, IncidentSeq(S, e, gap), gap)
         IN  \E f, l \in S :
               /\ IncidentSeq(S, f, gap) = r.incident_seq
               /\ IncidentSeq(S, l, gap) = r.incident_seq
               /\ r.first_seen = log[f].at /\ r.last_seen = log[l].at
               /\ \A i \in S : IncidentSeq(S, i, gap) = r.incident_seq =>
                    r.first_seen <= log[i].at /\ log[i].at <= r.last_seen
<1> DEFINE seq == IncidentSeq(S, e, gap)
           cycles == {i \in S : IncidentSeq(S, i, gap) = seq}
           times == {log[i].at : i \in cycles}
           r == Incident(store, S, seq, gap)
<1>1. /\ cycles \in SUBSET Nat /\ cycles \in SUBSET DOMAIN log
      /\ cycles # {}
  BY DEF TypeOK
<1>2. IsFiniteSet(cycles)
  BY <1>1, PositionsFinite
<1>3. /\ r.incident_seq = seq
      /\ r.first_seen = CHOOSE t \in times : \A u \in times : t <= u
      /\ r.last_seen = CHOOSE t \in times : \A u \in times : t >= u
  BY DEF Incident
<1> HIDE DEF r, cycles
<1>4. \E t \in times : \A u \in times : t <= u
  <2>1. PICK f \in cycles : \A j \in cycles : f <= j
    BY <1>1, <1>2, FirstExists
  <2>2. \A j \in cycles : log[f].at <= log[j].at
    BY <1>1, <2>1 DEF LogInOrder
  <2> QED
    BY <2>1, <2>2
<1>5. \E t \in times : \A u \in times : t >= u
  <2>1. PICK l \in cycles : \A j \in cycles : j <= l
    BY <1>1, <1>2, LastExists
  <2>2. \A j \in cycles : log[j].at <= log[l].at
    BY <1>1, <2>1 DEF LogInOrder
  <2>3. \A j \in cycles : log[l].at >= log[j].at
    BY <1>1, <2>1, <2>2, LogType
  <2> QED
    BY <2>1, <2>3
<1>6. r.first_seen \in times /\ \A u \in times : r.first_seen <= u
  BY <1>3, <1>4
<1>7. r.last_seen \in times /\ \A u \in times : r.last_seen >= u
  BY <1>3, <1>5
<1>8. PICK f \in cycles : r.first_seen = log[f].at
  BY <1>6
<1>9. PICK l \in cycles : r.last_seen = log[l].at
  BY <1>7
<1>10. \A i \in cycles : r.first_seen <= log[i].at /\ log[i].at <= r.last_seen
  BY <1>1, <1>6, <1>7, <1>9, LogType
<1>11. \A i : i \in cycles <=> i \in S /\ IncidentSeq(S, i, gap) = seq
  BY DEF cycles
<1> QED
  BY <1>3, <1>8, <1>9, <1>10, <1>11 DEF r

\* Two incidents are a silence apart, and none lies within one.
LEMMA RowsSplit ==
  ASSUME TypeOK, LogInOrder,
         NEW store, NEW hours, NEW gap \in Nat
  PROVE  LET S == AlertsOf(store, hours)
             rows == Incidents(store, hours, gap)
         IN  /\ \A p, q \in rows :
                  p.incident_seq < q.incident_seq => q.first_seen - p.last_seen > gap
             /\ \A r \in rows, t \in 0 .. now :
                  r.first_seen <= t /\ t < r.last_seen =>
                    \E i \in S : t < log[i].at /\ log[i].at <= t + gap
<1> DEFINE S == AlertsOf(store, hours)
           rows == Incidents(store, hours, gap)
           seq(i) == IncidentSeq(S, i, gap)
<1>1. S \in SUBSET DOMAIN log /\ S \in SUBSET Nat
  BY DEF AlertsOf, Matching, TypeOK
<1>2. \A r \in rows : \E e \in S : r = Incident(store, S, seq(e), gap)
  BY DEF Incidents
<1> HIDE DEF S, rows
<1>3. \A r \in rows : \E f, l \in S :
        /\ seq(f) = r.incident_seq /\ seq(l) = r.incident_seq
        /\ r.first_seen = log[f].at /\ r.last_seen = log[l].at
  BY <1>1, <1>2, RowSpans
<1>4. \A i \in S : log[i].at \in Nat
  BY <1>1, LogType
<1>5. \A i, j \in S : i <= j => log[i].at <= log[j].at
  BY <1>1 DEF LogInOrder
<1>6. \A i, j \in S : seq(i) < seq(j) <=> \E k \in S : i < k /\ k <= j /\ Opens(S, k, gap)
  BY <1>1, SeqRises
<1>7. \A i, j \in S : seq(i) \in Nat /\ seq(j) \in Nat
  BY <1>1, SeqMonotone
<1> HIDE DEF seq
<1>8. ASSUME NEW p \in rows, NEW q \in rows, p.incident_seq < q.incident_seq
      PROVE  q.first_seen - p.last_seen > gap
  <2>1. PICK l \in S : seq(l) = p.incident_seq /\ p.last_seen = log[l].at
    BY <1>3
  <2>2. PICK f \in S : seq(f) = q.incident_seq /\ q.first_seen = log[f].at
    BY <1>3
  <2>3. PICK k \in S : l < k /\ k <= f /\ Opens(S, k, gap)
    BY <1>6, <1>8, <2>1, <2>2
  <2>4. log[k].at - log[l].at > gap
    BY <1>1, <2>1, <2>3, OpensAfterSilence
  <2>5. log[k].at <= log[f].at
    BY <1>5, <2>2, <2>3
  <2> QED
    BY <1>4, <2>1, <2>2, <2>3, <2>4, <2>5
<1>9. ASSUME NEW r \in rows, NEW t \in 0 .. now, r.first_seen <= t, t < r.last_seen
      PROVE  \E i \in S : t < log[i].at /\ log[i].at <= t + gap
  <2> DEFINE later == {i \in S : t < log[i].at}
  <2>1. PICK f \in S, l \in S :
          /\ seq(f) = r.incident_seq /\ seq(l) = r.incident_seq
          /\ r.first_seen = log[f].at /\ r.last_seen = log[l].at
    BY <1>3
  <2>2. l \in later /\ later \in SUBSET Nat /\ later \in SUBSET DOMAIN log
    BY <1>1, <1>9, <2>1
  <2>3. IsFiniteSet(later)
    BY <2>2, PositionsFinite
  <2>4. PICK i \in later : \A j \in later : i <= j
    <3> HIDE DEF later
    <3> QED
      BY <2>2, <2>3, FirstExists
  <2>5. i \in S /\ t < log[i].at /\ i <= l
    BY <2>2, <2>4
  <2>6. t \in Int
    OBVIOUS
  <2>7. f < i
    <3>1. i \in Nat /\ f \in Nat /\ log[i].at \in Nat /\ log[f].at \in Nat
      BY <1>1, <1>4, <2>1, <2>5
    <3>2. i <= f => log[i].at <= log[f].at
      BY <1>5, <2>1, <2>5
    <3>3. log[f].at <= t
      BY <1>9, <2>1
    <3> QED
      BY <2>5, <2>6, <3>1, <3>2, <3>3
  <2>8. ~Opens(S, i, gap)
    <3>1. ~(seq(f) < seq(l))
      BY <1>7, <2>1
    <3> QED
      BY <1>6, <2>1, <2>5, <2>7, <3>1
  <2>9. PICK j \in S : j < i /\ log[i].at - log[j].at <= gap
    BY <1>1, <2>1, <2>5, <2>7, <2>8, OpensAfterSilence
  <2>10. log[j].at <= t
    <3>1. j \in later => i <= j
      BY <2>4
    <3>2. i \in Nat /\ j \in Nat /\ log[j].at \in Nat
      BY <1>1, <1>4, <2>5, <2>9
    <3> QED
      BY <2>6, <2>9, <3>1, <3>2
  <2>11. log[i].at <= t + gap
    BY <1>4, <2>5, <2>6, <2>9, <2>10
  <2> QED
    BY <2>5, <2>11
<1> QED
  BY <1>8, <1>9 DEF S, rows

\* For any gap, window and number of reports, the query of a summary cuts the
\* alerts of a store exactly at the silences that are longer than the gap.
THEOREM IncidentsSplitAtSilence == Spec => []SplitAtSilence
<1>1. Init => TypeOK /\ LogInOrder
  BY TypeInitially, OrderInitially
<1>2. TypeOK /\ LogInOrder /\ [Next]_vars => TypeOK' /\ LogInOrder'
  BY TypeStep, OrderStep
<1>3. TypeOK /\ LogInOrder => SplitAtSilence
  BY RowsSplit, RecordsAssumption DEF SplitAtSilence
<1> QED
  BY <1>1, <1>2, <1>3, PTL DEF Spec

-----------------------------------------------------------------------------
(***************************************************************************)
(* What a summary accounts for.                                            *)
(***************************************************************************)

\* No severity outranks the peak.
LEMMA PeakOutranks ==
  ASSUME NEW V \in SUBSET Severity, V # {}
  PROVE  \A v \in V : Rank(v) <= Rank(Peak(V))
<1>1. \A v : Rank(v) \in 0 .. 3
  BY DEF Rank
<1> DEFINE Most(v) == \A w \in V : Rank(v) >= Rank(w)
<1>2. \E v \in V : Most(v)
  <2>1. CASE \E v \in V : Rank(v) = 3
    BY <1>1, <2>1
  <2>2. CASE (\A v \in V : Rank(v) # 3) /\ \E v \in V : Rank(v) = 2
    BY <1>1, <2>2
  <2>3. CASE (\A v \in V : Rank(v) \notin {2, 3}) /\ \E v \in V : Rank(v) = 1
    BY <1>1, <2>3
  <2>4. CASE \A v \in V : Rank(v) \notin {1, 2, 3}
    BY <1>1, <2>4
  <2> QED
    BY <2>1, <2>2, <2>3, <2>4
<1>3. Most(Peak(V))
  BY <1>2 DEF Peak
<1> QED
  BY <1>1, <1>3

\* An alert of the store is of an incident exactly when it is within its span.
LEMMA SpanIsIncident ==
  ASSUME TypeOK, LogInOrder,
         NEW S \in SUBSET DOMAIN log, NEW gap \in Nat, NEW store, NEW e \in S,
         NEW i \in S
  PROVE  LET r == Incident(store, S, IncidentSeq(S, e, gap), gap)
         IN  IncidentSeq(S, i, gap) = r.incident_seq
               <=> r.first_seen <= log[i].at /\ log[i].at <= r.last_seen
<1> DEFINE r == Incident(store, S, IncidentSeq(S, e, gap), gap)
           seq(n) == IncidentSeq(S, n, gap)
<1>1. PICK f \in S, l \in S :
        /\ seq(f) = r.incident_seq /\ seq(l) = r.incident_seq
        /\ r.first_seen = log[f].at /\ r.last_seen = log[l].at
        /\ seq(i) = r.incident_seq =>
             r.first_seen <= log[i].at /\ log[i].at <= r.last_seen
  BY RowSpans
<1>2. \A m, n \in S : seq(m) < seq(n) => log[n].at - log[m].at > gap
  <2> SUFFICES ASSUME NEW m \in S, NEW n \in S, seq(m) < seq(n)
               PROVE  log[n].at - log[m].at > gap
    OBVIOUS
  <2>1. PICK k \in S : m < k /\ k <= n /\ Opens(S, k, gap)
    BY SeqRises
  <2>2. log[k].at - log[m].at > gap
    BY <2>1, OpensAfterSilence
  <2>3. log[k].at <= log[n].at
    BY <2>1 DEF LogInOrder
  <2> QED
    BY <2>2, <2>3, LogType
<1>3. seq(i) \in Nat /\ seq(f) \in Nat /\ seq(l) \in Nat
  BY SeqMonotone
<1>4. log[i].at \in Nat /\ log[f].at \in Nat /\ log[l].at \in Nat
  BY LogType
<1> HIDE DEF r, seq
<1>5. ASSUME r.first_seen <= log[i].at, log[i].at <= r.last_seen
      PROVE  seq(i) = r.incident_seq
  <2>1. ~(seq(i) < seq(f))
    BY <1>1, <1>2, <1>4, <1>5
  <2>2. ~(seq(l) < seq(i))
    BY <1>1, <1>2, <1>4, <1>5
  <2> QED
    BY <1>1, <1>3, <2>1, <2>2
<1> QED
  BY <1>1, <1>5 DEF r, seq

\* What a row says of its incident.
LEMMA RowSays ==
  ASSUME TypeOK, LogInOrder,
         NEW store, NEW hours, NEW gap \in Nat,
         NEW r \in Incidents(store, hours, gap)
  PROVE  LET S == AlertsOf(store, hours)
             spanned == {i \in S : r.first_seen <= log[i].at /\ log[i].at <= r.last_seen}
         IN  /\ r.store = store
             /\ r.alert_cycles = Cardinality(spanned)
             /\ \A i \in spanned : Rank(log[i].severity) <= Rank(r.peak_severity)
<1> DEFINE S == AlertsOf(store, hours)
           spanned == {i \in S : r.first_seen <= log[i].at /\ log[i].at <= r.last_seen}
<1>1. S \in SUBSET DOMAIN log
  BY DEF AlertsOf, Matching, TypeOK
<1>2. PICK e \in S : r = Incident(store, S, IncidentSeq(S, e, gap), gap)
  BY DEF Incidents
<1> DEFINE cycles == {i \in S : IncidentSeq(S, i, gap) = IncidentSeq(S, e, gap)}
<1> HIDE DEF S
<1>3. /\ r.store = store /\ r.incident_seq = IncidentSeq(S, e, gap)
      /\ r.alert_cycles = Cardinality(cycles)
      /\ r.peak_severity = Peak({log[i].severity : i \in cycles})
  BY <1>2 DEF Incident
<1>4. \A i \in S : IncidentSeq(S, i, gap) = r.incident_seq
                     <=> r.first_seen <= log[i].at /\ log[i].at <= r.last_seen
  BY <1>1, <1>2, SpanIsIncident
<1>5. cycles = spanned
  BY <1>3, <1>4
<1>6. {log[i].severity : i \in cycles} \in SUBSET Severity
  BY <1>1, LogType DEF Report
<1>7. \A i \in cycles : Rank(log[i].severity) <= Rank(r.peak_severity)
  <2> SUFFICES ASSUME NEW i \in cycles
               PROVE  Rank(log[i].severity) <= Rank(r.peak_severity)
    OBVIOUS
  <2> DEFINE V == {log[j].severity : j \in cycles}
  <2>1. log[i].severity \in V
    OBVIOUS
  <2>2. r.peak_severity = Peak(V) /\ V \in SUBSET Severity
    BY <1>3, <1>6
  <2> HIDE DEF V
  <2> QED
    BY <2>1, <2>2, PeakOutranks
<1> HIDE DEF cycles, spanned
<1> QED
  BY <1>3, <1>5, <1>7 DEF S, spanned

\* There are finitely many rows.
LEMMA RowsFinite ==
  ASSUME TypeOK, NEW stores, NEW hours, NEW gap
  PROVE  IsFiniteSet(UNION {Incidents(store, hours, gap) : store \in stores})
<1> DEFINE rows == UNION {Incidents(store, hours, gap) : store \in stores}
           alerts == UNION {AlertsOf(store, hours) : store \in stores}
           RowOf(i) == Incident(log[i].store, AlertsOf(log[i].store, hours),
                          IncidentSeq(AlertsOf(log[i].store, hours), i, gap), gap)
           f == [i \in alerts |-> RowOf(i)]
<1>1. alerts \in SUBSET DOMAIN log
  BY DEF AlertsOf, Matching, TypeOK
<1>2. IsFiniteSet(alerts)
  BY <1>1, PositionsFinite
<1>3. \A store \in stores : \A i \in AlertsOf(store, hours) : log[i].store = store
  BY DEF AlertsOf, Matching
<1>4. \A i \in alerts : RowOf(i) \in rows
  <2> SUFFICES ASSUME NEW store \in stores, NEW i \in AlertsOf(store, hours)
               PROVE  RowOf(i) \in rows
    OBVIOUS
  <2>1. log[i].store = store
    BY <1>3
  <2>2. RowOf(i) \in Incidents(store, hours, gap)
    BY <2>1 DEF Incidents
  <2> QED
    BY <2>2
<1>5. \A r \in rows : \E i \in alerts : r = RowOf(i)
  <2> SUFFICES ASSUME NEW store \in stores, NEW r \in Incidents(store, hours, gap)
               PROVE  \E i \in alerts : r = RowOf(i)
    OBVIOUS
  <2>1. PICK i \in AlertsOf(store, hours) :
          r = Incident(store, AlertsOf(store, hours),
                IncidentSeq(AlertsOf(store, hours), i, gap), gap)
    BY DEF Incidents
  <2>2. log[i].store = store /\ i \in alerts
    BY <1>3
  <2> QED
    BY <2>1, <2>2
<1> HIDE DEF rows, alerts, RowOf
<1>6. f \in Surjection(alerts, rows)
  BY <1>4, <1>5 DEF Surjection
<1>7. IsFiniteSet(rows)
  BY <1>2, <1>6, FS_Surjection
<1> QED
  BY <1>7 DEF rows

LEMMA RowsAddUp ==
  ASSUME TypeOK, LogInOrder,
         NEW stores, NEW hours, NEW gap \in Nat,
         NEW rows \in SummaryRows(stores, hours, gap)
  PROVE  LET S == UNION {AlertsOf(store, hours) : store \in stores}
             In(i, r) == /\ r.store = log[i].store
                         /\ r.first_seen <= log[i].at /\ log[i].at <= r.last_seen
         IN  /\ \A r \in rows : r.alert_cycles = Cardinality({i \in S : In(i, r)})
             /\ \/ rows = {}
                \/ Cardinality(rows) = RowLimit
                \/ \A i \in S : \E r \in rows :
                     In(i, r) /\ Rank(log[i].severity) <= Rank(r.peak_severity)
<1> DEFINE all == UNION {Incidents(store, hours, gap) : store \in stores}
           S == UNION {AlertsOf(store, hours) : store \in stores}
           In(i, r) == /\ r.store = log[i].store
                       /\ r.first_seen <= log[i].at /\ log[i].at <= r.last_seen
<1>1. /\ rows \in SUBSET all
      /\ rows = {} \/ Cardinality(rows) = Least(Cardinality(all), RowLimit)
  BY DEF SummaryRows
<1>2. \A store \in stores : \A i \in AlertsOf(store, hours) : log[i].store = store
  BY DEF AlertsOf, Matching
<1>3. ASSUME NEW r \in rows
      PROVE  r.alert_cycles = Cardinality({i \in S : In(i, r)})
  <2>1. PICK store \in stores : r \in Incidents(store, hours, gap)
    BY <1>1
  <2> DEFINE spanned == {i \in AlertsOf(store, hours) :
                           r.first_seen <= log[i].at /\ log[i].at <= r.last_seen}
  <2>2. r.store = store /\ r.alert_cycles = Cardinality(spanned)
    BY <2>1, RowSays
  <2>3. spanned = {i \in S : In(i, r)}
    BY <1>2, <2>2
  <2> QED
    BY <2>2, <2>3
<1>4. ASSUME rows # {}, Cardinality(rows) # RowLimit
      PROVE  rows = all
  <2>1. IsFiniteSet(all)
    BY RowsFinite
  <2> HIDE DEF all
  <2>2. Cardinality(all) \in Nat
    BY <2>1, FS_CardinalityType
  <2>3. Cardinality(rows) = Cardinality(all)
    BY <1>1, <1>4, <2>2, RecordsAssumption DEF Least
  <2> QED
    BY <1>1, <2>1, <2>3, FS_Subset
<1>5. ASSUME NEW i \in S
      PROVE  \E r \in all :
               In(i, r) /\ Rank(log[i].severity) <= Rank(r.peak_severity)
  <2>1. PICK store \in stores : i \in AlertsOf(store, hours)
    OBVIOUS
  <2> DEFINE A == AlertsOf(store, hours)
             r == Incident(store, A, IncidentSeq(A, i, gap), gap)
  <2>2. A \in SUBSET DOMAIN log
    BY DEF AlertsOf, Matching, TypeOK
  <2>3. r \in Incidents(store, hours, gap)
    BY <2>1 DEF Incidents
  <2>4. r.incident_seq = IncidentSeq(A, i, gap)
    BY DEF Incident
  <2>5. r.first_seen <= log[i].at /\ log[i].at <= r.last_seen
    <3> HIDE DEF A
    <3>1. i \in A
      BY <2>1 DEF A
    <3> QED
      BY <2>2, <2>4, <3>1, SpanIsIncident
  <2> HIDE DEF r
  <2>6. r.store = store /\ Rank(log[i].severity) <= Rank(r.peak_severity)
    BY <2>1, <2>3, <2>5, RowSays
  <2>7. r \in all /\ In(i, r)
    BY <1>2, <2>1, <2>3, <2>5, <2>6
  <2> QED
    BY <2>6, <2>7
<1> HIDE DEF all
<1> QED
  BY <1>3, <1>4, <1>5

\* For any stores, gap, window and row limit, a summary that has rows, and fewer
\* than Splunk may return, accounts for every alert of the window.
THEOREM SummariesAddUp == Spec => []SummaryAddsUp
<1>1. Init => TypeOK /\ LogInOrder
  BY TypeInitially, OrderInitially
<1>2. TypeOK /\ LogInOrder /\ [Next]_vars => TypeOK' /\ LogInOrder'
  BY TypeStep, OrderStep
<1>3. TypeOK /\ LogInOrder => SummaryAddsUp
  BY RowsAddUp, RecordsAssumption DEF SummaryAddsUp
<1> QED
  BY <1>1, <1>2, <1>3, PTL DEF Spec

=============================================================================
