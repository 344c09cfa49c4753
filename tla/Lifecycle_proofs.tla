--------------------------- MODULE Lifecycle_proofs ---------------------------
(***************************************************************************)
(* The proof that TriageCycle implements AlertLifecycle: a step of the     *)
(* cycle that accepts a card opens or updates an incident, one that starts *)
(* a recovery closes it, and the others are Advance, Forget or a stutter.  *)
(***************************************************************************)
EXTENDS TriageCycle_proofs

\* The abstract incident of a store changes only with its open alert.
LEMMA SameIncidents ==
  ASSUME UNCHANGED active
  PROVE  UNCHANGED [s \in Store |-> IncidentOf(s)]
BY DEF IncidentOf, IsActive

\* An open alert is an abstract incident, a closed one is none.
LEMMA IncidentIffActive ==
  ASSUME TypeOK, NEW s \in Store
  PROVE  IncidentOf(s) # None <=> IsActive(s)
<1> SUFFICES ASSUME IsActive(s) PROVE IncidentOf(s) # None
  BY DEF IncidentOf
<1>1. active[s] \in Incident
  BY DEF TypeOK, AlertTypeOK, IsActive
<1>2. IncidentOf(s) \in [content : Severity \X Signature, firstSeen : Time, lastSent : Time]
  BY <1>1 DEF IncidentOf, Incident
<1> QED
  BY <1>2, NoIncidentAssumption

\* A recovery closes the incident of the store.
LEMMA StartRecoveryCloses ==
  ASSUME IInv, TypeOK', NEW s \in Store, StartRecovery(s)
  PROVE  Lifecycle!Close(s) \/ UNCHANGED Lifecycle!vars
<1> USE DEF StartRecovery, Clear
<1> active \in [Store -> Incident \cup {None}] /\ recoveredAt \in [Store -> Time \cup {None}]
  BY DEF IInv, TypeOK, AlertTypeOK
<1>1. CASE IsActive(s)
  <2>1. [t \in Store |-> IncidentOf(t)]'
          = [[t \in Store |-> IncidentOf(t)] EXCEPT ![s] = None]
    BY DEF IncidentOf, IsActive
  <2>2. [t \in Store |-> IncidentOf(t)][s] # None
    BY <1>1, IncidentIffActive DEF IInv
  <2>3. recoveredAt' = [recoveredAt EXCEPT ![s] = now]
    BY <1>1
  <2> QED
    BY <2>1, <2>2, <2>3 DEF Lifecycle!Close
<1>2. CASE ~IsActive(s)
  <2>1. UNCHANGED <<now, active, recoveredAt>>
    BY <1>2 DEF IsActive
  <2> QED
    BY <2>1, SameIncidents DEF Lifecycle!vars
<1> QED
  BY <1>1, <1>2

\* An accepted card opens an incident out of its cooldown, or says of an open one
\* what the card before did not say.
LEMMA CardAcceptedOpensOrUpdates ==
  ASSUME IInv, TypeOK', CardAccepted,
         NEW c \in Store, NEW v \in Severity, NEW g \in Signature,
         card = [store |-> c, severity |-> v, signature |-> g]
  PROVE  \E s \in Store, content \in Severity \X Signature :
           Lifecycle!Open(s, content) \/ Lifecycle!Update(s, content)
<1> USE DEF CardAccepted, RecordSent
<1> DEFINE content == <<v, g>>
           inc == [t \in Store |-> IncidentOf(t)]
<1>1. content \in Severity \X Signature
  OBVIOUS
<1>2. active \in [Store -> Incident \cup {None}]
  BY DEF IInv, TypeOK, AlertTypeOK
<1>3. active' = [active EXCEPT ![c] =
                   [severity  |-> v,
                    signature |-> g,
                    firstSeen |-> IF IsActive(c) THEN active[c].firstSeen ELSE now,
                    lastSent  |-> now]]
  OBVIOUS
<1>4. IsActive(c)'
  <2>1. (IF IsActive(c) THEN active[c].firstSeen ELSE now) \in Time
    BY <1>1, <1>2 DEF IInv, TypeOK, AlertTypeOK, IsActive, Incident
  <2>2. active'[c] \in Incident
    BY <1>1, <1>2, <1>3, <2>1 DEF IInv, TypeOK, AlertTypeOK, Incident
  <2> QED
    BY <2>2, NoneAssumption DEF IsActive
<1>5. inc' = [inc EXCEPT ![c] =
                [content   |-> content,
                 firstSeen |-> IF IsActive(c) THEN active[c].firstSeen ELSE now,
                 lastSent  |-> now]]
  <2>1. \A t \in Store : t # c => IncidentOf(t)' = IncidentOf(t)
    BY <1>2, <1>3 DEF IncidentOf, IsActive
  <2>2. active'[c] = [severity  |-> v,
                      signature |-> g,
                      firstSeen |-> IF IsActive(c) THEN active[c].firstSeen ELSE now,
                      lastSent  |-> now]
    BY <1>2, <1>3
  <2>3. IncidentOf(c)' = [content   |-> content,
                          firstSeen |-> IF IsActive(c) THEN active[c].firstSeen ELSE now,
                          lastSent  |-> now]
    BY <2>2, <1>4 DEF IncidentOf
  <2> QED
    BY <2>1, <2>3
<1>6. UNCHANGED <<now, recoveredAt>>
  OBVIOUS
<1>7. CASE ~IsActive(c)
  <2>1. inc[c] = None
    BY <1>1, <1>7 DEF IncidentOf
  <2>2. recoveredAt[c] # None => now - recoveredAt[c] >= Cooldown
    BY <1>1, <1>7, CooldownAssumption
       DEF IInv, PendingCardGuarded, InCooldown, TypeOK, AlertTypeOK, Time
  <2>3. inc' = [inc EXCEPT ![c] =
                  [content |-> content, firstSeen |-> now, lastSent |-> now]]
    BY <1>5, <1>7
  <2>4. Lifecycle!Open(c, content)
    BY <2>1, <2>2, <2>3, <1>6 DEF Lifecycle!Open
  <2> QED
    BY <1>1, <2>4
<1>8. CASE IsActive(c)
  <2>1. inc[c] = [content   |-> <<active[c].severity, active[c].signature>>,
                  firstSeen |-> active[c].firstSeen,
                  lastSent  |-> active[c].lastSent]
    BY <1>1, <1>8 DEF IncidentOf
  <2>2. inc[c] # None
    BY <1>1, <1>8, IncidentIffActive DEF IInv
  <2>3. content # inc[c].content
    BY <1>8, <2>1 DEF IInv, PendingCardGuarded, IsUnchanged
  <2>4. inc' = [inc EXCEPT ![c] =
                  [content |-> content, firstSeen |-> active[c].firstSeen, lastSent |-> now]]
    BY <1>5, <1>8
  <2>5. inc[c].firstSeen = active[c].firstSeen
    BY <2>1
  <2>6. Lifecycle!Update(c, content)
    BY <2>2, <2>3, <2>4, <2>5, <1>6 DEF Lifecycle!Update
  <2> QED
    BY <1>1, <2>6
<1> QED
  BY <1>7, <1>8

\* Each step of the cycle is a step of AlertLifecycle or leaves it unchanged.
LEMMA LifecycleStep ==
  ASSUME IInv, IInv', [Next]_vars
  PROVE  [Lifecycle!Next]_(Lifecycle!vars)
<1> TypeOK'
  BY DEF IInv
<1>1. ASSUME UNCHANGED <<now, active, recoveredAt>> PROVE UNCHANGED Lifecycle!vars
  BY <1>1, SameIncidents DEF Lifecycle!vars
<1> USE DEF alertVars
<1>2. CASE BeginCycle \/ ScansAnswered \/ CycleFails \/ RemindersDone \/ DrillsAnswered
           \/ TriageAnswered \/ CardRefused \/ CardAnswerLost \/ ReportsDone
  BY <1>1, <1>2 DEF BeginCycle, ScansAnswered, CycleFails, RemindersDone, DrillsAnswered,
     TriageAnswered, CardRefused, CardAnswerLost, ReportsDone
<1>3. ASSUME NEW F \in SUBSET Store, Detected(F) \/ DetectedAndRaised(F)
      PROVE  UNCHANGED Lifecycle!vars
  BY <1>1, <1>3 DEF Detected, DetectedAndRaised, AdvanceRecovery
<1>4. CASE \E s \in Store : StartRecovery(s)
  BY <1>4, StartRecoveryCloses DEF Lifecycle!Next
<1>5. ASSUME NEW s \in Store, NEW d \in BOOLEAN, EndRecovery(s, d)
      PROVE  UNCHANGED Lifecycle!vars
  BY <1>1, <1>5 DEF EndRecovery
<1>6. ASSUME NEW i \in {0, ReminderInterval}, RecoveriesDone(i)
      PROVE  UNCHANGED Lifecycle!vars
  BY <1>1, <1>6 DEF RecoveriesDone
<1>7. ASSUME NEW s \in Store, NEW ok \in BOOLEAN, Remind(s, ok)
      PROVE  UNCHANGED Lifecycle!vars
  BY <1>1, <1>7 DEF Remind, MarkReminded
<1>8. ASSUME NEW r \in Report, HandleReport(r) PROVE UNCHANGED Lifecycle!vars
  BY <1>1, <1>8 DEF HandleReport
<1>9. CASE CardAccepted
  <2>1. card \in PendingCard
    BY <1>9 DEF CardAccepted, IInv, TypeOK, CycleTypeOK
  <2>2. PICK c \in Store, v \in Severity, g \in Signature :
          card = [store |-> c, severity |-> v, signature |-> g]
    BY <2>1 DEF PendingCard
  <2> QED
    BY <1>9, <2>2, CardAcceptedOpensOrUpdates DEF Lifecycle!Next
<1>10. CASE Tick
  <2>1. Lifecycle!Advance
    BY <1>10, SameIncidents DEF Tick, Lifecycle!Advance
  <2> QED
    BY <2>1 DEF Lifecycle!Next
<1>11. ASSUME NEW D \in SUBSET InFlight, Restart(D) PROVE Lifecycle!Next
  <2>1. Lifecycle!Forget
    BY <1>11 DEF Restart, Lifecycle!Forget, IncidentOf, IsActive
  <2> QED
    BY <2>1 DEF Lifecycle!Next
<1>12. CASE UNCHANGED vars
  BY <1>1, <1>12 DEF vars
<1> QED
  BY <1>2, <1>3, <1>4, <1>5, <1>6, <1>7, <1>8, <1>9, <1>10, <1>11, <1>12 DEF Next

\* The poll cycle, with all its failures and restarts, implements AlertLifecycle.
THEOREM CycleImplementsLifecycle == Spec => ImplementsLifecycle
<1>1. Init => Lifecycle!Init
  BY DEF Init, EmptyAlertState, Lifecycle!Init, IncidentOf, IsActive
<1>2. IInv /\ IInv' /\ [Next]_vars => [Lifecycle!Next]_(Lifecycle!vars)
  BY LifecycleStep
<1> QED
  BY <1>1, <1>2, InvHolds, PTL DEF Spec, ImplementsLifecycle, Lifecycle!Spec

=============================================================================
