-------------------------- MODULE AgentLoop_proofs --------------------------
(***************************************************************************)
(* What holds of the agent's loop for every deployment: any allowances the *)
(* probe is set for, any models, with or without a history to read.        *)
(***************************************************************************)
EXTENDS AgentLoop, TLAPS

-----------------------------------------------------------------------------
(***************************************************************************)
(* The clients.  Types alone are not inductive: a count of open clients is *)
(* natural because it counts the cached client and nothing else.           *)
(***************************************************************************)
ClientInv ==
  /\ OneClient
  /\ vllm # None => vllm.open
  /\ at = "closing" => vllm # None /\ asked # None
  /\ active # None => at = "poll"
  /\ active = "vllm" => vllm # None /\ vllm.model = asked

LoopInv == TypeOK /\ ClientInv

LEMMA LoopInit == ASSUME Init PROVE LoopInv
<1>1. overdue \in BOOLEAN
  BY DEF Init
<1> QED
  BY <1>1, ProviderAssumption, TimeAssumption
     DEF Init, LoopInv, TypeOK, ClientInv, OneClient, Await, Provider

\* What the control files ask for is a provider and, for a box, a model.
LEMMA CurrentTypes ==
  ASSUME TypeOK
  PROVE  CurrentProvider \in Provider /\ CurrentModel \in Model \cup {None}
BY ProviderAssumption DEF TypeOK, CurrentProvider, CurrentModel, Provider

LEMMA LoopStep ==
  ASSUME LoopInv, [Next]_vars
  PROVE  LoopInv'
<1> USE ProviderAssumption, TimeAssumption, CurrentTypes DEF LoopInv, TypeOK, ClientInv, OneClient, Client, Await, Provider
<1>1. CASE Boot
  BY <1>1 DEF Boot, clients, reading, clock
<1>2. CASE StartUp
  BY <1>2 DEF StartUp, GoTo, clients, reading, clock
<1>3. CASE StartUpRaises
  <2>1. overdue' \in BOOLEAN
    BY <1>3, Zenon DEF StartUpRaises, Die, Gone
  <2> QED
    BY <1>3, <2>1 DEF StartUpRaises, Die, Gone, clients, reading, clock
<1>4. CASE Entered
  BY <1>4 DEF Entered, GoTo, clients, reading, clock
<1>5. CASE InspectAllows
  BY <1>5 DEF InspectAllows, GoTo, clients, reading, clock
<1>6. CASE InspectBlocks
  BY <1>6 DEF InspectBlocks, Resume, GoTo, clients, reading, clock
<1>7. CASE SessionOpens
  BY <1>7 DEF SessionOpens, GoTo, clients, reading, clock
<1>8. CASE SessionRefused
  BY <1>8 DEF SessionRefused, Resume, GoTo, clients, reading, clock
<1>9. CASE \E answer \in {"rows", "error", "malformed"} : CallAnswered(answer)
  BY <1>9 DEF CallAnswered, GoTo, clients, reading, clock
<1>10. CASE CallFails
  BY <1>10 DEF CallFails, GoTo, clients, reading, clock
<1>11. CASE SessionCloses
  BY <1>11 DEF SessionCloses, Resume, GoTo, PastAfter, clients, reading, clock
<1>12. CASE CloseRaises
  BY <1>12 DEF CloseRaises, Resume, GoTo, clients, reading, clock
<1>12a. CASE HistoryRaises
  <2>1. overdue' \in BOOLEAN
    BY <1>12a, Zenon DEF HistoryRaises, Die, Gone
  <2> QED
    BY <1>12a, <2>1 DEF HistoryRaises, Die, Gone, clients, reading, clock
<1>13. CASE LoopEnds
  BY <1>13 DEF LoopEnds, GoTo, clients, reading, clock
<1>14. CASE RefreshDue
  BY <1>14 DEF RefreshDue, GoTo, clients, reading, clock
<1>15. CASE NotDue
  BY <1>15 DEF NotDue, GoTo, clients, reading, clock
<1>16. CASE UseStatic
  BY <1>16 DEF UseStatic, BeginPoll, GoTo, UpTo, CurrentProvider, clients,
       reading, clock
<1>17. CASE UseCached
  BY <1>17 DEF UseCached, BeginPoll, GoTo, UpTo, IsCached, WantsVllm,
       CurrentModel, clients, reading, clock
<1>18. CASE BuildFirst
  <2>1. CurrentModel \in Model
    BY <1>18 DEF BuildFirst, WantsVllm
  <2>2. vllm' = [model |-> CurrentModel, open |-> TRUE]
    BY <1>18 DEF BuildFirst
  <2>3. vllm' \in Client /\ vllm'.open /\ vllm'.model = CurrentModel
    BY <2>1, <2>2
  <2>4. vllm' # None
    BY <2>3
  <2> QED
    BY <1>18, <2>1, <2>3, <2>4
       DEF BuildFirst, BeginPoll, GoTo, UpTo, clients, reading, clock
<1>19. CASE Rebuild
  BY <1>19 DEF Rebuild, GoTo, IsCached, WantsVllm, CurrentModel, clients,
       reading, clock
<1>20. CASE Rebuilt
  <2>1. vllm' = [model |-> asked, open |-> TRUE] /\ asked \in Model
    BY <1>20 DEF Rebuilt
  <2>2. vllm' \in Client /\ vllm'.open /\ vllm'.model = asked
    BY <2>1
  <2>3. vllm' # None
    BY <2>2
  <2> QED
    BY <1>20, <2>1, <2>2, <2>3
       DEF Rebuilt, BeginPoll, GoTo, UpTo, clients, reading, clock
<1>21. CASE SelectRaises
  <2>1. overdue' \in BOOLEAN
    BY <1>21, Zenon DEF SelectRaises, Die, Gone
  <2> QED
    BY <1>21, <2>1 DEF SelectRaises, Die, Gone, clients, reading, clock
<1>22. CASE PollEnds
  <2>1. overdue' \in BOOLEAN
    BY <1>22, Zenon DEF PollEnds, Beat
  <2> QED
    BY <1>22, <2>1 DEF PollEnds, Beat, clients, reading, clock
<1>23. CASE PollRaises
  <2>1. overdue' \in BOOLEAN
    BY <1>23, Zenon DEF PollRaises, Beat
  <2> QED
    BY <1>23, <2>1 DEF PollRaises, Beat, clients, reading, clock
<1>24. CASE PauseEnds
  BY <1>24 DEF PauseEnds, GoTo, clients, reading, clock
<1>25. CASE Drained
  <2>1. overdue' \in BOOLEAN
    BY <1>25, Zenon DEF Drained, Gone
  <2> QED
    BY <1>25, <2>1 DEF Drained, Gone, clients, reading, clock
<1>26. CASE Rollout
  BY <1>26 DEF Rollout, Signal, clients, reading, clock
<1>27. CASE ProbeFails
  BY <1>27 DEF ProbeFails, Signal, clients, reading, clock
<1>28. CASE Kill
  <2>1. overdue' \in BOOLEAN
    BY <1>28, Zenon DEF Kill, Die, Gone
  <2> QED
    BY <1>28, <2>1 DEF Kill, Die, Gone, clients, reading, clock
<1>29. CASE Edit
  BY <1>29 DEF Edit, clients, reading, clock
<1>30. CASE Tick
  BY <1>30 DEF Tick, UpTo, clients, reading, clock
<1>31. CASE UNCHANGED vars
  BY <1>31 DEF vars, clients, reading, clock
<1> QED
  BY <1>1, <1>2, <1>3, <1>4, <1>5, <1>6, <1>7, <1>8, <1>9, <1>10, <1>11,
     <1>12, <1>12a,
       <1>13, <1>14, <1>15, <1>16, <1>17, <1>18, <1>19, <1>20, <1>21, <1>22,
       <1>23, <1>24, <1>25, <1>26, <1>27, <1>28, <1>29, <1>30, <1>31 DEF Next,
       Turn, Answer, World

LEMMA LoopInvariant == Spec => []LoopInv
<1>1. Init => LoopInv
  BY LoopInit
<1>2. LoopInv /\ [Next]_vars => LoopInv'
  BY LoopStep
<1> QED
  BY <1>1, <1>2, PTL DEF Spec

\* The variables of the loop have their types and the clocks their bounds, in
\* every deployment.
THEOREM LoopTypeCorrect == Spec => []TypeOK
<1>1. LoopInv => TypeOK
  BY DEF LoopInv
<1> QED
  BY <1>1, LoopInvariant, PTL

\* No cycle ever runs on a closed client or on one of another model than the
\* control files asked for this turn.
THEOREM CyclesRunOnOpenClients == Spec => []ClientInUseIsOpen
<1>1. LoopInv => ClientInUseIsOpen
  BY DEF LoopInv, ClientInv, ClientInUseIsOpen
<1> QED
  BY <1>1, LoopInvariant, PTL

\* No toggling of models, failing construction or shutdown leaks a client.
THEOREM NoClientLeaks == Spec => []OneClient
<1>1. LoopInv => OneClient
  BY DEF LoopInv, ClientInv
<1> QED
  BY <1>1, LoopInvariant, PTL

-----------------------------------------------------------------------------
(***************************************************************************)
(* The end of the loop.  A late cycle is one that was already past the     *)
(* test of stop_event; after it only the pause leads back to the test.     *)
(***************************************************************************)
LateInv ==
  /\ late # 0 => late = 1 /\ stop # "no" /\ at \in {"poll", "pause", "top", "drain"}

LEMMA LateStep ==
  ASSUME TypeOK, LateInv, [Next]_vars
  PROVE  LateInv'
<1> USE DEF LateInv
<1>1. CASE Boot
  BY <1>1 DEF Boot, clock, TypeOK
<1>2. CASE StartUp
  BY <1>2 DEF StartUp, GoTo, clock, TypeOK
<1>3. CASE StartUpRaises
  BY <1>3 DEF StartUpRaises, Die, Gone, clock, TypeOK
<1>4. CASE Entered
  BY <1>4 DEF Entered, GoTo, clock, TypeOK
<1>5. CASE InspectAllows
  BY <1>5 DEF InspectAllows, GoTo, clock, TypeOK
<1>6. CASE InspectBlocks
  BY <1>6 DEF InspectBlocks, Resume, GoTo, clock, TypeOK
<1>7. CASE SessionOpens
  BY <1>7 DEF SessionOpens, GoTo, clock, TypeOK
<1>8. CASE SessionRefused
  BY <1>8 DEF SessionRefused, Resume, GoTo, clock, TypeOK
<1>9. CASE \E answer \in {"rows", "error", "malformed"} : CallAnswered(answer)
  BY <1>9 DEF CallAnswered, GoTo, clock, TypeOK
<1>10. CASE CallFails
  BY <1>10 DEF CallFails, GoTo, clock, TypeOK
<1>11. CASE SessionCloses
  BY <1>11 DEF SessionCloses, Resume, GoTo, PastAfter, clock, TypeOK
<1>12. CASE CloseRaises
  BY <1>12 DEF CloseRaises, Resume, GoTo, clock, TypeOK
<1>12a. CASE HistoryRaises
  BY <1>12a DEF HistoryRaises, Die, Gone, clock, TypeOK
<1>13. CASE LoopEnds
  BY <1>13 DEF LoopEnds, GoTo, clock, TypeOK
<1>14. CASE RefreshDue
  BY <1>14 DEF RefreshDue, GoTo, clock, TypeOK
<1>15. CASE NotDue
  BY <1>15 DEF NotDue, GoTo, clock, TypeOK
<1>16. CASE UseStatic
  BY <1>16 DEF UseStatic, BeginPoll, GoTo, UpTo, clock, TypeOK
<1>17. CASE UseCached
  BY <1>17 DEF UseCached, BeginPoll, GoTo, UpTo, IsCached, clock, TypeOK
<1>18. CASE BuildFirst
  BY <1>18 DEF BuildFirst, BeginPoll, GoTo, UpTo, clock, TypeOK
<1>19. CASE Rebuild
  BY <1>19 DEF Rebuild, GoTo, IsCached, clock, TypeOK
<1>20. CASE Rebuilt
  BY <1>20 DEF Rebuilt, BeginPoll, GoTo, UpTo, clock, TypeOK
<1>21. CASE SelectRaises
  BY <1>21 DEF SelectRaises, Die, Gone, clock, TypeOK
<1>22. CASE PollEnds
  BY <1>22 DEF PollEnds, Beat, clock, TypeOK
<1>23. CASE PollRaises
  BY <1>23 DEF PollRaises, Beat, clock, TypeOK
<1>24. CASE PauseEnds
  BY <1>24 DEF PauseEnds, GoTo, clock, TypeOK
<1>25. CASE Drained
  BY <1>25 DEF Drained, Gone, clock, TypeOK
<1>26. CASE Rollout
  BY <1>26 DEF Rollout, Signal, clock, TypeOK
<1>27. CASE ProbeFails
  BY <1>27 DEF ProbeFails, Signal, clock, TypeOK
<1>28. CASE Kill
  BY <1>28 DEF Kill, Die, Gone, clock, TypeOK
<1>29. CASE Edit
  BY <1>29 DEF Edit, clock, TypeOK
<1>30. CASE Tick
  BY <1>30 DEF Tick, UpTo, clock, TypeOK
<1>31. CASE UNCHANGED vars
  BY <1>31 DEF vars, clients, reading, clock, TypeOK
<1> QED
  BY <1>1, <1>2, <1>3, <1>4, <1>5, <1>6, <1>7, <1>8, <1>9, <1>10, <1>11,
     <1>12, <1>12a,
       <1>13, <1>14, <1>15, <1>16, <1>17, <1>18, <1>19, <1>20, <1>21, <1>22,
       <1>23, <1>24, <1>25, <1>26, <1>27, <1>28, <1>29, <1>30, <1>31 DEF Next,
       Turn, Answer, World

LEMMA LateHolds == Spec => []LateInv
<1>1. Init => LateInv
  BY DEF Init, LateInv
<1>2. TypeOK /\ LateInv /\ [Next]_vars => LateInv'
  BY LateStep
<1> QED
  BY <1>1, <1>2, LoopTypeCorrect, PTL DEF Spec

\* After the signal at most one cycle starts.
THEOREM AtMostOneLateCycle == Spec => []OneLateCycle
<1>1. LateInv => OneLateCycle
  <2>1. LateInv => late = 0 \/ late = 1
    BY DEF LateInv
  <2> QED
    BY <2>1 DEF OneLateCycle
<1> QED
  BY <1>1, LateHolds, PTL

-----------------------------------------------------------------------------
(***************************************************************************)
(* The heartbeat.  Each point of the turn has a budget: what the awaits    *)
(* before it since the last touch may have taken together.                 *)
(***************************************************************************)
Budgets ==
  /\ at \in {"down", "token", "pause"} => beat <= spent
  /\ at = "enter" => beat <= Allowance["token"] + spent
  /\ at = "inspect" => beat <= Lead + spent
  /\ at = "open" => beat <= Lead + Allowance["inspect"] + spent
  /\ at = "call" =>
       beat <= Lead + Allowance["inspect"] + Allowance["open"] + spent
  /\ at = "close" =>
       beat <= Lead + Reading - Allowance["close"] + spent
  /\ at = "top" /\ since = RefreshEvery => beat <= Lead
  /\ at \in {"top", "select", "closing"} => beat <= Lead + Reading + spent
  /\ at = "poll" => beat <= Lead + Reading + Allowance["closing"] + spent

BudgetInv ==
  /\ at \in Await => spent <= Allowance[at]
  /\ at \notin Await => spent = 0
  /\ ~overdue => Budgets

\* What the assumptions say of the sums.
LEMMA Sums ==
  /\ \A a \in Await : Allowance[a] \in Nat
  /\ Lead \in Nat /\ Reading \in Nat /\ Booting \in Nat
  /\ Booting <= Lead /\ Allowance["pause"] <= Lead
  /\ Booting = Allowance["token"] + Allowance["enter"]
  /\ Reading = Allowance["inspect"] + Allowance["open"]
               + Allowance["call"] + Allowance["close"]
BY TimeAssumption DEF Lead, Reading, Booting, Await

LEMMA BudgetStep ==
  ASSUME TypeOK, BudgetInv, [Next]_vars
  PROVE  BudgetInv'
<1> USE Sums, TimeAssumption, ProbeAssumption DEF TypeOK, BudgetInv, Budgets, Await
<1>1. CASE Boot
  BY <1>1 DEF Boot, clock
<1>2. CASE StartUp
  BY <1>2 DEF StartUp, GoTo, clock
<1>3. CASE StartUpRaises
  BY <1>3 DEF StartUpRaises, Die, Gone, clock
<1>4. CASE Entered
  BY <1>4 DEF Entered, GoTo, clock
<1>5. CASE InspectAllows
  BY <1>5 DEF InspectAllows, GoTo, clock
<1>6. CASE InspectBlocks
  BY <1>6 DEF InspectBlocks, Resume, GoTo, clock
<1>7. CASE SessionOpens
  BY <1>7 DEF SessionOpens, GoTo, clock
<1>8. CASE SessionRefused
  BY <1>8 DEF SessionRefused, Resume, GoTo, clock
<1>9. CASE \E answer \in {"rows", "error", "malformed"} : CallAnswered(answer)
  BY <1>9 DEF CallAnswered, GoTo, clock
<1>10. CASE CallFails
  BY <1>10 DEF CallFails, GoTo, clock
<1>11. CASE SessionCloses
  BY <1>11 DEF SessionCloses, Resume, GoTo, PastAfter, clock
<1>12. CASE CloseRaises
  BY <1>12 DEF CloseRaises, Resume, GoTo, clock
<1>12a. CASE HistoryRaises
  BY <1>12a DEF HistoryRaises, Die, Gone, clock
<1>13. CASE LoopEnds
  BY <1>13 DEF LoopEnds, GoTo, clock
<1>14. CASE RefreshDue
  BY <1>14 DEF RefreshDue, GoTo, clock
<1>15. CASE NotDue
  BY <1>15 DEF NotDue, GoTo, clock
<1>16. CASE UseStatic
  BY <1>16 DEF UseStatic, BeginPoll, GoTo, UpTo, clock
<1>17. CASE UseCached
  BY <1>17 DEF UseCached, BeginPoll, GoTo, UpTo, IsCached, clock
<1>18. CASE BuildFirst
  BY <1>18 DEF BuildFirst, BeginPoll, GoTo, UpTo, clock
<1>19. CASE Rebuild
  BY <1>19 DEF Rebuild, GoTo, IsCached, clock
<1>20. CASE Rebuilt
  BY <1>20 DEF Rebuilt, BeginPoll, GoTo, UpTo, clock
<1>21. CASE SelectRaises
  BY <1>21 DEF SelectRaises, Die, Gone, clock
<1>22. CASE PollEnds
  BY <1>22 DEF PollEnds, Beat, clock
<1>23. CASE PollRaises
  BY <1>23 DEF PollRaises, Beat, clock
<1>24. CASE PauseEnds
  BY <1>24 DEF PauseEnds, GoTo, clock
<1>25. CASE Drained
  BY <1>25 DEF Drained, Gone, clock
<1>26. CASE Rollout
  BY <1>26 DEF Rollout, Signal, clock
<1>27. CASE ProbeFails
  BY <1>27 DEF ProbeFails, Signal, clock
<1>28. CASE Kill
  BY <1>28 DEF Kill, Die, Gone, clock
<1>29. CASE Edit
  BY <1>29 DEF Edit, clock
<1>30. CASE Tick
  <2>1. spent' = UpTo(spent + 1, Allowance[at]) /\ UNCHANGED at /\ at \in Await
    BY <1>30 DEF Tick
  <2>2. spent' <= Allowance[at]
    BY <2>1 DEF UpTo
  <2>3. ASSUME ~overdue'
        PROVE  Budgets'
    <3>1. ~overdue /\ spent # Allowance[at]
      BY <1>30, <2>3 DEF Tick
    <3>2. spent' = spent + 1
      BY <2>1, <3>1 DEF UpTo
    <3>3. beat' \in Nat /\ beat' <= beat + 1
      BY <1>30 DEF Tick, UpTo
    <3> QED
      BY <2>1, <3>1, <3>2, <3>3
  <2> QED
    BY <2>1, <2>2, <2>3
<1>31. CASE UNCHANGED vars
  BY <1>31 DEF vars, clients, reading, clock
<1> QED
  BY <1>1, <1>2, <1>3, <1>4, <1>5, <1>6, <1>7, <1>8, <1>9, <1>10, <1>11,
     <1>12, <1>12a,
       <1>13, <1>14, <1>15, <1>16, <1>17, <1>18, <1>19, <1>20, <1>21, <1>22,
       <1>23, <1>24, <1>25, <1>26, <1>27, <1>28, <1>29, <1>30, <1>31 DEF Next,
       Turn, Answer, World

LEMMA BudgetCovers ==
  ASSUME TypeOK, BudgetInv
  PROVE  ProbeSparesTheTurning
BY Sums, TimeAssumption, ProbeAssumption
   DEF TypeOK, BudgetInv, Budgets, Await, ProbeSparesTheTurning

\* The probe fails only when an await overstayed its allowance: the heartbeat
\* of one touch a turn is enough for every deployment whose limit exceeds the
\* slowest turn, and for its startup.
THEOREM TheProbeSparesTheTurning == Spec => []ProbeSparesTheTurning
<1>1. Init => BudgetInv
  BY TimeAssumption DEF Init, BudgetInv, Budgets, Await
<1>2. TypeOK /\ BudgetInv /\ [Next]_vars => BudgetInv'
  BY BudgetStep
<1>3. TypeOK /\ BudgetInv => ProbeSparesTheTurning
  BY BudgetCovers
<1> QED
  BY <1>1, <1>2, <1>3, LoopTypeCorrect, PTL DEF Spec

-----------------------------------------------------------------------------
(***************************************************************************)
(* The past.                                                               *)
(***************************************************************************)
KeptStep == past = "rows" /\ past' # "rows" => at' = "down" \/ payload = "malformed"

LEMMA KeepsPast ==
  ASSUME [Next]_vars
  PROVE  KeptStep
<1> USE DEF KeptStep
<1>1. CASE Boot
  BY <1>1 DEF Boot, reading
<1>2. CASE StartUp
  BY <1>2 DEF StartUp, GoTo, reading
<1>3. CASE StartUpRaises
  BY <1>3 DEF StartUpRaises, Die, Gone, reading
<1>4. CASE Entered
  BY <1>4 DEF Entered, GoTo, reading
<1>5. CASE InspectAllows
  BY <1>5 DEF InspectAllows, GoTo, reading
<1>6. CASE InspectBlocks
  BY <1>6 DEF InspectBlocks, Resume, GoTo, reading
<1>7. CASE SessionOpens
  BY <1>7 DEF SessionOpens, GoTo, reading
<1>8. CASE SessionRefused
  BY <1>8 DEF SessionRefused, Resume, GoTo, reading
<1>9. CASE \E answer \in {"rows", "error", "malformed"} : CallAnswered(answer)
  BY <1>9 DEF CallAnswered, GoTo, reading
<1>10. CASE CallFails
  BY <1>10 DEF CallFails, GoTo, reading
<1>11. CASE SessionCloses
  BY <1>11 DEF SessionCloses, Resume, GoTo, PastAfter, reading
<1>12. CASE CloseRaises
  BY <1>12 DEF CloseRaises, Resume, GoTo, reading
<1>12a. CASE HistoryRaises
  BY <1>12a DEF HistoryRaises, Die, Gone, reading
<1>13. CASE LoopEnds
  BY <1>13 DEF LoopEnds, GoTo, reading
<1>14. CASE RefreshDue
  BY <1>14 DEF RefreshDue, GoTo, reading
<1>15. CASE NotDue
  BY <1>15 DEF NotDue, GoTo, reading
<1>16. CASE UseStatic
  BY <1>16 DEF UseStatic, BeginPoll, GoTo, UpTo, reading
<1>17. CASE UseCached
  BY <1>17 DEF UseCached, BeginPoll, GoTo, UpTo, IsCached, reading
<1>18. CASE BuildFirst
  BY <1>18 DEF BuildFirst, BeginPoll, GoTo, UpTo, reading
<1>19. CASE Rebuild
  BY <1>19 DEF Rebuild, GoTo, IsCached, reading
<1>20. CASE Rebuilt
  BY <1>20 DEF Rebuilt, BeginPoll, GoTo, UpTo, reading
<1>21. CASE SelectRaises
  BY <1>21 DEF SelectRaises, Die, Gone, reading
<1>22. CASE PollEnds
  BY <1>22 DEF PollEnds, Beat, reading
<1>23. CASE PollRaises
  BY <1>23 DEF PollRaises, Beat, reading
<1>24. CASE PauseEnds
  BY <1>24 DEF PauseEnds, GoTo, reading
<1>25. CASE Drained
  BY <1>25 DEF Drained, Gone, reading
<1>26. CASE Rollout
  BY <1>26 DEF Rollout, Signal, reading
<1>27. CASE ProbeFails
  BY <1>27 DEF ProbeFails, Signal, reading
<1>28. CASE Kill
  BY <1>28 DEF Kill, Die, Gone, reading
<1>29. CASE Edit
  BY <1>29 DEF Edit, reading
<1>30. CASE Tick
  BY <1>30 DEF Tick, UpTo, reading
<1>31. CASE UNCHANGED vars
  BY <1>31 DEF vars, clients, reading, clock
<1> QED
  BY <1>1, <1>2, <1>3, <1>4, <1>5, <1>6, <1>7, <1>8, <1>9, <1>10, <1>11,
     <1>12, <1>12a,
       <1>13, <1>14, <1>15, <1>16, <1>17, <1>18, <1>19, <1>20, <1>21, <1>22,
       <1>23, <1>24, <1>25, <1>26, <1>27, <1>28, <1>29, <1>30, <1>31 DEF Next,
       Turn, Answer, World

\* What the agent has read of its past survives every failing refresh.
THEOREM ThePastIsKept == Spec => PastIsKept
<1>1. [Next]_vars => [KeptStep]_vars
  BY KeepsPast
<1> QED
  BY <1>1, PTL DEF Spec, PastIsKept, KeptStep

-----------------------------------------------------------------------------
(***************************************************************************)
(* The life of the pod.  Awaits and points of the turn are steps within a  *)
(* phase; what moves the phases are the steps named here after PodLife's.  *)
(***************************************************************************)

\* The end of a process, from where PodLife allows it.
LEMMA GoneIsDeath ==
  ASSUME NEW left, Gone(left), PodPhase \in {"starting", "between", "ending"} \/ stop # "no"
  PROVE  Pod!Die
<1>1. PodPhase' = "down"
  BY DEF Gone, PodPhase
<1>2. beat' = 0 /\ overdue' = FALSE
  BY DEF Gone
<1> QED
  BY <1>1, <1>2 DEF Gone, Pod!Die

\* A step within a phase is a stutter of the pod, and may be the end of startup.
LEMMA WithinPhase ==
  ASSUME UNCHANGED <<beat, overdue, stop, late>>,
         PodPhase' = PodPhase \/ (PodPhase = "starting" /\ PodPhase' = "between")
  PROVE  Pod!Serve \/ UNCHANGED Pod!vars
BY DEF Pod!Serve, Pod!vars

\* The points of the startup, and those of one reading of the history, are not
\* told apart.
LEMMA SamePhase ==
  ASSUME UNCHANGED kind,
         \/ at = at'
         \/ at \in {"token", "enter"} /\ at' \in {"token", "enter"}
         \/ /\ at \in {"inspect", "open", "call", "close"}
            /\ at' \in {"inspect", "open", "call", "close"}
  PROVE  PodPhase' = PodPhase
<1>1. CASE at = at'
  BY <1>1 DEF PodPhase
<1>2. CASE at \in {"token", "enter"} /\ at' \in {"token", "enter"}
  <2>1. PodPhase = "starting" /\ PodPhase' = "starting"
    BY <1>2 DEF PodPhase
  <2> QED
    BY <2>1
<1>3. CASE /\ at \in {"inspect", "open", "call", "close"}
           /\ at' \in {"inspect", "open", "call", "close"}
  <2>1. PodPhase = IF kind = "startup" THEN "starting" ELSE "between"
    BY <1>3 DEF PodPhase
  <2>2. PodPhase' = IF kind' = "startup" THEN "starting" ELSE "between"
    BY <1>3 DEF PodPhase
  <2> QED
    BY <2>1, <2>2
<1> QED
  BY <1>1, <1>2, <1>3

\* A cycle begins between two, and at most once after a signal.
LEMMA BeginsCycle ==
  ASSUME TypeOK, LateInv, at \in {"select", "closing"}, NEW client, BeginPoll(client)
  PROVE  Pod!BeginCycle
<1>1. PodPhase = "between" /\ PodPhase' = "cycle"
  BY DEF BeginPoll, GoTo, PodPhase
<1>2. late = 0
  BY DEF LateInv
<1>3. UNCHANGED <<beat, overdue, stop>>
  BY DEF BeginPoll, GoTo
<1>4. late' = IF stop = "no" THEN 0 ELSE 1
  BY <1>2 DEF BeginPoll, UpTo
<1> QED
  BY <1>1, <1>2, <1>3, <1>4 DEF Pod!BeginCycle

\* The end of a cycle is a sign of life.
LEMMA EndsCycle ==
  ASSUME at = "poll", Beat
  PROVE  Pod!EndCycle
<1>1. PodPhase = "cycle" /\ PodPhase' = "between"
  BY DEF Beat, PodPhase
<1>2. beat' = 0 /\ overdue' = FALSE
  BY DEF Beat
<1> QED
  BY <1>1, <1>2 DEF Beat, Pod!EndCycle

\* A signal reaches a process that runs; the probe's, one that was slow.
LEMMA Signalled ==
  ASSUME TypeOK, ProbeSparesTheTurning, Rollout \/ ProbeFails
  PROVE  Pod!Next
<1>1. PodPhase \in {"starting", "between", "cycle"} /\ UNCHANGED <<PodPhase, beat, overdue, late>>
  BY DEF Rollout, ProbeFails, Signal, Await, PodPhase, clock, reading
<1>2. PICK cause \in {"rollout", "probe"} :
        stop = "no" /\ stop' = cause /\ (cause = "probe" => ProbeFails)
  BY DEF Rollout, ProbeFails, Signal
<1>3. ProbeFails => beat >= ProbeLimit /\ overdue
  BY TimeAssumption DEF ProbeFails, Signal, ProbeSparesTheTurning, TypeOK
<1>4. Pod!Signal(cause)
  BY <1>1, <1>2, <1>3 DEF Pod!Signal
<1> QED
  BY <1>4 DEF Pod!Next

\* Each step of the loop is a step of the pod or happens inside it.
LEMMA PodStep ==
  ASSUME TypeOK, LateInv, ProbeSparesTheTurning, [Next]_vars
  PROVE  [Pod!Next]_(Pod!vars)
<1>0. ASSUME UNCHANGED <<beat, overdue, stop, late>>,
             PodPhase' = PodPhase \/ (PodPhase = "starting" /\ PodPhase' = "between")
      PROVE  Pod!Next \/ UNCHANGED Pod!vars
  BY <1>0, WithinPhase DEF Pod!Next
<1>1. CASE Boot
  <2>1. Pod!Start
    BY <1>1 DEF Boot, clock, PodPhase, Pod!Start
  <2> QED
    BY <2>1 DEF Pod!Next
<1>2. CASE StartUp
  <2>1. UNCHANGED kind
    BY <1>2 DEF StartUp, GoTo, reading
  <2>2. UNCHANGED <<beat, overdue, stop, late>>
    BY <1>2 DEF StartUp, GoTo, clock
  <2>3. at = "token" /\ at' = "enter"
    BY <1>2 DEF StartUp, GoTo
  <2>4. PodPhase' = PodPhase
    BY <2>1, <2>3, SamePhase
  <2> QED
    BY <2>2, <2>4 DEF Pod!vars
<1>3. CASE StartUpRaises
  BY <1>3, GoneIsDeath DEF StartUpRaises, Die, PodPhase, Pod!Next
<1>4. CASE Entered
  <2>1. PodPhase = "starting"
    BY <1>4 DEF Entered, PodPhase
  <2>2. PodPhase' \in {"starting", "between"}
    BY <1>4 DEF Entered, GoTo, PodPhase
  <2>3. UNCHANGED <<beat, overdue, stop, late>>
    BY <1>4 DEF Entered, GoTo
  <2> QED
    BY <2>1, <2>2, <2>3 DEF Pod!Next, Pod!Serve, Pod!vars
<1>5. CASE InspectAllows
  <2>1. UNCHANGED kind
    BY <1>5 DEF InspectAllows, GoTo, reading
  <2>2. UNCHANGED <<beat, overdue, stop, late>>
    BY <1>5 DEF InspectAllows, GoTo, clock
  <2>3. at = "inspect" /\ at' = "open"
    BY <1>5 DEF InspectAllows, GoTo
  <2>4. PodPhase' = PodPhase
    BY <2>1, <2>3, SamePhase
  <2> QED
    BY <2>2, <2>4 DEF Pod!vars
<1>6. CASE InspectBlocks
  BY <1>6, <1>0 DEF InspectBlocks, Resume, GoTo, reading, PodPhase
<1>7. CASE SessionOpens
  <2>1. UNCHANGED kind
    BY <1>7 DEF SessionOpens, GoTo, reading
  <2>2. UNCHANGED <<beat, overdue, stop, late>>
    BY <1>7 DEF SessionOpens, GoTo, clock
  <2>3. at = "open" /\ at' = "call"
    BY <1>7 DEF SessionOpens, GoTo
  <2>4. PodPhase' = PodPhase
    BY <2>1, <2>3, SamePhase
  <2> QED
    BY <2>2, <2>4 DEF Pod!vars
<1>8. CASE SessionRefused
  BY <1>8, <1>0 DEF SessionRefused, Resume, GoTo, reading, PodPhase
<1>9. CASE \E answer \in {"rows", "error", "malformed"} : CallAnswered(answer)
  <2>1. UNCHANGED kind
    BY <1>9 DEF CallAnswered, GoTo, reading
  <2>2. UNCHANGED <<beat, overdue, stop, late>>
    BY <1>9 DEF CallAnswered, GoTo, clock
  <2>3. at = "call" /\ at' = "close"
    BY <1>9 DEF CallAnswered, GoTo
  <2>4. PodPhase' = PodPhase
    BY <2>1, <2>3, SamePhase
  <2> QED
    BY <2>2, <2>4 DEF Pod!vars
<1>10. CASE CallFails
  <2>1. UNCHANGED kind
    BY <1>10 DEF CallFails, GoTo, reading
  <2>2. UNCHANGED <<beat, overdue, stop, late>>
    BY <1>10 DEF CallFails, GoTo, clock
  <2>3. at = "call" /\ at' = "close"
    BY <1>10 DEF CallFails, GoTo
  <2>4. PodPhase' = PodPhase
    BY <2>1, <2>3, SamePhase
  <2> QED
    BY <2>2, <2>4 DEF Pod!vars
<1>11. CASE SessionCloses
  BY <1>11, <1>0 DEF SessionCloses, Resume, GoTo, reading, PodPhase
<1>12. CASE CloseRaises
  BY <1>12, <1>0 DEF CloseRaises, Resume, GoTo, reading, PodPhase
<1>12a. CASE HistoryRaises
  BY <1>12a, GoneIsDeath DEF HistoryRaises, Die, PodPhase, Pod!Next
<1>13. CASE LoopEnds
  <2>1. Pod!Leave
    BY <1>13 DEF LoopEnds, GoTo, PodPhase, Pod!Leave
  <2> QED
    BY <2>1 DEF Pod!Next
<1>14. CASE RefreshDue
  BY <1>14, <1>0 DEF RefreshDue, GoTo, reading, PodPhase
<1>15. CASE NotDue
  BY <1>15, <1>0 DEF NotDue, GoTo, reading, PodPhase
<1>16. CASE UseStatic
  BY <1>16, BeginsCycle DEF UseStatic, Pod!Next
<1>17. CASE UseCached
  BY <1>17, BeginsCycle DEF UseCached, Pod!Next
<1>18. CASE BuildFirst
  BY <1>18, BeginsCycle DEF BuildFirst, Pod!Next
<1>19. CASE Rebuild
  BY <1>19, <1>0 DEF Rebuild, GoTo, reading, PodPhase
<1>20. CASE Rebuilt
  BY <1>20, BeginsCycle DEF Rebuilt, Pod!Next
<1>21. CASE SelectRaises
  BY <1>21, GoneIsDeath DEF SelectRaises, Die, PodPhase, Pod!Next
<1>22. CASE PollEnds
  BY <1>22, EndsCycle DEF PollEnds, Pod!Next
<1>23. CASE PollRaises
  BY <1>23, EndsCycle DEF PollRaises, Pod!Next
<1>24. CASE PauseEnds
  BY <1>24, <1>0 DEF PauseEnds, GoTo, reading, PodPhase
<1>25. CASE Drained
  BY <1>25, GoneIsDeath DEF Drained, PodPhase, Pod!Next
<1>26. CASE Rollout \/ ProbeFails
  BY <1>26, Signalled
<1>27. CASE Kill
  BY <1>27, GoneIsDeath DEF Kill, Die, PodPhase, Pod!Next
<1>28. CASE Edit
  <2>1. UNCHANGED kind
    BY <1>28 DEF Edit, reading
  <2>2. UNCHANGED <<beat, overdue, stop, late>>
    BY <1>28 DEF Edit, clock
  <2>3. at = at'
    BY <1>28 DEF Edit
  <2>4. PodPhase' = PodPhase
    BY <2>1, <2>3, SamePhase
  <2> QED
    BY <2>2, <2>4 DEF Pod!vars
<1>29. CASE Tick
  <2>1. PodPhase # "down" /\ UNCHANGED <<PodPhase, stop, late>>
    BY <1>29 DEF Tick, Await, reading, PodPhase
  <2>2. beat' = IF beat < ProbeLimit THEN beat + 1 ELSE ProbeLimit
    <3>1. beat + 1 <= ProbeLimit \/ beat = ProbeLimit
      BY TimeAssumption DEF TypeOK
    <3> QED
      BY <1>29, <3>1, TimeAssumption DEF Tick, UpTo, TypeOK
  <2>3. overdue' \in {overdue, TRUE}
    BY <1>29, Zenon DEF Tick, TypeOK
  <2>4. Pod!Tick
    BY <2>1, <2>2, <2>3 DEF Pod!Tick
  <2> QED
    BY <2>4 DEF Pod!Next
<1>30. CASE UNCHANGED vars
  BY <1>30 DEF vars, reading, clock, PodPhase, Pod!vars
<1> QED
  BY <1>1, <1>2, <1>3, <1>4, <1>5, <1>6, <1>7, <1>8, <1>9, <1>10, <1>11,
     <1>12, <1>12a, <1>13, <1>14, <1>15, <1>16, <1>17, <1>18, <1>19, <1>20,
     <1>21, <1>22, <1>23, <1>24, <1>25, <1>26, <1>27, <1>28, <1>29,
     <1>30
     DEF Next, Turn, Answer, World

\* The loop, with all its failures, implements what PodLife promises those who run
\* it.
THEOREM LoopImplementsPodLife == Spec => ImplementsPodLife
<1>1. Init => Pod!Init
  BY DEF Init, Pod!Init, PodPhase
<1>2. TypeOK /\ LateInv /\ ProbeSparesTheTurning /\ [Next]_vars => [Pod!Next]_(Pod!vars)
  BY PodStep
<1> QED
  BY <1>1, <1>2, LoopTypeCorrect, LateHolds, TheProbeSparesTheTurning, PTL
     DEF Spec, ImplementsPodLife, Pod!Spec

=============================================================================
