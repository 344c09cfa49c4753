------------------------------ MODULE AgentLoop ------------------------------
(***************************************************************************)
(* run() of main.py: one process of the agent around its poll cycles.  It  *)
(* boots, opens the Splunk session, reads its own past back from           *)
(* triage-mcp, and then turns: refresh that history when it is due, select *)
(* the LLM client the control files ask for, run a cycle, touch the        *)
(* heartbeat, pause.  The kubelet's probe watches the heartbeat; SIGTERM   *)
(* ends the loop at its top.  Cycles are TriageCycle; here one is an await *)
(* that ends, raises or hangs.                                             *)
(*                                                                         *)
(* Time passes only in awaits.  Allowance is what the deployment gives     *)
(* each of them; only those of Bounded are held to it by the code.         *)
(***************************************************************************)
EXTENDS Integers

CONSTANTS
  None,          \* no client, no model, nothing awaited
  Model,         \* ids of models a vLLM box can serve
  EnvProvider,   \* LLM_PROVIDER of the pod, None when unset
  EnvModel,      \* VLLM_MODEL of the pod, None when unset
  HistoryOn,     \* HISTORY_ENABLED with a command to reach triage-mcp
  RefreshEvery,  \* HISTORY_REFRESH_SECONDS, in ticks
  Allowance,     \* what each await may take, in ticks
  ProbeLimit     \* age of the heartbeat at which the liveness probe fails

Await == {"token", "enter", "inspect", "open", "call", "close",
          "closing", "poll", "pause", "drain"}

\* Awaits that end by themselves: a loop of sleeps, or a timeout of their own.
Bounded == {"token", "inspect", "call", "pause"}

Provider == {"anthropic", "openai", "vllm"}

Client == [model : Model, open : BOOLEAN]

\* One reading of the history, and how old a heartbeat gets before it.
Reading == Allowance["inspect"] + Allowance["open"]
           + Allowance["call"] + Allowance["close"]
Booting == Allowance["token"] + Allowance["enter"]
Lead == IF Booting > Allowance["pause"] THEN Booting ELSE Allowance["pause"]

ASSUME ProviderAssumption == /\ EnvProvider \in Provider \cup {None}
                             /\ EnvModel \in Model \cup {None}
                             /\ None \notin Model \cup Provider \cup Client
ASSUME TimeAssumption == /\ HistoryOn \in BOOLEAN
                         /\ RefreshEvery \in Nat \ {0}
                         /\ Allowance \in [Await -> Nat]
                         /\ ProbeLimit \in Nat
\* The probe is set for the slowest turn: 300 s in k8s/deployment.yaml.
ASSUME ProbeAssumption ==
  Lead + Reading + Allowance["closing"] + Allowance["poll"] < ProbeLimit

VARIABLES
  at,       \* the await, or the point between two, that run() has reached
  kind,     \* "startup" or "refresh": what the history is read for
  payload,  \* what triage-mcp answered, while its session is being closed
  past,     \* startup_history: "none" yet, the "rows" of an answer, or
            \* "emptied" by a payload that is no answer
  stop,     \* stop_event: "no", or set by a "rollout" or a failing "probe"
  files,    \* the control files: provider and vLLM model, None when blank
  hosted,   \* OPENAI_API_KEY and OPENAI_MODEL are set in this pod
  vllm,     \* the cached vLLM client, None before the first one
  live,     \* vLLM clients constructed and not yet closed
  asked,    \* the model this turn asked a vLLM box for
  active,   \* the client of this cycle
  beat,     \* ticks since the heartbeat file was touched, up to ProbeLimit
  spent,    \* ticks of the present await, up to its allowance
  since,    \* ticks since last_history_refresh, up to RefreshEvery
  overdue,  \* an await took longer than its allowance since the last touch
  late      \* cycles begun since stop was set, up to 2

clients == <<hosted, vllm, live, asked, active>>
reading == <<kind, payload, past>>
clock == <<beat, spent, since, overdue>>
vars == <<at, files, stop, late, clients, reading, clock>>

TypeOK ==
  /\ at \in Await \cup {"down", "top", "select"}
  /\ kind \in {"startup", "refresh"}
  /\ payload \in {None, "rows", "error", "malformed"}
  /\ past \in {"none", "rows", "emptied"}
  /\ stop \in {"no", "rollout", "probe"}
  /\ files \in [provider : Provider \cup {None}, model : Model \cup {None}]
  /\ hosted \in BOOLEAN
  /\ vllm \in Client \cup {None}
  /\ live \in Nat
  /\ asked \in Model \cup {None}
  /\ active \in Provider \cup {None}
  /\ beat \in 0 .. ProbeLimit
  /\ spent \in Nat
  /\ since \in 0 .. RefreshEvery
  /\ overdue \in BOOLEAN
  /\ late \in 0 .. 2

UpTo(n, bound) == IF n < bound THEN n ELSE bound

-----------------------------------------------------------------------------
\* A process that is gone: nothing of it is left but `left` open clients.
Gone(left) ==
  /\ at' = "down"
  /\ kind' = "startup" /\ payload' = None /\ past' = "none"
  /\ stop' = "no" /\ late' = 0
  /\ vllm' = None /\ live' = left /\ asked' = None /\ active' = None
  /\ beat' = 0 /\ spent' = 0 /\ since' = 0 /\ overdue' = FALSE
  /\ UNCHANGED <<files, hosted>>

Die == Gone(0)

Init ==
  /\ at = "down"
  /\ kind = "startup" /\ payload = None /\ past = "none"
  /\ stop = "no" /\ late = 0
  /\ files \in [provider : Provider \cup {None}, model : Model \cup {None}]
  /\ hosted \in BOOLEAN
  /\ vllm = None /\ live = 0 /\ asked = None /\ active = None
  /\ beat = 0 /\ spent = 0 /\ since = 0 /\ overdue = FALSE

\* On to the next await (or point); the heartbeat keeps ageing.
GoTo(a) == at' = a /\ spent' = 0 /\ UNCHANGED <<beat, overdue>>

(***************************************************************************)
(* Startup.                                                                *)
(***************************************************************************)
\* The kubelet starts the container; run() touches the heartbeat and waits
\* for the sidecar's token.
Boot ==
  /\ at = "down"
  /\ at' = "token"
  /\ hosted' \in BOOLEAN
  /\ UNCHANGED <<files, stop, late, vllm, live, asked, active, reading, clock>>

\* The token was found or given up; the static clients are constructed.
StartUp ==
  /\ at = "token"
  /\ GoTo("enter")
  /\ UNCHANGED <<files, stop, late, clients, reading, since>>

\* A client without its SOUL file, or a Splunk session that does not open,
\* ends the process.
StartUpRaises == at \in {"token", "enter"} /\ Die

Entered ==
  /\ at = "enter"
  /\ GoTo(IF HistoryOn THEN "inspect" ELSE "top")
  /\ since' = 0
  /\ UNCHANGED <<files, stop, late, clients, reading>>

(***************************************************************************)
(* _rehydrate_history: inspect, open a session, call, close it.            *)
(***************************************************************************)
\* Back to run(), which sets last_history_refresh whatever came of it.  Only
\* the top of the loop looks at stop_event.
Resume ==
  /\ GoTo(IF kind = "startup" THEN "top" ELSE "select")
  /\ since' = 0
  /\ payload' = None
  /\ UNCHANGED <<files, stop, late, clients, kind>>

InspectAllows ==
  /\ at = "inspect"
  /\ GoTo("open")
  /\ UNCHANGED <<files, stop, late, clients, reading, since>>

InspectBlocks == at = "inspect" /\ Resume /\ UNCHANGED past

\* SplunkClient.__aenter__: not inside the wait_for.
SessionOpens ==
  /\ at = "open"
  /\ GoTo("call")
  /\ UNCHANGED <<files, stop, late, clients, reading, since>>

SessionRefused == at = "open" /\ Resume /\ UNCHANGED past

\* The tool answers in time ...
CallAnswered(answer) ==
  /\ at = "call"
  /\ GoTo("close")
  /\ payload' = answer
  /\ UNCHANGED <<files, stop, late, clients, kind, past, since>>

\* ... or raises, or is timed out; the session is closed all the same.
CallFails ==
  /\ at = "call"
  /\ GoTo("close")
  /\ UNCHANGED <<files, stop, late, clients, reading, since>>

\* Seeded fault: an answer with an error is taken for one without events.
PastAfterIgnoringErrors(answer) ==
  IF answer = "rows" THEN "rows" ELSE IF answer # None THEN "emptied" ELSE past

\* What startup_history becomes.  A payload with an error keeps it; one that
\* is no dict at all counts as a dict without events.
PastAfter(answer) == IF answer = "rows" THEN "rows"
                     ELSE IF answer = "malformed" THEN "emptied" ELSE past

SessionCloses == at = "close" /\ Resume /\ past' = PastAfter(payload)

\* A dict whose events cannot be gone through (they are null) raises behind the
\* try of the reading, and outside every try of run().
HistoryRaises == at = "close" /\ payload = "malformed" /\ Die

\* Closing the session raises: the answer is lost with it.
CloseRaises == at = "close" /\ Resume /\ UNCHANGED past

(***************************************************************************)
(* The top of the loop and _select_llm.                                    *)
(***************************************************************************)
CurrentProvider ==
  IF files.provider # None THEN files.provider
  ELSE IF EnvProvider # None THEN EnvProvider ELSE "anthropic"

CurrentModel == IF files.model # None THEN files.model ELSE EnvModel

WantsVllm == CurrentProvider = "vllm" /\ CurrentModel # None

LoopEnds ==
  /\ at = "top" /\ stop # "no"
  /\ GoTo("drain")
  /\ UNCHANGED <<files, stop, late, clients, reading, since>>

RefreshDue ==
  /\ at = "top" /\ stop = "no"
  /\ HistoryOn /\ since = RefreshEvery
  /\ GoTo("inspect")
  /\ kind' = "refresh"
  /\ UNCHANGED <<files, stop, late, clients, payload, past, since>>

\* Seeded fault: the turn goes on although stop_event is set.
NotDueThoughStopped ==
  /\ at = "top"
  /\ HistoryOn => since < RefreshEvery
  /\ GoTo("select")
  /\ UNCHANGED <<files, stop, late, clients, reading, since>>

NotDue ==
  /\ at = "top" /\ stop = "no"
  /\ HistoryOn => since < RefreshEvery
  /\ GoTo("select")
  /\ UNCHANGED <<files, stop, late, clients, reading, since>>

\* poll_once is called with `client`; nothing has awaited since it was selected.
BeginPoll(client) ==
  /\ GoTo("poll")
  /\ active' = client
  /\ late' = IF stop = "no" THEN late ELSE UpTo(late + 1, 2)
  /\ UNCHANGED <<files, stop, hosted, reading, since>>

\* A static client, asked for or fallen back to.
UseStatic ==
  /\ at = "select" /\ ~WantsVllm
  /\ BeginPoll(IF CurrentProvider = "openai" /\ hosted
                 THEN "openai" ELSE "anthropic")
  /\ asked' = None
  /\ UNCHANGED <<vllm, live>>

IsCached(model) == vllm # None /\ vllm.model = model

UseCached ==
  /\ at = "select" /\ WantsVllm /\ IsCached(CurrentModel)
  /\ BeginPoll("vllm")
  /\ asked' = CurrentModel
  /\ UNCHANGED <<vllm, live>>

BuildFirst ==
  /\ at = "select" /\ WantsVllm /\ vllm = None
  /\ BeginPoll("vllm")
  /\ asked' = CurrentModel
  /\ vllm' = [model |-> CurrentModel, open |-> TRUE]
  /\ live' = live + 1

\* The box serves another model now: the old client is closed, an await, ...
Rebuild ==
  /\ at = "select" /\ WantsVllm /\ vllm # None /\ ~IsCached(CurrentModel)
  /\ GoTo("closing")
  /\ asked' = CurrentModel
  /\ UNCHANGED <<files, stop, late, hosted, vllm, live, active, reading, since>>

\* Seeded fault: the old client is replaced without being closed.
RebuiltWithoutClosing ==
  /\ at = "closing"
  /\ BeginPoll("vllm")
  /\ vllm' = [model |-> asked, open |-> TRUE]
  /\ live' = live + 1
  /\ UNCHANGED asked

\* ... and the new one constructed for what was read before it.
Rebuilt ==
  /\ at = "closing"
  /\ BeginPoll("vllm")
  /\ vllm' = [model |-> asked, open |-> TRUE]
  /\ UNCHANGED <<live, asked>>

\* The heartbeat is touched, and wait_for(stop_event.wait()) begins.
Beat ==
  /\ at' = "pause"
  /\ beat' = 0 /\ spent' = 0 /\ overdue' = FALSE
  /\ asked' = None /\ active' = None
  /\ UNCHANGED <<files, stop, late, hosted, vllm, live, reading, since>>

\* Seeded fault: the loop's try covers the selection too, and the next turn
\* finds the closed client in the cache.
SelectRaisesCaught ==
  /\ at \in {"select", "closing"}
  /\ at' = "pause"
  /\ beat' = 0 /\ spent' = 0 /\ overdue' = FALSE
  /\ vllm' = IF at = "closing" THEN [vllm EXCEPT !.open = FALSE] ELSE vllm
  /\ live' = IF at = "closing" /\ vllm.open THEN live - 1 ELSE live
  /\ asked' = None
  /\ UNCHANGED <<files, stop, late, hosted, active, reading, since>>

\* A control file that is no text, a vLLM client that cannot be constructed, or
\* the old one that cannot be closed: outside every try of the loop, so that the
\* process ends.
SelectRaises == at \in {"select", "closing"} /\ Die

(***************************************************************************)
(* The cycle, the heartbeat and the end.                                   *)
(***************************************************************************)
PollEnds == at = "poll" /\ Beat

\* Seeded fault: the heartbeat is touched only after a cycle that succeeds.
PollRaisesUntouched ==
  /\ at = "poll"
  /\ at' = "pause"
  /\ spent' = 0 /\ overdue' = FALSE /\ UNCHANGED beat
  /\ asked' = None /\ active' = None
  /\ UNCHANGED <<files, stop, late, hosted, vllm, live, reading, since>>

\* Seeded fault: an exception of the cycle leaves run().
PollRaisesUncaught == at = "poll" /\ Die

\* Caught and reported as poll.failed.
PollRaises == at = "poll" /\ Beat

PauseEnds ==
  /\ at = "pause" /\ (stop # "no" \/ spent = Allowance["pause"])
  /\ GoTo("top")
  /\ UNCHANGED <<files, stop, late, clients, reading, since>>

\* Seeded fault: a client that was never constructed is closed.
DrainedUnasked == at = "drain" /\ Gone(live - 1)

\* The sessions are left, the state server is stopped, the clients are closed.
Drained ==
  /\ at = "drain"
  /\ Gone(IF vllm = None THEN live ELSE live - 1)

(***************************************************************************)
(* The world: operators, the kubelet, time.                                *)
(***************************************************************************)
\* A signal sets stop_event while the event loop is in an await.
Signal(cause) ==
  /\ at \in Await \ {"token", "drain"}
  /\ stop = "no"
  /\ stop' = cause
  /\ UNCHANGED <<at, files, late, clients, reading, clock>>

Rollout == Signal("rollout")

ProbeFails == beat >= ProbeLimit /\ Signal("probe")

\* The grace period is over: a cycle may take longer than it.
Kill == stop # "no" /\ Die

\* The ConfigMap behind the control files is edited.
Edit ==
  /\ files' \in [provider : Provider \cup {None}, model : Model \cup {None}]
  /\ UNCHANGED <<at, stop, late, clients, reading, clock>>

\* Seeded fault: a timer of its own touches the heartbeat.
TickTouching ==
  /\ at \in Await
  /\ at \in Bounded => spent < Allowance[at]
  /\ beat' = 0
  /\ spent' = UpTo(spent + 1, Allowance[at])
  /\ since' = UpTo(since + 1, RefreshEvery)
  /\ overdue' = (overdue \/ spent = Allowance[at])
  /\ UNCHANGED <<at, files, stop, late, clients, reading>>

Tick ==
  /\ at \in Await
  /\ at \in Bounded => spent < Allowance[at]
  /\ beat' = UpTo(beat + 1, ProbeLimit)
  /\ spent' = UpTo(spent + 1, Allowance[at])
  /\ since' = UpTo(since + 1, RefreshEvery)
  /\ overdue' = (overdue \/ spent = Allowance[at])
  /\ UNCHANGED <<at, files, stop, late, clients, reading>>

\* What the process does of itself and without waiting for ever.
Turn ==
  \/ Boot \/ StartUp \/ StartUpRaises
  \/ InspectAllows \/ InspectBlocks
  \/ \E answer \in {"rows", "error", "malformed"} : CallAnswered(answer)
  \/ CallFails \/ SessionCloses \/ HistoryRaises \/ CloseRaises
  \/ LoopEnds \/ RefreshDue \/ NotDue
  \/ UseStatic \/ UseCached \/ BuildFirst \/ Rebuild \/ Rebuilt \/ SelectRaises
  \/ PauseEnds \/ Drained

\* What may never come.
Answer == Entered \/ SessionOpens \/ SessionRefused \/ PollEnds \/ PollRaises

World == Rollout \/ ProbeFails \/ Kill \/ Edit \/ Tick

Next == Turn \/ Answer \/ World

Spec == Init /\ [][Next]_vars

(***************************************************************************)
(* The process runs, time passes, the kubelet does its work.  Of what a    *)
(* process may die of or wait for on its way to its first cycle, each      *)
(* succeeds in time again and again if it is tried again and again.        *)
(* Nothing is assumed of a cycle: it may hang every time.                  *)
(***************************************************************************)
InTime(A) == A /\ ~overdue

FairSpec ==
  /\ Spec
  /\ WF_vars(Turn) /\ WF_vars(Tick) /\ WF_vars(ProbeFails) /\ WF_vars(Kill)
  /\ SF_vars(StartUp) /\ SF_vars(InTime(Entered))
  /\ SF_vars(InTime(SessionOpens)) /\ SF_vars(InTime(SessionCloses))
  /\ SF_vars(UseStatic \/ UseCached \/ BuildFirst)

-----------------------------------------------------------------------------
(***************************************************************************)
(* Properties.                                                             *)
(***************************************************************************)

\* A cycle that runs on a vLLM box uses a client that is still open and that
\* speaks to the model this turn asked for, whatever clients were replaced or
\* failed to be constructed before (_select_llm closes the old client first).
ClientInUseIsOpen ==
  active = "vllm" => vllm # None /\ vllm.open /\ vllm.model = asked

\* At most one vLLM client is open, it is the cached one, and none is left
\* when the process is gone: a toggled model leaks no connection pool.
OneClient == live = IF vllm # None /\ vllm.open THEN 1 ELSE 0

\* However the signal falls into refresh, selection or cycle, at most one cycle
\* starts after it: the loop looks at stop_event once a turn.
OneLateCycle == late <= 1

\* The probe does not fail while every await since the last touch kept to its
\* allowance: touching the file once a turn, after a cycle of either outcome,
\* is enough for the slowest turn and for the startup before the first cycle.
ProbeSparesTheTurning ==
  at # "drain" /\ ~overdue => beat < ProbeLimit

\* Once the agent has read its past it keeps it: reads that are blocked,
\* refused, timed out, answered with an error or raise on closing leave it
\* alone, until the process ends or a payload that is no dict empties it (one
\* whose events are null ends the process).
PastIsKept ==
  [][past = "rows" /\ past' # "rows" => at' = "down" \/ payload = "malformed"]_vars

\* Cycles go on until a rollout, though each of them may hang for ever: the
\* probe finds it, and the next process gets through its startup in time.
PollsGoOn == []<>(at = "poll" \/ stop = "rollout")

\* Where the process is in its life, as seen from outside.
PodPhase ==
  CASE at = "down" -> "down"
    [] at \in {"token", "enter"} -> "starting"
    [] at \in {"inspect", "open", "call", "close"} /\ kind = "startup" -> "starting"
    [] at = "poll" -> "cycle"
    [] at = "drain" -> "ending"
    [] OTHER -> "between"

Pod == INSTANCE PodLife WITH phase <- PodPhase, age <- beat, slow <- overdue

\* The loop implements PodLife: no cycle, however it fails, takes the process
\* down; only the end of one renews the heartbeat, so that no other await hides
\* a hang; the probe spares a process that was not slow; and at most one cycle
\* begins after a signal.
ImplementsPodLife == Pod!Spec

=============================================================================
