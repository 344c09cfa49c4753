# A verification of the network triage agent

The agent polls Splunk every 30 seconds, asks an LLM which stores are faulting,
drills into these, asks the LLM for a report on each, and posts cards to a
Microsoft Teams channel.  What the LLM says is not trusted: a few hundred lines
of Python (`src/state.py` and `_run_cycle` in `src/main.py`) decide from it,
with counters, windows and comparisons, which cards are posted, lowered, held,
repeated as reminders or resolved.  These modules say what that deterministic
part does under every answer the LLM, Splunk and Teams may give, and check and
prove what the operators of the channel can rely on.  Around it they model the
process that turns the cycles, the calls to the LLM and what they cost, and the
records of the agent that it, and a chat bot, read back out of Splunk.

## 1. The system

### Components

| component | state | operations | interacts with |
|---|---|---|---|
| alert memory (`state.py`) | five dictionaries by store: open alerts, pending downgrade and streak, time of the last recovery, clear streak, time of the last reminder; the history read at startup | `record_sent`, `is_unchanged`, `effective_severity`, `advance_recovery`, `clear`, `in_cooldown`, `due_for_reminder`, `mark_reminded`, `snapshot` | called by the poll cycle, read by the state server |
| poll cycle (`main.py` `_run_cycle`, `_send_recovery`, `_run_all_drills`) | locals of one cycle: scan rows, the snapshot, the correlate set, recoveries, reports | scan, detection pass, recoveries in one gather, reminders, drills, triage pass, cards | Splunk client, LLM client, alert memory, Teams |
| Teams channel (`teams_card.py`) | what the operators see | `post_card`, three card layouts | webhook, 30 s timeout, an error from status 400 on |
| agent loop (`main.py` `run`, `_rehydrate_history`) | heartbeat file, history and its age, the stop event | poll, refresh of the history, heartbeat, shutdown | everything; the Kubernetes probe reads the heartbeat |
| state server (`main.py`, `events.py`) | latest cycle id and start | `GET /state`, `GET /health` | on the agent's event loop; asked by the chat surface |
| LLM client (`llm_client.py`, `genai.py`) | HTTP clients, the prompt file | `detection_pass`, `triage_pass`, two dialects of tool calls | three providers |
| LLM selection (`main.py` `_select_llm`, `config.py`) | control files and environment, the cached vLLM client | `current_provider`, `current_vllm_model`, `current_reminder_interval` | read in every cycle |
| Splunk client and drills (`splunk_client.py`, `correlation.py`, `queries.py`) | one MCP session for the life of the process | `run_query`, `call_tool`, five drills per store | MCP proxy of the sidecar |
| chat surface (`triage_mcp.py`) | query cache with TTL, last inspection verdicts | list and get alerts, recent cycle, history, summary, feedback | state server, Splunk, sidecar |
| tool inspection (`mcp_inspect.py`) | none | `inspect_tool`, `is_blocked` | sidecar |
| event stream and usage spool (`events.py`) | cycle id, spool directory | `emit`, `new_cycle`, `_spool_usage` | stdout, the sidecar drains the spool |
| tracing (`tracing.py`, `genai.py`) | the exporter | `span`, `llm_call` | wraps cycles, queries and LLM calls |
| alert records (`main.py`, `triage_mcp.py`) | the `triage.report` events, in Splunk when the collector has brought them | printed by the cycle; `_recurrence_summary`, `get_alert_history`, `get_alert_summary` | prompts, cards, the chat bot |
| store identifiers (`store.py`) | none | extraction from host names | scans and cards |
| offline demo (`mock_splunk.py`, `mock_llm.py`) | the scenario number | scripted answers | `run(mock=True)` |
| A/B harness, smoke test, manifests | none | one-shot scripts, deployment | |

Everything in the agent process runs in one asyncio event loop.  The poll loop
is one task; the recoveries of a cycle are concurrent tasks of one `gather`; the
handlers of the state server are tasks of the same loop.  So the code between
two awaits is atomic, and the interesting interleavings are at the awaits: the
clock moves on, a second recovery proceeds, the process is killed.

### What is hard

* **Failures halfway.**  A cycle has ten awaits that may raise.  After
  `advance_recovery` has moved the streaks, the drills or the triage pass may
  fail; a card may be refused, or taken with its answer lost.
* **Order of memory and POST.**  An alert is recorded *after* its POST, a
  recovery is cleared *before* its POST.  Each order loses something different.
* **Restarts.**  The alert memory is not persistent.  The history that is read
  back at startup is context for the prompt and is not merged into the memory.
* **Several clocks.**  Clear streaks count detection passes, the downgrade
  streak counts proposals, the cooldown and the reminders read the wall clock.
* **Stale snapshots.**  The LLM sees the memory as it was before the recoveries
  of the same cycle, and decides send or skip on it.
* **Awaits without a timeout.**  Opening the history session, closing it and the
  cycle itself can hang; only the probe of the pod ends that.
* **Clients replaced between cycles.**  The LLM client follows control files that
  may change at any time, and replacing it is an await that may raise.
* **Records that come late.**  What was printed reaches Splunk after a while, in
  another order, or never; every reader cuts at some limit.

### What makes each component correct

* *Alert memory and poll cycle.*  A store is resolved only after a real quiet
  period, and is resolved in the end.  Two incidents of a store are a cooldown
  apart.  Nothing of one incident influences the next.  A tier is lowered only
  when that has been proposed often enough.  A card always says something new.
  A reminder is an interval apart from the last notice.  What the agent thinks
  is open is what Teams shows, unless an outcome was lost.
* *Agent loop.*  History is enrichment and never stops the loop; the heartbeat
  is fresh as long as the loop turns; shutdown ends in the clean-up.
* *Chat surface.*  An answer out of the cache is the answer of an equal query no
  older than the TTL; what is listed as active is what the agent has open.
* *LLM selection.*  The client in use is the one the control files ask for or
  the default, and it is never a closed one.
* *Inspection.*  A call that is blocked is not made; a sidecar that is down
  blocks exactly when the mode says so.
* *LLM passes.*  A triage pass is about all the drilled stores or fails.  A call
  that was answered is paid for, and is on the books once.
* *Usage spool.*  The relay never reads half a record.
* *Alert records.*  An answer that lacks something says so; incidents are split
  at the silences asked for; a recurrence note claims no more than was reported.

`PROJECT.json` lists the hazards of the code line by line, each with the
properties that cover it, or the reason why none does.

## 2. Modules

```
AlertState            state.py: the dictionaries, one operator per method
  TriageCycle         main.py: the poll cycle, Teams, the clock, restarts
    |- AlertLifecycle     the abstract contract, INSTANCEd with a refinement mapping
    |- MCTriageCycle      instances for TLC
    |- TriageCycle_proofs, Lifecycle_proofs
    TriageHistory     the cycle with history variables, and what is said over them
      |- OperatorView       what the operators of the channel are promised, likewise
      |- MCTriageHistory
      |- TriageHistory_proofs
SplunkCache           triage_mcp.py: the history tools and the query cache they share
  |- MCSplunkCache
  |- SplunkCache_proofs
AgentLoop             main.py: the process around the cycles, its LLM clients, the probe
  |- PodLife            what those who run the pod are promised, likewise
  |- MCAgentLoop
  |- AgentLoop_proofs
LlmPass               llm_client.py, events.py: the calls of a cycle and their usage
  |- UsageLedger        what the calls may cost, likewise
  |- MCLlmPass
  |- LlmPass_proofs
AlertRecords          the reports in Splunk and what their three readers make of them
  |- MCAlertRecords
  |- AlertRecords_proofs
```

The modules of the last three groups look at one thing each and take the rest
from the others as what may happen: a cycle is an await in AgentLoop, one or
more calls in LlmPass, a bracket around reports in AlertRecords and all of
TriageCycle; whatever AgentLoop does to it (a restart, a cycle that fails) is an
action there.  They share no variables, so that what holds in one needs nothing
of another.

**AlertState** keeps the dictionaries of class `AlertState` as total functions on
`Store`; the value for a missing key is what the `.get` or `.pop` of the code
falls back to.  Each method is one operator of the same name in CamelCase.  A
method that decides and changes state at once is two operators:
`effective_severity` is `EffectiveSeverity` (its result) and `AdvanceDowngrade`
(what it stores), `advance_recovery` is `ReadyToRecover` and `AdvanceRecovery`.
The triple (scope, root cause, set of domains) that the dedup backstop compares
is one value, the card's `Signature`; the site is only printed.

**TriageCycle** is `_run_cycle`.  `pc` names the await, or the loop, that the
cycle is in:

| `pc` | the code is | actions |
|---|---|---|
| `idle` | waiting for the poll timer | `BeginCycle` |
| `scan` | in the gather of the four scans | `ScansAnswered`, `CycleFails` |
| `detect` | in `detection_pass` | `Detected(stores)`, `DetectedAndRaised(stores)`, `CycleFails` |
| `recover` | in the gather of the recoveries, or behind it | `StartRecovery(s)`, `EndRecovery(s, delivered)`, `RecoveriesDone(interval)`, `CycleFails` |
| `remind` | in the reminder loop | `Remind(s, ok)`, `RemindersDone` |
| `drill` | in `_run_all_drills` | `DrillsAnswered`, `CycleFails` |
| `triage` | in `triage_pass` | `TriageAnswered`, `CycleFails` |
| `post` | in the loop over the reports | `HandleReport(r)`, `CardAccepted`, `CardRefused`, `CardAnswerLost`, `ReportsDone` |

A failed cycle leaves nothing behind but what it had already done.  Two places
are easily overlooked.  The answer of the detection pass is not validated, and a
store among its `recovery_stores` that cannot be in a set raises at
`main.py:319`, between `advance_recovery` and the gather: the streaks have moved,
the recoveries are lost (`DetectedAndRaised`).  And the control file of the
reminder interval raises behind the gather when it is no text, since
`_read_text` catches `OSError` only (`CycleFails` in `recover`).

`Tick` and `Restart(delivered)` may come at any time.  `Restart` loses the alert
memory and the cycle; each card in flight may still arrive.

The reports of the triage pass are chosen one at a time, any store any number of
times in any order, and the loop may end after any of them.  That is every list
of reports, because nothing the code does before the end of the list depends on
what follows; it also covers a report so malformed that handling it raises,
which ends the cycle there.  What the LLM is shown (rows, snapshot, recurrence)
is not in the state because its answer is arbitrary whatever it is shown: every
property here holds for an LLM that misreads all of it.

**AlertLifecycle** is the contract without the machinery: incidents open after
the cooldown, are updated only with new content, keep their first-seen time,
close, and are forgotten by a restart.

**TriageHistory** adds what an observer of the detection passes, the reports and
the channel would write down: `absent` (passes in a row without a store since it
was last correlated or its alert opened, counted up to `PassesToClear`), `notice`
(the last card or reminder Teams acknowledged, and when), `lowRun` (the cycles in which a lower tier was proposed, in
total and in a row), `diverged` (stores of which an outcome was lost).  Each
action conjoins an update of the history to the action of TriageCycle.  The
history only watches, except that `OneReportEach = TRUE` allows one report on a
store in a cycle, as the tool description asks of the LLM ("one triage report
per correlated store") and nothing in the code enforces.

**OperatorView** is what those who read the channel may rely on, in terms of what
they see: the last card about each store, the notices that come with time, and
which stores are in doubt.  It has no poll cycle, no memory of the agent and no
POST in flight.  An alert card says something new, unless its store is in doubt;
RESOLVED appears only over an alert; a reminder comes an interval after the last
acknowledged notice; a restart puts every alert in doubt.  `doubtful` is `diverged`
of TriageHistory, the rest maps to the variables of the same names.

**SplunkCache** is a call of `get_alert`, `get_alert_history` or
`get_alert_summary`, any number of them at once, through `_query_splunk`:

| `phase` | the call is in | actions |
|---|---|---|
| `idle` | no call | `Call(c, r)`: validation, then the cache (`Lookup`) |
| `live` | `_get_live_state` (only `get_alert`) | `LiveAnswered(c, open)` |
| `inspect` | `_inspect` | `Inspected(c, action)` |
| `open` | `SplunkClient.__aenter__` | `SessionOpened(c, ok)` |
| `query` | `run_query` under `wait_for` | `Fetched`, `QueryFailed`, `TimedOut` |
| `close` | `SplunkClient.__aexit__` | `Closed` (store, sweep, answer), `CloseFailed` |

Rows are represented by the query they answer and by their age.  All times are
ages that stop where no comparison of the code can tell them apart, so this model
is finite without a bound on the clock.  `KeyOf` follows the f-strings of the
cache keys field by field; a store id that contains the separator `:` is not
modelled.

**AgentLoop** is `run()` with `_rehydrate_history` and `_select_llm`.  `at` names
the await it is in, or the point between two:

| `at` | the process is | actions |
|---|---|---|
| `down` | not running | `Boot` |
| `token`, `enter` | waiting for the gateway token; opening the Splunk session | `StartUp`, `Entered`, `StartUpRaises` |
| `inspect`, `open`, `call`, `close` | reading its past, at startup or again (`kind`) | `InspectAllows`, `InspectBlocks`, `SessionOpens`, `SessionRefused`, `CallAnswered`, `CallFails`, `SessionCloses`, `HistoryRaises`, `CloseRaises` |
| `top` | at the test of the loop | `LoopEnds`, `RefreshDue`, `NotDue` |
| `select`, `closing` | in `_select_llm`; waiting for the old vLLM client to close | `UseStatic`, `UseCached`, `BuildFirst`, `Rebuild`, `Rebuilt`, `SelectRaises` |
| `poll`, `pause` | in `poll_once`; in `wait_for(stop_event.wait())` | `PollEnds`, `PollRaises`, `PauseEnds` |
| `drain` | cleaning up | `Drained` |

Operators edit the control files (`Edit`), roll out (`Rollout`), the probe fails
(`ProbeFails`), the grace period ends (`Kill`) and time passes (`Tick`).  An
await of `Bounded` ends by itself after its `Allowance`, since the code gives it
a timeout or a count; any other may take for ever, and then `overdue` is set.
`past` is `startup_history` as far as it matters here: not read, read, or emptied
by an answer that is no dict.  `HistoryRaises` is a dict whose `events` are null,
which ends the process: the list is made behind the `try` of the reading.
`SelectRaises` is anything that raises in `_select_llm`: a control file that is no
text, a client that cannot be constructed or closed.

**PodLife** is the same process as the kubelet and an operator see it: starting,
between two cycles, in one, ending, down.  A cycle never takes it down; only the
end of a cycle renews the heartbeat, so that a hang anywhere ages it; the probe's
signal reaches only a process that was slow since its last cycle; and at most one
cycle begins after a signal.  `PodPhase` maps the points of the loop to
its five phases.

**LlmPass** is a cycle seen from its LLM calls.  `pc` goes from `call` (a prompt
is still to send) over `wait`, `exit` (leaving the span), `print`, `open`, `fill`
and `rename` (the steps of the spool file) to `took`, once for every prompt, and
then to `handed`, where the pass has returned.  A prompt is the set of stores it
asks about.  `line` is the record as `emit` has it in hand, from its print to the
end of its file: the print gives it an id not drawn before (what `uuid4` is taken
for), and the file is written from it.  The relay is external: it takes finished files, posts them or fails,
deletes them or fails, as the comments of `k8s/deployment.yaml` describe it.

**UsageLedger** is the same for the one who adds up the bill: calls are sent,
answered, logged and posted, and nothing else is known of them.  None is sent
while another is owed, each is logged once, under an id of its own, and only if it
was answered; Splunk (`hec`) has nothing that the log (`stdout`) has not, the ids
included, so that a dashboard that counts ids counts calls; and what is owed is
lost only with the process.  `due` of LlmPass is what is owed.

**AlertRecords** keeps `log`, the reports in the order they were printed, and
`indexed`, those that have reached Splunk.  A reader is an operator that returns
a set of positions in `log`, or the set of all results that the ties of its sort
and the order of the stores leave open.  `get_alert_summary`'s pipeline of SPL is
one operator per stage: `AlertsOf` (search), `Opens` (eval), `IncidentSeq`
(streamstats), `Incident` (stats), `SummaryRows` (the row limit).  An answer of
Splunk that is no error and cannot be read becomes one without rows
(`_parse_response`): `Answers` and `SummaryRows` have it beside the real ones, and
so may every reading of the history come back empty.

Operators whose comment says *seeded fault* are not part of the model: each is a
definition with a plausible bug in it, and for each property there is one under
which TLC finds the property violated (the `mutants` of `PROJECT.json`).

## 3. What is checked

| run | question | bounds | states |
|---|---|---|---|
| `history_one_store` | The life of one store's incidents and what its operators see: types, `IncidentsApart`, `NothingLeftBehind`, `NoPhantomAlert`, `RecoveriesAreQuiet`, `AlertsDoNotLinger`, `ChannelAgrees`, `NoRepeatedCard`, `RemindersApart`, refinement of AlertLifecycle and of OperatorView | 1 store; P1, P2 and a non-tier; 2 signatures; hold 2, clear 2, cooldown 2, reminders 2; clock to 5 | 330 000 |
| `history_two_stores` | Does it hold store by store when two share a cycle and an outcome of one is lost? `ChannelAgrees`, refinement of OperatorView | 2 stores, 2 signatures, clock to 2 | 560 000 |
| `history_downgrade` | `LoweredOverCycles` | 1 store, three tiers, one report in a cycle | 48 000 |
| `cycle_liveness` | Is a quiet store closed in the end? `QuietStoresClose` | 2 stores, 1 tier, clock to 1 | 60 000 |
| `cache_answers` | What are callers answered out of the cache, and what is in it? `AnswersTheQuestion`, `FreshAnswers`, `GrowthIsBounded`, types | 2 concurrent calls, histories with two limits and summaries, TTL 2, timeouts 1, 1 entry | 840 000 |
| `cache_liveness` | Is every call answered? `EveryCallEnds` | 2 concurrent calls, two tools, hours valid and not | 65 000 |
| `agent_loop` | Does the process around the cycles keep its clients, its past and its pulse? `ClientInUseIsOpen`, `OneClient`, `OneLateCycle`, `ProbeSparesTheTurning`, `PastIsKept`, `PollsGoOn`, refinement of PodLife, types | 2 models, all control files, refresh after 2 ticks, five awaits of one tick, probe at 5 | 120 000 |
| `llm_pass` | Are passes handed on whole, and is their usage on the books once? `HandedOnWhole`, `UsageOfEveryAnswer`, `NoHalfRecord`, refinement of UsageLedger, types | 2 stores, 3 calls, 3 ids, a spool | 120 000 |
| `alert_records` | What do the readers of the records miss? `NoteIsBacked`, `CompleteOrTruncated`, `SplitAtSilence`, `SummaryAddsUp`, `ForgetsOnlyTheOld`, types | 2 stores, 3 reports, clock to 3, window 2, limits and row limit of 2 | 1 410 000 |
| `finding_downgrade` | Are the cycles of a downgrade consecutive? No. | 1 store | |
| `finding_resolved` | Does a recovered store show RESOLVED? No. | 1 store | |
| `finding_cached_gap` | Is an answer the answer of the query asked for? No. | 1 caller, two gaps | |

The bounds.  `MaxTime` bounds the clock of the cycle.  A clear streak is counted up
to `PassesToClear`, where its one comparison can tell no more apart (cycles that
raise over the answer of their detection pass would let it grow on), and a
downgrade streak that reaches its threshold ends.  A clock that goes well past the cooldown
lets an incident open, close, wait out its cooldown and reopen, with reminders
of both incidents.  Stores share nothing but the phase of the cycle and the one
card in flight, so two stores show every interference; symmetry between stores
is used in the safety runs only.  Thresholds of 2 and 3 tell "more than one"
and "in a row" from "once".  A tier above, a tier below and a non-tier
(`RESOLVED`, which the tool schema allows) are what the hysteresis tells apart;
`history_downgrade` has three tiers because a change of the candidate tier needs
two that are lower.  Two calls suffice for the cache
because calls meet only in its entries, one writing what the other reads; one
allowed entry makes every second key overflow it.

In `agent_loop` nothing is bounded but ages, each at the value from which no
comparison tells it apart; the model is finite by itself.  The allowances are
the smallest under which every await of a reading can be the slow one, and
`ProbeLimit` is the least that the assumption of the module allows, so that one
tick more anywhere would be a violation.  Two models make a client be replaced
and replaced back.  Three LLM calls are a detection and a chunked triage of two
stores, or parts of three cycles.  Three reports are the fewest that can be two
incidents of one store with two alerts in one of them, or fill a limit of 2 with
one store and hide the other; a window of 2 on a clock to 3 lets reports leave
it.  `llm_pass` disables the deadlock check, because no call is left after
`MaxCalls`; in the other runs something can always happen.

What the runs say to an operator of the channel:

* RESOLVED for a store comes after `RECOVERY_CLEAR_CYCLES` detection passes in a
  row that did not name it, all of them since its alert was opened.  Failed
  passes do not count, and neither interrupt nor prolong the streak.  It comes
  after no more than these (with a count of 0, one pass), whatever failed before:
  a cycle that gets over the answer of its detection pass closes every store whose
  streak is complete.  An answer that raises there leaves the stores open, with
  their streaks kept, until the next pass whose answer does not.
* An answer of Splunk or of the detection pass that cannot be read, and is no
  error, counts as one that names no store.  The agent cannot tell it from a
  healthy fleet, and neither do these properties: quiet passes are what the code
  takes for quiet.
* No incident is opened within the cooldown of the last recovery, even when the
  guard is asked seconds before the POST ends.
* Where Teams and the agent disagree about a store, a RESOLVED card was refused,
  the answer to a card was lost, or the process was restarted while the store
  was open or a card was in flight.  Nothing else makes them disagree.
* A card is posted twice only in these cases, whatever the LLM says of dedup.
* All that can be seen in the channel, over any number of cycles, is a behaviour of
  OperatorView.

And to a user of the chat bot:

* An answer out of the cache is about the tool, store, window and limit asked
  for.  It is not always about the gap of a summary (finding 3), and the store
  named `all` is not told apart from an omitted one.
* Its age can exceed the TTL, by one query and one shutdown of a session at most.

And to who runs the agent:

* However the control files are edited, and whatever client fails to be
  constructed or closed, a cycle never runs on a closed client and no connection
  pool is left open.  The price is that such a failure, and a control file that is
  no text, ends the process: it is outside the `try` of the loop, and caught there, the closed client would stay in
  the cache (the seeded fault `SelectRaisesCaught`).
* SIGTERM during a refresh of the history or a selection is followed by one whole
  cycle before the loop looks at it again.  Unless that ends within the grace
  period, the process is killed in it.
* What the agent has read of its past survives every read that fails, with one
  exception: a payload that is no dict (an answer that is not JSON, or a list) is
  taken for one without events and empties it, although the docstring of
  `_rehydrate_history` has a failed refresh keep the previous snapshot.  A dict
  whose `events` are null does not fail open either: it ends the process.
* The probe's limit has to exceed a pause (or a startup), a reading of the
  history, the closing of a client and the slowest cycle *together*, for the
  heartbeat is touched once a turn.  Then a loop whose awaits keep to their
  allowances is never found dead, and one that hangs anywhere is.
* An answer whose list is null or no list (`OddRaises`) was paid for and is on no
  book: it raises while its usage event is being built.
* Files that a dying process leaves in the spool under their temporary name are
  never posted and never removed.

And to a reader of the records:

* The recurrence note counts *reports* in a tier, those with action `no_alert` and
  every cycle of a lasting incident included; it names the commonest cause for
  all of them.  The docstring of `_recurrence_summary` speaks of genuine alerts.
* The window of the note ended when Splunk was asked, which is before the read by
  the age of the cached answer when the tool answers out of its cache.
* The history of the agent is at most the default limit of reports.  A busy store
  fills it, and a quiet one's alerts are forgotten before they leave the window:
  the agent does not look at `truncated`.
* `get_alert_summary` says `"truncated": False` always.  If it has rows, they are
  complete when there are fewer of them than the row limit.
* An answer of either history tool that has no rows says nothing, although it is
  marked `"truncated": False`: so comes out what Splunk answered and
  `_parse_response` could not read, for as long as the cache keeps it.  The
  agent's own history is emptied by it.
* `get_alert` answers `"active": False` also when the agent could not be asked.

### Fairness

`QuietStoresClose` needs `FairSpec`.  Weak fairness of the steps that only need
the event loop (`BeginCycle`, `StartRecovery`, `RecoveriesDone` or the cycle's failure there,
`RemindersDone`)
is what asyncio gives a task whose await has completed.  Weak fairness of the
ends of POSTs is the 30 s timeout of `post_card`.  Strong fairness of
`ScansAnswered` and `Detected` is an assumption about the world that the code
cannot ensure: Splunk and the LLM, tried again and again, answer again and again,
the LLM with an answer that can be handled.
A drill or a triage pass answers or raises; that it *succeeds* is not assumed,
and the property holds if every one of them fails.  Strong fairness of
`ReportsDone` says that lists of reports are finite.  Nothing is assumed about
restarts or about what any pass says.

`EveryCallEnds` needs the HTTP timeouts of `_get_live_state` and `_inspect`, the
`wait_for` of the query and the bounded shutdown of the transport
(`LoopFairness`), and one assumption that no timeout of the code backs: a session
opens or fails to (`SessionsOpen`).  Without it the property is false: the start
of the bridge process and `initialize()` are outside the `wait_for` that
`triage_mcp.py:394` calls a hard timeout, and a call waits in `__aenter__` for
ever.  `LoopSpec` states the model without the assumption.

`PollsGoOn` is checked of AgentLoop's `FairSpec`.  Weak fairness of `Turn` is the
event loop: every disjunct is a step between awaits, or the end of an await that
the code bounds, including those that end the process.  Weak fairness of `Tick`,
`ProbeFails` and `Kill` is the clock and the kubelet.  Nothing else would make the
property hold if the process died in every startup; so strong fairness says that
what stands between a start and the first cycle (the static clients, the Splunk
session, the history session and its answer, the selection) succeeds, within its allowance,
again and again if it is tried again and again.  Of cycles nothing is assumed.
Each may hang: then the probe fails, the grace period ends and the next process
polls.  A loop that touched its heartbeat by a timer would satisfy the probe and
never be replaced (the seeded fault `TickTouching`).

### Findings

1. **A downgrade need not persist over consecutive cycles**
   (`finding_downgrade`).  `src/state.py:13-15` and `:125-126` promise
   consecutive cycles.  The streak is advanced only when a report reaches
   `effective_severity`, and nothing resets it in a cycle that fails or has no
   alert report on the store; so two proposals with any number of such cycles in
   between lower the tier, and so do two reports on the store in one cycle.
   `LoweredOverCycles` is what does hold: enough *different* cycles with no
   other verdict between, when the LLM reports once on a store.
2. **A RESOLVED card can be lost for good** (`finding_resolved`).
   `src/state.py:157-158` has the caller post the card and call `clear()`;
   `_send_recovery` calls `clear()` first, and when the POST raises it emits
   `recovery.failed` and nothing else.  The channel keeps showing an alert for a
   store that the agent holds healthy, until the next incident of the store.
3. **A summary is cached without its gap** (`finding_cached_gap`).  The cache
   key of `get_alert_summary` (`src/triage_mcp.py:847`) leaves out `gap_minutes`,
   which the query depends on (`:829`).  Within the TTL, a user who follows the
   docstring's advice to raise or lower the gap is answered with the incidents
   as they were split before, under the new `gap_minutes`.

## 4. What is proved

The proof modules hold for every set of stores, tiers and signatures (or callers
and arguments) and for every value of the thresholds.  They assume what the
modules state in named ASSUMEs: thresholds and bounds are natural numbers,
limits and gaps are integers, and `None` is none of the values it stands for the
absence of.  `LoweringTakesCycles` also assumes `OneReportEach`.  AgentLoop assumes
that the allowances of a turn add up to less than the probe's limit
(`ProbeAssumption`), LlmPass and AlertRecords that there are finitely many stores
or reports.

| theorem | says |
|---|---|
| `TypeCorrect`, `HTypeCorrect` | the types |
| `IncidentsAlwaysApart` | two incidents of a store are a cooldown apart |
| `NothingIsLeftBehind` | a closed store has no streak, candidate or reminder |
| `NoAlertIsPhantom` | what is open for the agent was seen in Teams |
| `CycleImplementsLifecycle` | the cycle refines AlertLifecycle |
| `CycleImplementsOperatorView` | what Teams shows over time is what OperatorView allows |
| `RecoveriesAreAlwaysQuiet`, `AlertsNeverLinger` | RESOLVED comes after `ClearCycles` quiet passes, and in every cycle that gets over its detection pass no alert stays open beyond them |
| `ChannelAlwaysAgrees`, `NoCardIsRepeated` | Teams and the agent agree, no card repeats another, where no outcome was lost |
| `RemindersAlwaysApart` | reminders keep their interval |
| `LoweringTakesCycles` | a lower tier takes `HoldCycles` cycles |
| `AnswersFit`, `AnswersAreFresh`, `GrowthStaysBounded` | the three properties of the cache |
| `LoopTypeCorrect`, `CyclesRunOnOpenClients`, `NoClientLeaks` | the types and the clients of the loop |
| `AtMostOneLateCycle`, `TheProbeSparesTheTurning`, `ThePastIsKept` | the stop event, the probe, the history |
| `LoopImplementsPodLife` | the loop refines PodLife |
| `PassesAreHandedOnWhole`, `UsageIsPrinted` | passes, and the usage of their calls |
| `NoHalfRecordIsPosted` | the spool and the relay |
| `PassesImplementLedger` | passes, spool and relay refine UsageLedger |
| `NotesAreBacked`, `TheOldIsForgotten` | the recurrence note and the history it counts |
| `CutsAreMarked`, `IncidentsSplitAtSilence`, `SummariesAddUp` | the two history tools, where they answer anything |

**The cycle.**  None of the properties is inductive.  The invariant `IInv` of
TriageCycle_proofs adds what the awaits carry over:

* `PhaseOwnership`: the locals of a stage are empty outside it, so a step of one
  stage cannot find a card or a recovery of another;
* `InFlightStores`: a store being resolved has been cleared, a due store is open;
* `PendingCardGuarded`: the store of a card in flight is out of its cooldown and
  the card differs from the recorded one.  Only time passes while the POST is in
  flight, and that keeps both.  This is where `IncidentsApart` and the refinement
  come from, though the guard is asked before the POST and the clock read after.

From `IInv`, each action maps to an action of AlertLifecycle or to a stutter
(Lifecycle_proofs): `StartRecovery` closes, `CardAccepted` opens or updates,
`Restart` forgets.

**The history.**  Each action of TriageHistory is one of TriageCycle
(`HistoryWatches`), so `IInv` carries over.  `RecoveriesAreQuiet` and
`AlertsDoNotLinger` need that the clear streak of an open alert *is* the number of
passes the history counted, a pass that raised over its answer included (`StreaksSeen`); `RemindersApart` that the notice of an open alert is the
`LastNotice` the memory computes (`NoticeKnown`) and that a due reminder stays
due while others are posted (`DueIsApart`); `LoweredOverCycles` that the
downgrade streak of the memory is at most the run of cycles (`StreakInRun`) and
that a lower card in flight has waited (`LowerCardWaited`).

**The view of the operators.**  `ViewInv` collects what the refinement of
OperatorView needs of the states: a recovery in flight is of a store that shows an
alert (`ResolvingShowsAlert`, since the memory is cleared before the POST and
nothing else is posted about the store until it ends), a card in flight is news
where the channel is not in doubt (`PendingIsNews`, from `ChannelAgrees` and the
dedup guard), a due reminder is an interval from the notice the operators saw
(from `ReminderInv`).  Then a POST that was acknowledged is one `Post`, `Resolve`
or `Remind`; one that was lost is `PostUnanswered` or `ResolveLost`; and the steps
of the cycle in between are stutters.  A restart is the hard case (`RestartView`):
the recoveries that still arrive are of stores that show alerts, and with them
every open store and every store in flight is in doubt.

**The cache.**  `SameKeySameQuestion` is the algebra of the keys: two requests of
one key differ in what `SameQuestion` leaves open and in nothing else.  The
invariant says of the calls that rows in hand are of the own query and as old as
its two awaits (`CallsConsistent`), and of the entries that they answer every
request of their key (`EntriesKeyed`) and that rows outdate a live entry by one
query and one shutdown (`EntriesFresh`).  It does not say that entries only get
newer, which is false.

**The loop.**  `LoopInv` ties the cached client to the number of open ones and to
the client of the cycle.  `LateInv` says where a late cycle can be: from its poll
on, the loop passes the test at its top before it can start another.  `Budgets`
is one line per await, the age of the heartbeat there as a sum of allowances;
each action adds its own, and the assumption on `ProbeLimit` closes the sum.  The
refinement of PodLife follows from these: `LateInv` gives that a cycle begins with
none late, `ProbeSparesTheTurning` that the probe's signal finds a slow process,
and the shape of each step its phase (`PodStep`).

**The passes.**  `PassInv` keeps that the prompts still to send and those answered
are together the ones the pass was split into, and `PromptsSplit` says what these
are for any set of stores.  `DueInv` bounds what is owed to the books to the
present call.  `SpoolInv` says of every file under a final name that it is whole.
For the
refinement of UsageLedger, `LedgerInv` follows one record through the pass: it is
not on stdout before its print (`LoggedOnce`), it is owed from the answer to the
print (`OwedUntilPrinted`), and whatever the spool or the relay holds was printed
first, with the id it has there (`SpooledIsLogged`).

**The records.**  `HistoryInv` places the history in the window that ended when it
was read; the note follows since a count of a subset is no larger.  For the
summary the invariant is `LogInOrder`: reports are printed in the order of time.
What remains is about `IncidentSeq` on any set of positions: it grows only at an
alert that opens (`SeqMonotone`, `SeqRises`), an alert opens exactly after a
silence (`OpensAfterSilence`), and hence an incident's span holds its own alerts
and no others (`SpanIsIncident`).  That there is a last alert before another is
`LastExists`, by well-founded descent over finite sets.

**Only model-checked.**  The three liveness properties (fairness and ENABLED are
beyond the prover), and that the properties are not vacuous, which the seeded
faults show.

## 5. What is not modelled, and why

* *The data of rows, prompts and cards.*  No decision modelled here depends on
  more than the store, the tier, the signature and the dedup verdict.
* *Wall-clock steps.*  `datetime.now(timezone.utc)` is taken to never go back.
  If it did, a cooldown would be longer and a reminder later.
* *The verdict of the inspection*, which may be any: `INSPECT_FAIL_MODE` decides
  what an unreachable sidecar means, and both are allowed for.  A verdict that is
  no JSON object would raise in `is_blocked`; the sidecar answers with objects.
* *Identifiers.*  `store.py` is regular expressions; stores are model values, so
  aliases of one store are not modelled.
* *The state server* and the two tools that relay it (`list_active_alerts`,
  `get_recent_cycle`).  `GET /state` reads the memory in one step between two
  awaits; what it answers is a state of TriageCycle, and there is nothing to
  check that the step's being one does not settle.
* *The one long Splunk session of the scans.*  Whether it survives a restart of its
  bridge is decided in the mcp library.  Scans may fail or hang.
* *Processes and pipes* that a session leaves behind when it fails to open.
* *The demo* (`--mock`) and its scripted answers, *the A/B harness* and the smoke
  test: they run nothing that the system depends on.
* *Tracing and metrics* beyond the failures they can cause, *event formatting, SPL
  text, city names and time zones, network policies and secrets.*

Two checks of the environment are outside: that Teams shows cards in the order
they were acknowledged, and that there is one agent (`strategy: Recreate`, one
replica).

## 6. What could come next

1. The recurrence note composed with the cards: AlertRecords under TriageHistory,
   to say how many of the counted reports were ever posted.
2. The chat tools over both processes at once: what `get_alert` says of a store
   against what the agent has open, through restarts of either.
3. The long session of the scans, once the behaviour of its library under a
   restart of the bridge is pinned down.
