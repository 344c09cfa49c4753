------------------------------- MODULE LlmPass -------------------------------
(***************************************************************************)
(* The two LLM passes of a cycle (llm_client.py) and what remains of them  *)
(* on the books: each call that is answered is paid for, and its usage is  *)
(* printed on stdout and spooled into a file that a relay in the sidecar   *)
(* posts to Splunk (events.py).                                            *)
(*                                                                         *)
(* Anthropic and hosted OpenAI take all drilled stores in one triage call, *)
(* the vLLM box one store a call.  An answer is good, of the wrong shape   *)
(* ("odd": null or no list where the schema has one), or "empty": nothing  *)
(* where the tool's input should be, which reads as nothing to do.  Stores *)
(* of the answers matter only as the ones correlated or reported on.       *)
(***************************************************************************)
EXTENDS Integers, FiniteSets

CONSTANTS
  Store,
  SpoolDir,   \* USAGE_SPOOL_DIR is set
  MaxCalls,   \* bound on the LLM calls of a behaviour
  Id,         \* what uuid4 may draw
  None        \* no line, no id

ASSUME PassAssumption ==
  IsFiniteSet(Store) /\ SpoolDir \in BOOLEAN /\ MaxCalls \in Nat

\* uuid4 does not run out of ids.
ASSUME IdAssumption == IsFiniteSet(Id) => Cardinality(Id) >= MaxCalls

VARIABLES
  pc,         \* where the cycle is; "idle" between cycles
  provider,   \* provider of the client this cycle was given
  phase,      \* "detection" or "triage"
  drill_data, \* the stores that were drilled in this cycle
  todo,       \* prompts of this pass still to send, each a set of stores
  asking,     \* the prompt of the present call
  answer,     \* its answer
  merged,     \* the answered prompts: the stores asked and reported on
  calls,      \* LLM calls so far, the number of the latest
  due,        \* calls whose answer has the right shape and is not yet printed
  line,       \* the usage record that emit() printed last
  stdout,     \* usage records printed
  spool,      \* files of the spool directory
  relay,      \* the file the relay is posting, {} or a singleton
  hec         \* usage records posted to Splunk

pass == <<provider, phase, drill_data, todo, merged>>
books == <<line, stdout, spool, relay, hec>>
vars == <<pc, pass, asking, answer, calls, due, books>>

Provider == {"anthropic", "openai", "vllm"}
Prompt == SUBSET Store
Part == [asked : Prompt, about : SUBSET Store]
Usage == [call : 1 .. MaxCalls, usage_id : Id]
File == [usage : Usage, name : {"tmp", "json"}, whole : BOOLEAN]

TypeOK ==
  /\ pc \in {"idle", "call", "wait", "exit", "print", "open", "fill", "rename",
             "took", "handed", "drills"}
  /\ provider \in Provider
  /\ phase \in {"detection", "triage"}
  /\ drill_data \in Prompt
  /\ todo \subseteq Prompt
  /\ asking \in Prompt
  /\ answer \in {"good", "empty", "odd"}
  /\ merged \subseteq Part
  /\ calls \in 0 .. MaxCalls
  /\ due \subseteq 1 .. MaxCalls
  /\ line \in Usage \cup {None}
  /\ stdout \subseteq Usage /\ hec \subseteq Usage
  /\ spool \subseteq File /\ relay \subseteq File

Init ==
  /\ pc = "idle"
  /\ provider \in Provider
  /\ phase = "detection"
  /\ drill_data = {} /\ todo = {} /\ merged = {}
  /\ asking = {} /\ answer = "good"
  /\ calls = 0 /\ due = {}
  /\ line = None
  /\ stdout = {} /\ spool = {} /\ relay = {} /\ hec = {}

(***************************************************************************)
(* The passes.                                                             *)
(***************************************************************************)
\* A cycle is given the client the loop selected; its detection prompt is
\* about the whole fleet, which no store stands for.
BeginCycle ==
  /\ pc = "idle" /\ calls < MaxCalls
  /\ pc' = "call"
  /\ provider' \in Provider
  /\ phase' = "detection"
  /\ drill_data' = {} /\ merged' = {}
  /\ todo' = {{}}
  /\ UNCHANGED <<asking, answer, calls, due, books>>

\* poll.failed, or the cycle is done: what the passes gathered is dropped.
EndCycle ==
  /\ pc' = "idle"
  /\ UNCHANGED <<pass, asking, answer, calls, due, books>>

\* llm_call starts its span and the request goes out.
Ask(prompt) ==
  /\ pc = "call" /\ prompt \in todo /\ calls < MaxCalls
  /\ pc' = "wait"
  /\ asking' = prompt
  /\ calls' = calls + 1
  /\ UNCHANGED <<pass, answer, due, books>>

\* The telemetry raises on start_llm, which nothing guards.
StartRaises == pc = "call" /\ EndCycle

\* The SDK gives up, the endpoint answers 4xx or 5xx or not in JSON.
CallRaises == pc = "wait" /\ EndCycle

Answered(a) ==
  /\ pc = "wait"
  /\ pc' = "exit"
  /\ answer' = a
  /\ due' = IF a = "odd" THEN due ELSE due \cup {calls}
  /\ UNCHANGED <<pass, asking, calls, books>>

\* Seeded fault: stop_llm is not guarded either, and may raise.
ExitUnguarded ==
  /\ pc = "exit"
  /\ pc' \in {"idle", "print"}
  /\ UNCHANGED <<pass, asking, answer, calls, due, books>>

\* llm_call ends its span; a failing stop_llm is swallowed.
Exit ==
  /\ pc = "exit" /\ answer # "odd"
  /\ pc' = "print"
  /\ UNCHANGED <<pass, asking, answer, calls, due, books>>

\* Counting and naming the stores of an odd answer for the usage event raises.
OddRaises == pc = "exit" /\ answer = "odd" /\ EndCycle

\* Seeded fault: each chunk replaces the reports of the one before.
TookLast(about) ==
  /\ pc = "took"
  /\ answer = "empty" => about = {}
  /\ merged' = {[asked |-> asking, about |-> about]}
  /\ todo' = todo \ {asking}
  /\ pc' = IF todo' = {} THEN "handed" ELSE "call"
  /\ UNCHANGED <<provider, phase, drill_data, asking, answer, calls, due, books>>

\* The answer joins the pass; after the last one the pass returns.  Nothing
\* ties the stores reported on to the ones asked about.
Took(about) ==
  /\ pc = "took"
  /\ answer = "empty" => about = {}
  /\ merged' = merged \cup {[asked |-> asking, about |-> about]}
  /\ todo' = todo \ {asking}
  /\ pc' = IF todo' = {} THEN "handed" ELSE "call"
  /\ UNCHANGED <<provider, phase, drill_data, asking, answer, calls, due, books>>

\* The stores the answers of the pass are about.
About == UNION {part.about : part \in merged}

\* Nothing to correlate: the cycle is over.
NoneCorrelated ==
  pc = "handed" /\ phase = "detection" /\ About = {} /\ EndCycle

\* An entry that is no object raises while the decision is logged.
EntryRaises == pc = "handed" /\ phase = "detection" /\ About # {} /\ EndCycle

Correlated ==
  /\ pc = "handed" /\ phase = "detection" /\ About # {}
  /\ pc' = "drills"
  /\ UNCHANGED <<pass, asking, answer, calls, due, books>>

\* One drill of one store raises: gather raises it, and the cycle fails.
DrillRaises == pc = "drills" /\ EndCycle

\* The window of the vLLM box holds the drills of one store.
Prompts(stores) ==
  IF provider = "vllm" /\ Cardinality(stores) > 1
    THEN {{s} : s \in stores} ELSE {stores}

DrillsAnswered ==
  /\ pc = "drills"
  /\ pc' = "call"
  /\ phase' = "triage"
  /\ drill_data' = About
  /\ todo' = Prompts(About)
  /\ merged' = {}
  /\ UNCHANGED <<provider, asking, answer, calls, due, books>>

\* The cycle goes through the reports and ends.
Reported == pc = "handed" /\ phase = "triage" /\ EndCycle

(***************************************************************************)
(* The books: emit() and _spool_usage().                                   *)
(***************************************************************************)
\* Seeded fault: the spool writes the record as it was before its id was stamped.
SpooledUsageUnstamped == [line EXCEPT !.usage_id = None]

\* The spool writes the line that was printed.
SpooledUsage == line

\* Seeded fault: the event is named after the call that comes next.
UsageEventOfNext(id) == [call |-> calls + 1, usage_id |-> id]

UsageEvent(id) == [call |-> calls, usage_id |-> id]

\* emit() stamps the record with an id drawn for it and prints its line.
Printed(id) ==
  /\ pc = "print"
  /\ \A usage \in stdout : usage.usage_id # id
  /\ line' = UsageEvent(id)
  /\ stdout' = stdout \cup {UsageEvent(id)}
  /\ due' = due \ {calls}
  /\ pc' = IF SpoolDir THEN "open" ELSE "took"
  /\ UNCHANGED <<pass, asking, answer, calls, spool, relay, hec>>

Spooled(name, whole) ==
  [usage |-> SpooledUsage, name |-> name, whole |-> whole]

\* Seeded fault: the file is written under its final name.
OpenedInPlace ==
  /\ pc = "open"
  /\ pc' = "fill"
  /\ spool' = spool \cup {Spooled("json", FALSE)}
  /\ UNCHANGED <<pass, asking, answer, calls, due, line, stdout, relay, hec>>

Opened ==
  /\ pc = "open"
  /\ pc' = "fill"
  /\ spool' = spool \cup {Spooled("tmp", FALSE)}
  /\ UNCHANGED <<pass, asking, answer, calls, due, line, stdout, relay, hec>>

Filled ==
  /\ pc = "fill"
  /\ pc' = "rename"
  /\ spool' = (spool \ {Spooled("tmp", FALSE)}) \cup {Spooled("tmp", TRUE)}
  /\ UNCHANGED <<pass, asking, answer, calls, due, line, stdout, relay, hec>>

\* os.replace
Renamed ==
  /\ pc = "rename"
  /\ pc' = "took"
  /\ spool' = (spool \ {Spooled("tmp", TRUE)}) \cup {Spooled("json", TRUE)}
  /\ UNCHANGED <<pass, asking, answer, calls, due, line, stdout, relay, hec>>

\* The directory is full or gone: a warning, and the file stays as it is.
SpoolFails ==
  /\ pc \in {"open", "fill", "rename"}
  /\ pc' = "took"
  /\ UNCHANGED <<pass, asking, answer, calls, due, books>>

\* The process dies anywhere; the spool outlives its container.
Die ==
  /\ pc # "idle"
  /\ pc' = "idle"
  /\ due' = {}
  /\ UNCHANGED <<pass, asking, answer, calls, books>>

(***************************************************************************)
(* The relay in the sidecar drains finished files, in the deployment's     *)
(* words: POST, then delete.                                               *)
(***************************************************************************)
RelayPicks(file) ==
  /\ relay = {}
  /\ file \in spool /\ file.name = "json"
  /\ relay' = {file}
  /\ UNCHANGED <<pc, pass, asking, answer, calls, due, line, stdout, spool, hec>>

\* Posted or not, deleted or not: a file that stays is posted again.
RelayEnds(posted, deleted) ==
  /\ relay # {}
  /\ deleted => posted
  /\ hec' = IF posted THEN hec \cup {file.usage : file \in relay} ELSE hec
  /\ spool' = IF deleted THEN spool \ relay ELSE spool
  /\ relay' = {}
  /\ UNCHANGED <<pc, pass, asking, answer, calls, due, line, stdout>>

Next ==
  \/ BeginCycle
  \/ \E prompt \in todo : Ask(prompt)
  \/ StartRaises \/ CallRaises
  \/ \E a \in {"good", "empty", "odd"} : Answered(a)
  \/ Exit \/ OddRaises
  \/ \E id \in Id : Printed(id)
  \/ Opened \/ Filled \/ Renamed \/ SpoolFails
  \/ \E about \in SUBSET Store : Took(about)
  \/ NoneCorrelated \/ EntryRaises \/ Correlated
  \/ DrillRaises \/ DrillsAnswered \/ Reported
  \/ Die
  \/ \E file \in spool : RelayPicks(file)
  \/ \E posted, deleted \in BOOLEAN : RelayEnds(posted, deleted)

Spec == Init /\ [][Next]_vars

-----------------------------------------------------------------------------
(***************************************************************************)
(* Properties.                                                             *)
(***************************************************************************)

\* A triage pass that returns has asked about every drilled store, in one
\* prompt only, and hands on the reports of all its prompts; on the vLLM box no
\* prompt holds more than one store.  (triage_pass: a chunk that raises takes
\* the answers before it along.)
HandedOnWhole ==
  pc = "handed" /\ phase = "triage" =>
    /\ UNION {part.asked : part \in merged} = drill_data
    /\ \A p, q \in merged : p.asked = q.asked \/ p.asked \cap q.asked = {}
    /\ \A p \in merged : provider = "vllm" => Cardinality(p.asked) <= 1

\* The usage of every answer the schema's shape holds for is printed before
\* the next call goes out, the pass returns or the cycle fails, whatever the
\* telemetry and the spool do; only the death of the process loses it.
UsageOfEveryAnswer == pc \in {"idle", "call", "handed", "drills"} => due = {}

\* The relay never posts a file the agent is still writing: files get their
\* final name when they are whole, and one left by a crash never does.
NoHalfRecord == \A file \in relay : file.whole

Ledger == INSTANCE UsageLedger
            WITH sent <- calls, owed <- due, logged <- stdout, posted <- hec

\* The passes, the spool and the relay implement UsageLedger: through failures
\* and deaths no call goes out before the one before it is on stdout, no call
\* is printed twice or without an answer, and what is posted to Splunk, however
\* often, is a record that stdout has, under the id it has there.
ImplementsLedger == Ledger!Spec

=============================================================================
