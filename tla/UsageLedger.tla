----------------------------- MODULE UsageLedger -----------------------------
(***************************************************************************)
(* What the LLM calls cost, for the one who adds it up: no passes, no      *)
(* files, no relay.  A call is on the log before the next one is sent, if  *)
(* it was answered at all; the log has one record for a call, under an id  *)
(* of its own, and Splunk has nothing that is not on the log, so that the  *)
(* two together have one id for each call.  What is answered and not       *)
(* logged can be lost with the process.  LlmPass implements this           *)
(* specification.                                                          *)
(***************************************************************************)
EXTENDS Integers

CONSTANT Id

VARIABLES
  sent,    \* calls so far, the number of the latest
  owed,    \* {} or the latest, answered and not on the log
  logged,  \* usage records on the log
  posted   \* usage records in Splunk

vars == <<sent, owed, logged, posted>>

Init == sent = 0 /\ owed = {} /\ logged = {} /\ posted = {}

\* Nothing is owed for the calls before.
Send ==
  /\ owed = {}
  /\ sent' = sent + 1
  /\ UNCHANGED <<owed, logged, posted>>

\* A call is answered once.
Answer ==
  /\ owed = {}
  /\ \A record \in logged : record.call # sent
  /\ owed' = {sent}
  /\ UNCHANGED <<sent, logged, posted>>

\* Only what is owed is logged, under an id no other record has.
Log(id) ==
  /\ owed = {sent}
  /\ \A record \in logged : record.usage_id # id
  /\ owed' = {}
  /\ logged' = logged \cup {[call |-> sent, usage_id |-> id]}
  /\ UNCHANGED <<sent, posted>>

Post(record) ==
  /\ record \in logged
  /\ posted' = posted \cup {record}
  /\ UNCHANGED <<sent, owed, logged>>

\* The process dies.
Lose ==
  /\ owed' = {}
  /\ UNCHANGED <<sent, logged, posted>>

Next ==
  \/ Send \/ Answer \/ Lose
  \/ \E id \in Id : Log(id)
  \/ \E record \in logged : Post(record)

Spec == Init /\ [][Next]_vars

=============================================================================
