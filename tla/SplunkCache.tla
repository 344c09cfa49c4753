----------------------------- MODULE SplunkCache -----------------------------
(***************************************************************************)
(* The history tools of the chat surface, src/triage_mcp.py: get_alert,    *)
(* get_alert_history and get_alert_summary, and the TTL cache of           *)
(* _query_splunk that they share.  Each call is an asyncio task of its     *)
(* own; phase names the await it is in, and the code between two awaits is *)
(* one action.                                                             *)
(*                                                                         *)
(* Time is kept as ages, in ticks: of a cache entry since it was stored,   *)
(* of rows since the query that read them was sent, of the await that a    *)
(* call is in.  An age stops at the value from which no comparison of the  *)
(* code tells it apart, so nothing here needs a bound on the clock.        *)
(*                                                                         *)
(* Abstracted data: the rows are the query they answer; a store id is ""   *)
(* (omitted), a name, or the name "all"; post-processing of the rows is    *)
(* left out.  The verdict of the inspection is any verdict: sidecar,       *)
(* disabled, fail-open and fail-closed lead to one of the two actions.     *)
(***************************************************************************)
EXTENDS Integers, FiniteSets

CONSTANTS
  Caller,        \* concurrent calls of tools
  StoreArg,      \* what store_id may be
  Hours,         \* what hours may be
  Limits,        \* what limit may be
  Gaps,          \* what gap_minutes may be
  RowLimit,      \* SPLUNK_ROW_LIMIT
  TTL,           \* SPLUNK_CACHE_TTL
  QueryTimeout,  \* SPLUNK_QUERY_TIMEOUT
  CloseLimit,    \* how long the transport may take to shut down
  MaxEntries,    \* _CACHE_MAX_ENTRIES
  None

ASSUME TTLAssumption == TTL \in Nat
ASSUME QueryTimeoutAssumption == QueryTimeout \in Nat
ASSUME CloseAssumption == CloseLimit \in Nat
ASSUME EntriesAssumption == MaxEntries \in Nat
ASSUME RowLimitAssumption == RowLimit \in Nat \ {0}
ASSUME LimitsAssumption == Limits \subseteq Int
ASSUME GapsAssumption == Gaps \subseteq Int

VARIABLES
  cache,    \* _splunk_cache, None for a key that is not in it
  phase,    \* where a call is
  request,  \* what a caller has asked for, or asked for last
  since,    \* how long a call has been in its await
  rows,     \* the rows of a session that is being closed, None if it failed
  answer    \* what the caller was answered, None before

vars == <<cache, phase, request, since, rows, answer>>

-----------------------------------------------------------------------------
(***************************************************************************)
(* Calls, the query each sends and the key it is cached under.             *)
(***************************************************************************)

Clamp(limit) == IF limit > RowLimit THEN RowLimit ELSE IF limit < 1 THEN 1 ELSE limit

GapFloor(gap) == IF gap < 1 THEN 1 ELSE gap

Request ==
  [tool : {"get_alert"}, store : StoreArg \ {""}]
    \cup [tool : {"get_alert_history"}, store : StoreArg, hours : Hours, limit : Limits]
    \cup [tool : {"get_alert_summary"}, store : StoreArg, hours : Hours, gap : Gaps]

\* The check of hours that the two tools with a window start with.
Refused(r) == r.tool # "get_alert" /\ r.hours \notin 1..168

\* The query that a call sends, up to its wording: everything it depends on.
Query(r) ==
  CASE r.tool = "get_alert" -> r
    [] r.tool = "get_alert_history" -> [r EXCEPT !.limit = Clamp(@)]
    [] r.tool = "get_alert_summary" -> [r EXCEPT !.gap = GapFloor(@)]

\* Seeded fault: the key of the history leaves out the limit as well.
KeyWithoutLimit(r) ==
  IF r.tool = "get_alert" THEN <<"last_event", r.store>>
  ELSE <<"window", IF r.store = "" THEN "all" ELSE r.store, r.hours>>

\* The cache key of a call.  The window of a summary has no gap in it, and an
\* omitted store is written "all".
KeyOf(r) ==
  CASE r.tool = "get_alert" -> <<"last_event", r.store>>
    [] r.tool = "get_alert_history" ->
         <<"history", IF r.store = "" THEN "all" ELSE r.store, r.hours, Clamp(r.limit)>>
    [] r.tool = "get_alert_summary" ->
         <<"summary", IF r.store = "" THEN "all" ELSE r.store, r.hours>>

Key == {KeyOf(r) : r \in Request}
Asked == {Query(r) : r \in Request}

-----------------------------------------------------------------------------
(***************************************************************************)
(* State.                                                                  *)
(***************************************************************************)

\* Where the ages stop.
EntryCap == TTL + 1
RowsCap == TTL + QueryTimeout + CloseLimit + 1

Rows == [query : Asked, age : 0..RowsCap]
Entry == [age : 0..EntryCap, rows : Rows]

Phase == {"idle", "live", "inspect", "open", "query", "close"}

\* Answers without rows of Splunk: an error, or the open alert of the agent.
Error == [kind |-> "error"]
Live == [kind |-> "live"]
RowsAnswer(rs) == [kind |-> "rows", rows |-> rs]

Answer == {Error, Live} \cup [kind : {"rows"}, rows : Rows]

ASSUME NoneAssumption == None \notin Entry \cup Rows \cup Answer \cup Request

Init ==
  /\ cache = [k \in Key |-> None]
  /\ phase = [c \in Caller |-> "idle"]
  /\ request = [c \in Caller |-> None]
  /\ since = [c \in Caller |-> 0]
  /\ rows = [c \in Caller |-> None]
  /\ answer = [c \in Caller |-> None]

-----------------------------------------------------------------------------
(***************************************************************************)
(* The cache.                                                              *)
(***************************************************************************)

\* Seeded fault: an entry is still served at the age of the TTL.
HitAtTTL(k) == cache[k] # None /\ cache[k].age <= TTL

Hit(k) == cache[k] # None /\ cache[k].age < TTL

Held(c) == {k \in Key : c[k] # None}

\* The entries that a sweep leaves.
Sweep(c) == [k \in Key |-> IF c[k] # None /\ c[k].age > TTL THEN None ELSE c[k]]

\* Seeded fault: the rows are stored and nothing is ever swept.
StoredUnswept(k, rs) == [cache EXCEPT ![k] = [age |-> 0, rows |-> rs]]

\* The rows are stored, and a cache that has too many entries is swept.
Stored(k, rs) ==
  LET c == [cache EXCEPT ![k] = [age |-> 0, rows |-> rs]]
  IN  IF Cardinality(Held(c)) > MaxEntries THEN Sweep(c) ELSE c

-----------------------------------------------------------------------------
(***************************************************************************)
(* A call.                                                                 *)
(***************************************************************************)

\* The call c goes on to its next await.
Await(c, p) ==
  /\ phase' = [phase EXCEPT ![c] = p]
  /\ since' = [since EXCEPT ![c] = 0]

Return(c, a) ==
  /\ Await(c, "idle")
  /\ answer' = [answer EXCEPT ![c] = a]

\* The start of _query_splunk: the cache answers, or the query is inspected.
Lookup(c, r) ==
  IF Hit(KeyOf(r))
    THEN Return(c, RowsAnswer(cache[KeyOf(r)].rows))
    ELSE Await(c, "inspect") /\ answer' = [answer EXCEPT ![c] = None]

\* A tool is called.  get_alert asks the agent first.
Call(c, r) ==
  /\ phase[c] = "idle"
  /\ request' = [request EXCEPT ![c] = r]
  /\ IF r.tool = "get_alert"
       THEN Await(c, "live") /\ answer' = [answer EXCEPT ![c] = None]
       ELSE IF Refused(r) THEN Return(c, Error) ELSE Lookup(c, r)
  /\ UNCHANGED <<cache, rows>>

\* The agent answers, or does not; a store that is not open, or not known to
\* be, is looked up in the history.
LiveAnswered(c, open) ==
  /\ phase[c] = "live"
  /\ IF open THEN Return(c, Live) ELSE Lookup(c, request[c])
  /\ UNCHANGED <<cache, request, rows>>

Inspected(c, action) ==
  /\ phase[c] = "inspect"
  /\ IF action = "block"
       THEN Return(c, Error)
       ELSE Await(c, "open") /\ UNCHANGED answer
  /\ UNCHANGED <<cache, request, rows>>

\* __aenter__: the bridge is started and the session initialized, or it raises.
SessionOpened(c, ok) ==
  /\ phase[c] = "open"
  /\ IF ok THEN Await(c, "query") /\ UNCHANGED answer ELSE Return(c, Error)
  /\ UNCHANGED <<cache, request, rows>>

\* run_query returns rows; __aexit__ begins.
Fetched(c) ==
  /\ phase[c] = "query"
  /\ rows' = [rows EXCEPT ![c] = [query |-> Query(request[c]), age |-> since[c]]]
  /\ Await(c, "close")
  /\ UNCHANGED <<cache, request, answer>>

\* run_query raises; __aexit__ begins with no rows.
QueryFailed(c) ==
  /\ phase[c] = "query"
  /\ Await(c, "close")
  /\ UNCHANGED <<cache, request, rows, answer>>

\* Seeded fault: the query is awaited without wait_for.
NoTimeout(c) == FALSE

\* wait_for cancels the query.
TimedOut(c) ==
  /\ since[c] >= QueryTimeout
  /\ QueryFailed(c)

\* The transport has shut down; the rows are cached and returned.
Closed(c) ==
  /\ phase[c] = "close"
  /\ IF rows[c] = None
       THEN /\ Return(c, Error)
            /\ UNCHANGED cache
       ELSE /\ Return(c, RowsAnswer(rows[c]))
            /\ cache' = Stored(KeyOf(request[c]), rows[c])
  /\ rows' = [rows EXCEPT ![c] = None]
  /\ UNCHANGED request

\* The transport raises as it shuts down, and the rows are lost.
CloseFailed(c) ==
  /\ phase[c] = "close"
  /\ Return(c, Error)
  /\ rows' = [rows EXCEPT ![c] = None]
  /\ UNCHANGED <<cache, request>>

\* wait_for ends a query on time, and so does the transport its shutdown.
Overdue(c) ==
  \/ phase[c] = "query" /\ since[c] >= QueryTimeout
  \/ phase[c] = "close" /\ since[c] >= CloseLimit

UpTo(n, cap) == IF n < cap THEN n ELSE cap

Older(rs) == [rs EXCEPT !.age = UpTo(@ + 1, RowsCap)]

\* Seeded fault: neither the query nor the shutdown is cut off in time.
TickOverdue ==
  /\ since' = [c \in Caller |-> IF phase[c] \in {"query", "close"} THEN since[c] + 1 ELSE 0]
  /\ UNCHANGED <<cache, phase, request, rows, answer>>

Tick ==
  /\ \A c \in Caller : ~Overdue(c)
  /\ cache' = [k \in Key |->
                 IF cache[k] = None THEN None
                 ELSE [age |-> UpTo(cache[k].age + 1, EntryCap), rows |-> Older(cache[k].rows)]]
  /\ since' = [c \in Caller |-> IF phase[c] \in {"query", "close"} THEN since[c] + 1 ELSE 0]
  /\ rows' = [c \in Caller |-> IF rows[c] = None THEN None ELSE Older(rows[c])]
  /\ UNCHANGED <<phase, request, answer>>

CallStep(c) ==
  \/ \E open \in BOOLEAN : LiveAnswered(c, open)
  \/ \E action \in {"allow", "block"} : Inspected(c, action)
  \/ \E ok \in BOOLEAN : SessionOpened(c, ok)
  \/ Fetched(c)
  \/ QueryFailed(c)
  \/ TimedOut(c)
  \/ Closed(c)
  \/ CloseFailed(c)

Next ==
  \/ \E c \in Caller, r \in Request : Call(c, r)
  \/ \E c \in Caller : CallStep(c)
  \/ Tick

Spec == Init /\ [][Next]_vars

(***************************************************************************)
(* Fairness.  LoopFairness is what the code has a bound for: the agent and *)
(* the sidecar are asked with an HTTP timeout, the query is under          *)
(* wait_for, and the shutdown of the transport is bounded by its own       *)
(* limits; time passes.  That a session opens, or fails to, is an          *)
(* assumption about the bridge process that no timeout backs.              *)
(***************************************************************************)
LoopFairness ==
  /\ SF_vars(Tick)
  /\ \A c \in Caller :
       /\ WF_vars(\E open \in BOOLEAN : LiveAnswered(c, open))
       /\ WF_vars(\E action \in {"allow", "block"} : Inspected(c, action))
       /\ WF_vars(TimedOut(c))
       /\ WF_vars(Closed(c) \/ CloseFailed(c))

SessionsOpen == \A c \in Caller : WF_vars(\E ok \in BOOLEAN : SessionOpened(c, ok))

LoopSpec == Spec /\ LoopFairness
FairSpec == LoopSpec /\ SessionsOpen

-----------------------------------------------------------------------------
(***************************************************************************)
(* Properties.                                                             *)
(***************************************************************************)

\* The variables have the types of _splunk_cache and of the locals of a call.
TypeOK ==
  /\ cache \in [Key -> Entry \cup {None}]
  /\ phase \in [Caller -> Phase]
  /\ request \in [Caller -> Request \cup {None}]
  /\ since \in [Caller -> 0..(IF QueryTimeout > CloseLimit THEN QueryTimeout ELSE CloseLimit)]
  /\ rows \in [Caller -> Rows \cup {None}]
  /\ answer \in [Caller -> Answer \cup {None}]

GotRows(c) == answer[c] # None /\ answer[c].kind = "rows"

\* What a caller is answered is about what it asked for, though other calls
\* fill the cache while it waits: the rows are of the same tool, store, window
\* and limit.  The gap of a summary, and the store "all" against an omitted
\* one, are what the keys do not tell apart.
SameQuestion(q, r) ==
  /\ q.tool = r.tool
  /\ \/ q.store = r.store
     \/ r.tool # "get_alert" /\ {q.store, r.store} = {"", "all"}
  /\ r.tool # "get_alert" => q.hours = r.hours
  /\ r.tool = "get_alert_history" => q.limit = Clamp(r.limit)

AnswersTheQuestion ==
  \A c \in Caller : GotRows(c) => SameQuestion(answer[c].rows.query, request[c])

\* No answer is older than the TTL, one query and one shutdown together,
\* however the calls overlap.  (Rows that were read first can overwrite rows
\* that were read later, when their session takes longer to close.)
FreshAnswers ==
  \A c \in Caller :
    GotRows(c) => \/ answer[c].rows.age < TTL + QueryTimeout + CloseLimit
                  \/ answer[c].rows.age <= QueryTimeout + CloseLimit

\* "Bounded growth": a cache above its limit holds only entries that were
\* stored within one TTL of each other; an old one goes with the next store.
GrowthIsBounded ==
  Cardinality(Held(cache)) > MaxEntries
    => \A j, k \in Held(cache) : cache[j].age - cache[k].age <= TTL

\* Every call of a tool is answered in the end.
EveryCallEnds == \A c \in Caller : []<>(phase[c] = "idle")

\* The cache dedupes by query text, as the comment on it has it: a caller is
\* answered with the rows of exactly the query its call stands for.
AnswersTheQuery ==
  \A c \in Caller : GotRows(c) => answer[c].rows.query = Query(request[c])

=============================================================================
