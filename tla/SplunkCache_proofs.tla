-------------------------- MODULE SplunkCache_proofs --------------------------
(***************************************************************************)
(* What holds of the query cache of the chat surface for every number of   *)
(* concurrent calls, every set of arguments and every timeout: answers are *)
(* about the question asked, no older than the limits add up to, and an    *)
(* over-full cache holds no old entry.                                     *)
(***************************************************************************)
EXTENDS SplunkCache, TLAPS

-----------------------------------------------------------------------------
(***************************************************************************)
(* Requests, queries and keys.                                             *)
(***************************************************************************)

\* What a request of each tool consists of.
LEMMA RequestCases ==
  ASSUME NEW r \in Request
  PROVE  \/ r.tool = "get_alert" /\ r.store # ""
         \/ r.tool = "get_alert_history" /\ r.limit \in Int
         \/ r.tool = "get_alert_summary"
BY LimitsAssumption DEF Request

\* A query keeps the tool, the store and the window of its request.
LEMMA QueryKeeps ==
  ASSUME NEW r \in Request
  PROVE  /\ Query(r).tool = r.tool
         /\ Query(r).store = r.store
         /\ r.tool # "get_alert" => Query(r).hours = r.hours
         /\ r.tool = "get_alert_history" => Query(r).limit = Clamp(r.limit)
<1>1. CASE r.tool = "get_alert"
  BY <1>1 DEF Query
<1>2. CASE r.tool = "get_alert_history"
  <2>1. r \in [tool : {"get_alert_history"}, store : StoreArg, hours : Hours, limit : Limits]
    BY <1>2 DEF Request
  <2>2. Query(r) = [r EXCEPT !.limit = Clamp(@)]
    BY <1>2 DEF Query
  <2> QED
    BY <1>2, <2>1, <2>2
<1>3. CASE r.tool = "get_alert_summary"
  <2>1. r \in [tool : {"get_alert_summary"}, store : StoreArg, hours : Hours, gap : Gaps]
    BY <1>3 DEF Request
  <2>2. Query(r) = [r EXCEPT !.gap = GapFloor(@)]
    BY <1>3 DEF Query
  <2> QED
    BY <1>3, <2>1, <2>2
<1> QED
  BY <1>1, <1>2, <1>3, RequestCases

\* The parts of the key of a request.
LEMMA KeyParts ==
  ASSUME NEW r \in Request
  PROVE  LET name == IF r.store = "" THEN "all" ELSE r.store
             k == KeyOf(r)
         IN  /\ r.tool = "get_alert" => k[1] = "last_event" /\ k[2] = r.store
             /\ r.tool = "get_alert_history" =>
                  k[1] = "history" /\ k[2] = name /\ k[3] = r.hours /\ k[4] = Clamp(r.limit)
             /\ r.tool = "get_alert_summary" =>
                  k[1] = "summary" /\ k[2] = name /\ k[3] = r.hours
<1> DEFINE name == IF r.store = "" THEN "all" ELSE r.store
           limit == Clamp(r.limit)
<1> HIDE DEF name, limit
<1>1. ASSUME r.tool = "get_alert"
      PROVE  KeyOf(r)[1] = "last_event" /\ KeyOf(r)[2] = r.store
  <2>1. KeyOf(r) = <<"last_event", r.store>>
    BY <1>1 DEF KeyOf
  <2> QED
    BY <2>1
<1>2. ASSUME r.tool = "get_alert_history"
      PROVE  /\ KeyOf(r)[1] = "history"
             /\ KeyOf(r)[2] = name
             /\ KeyOf(r)[3] = r.hours
             /\ KeyOf(r)[4] = limit
  <2>1. KeyOf(r) = <<"history", name, r.hours, limit>>
    BY <1>2 DEF KeyOf, name, limit
  <2> QED
    BY <2>1
<1>3. ASSUME r.tool = "get_alert_summary"
      PROVE  KeyOf(r)[1] = "summary" /\ KeyOf(r)[2] = name /\ KeyOf(r)[3] = r.hours
  <2>1. KeyOf(r) = <<"summary", name, r.hours>>
    BY <1>3 DEF KeyOf, name
  <2> QED
    BY <2>1
<1> QED
  BY <1>1, <1>2, <1>3 DEF name, limit

\* Requests that share a key ask the same question, up to what keys leave out.
LEMMA SameKeySameQuestion ==
  ASSUME NEW q \in Request, NEW r \in Request, KeyOf(q) = KeyOf(r)
  PROVE  SameQuestion(Query(q), r)
<1>1. q.tool = r.tool
  BY KeyParts, RequestCases
<1>2. CASE r.tool = "get_alert"
  <2>1. q.store = r.store
    BY <1>1, <1>2, KeyParts
  <2> QED
    BY <1>1, <1>2, <2>1, QueryKeeps DEF SameQuestion
<1>3. CASE r.tool \in {"get_alert_history", "get_alert_summary"}
  <2>1. /\ q.hours = r.hours
        /\ \/ q.store = r.store
           \/ q.store = "" /\ r.store = "all"
           \/ q.store = "all" /\ r.store = ""
    BY <1>1, <1>3, KeyParts
  <2>2. r.tool = "get_alert_history" => Clamp(q.limit) = Clamp(r.limit)
    BY <1>1, KeyParts
  <2>3. \/ q.store = r.store
        \/ {q.store, r.store} = {"", "all"}
    BY <2>1
  <2> QED
    BY <1>1, <1>3, <2>1, <2>2, <2>3, QueryKeeps DEF SameQuestion
<1> QED
  BY <1>2, <1>3, RequestCases

-----------------------------------------------------------------------------
(***************************************************************************)
(* The invariant.  The properties speak of answers; what makes them true   *)
(* is said of the calls that are under way and of the entries they leave.  *)
(***************************************************************************)

\* A call knows its request; only a session that is being closed has rows,
\* they are of its own query, and no older than its query and its shutdown.
CallsConsistent ==
  \A c \in Caller :
    /\ phase[c] # "idle" => request[c] \in Request
    /\ phase[c] = "query" => since[c] <= QueryTimeout
    /\ phase[c] = "close" => since[c] <= CloseLimit
    /\ rows[c] # None => /\ phase[c] = "close"
                         /\ rows[c].query = Query(request[c])
                         /\ rows[c].age <= QueryTimeout + since[c]

\* An entry answers every request of its key.
EntriesKeyed ==
  \A k \in Key, r \in Request :
    cache[k] # None /\ KeyOf(r) = k => SameQuestion(cache[k].rows.query, r)

\* The rows of a live entry are older than the entry by one query and one
\* shutdown at most.
EntriesFresh ==
  \A k \in Key :
    Hit(k) => cache[k].rows.age <= QueryTimeout + CloseLimit + cache[k].age

IInv ==
  /\ TypeOK
  /\ CallsConsistent
  /\ EntriesKeyed
  /\ EntriesFresh
  /\ AnswersTheQuestion
  /\ FreshAnswers

\* Answers without rows satisfy every property of answers.
LEMMA PlainAnswers ==
  /\ Error \in Answer /\ Error.kind # "rows"
  /\ Live \in Answer /\ Live.kind # "rows"
BY DEF Error, Live, Answer

\* A call that waits without an answer breaks no property of answers.
LEMMA AnswerWithoutRows ==
  ASSUME TypeOK, AnswersTheQuestion, FreshAnswers, NEW c \in Caller,
         NEW a \in Answer \cup {None}, a = None \/ a.kind # "rows",
         answer' = [answer EXCEPT ![c] = a],
         \A d \in Caller \ {c} : request'[d] = request[d]
  PROVE  AnswersTheQuestion' /\ FreshAnswers'
BY DEF TypeOK, AnswersTheQuestion, FreshAnswers, GotRows

\* An answer with rows that fit the request breaks none either.
LEMMA AnswerWithRows ==
  ASSUME TypeOK, AnswersTheQuestion, FreshAnswers, NEW c \in Caller, NEW rs \in Rows,
         answer' = [answer EXCEPT ![c] = RowsAnswer(rs)],
         \A d \in Caller \ {c} : request'[d] = request[d],
         SameQuestion(rs.query, request'[c]),
         \/ rs.age < TTL + QueryTimeout + CloseLimit
         \/ rs.age <= QueryTimeout + CloseLimit
  PROVE  AnswersTheQuestion' /\ FreshAnswers'
BY DEF TypeOK, AnswersTheQuestion, FreshAnswers, GotRows, RowsAnswer

\* The lookup of a call that asks for r, from its idle state or after the agent
\* has been asked.
LEMMA LookupInv ==
  ASSUME IInv, NEW c \in Caller, NEW r \in Request, Lookup(c, r),
         phase[c] \in {"idle", "live"},
         request' = [request EXCEPT ![c] = r],
         UNCHANGED <<cache, rows>>
  PROVE  IInv'
<1> DEFINE k == KeyOf(r)
<1>0. TypeOK /\ k \in Key /\ rows[c] = None
  BY DEF IInv, CallsConsistent, Key
<1>1. CASE Hit(k)
  <2>1. /\ phase' = [phase EXCEPT ![c] = "idle"]
        /\ since' = [since EXCEPT ![c] = 0]
        /\ answer' = [answer EXCEPT ![c] = RowsAnswer(cache[k].rows)]
    BY <1>1 DEF Lookup, Return, Await
  <2>2. cache[k] # None /\ cache[k] \in Entry /\ cache[k].rows \in Rows
    BY <1>0, <1>1 DEF TypeOK, Hit, Entry
  <2>3. cache[k].age \in 0..EntryCap /\ cache[k].rows.age \in Int
    BY <2>2 DEF Entry, Rows
  <2>4. cache[k].rows.age < TTL + QueryTimeout + CloseLimit
    BY <1>0, <1>1, <2>3, TTLAssumption, QueryTimeoutAssumption, CloseAssumption
       DEF IInv, EntriesFresh, Hit
  <2>5. SameQuestion(cache[k].rows.query, r)
    BY <1>0, <2>2 DEF IInv, EntriesKeyed
  <2>6. AnswersTheQuestion' /\ FreshAnswers'
    BY <1>0, <2>1, <2>2, <2>4, <2>5, AnswerWithRows DEF IInv, TypeOK
  <2>7. RowsAnswer(cache[k].rows) \in Answer
    BY <2>2 DEF RowsAnswer, Answer
  <2>8. TypeOK'
    BY <1>0, <2>1, <2>7, QueryTimeoutAssumption, CloseAssumption DEF TypeOK, Phase
  <2>9. CallsConsistent'
    BY <1>0, <2>1 DEF IInv, CallsConsistent, TypeOK
  <2> QED
    BY <2>6, <2>8, <2>9 DEF IInv, EntriesKeyed, EntriesFresh, Hit
<1>2. CASE ~Hit(k)
  <2>1. /\ phase' = [phase EXCEPT ![c] = "inspect"]
        /\ since' = [since EXCEPT ![c] = 0]
        /\ answer' = [answer EXCEPT ![c] = None]
    BY <1>2 DEF Lookup, Await
  <2>2. AnswersTheQuestion' /\ FreshAnswers'
    BY <1>0, <2>1, AnswerWithoutRows DEF IInv, TypeOK
  <2>3. TypeOK'
    BY <1>0, <2>1, QueryTimeoutAssumption, CloseAssumption DEF TypeOK, Phase
  <2>4. CallsConsistent'
    BY <1>0, <2>1 DEF IInv, CallsConsistent, TypeOK
  <2> QED
    BY <2>2, <2>3, <2>4 DEF IInv, EntriesKeyed, EntriesFresh, Hit
<1> QED
  BY <1>1, <1>2

\* A call that ends without rows.
LEMMA ReturnInv ==
  ASSUME IInv, NEW c \in Caller, NEW a \in {Error, Live}, Return(c, a),
         \/ rows' = [rows EXCEPT ![c] = None]
         \/ rows' = rows /\ phase[c] # "close",
         \/ request' = request
         \/ \E r \in Request : request' = [request EXCEPT ![c] = r],
         UNCHANGED cache
  PROVE  IInv'
<1>1. /\ phase' = [phase EXCEPT ![c] = "idle"]
      /\ since' = [since EXCEPT ![c] = 0]
      /\ answer' = [answer EXCEPT ![c] = a]
  BY DEF Return, Await
<1>2. AnswersTheQuestion' /\ FreshAnswers'
  BY <1>1, PlainAnswers, AnswerWithoutRows DEF IInv, TypeOK
<1>3. TypeOK'
  BY <1>1, PlainAnswers, QueryTimeoutAssumption, CloseAssumption DEF IInv, TypeOK, Phase
<1>4. CallsConsistent'
  BY <1>1 DEF IInv, CallsConsistent, TypeOK
<1> QED
  BY <1>2, <1>3, <1>4 DEF IInv, EntriesKeyed, EntriesFresh, Hit

\* A call that goes on to its next await with no rows in hand.
LEMMA AwaitInv ==
  ASSUME IInv, NEW c \in Caller, NEW p \in Phase \ {"idle"}, Await(c, p),
         phase[c] \notin {"idle", "close"}, UNCHANGED <<cache, rows, request, answer>>
  PROVE  IInv'
<1>1. /\ phase' = [phase EXCEPT ![c] = p]
      /\ since' = [since EXCEPT ![c] = 0]
  BY DEF Await
<1>2. TypeOK'
  BY <1>1, QueryTimeoutAssumption, CloseAssumption DEF IInv, TypeOK
<1>3. CallsConsistent'
  BY <1>1, QueryTimeoutAssumption, CloseAssumption DEF IInv, CallsConsistent, TypeOK
<1> QED
  BY <1>2, <1>3 DEF IInv, EntriesKeyed, EntriesFresh, Hit, AnswersTheQuestion, FreshAnswers,
     GotRows

\* The rows of a query are as old as the query is.
LEMMA FetchedInv ==
  ASSUME IInv, NEW c \in Caller, Fetched(c)
  PROVE  IInv'
<1> DEFINE rs == [query |-> Query(request[c]), age |-> since[c]]
<1>1. /\ phase[c] = "query"
      /\ phase' = [phase EXCEPT ![c] = "close"]
      /\ since' = [since EXCEPT ![c] = 0]
      /\ rows' = [rows EXCEPT ![c] = rs]
      /\ UNCHANGED <<cache, request, answer>>
  BY DEF Fetched, Await
<1>2. request[c] \in Request /\ since[c] \in 0..QueryTimeout
  BY <1>1, QueryTimeoutAssumption, CloseAssumption DEF IInv, CallsConsistent, TypeOK
<1>3. rs \in Rows
  BY <1>2, TTLAssumption, QueryTimeoutAssumption, CloseAssumption DEF Rows, Asked, RowsCap
<1>4. TypeOK'
  BY <1>1, <1>3, QueryTimeoutAssumption, CloseAssumption DEF IInv, TypeOK, Phase
<1>5. CallsConsistent'
  BY <1>1, <1>2, QueryTimeoutAssumption, CloseAssumption DEF IInv, CallsConsistent, TypeOK
<1> QED
  BY <1>1, <1>4, <1>5 DEF IInv, EntriesKeyed, EntriesFresh, Hit, AnswersTheQuestion,
     FreshAnswers, GotRows

\* What a store leaves in the cache: the new entry, entries of before, nothing.
LEMMA StoredEntries ==
  ASSUME TypeOK, NEW q \in Key, NEW rs \in Rows
  PROVE  /\ Stored(q, rs) \in [Key -> Entry \cup {None}]
         /\ \A k \in Key \ {q} : Stored(q, rs)[k] \in {None, cache[k]}
         /\ Stored(q, rs)[q] = [age |-> 0, rows |-> rs]
<1> DEFINE new == [age |-> 0, rows |-> rs]
           put == [cache EXCEPT ![q] = new]
<1>1. new \in Entry
  BY TTLAssumption DEF Entry, EntryCap
<1>2. /\ put \in [Key -> Entry \cup {None}]
      /\ put[q] = new
      /\ \A k \in Key \ {q} : put[k] = cache[k]
  BY <1>1 DEF TypeOK
<1>3. /\ Sweep(put) \in [Key -> Entry \cup {None}]
      /\ \A k \in Key : Sweep(put)[k] \in {None, put[k]}
      /\ Sweep(put)[q] = new
  <2>1. ~(new.age > TTL)
    BY TTLAssumption
  <2> HIDE DEF put, new
  <2> QED
    BY <1>2, <2>1 DEF Sweep
<1>4. Stored(q, rs) = put \/ Stored(q, rs) = Sweep(put)
  BY DEF Stored
<1> HIDE DEF put
<1> QED
  BY <1>2, <1>3, <1>4

\* The end of a session: its rows are cached and returned.
LEMMA ClosedInv ==
  ASSUME IInv, NEW c \in Caller, Closed(c)
  PROVE  IInv'
<1>1. CASE rows[c] = None
  BY <1>1, ReturnInv DEF Closed
<1>2. CASE rows[c] # None
  <2> DEFINE rs == rows[c]
             q == KeyOf(request[c])
  <2>1. /\ phase[c] = "close"
        /\ phase' = [phase EXCEPT ![c] = "idle"]
        /\ since' = [since EXCEPT ![c] = 0]
        /\ answer' = [answer EXCEPT ![c] = RowsAnswer(rs)]
        /\ rows' = [rows EXCEPT ![c] = None]
        /\ request' = request
        /\ cache' = Stored(q, rs)
    BY <1>2 DEF Closed, Return, Await
  <2>2. /\ request[c] \in Request
        /\ rs \in Rows
        /\ rs.age \in Nat
        /\ rs.query = Query(request[c])
        /\ since[c] \in Int /\ since[c] <= CloseLimit
        /\ rs.age <= QueryTimeout + CloseLimit
    <3>1. /\ request[c] \in Request
          /\ rs \in Rows
          /\ rs.query = Query(request[c])
          /\ since[c] \in Int /\ since[c] <= CloseLimit
          /\ rs.age <= QueryTimeout + since[c]
      BY <1>2, <2>1, QueryTimeoutAssumption, CloseAssumption DEF IInv, CallsConsistent, TypeOK
    <3> QED
      BY <3>1, QueryTimeoutAssumption, CloseAssumption, TTLAssumption DEF Rows, RowsCap
  <2>3. q \in Key
    BY <2>2 DEF Key
  <2> HIDE DEF q, rs
  <2>4. /\ cache' \in [Key -> Entry \cup {None}]
        /\ \A k \in Key \ {q} : cache'[k] \in {None, cache[k]}
        /\ cache'[q] = [age |-> 0, rows |-> rs]
    BY <2>1, <2>2, <2>3, StoredEntries DEF IInv
  <2>5. SameQuestion(rs.query, request'[c])
    BY <2>1, <2>2, SameKeySameQuestion
  <2>6. AnswersTheQuestion' /\ FreshAnswers'
    BY <2>1, <2>2, <2>5, AnswerWithRows DEF IInv
  <2>7. TypeOK'
    <3>1. RowsAnswer(rs) \in Answer
      BY <2>2 DEF RowsAnswer, Answer
    <3> QED
      BY <2>1, <2>4, <3>1, QueryTimeoutAssumption, CloseAssumption DEF IInv, TypeOK, Phase
  <2>8. CallsConsistent'
    BY <2>1 DEF IInv, CallsConsistent, TypeOK
  <2>9. EntriesKeyed'
    <3> SUFFICES ASSUME NEW k \in Key, NEW r \in Request, cache'[k] # None, KeyOf(r) = k
                 PROVE  SameQuestion(cache'[k].rows.query, r)
      BY DEF EntriesKeyed
    <3>1. CASE k = q
      BY <2>2, <2>4, <3>1, SameKeySameQuestion DEF q
    <3>2. CASE k # q
      BY <2>4, <3>2 DEF IInv, EntriesKeyed
    <3> QED
      BY <3>1, <3>2
  <2>10. EntriesFresh'
    <3> SUFFICES ASSUME NEW k \in Key, Hit(k)'
                 PROVE  cache'[k].rows.age <= QueryTimeout + CloseLimit + cache'[k].age
      BY DEF EntriesFresh
    <3>1. CASE k = q
      BY <2>2, <2>4, <3>1, QueryTimeoutAssumption, CloseAssumption
    <3>2. CASE k # q
      BY <2>4, <3>2 DEF IInv, EntriesFresh, Hit
    <3> QED
      BY <3>1, <3>2
  <2> QED
    BY <2>6, <2>7, <2>8, <2>9, <2>10 DEF IInv
<1> QED
  BY <1>1, <1>2

\* Rows that get older stay rows, of the same query.
LEMMA OlderRows ==
  ASSUME NEW rs \in Rows
  PROVE  /\ Older(rs) \in Rows
         /\ Older(rs).query = rs.query
         /\ Older(rs).age <= rs.age + 1
BY TTLAssumption, QueryTimeoutAssumption, CloseAssumption DEF Rows, Older, UpTo, RowsCap

\* What a tick does to an entry.
LEMMA TickedEntries ==
  ASSUME TypeOK, Tick, NEW k \in Key
  PROVE  /\ cache[k] = None <=> cache'[k] = None
         /\ cache[k] # None =>
              /\ cache[k] \in Entry
              /\ cache'[k] \in Entry
              /\ cache'[k].age = UpTo(cache[k].age + 1, EntryCap)
              /\ cache'[k].rows = Older(cache[k].rows)
<1>1. CASE cache[k] = None
  BY <1>1 DEF Tick
<1>2. CASE cache[k] # None
  <2>1. cache[k] \in Entry /\ cache[k].age \in 0..EntryCap /\ cache[k].rows \in Rows
    BY <1>2 DEF TypeOK, Entry
  <2> DEFINE e == [age |-> UpTo(cache[k].age + 1, EntryCap), rows |-> Older(cache[k].rows)]
  <2>2. cache'[k] = e
    BY <1>2 DEF Tick
  <2>3. e \in Entry
    BY <2>1, OlderRows, TTLAssumption DEF Entry, UpTo, EntryCap
  <2>4. e.age = UpTo(cache[k].age + 1, EntryCap) /\ e.rows = Older(cache[k].rows)
    OBVIOUS
  <2> HIDE DEF e
  <2> QED
    BY <1>2, <2>1, <2>2, <2>3, <2>4, NoneAssumption
<1> QED
  BY <1>1, <1>2

LEMMA TickInv ==
  ASSUME IInv, Tick
  PROVE  IInv'
<1> USE TTLAssumption, QueryTimeoutAssumption, CloseAssumption
<1>0. TypeOK
  BY DEF IInv
<1>1. /\ \A c \in Caller : ~Overdue(c)
      /\ since' = [c \in Caller |-> IF phase[c] \in {"query", "close"} THEN since[c] + 1 ELSE 0]
      /\ rows' = [c \in Caller |-> IF rows[c] = None THEN None ELSE Older(rows[c])]
      /\ UNCHANGED <<phase, request, answer>>
  BY DEF Tick
<1>2. cache' \in [Key -> Entry \cup {None}]
  <2>1. DOMAIN cache' = Key /\ cache' = [k \in Key |-> cache'[k]]
    BY DEF Tick
  <2> QED
    BY <1>0, <2>1, TickedEntries
<1>3. \A c \in Caller :
        rows[c] # None => /\ rows[c] \in Rows /\ rows[c].age \in Int
                         /\ rows'[c] = Older(rows[c])
                         /\ rows'[c] \in Rows /\ rows'[c].age \in Int
                         /\ rows'[c].query = rows[c].query
                         /\ rows'[c].age <= rows[c].age + 1
  BY <1>0, <1>1, OlderRows DEF TypeOK, Rows
<1>4. \A c \in Caller : rows[c] = None => rows'[c] = None
  BY <1>1
<1>5. CallsConsistent'
  <2> SUFFICES ASSUME NEW c \in Caller
               PROVE  /\ phase[c] # "idle" => request[c] \in Request
                      /\ phase[c] = "query" => since'[c] <= QueryTimeout
                      /\ phase[c] = "close" => since'[c] <= CloseLimit
                      /\ rows'[c] # None =>
                           /\ phase[c] = "close"
                           /\ rows'[c].query = Query(request[c])
                           /\ rows'[c].age <= QueryTimeout + since'[c]
    BY <1>1 DEF CallsConsistent
  <2>1. since[c] \in Int
    BY <1>0 DEF TypeOK
  <2>2. /\ phase[c] = "query" => since'[c] <= QueryTimeout
        /\ phase[c] = "close" => since'[c] <= CloseLimit
    BY <1>1, <2>1 DEF Overdue
  <2>3. ASSUME rows[c] # None
        PROVE  /\ phase[c] = "close"
               /\ rows'[c].query = Query(request[c])
               /\ rows'[c].age <= QueryTimeout + since'[c]
    <3>1. /\ phase[c] = "close"
          /\ rows[c].query = Query(request[c])
          /\ rows[c].age <= QueryTimeout + since[c]
      BY <2>3 DEF IInv, CallsConsistent
    <3>2. since'[c] = since[c] + 1
      BY <1>1, <3>1
    <3> QED
      BY <1>3, <2>1, <2>3, <3>1, <3>2
  <2> QED
    BY <1>4, <2>2, <2>3 DEF IInv, CallsConsistent
<1>6. TypeOK'
  <2>1. rows' \in [Caller -> Rows \cup {None}]
    BY <1>1, <1>3, <1>4
  <2>2. since' \in [Caller -> 0..(IF QueryTimeout > CloseLimit THEN QueryTimeout ELSE CloseLimit)]
    BY <1>0, <1>1 DEF TypeOK, Overdue
  <2> QED
    BY <1>0, <1>1, <1>2, <2>1, <2>2 DEF TypeOK
<1>7. EntriesKeyed'
  <2> SUFFICES ASSUME NEW k \in Key, NEW r \in Request, cache'[k] # None, KeyOf(r) = k
               PROVE  SameQuestion(cache'[k].rows.query, r)
    BY DEF EntriesKeyed
  <2>1. cache[k] # None /\ cache[k] \in Entry /\ cache'[k].rows = Older(cache[k].rows)
    BY <1>0, TickedEntries
  <2>2. cache'[k].rows.query = cache[k].rows.query
    BY <2>1, OlderRows DEF Entry
  <2> QED
    BY <2>1, <2>2 DEF IInv, EntriesKeyed
<1>8. EntriesFresh'
  <2> SUFFICES ASSUME NEW k \in Key, Hit(k)'
               PROVE  cache'[k].rows.age <= QueryTimeout + CloseLimit + cache'[k].age
    BY DEF EntriesFresh
  <2>1. /\ cache[k] # None /\ cache[k] \in Entry
        /\ cache'[k].age = UpTo(cache[k].age + 1, EntryCap)
        /\ cache'[k].rows = Older(cache[k].rows)
    BY <1>0, TickedEntries DEF Hit
  <2>2. cache[k].age \in 0..EntryCap /\ cache[k].rows \in Rows /\ cache[k].rows.age \in Int
    BY <2>1 DEF Entry, Rows
  <2>3. /\ Older(cache[k].rows).age <= cache[k].rows.age + 1
        /\ Older(cache[k].rows).age \in Int
    BY <2>2, OlderRows DEF Rows
  <2>4. cache'[k].age = cache[k].age + 1 /\ cache[k].age < TTL
    BY <2>1, <2>2 DEF Hit, UpTo, EntryCap
  <2>5. cache[k].rows.age <= QueryTimeout + CloseLimit + cache[k].age
    BY <2>1, <2>4 DEF IInv, EntriesFresh, Hit
  <2> QED
    BY <2>1, <2>2, <2>3, <2>4, <2>5
<1> QED
  BY <1>1, <1>5, <1>6, <1>7, <1>8
     DEF IInv, AnswersTheQuestion, FreshAnswers, GotRows

\* Every step keeps the invariant.
LEMMA InvStep ==
  ASSUME IInv, [Next]_vars
  PROVE  IInv'
<1>1. ASSUME NEW c \in Caller, NEW r \in Request, Call(c, r) PROVE IInv'
  <2>1. CASE r.tool = "get_alert"
    <3>1. /\ phase[c] = "idle"
          /\ phase' = [phase EXCEPT ![c] = "live"]
          /\ since' = [since EXCEPT ![c] = 0]
          /\ answer' = [answer EXCEPT ![c] = None]
          /\ request' = [request EXCEPT ![c] = r]
          /\ UNCHANGED <<cache, rows>>
      BY <1>1, <2>1 DEF Call, Await
    <3>2. AnswersTheQuestion' /\ FreshAnswers'
      BY <3>1, AnswerWithoutRows DEF IInv, TypeOK
    <3>3. TypeOK'
      BY <3>1, QueryTimeoutAssumption, CloseAssumption DEF IInv, TypeOK, Phase
    <3>4. CallsConsistent'
      BY <3>1 DEF IInv, CallsConsistent, TypeOK
    <3> QED
      BY <3>1, <3>2, <3>3, <3>4 DEF IInv, EntriesKeyed, EntriesFresh, Hit
  <2>2. CASE r.tool # "get_alert" /\ Refused(r)
    <3>1. /\ Return(c, Error) /\ phase[c] = "idle"
          /\ request' = [request EXCEPT ![c] = r]
          /\ UNCHANGED <<cache, rows>>
      BY <1>1, <2>2 DEF Call
    <3> QED
      BY <3>1, ReturnInv
  <2>3. CASE r.tool # "get_alert" /\ ~Refused(r)
    BY <1>1, <2>3, LookupInv DEF Call
  <2> QED
    BY <2>1, <2>2, <2>3
<1>2. ASSUME NEW c \in Caller, NEW open \in BOOLEAN, LiveAnswered(c, open) PROVE IInv'
  <2>1. CASE open
    <3>1. Return(c, Live) /\ phase[c] = "live" /\ UNCHANGED <<cache, request, rows>>
      BY <1>2, <2>1 DEF LiveAnswered
    <3> QED
      BY <3>1, ReturnInv
  <2>2. CASE ~open
    <3>1. /\ phase[c] = "live" /\ Lookup(c, request[c])
          /\ UNCHANGED <<cache, request, rows>>
      BY <1>2, <2>2 DEF LiveAnswered
    <3>2. request[c] \in Request /\ request' = [request EXCEPT ![c] = request[c]]
      BY <3>1 DEF IInv, CallsConsistent, TypeOK
    <3> QED
      BY <3>1, <3>2, LookupInv
  <2> QED
    BY <2>1, <2>2
<1>3. ASSUME NEW c \in Caller, NEW action \in {"allow", "block"}, Inspected(c, action)
      PROVE  IInv'
  <2>1. CASE action = "block"
    <3>1. Return(c, Error) /\ phase[c] = "inspect" /\ UNCHANGED <<cache, request, rows>>
      BY <1>3, <2>1 DEF Inspected
    <3> QED
      BY <3>1, ReturnInv
  <2>2. CASE action = "allow"
    BY <1>3, <2>2, AwaitInv DEF Inspected, Phase
  <2> QED
    BY <2>1, <2>2
<1>4. ASSUME NEW c \in Caller, NEW ok \in BOOLEAN, SessionOpened(c, ok) PROVE IInv'
  <2>1. CASE ok
    BY <1>4, <2>1, AwaitInv DEF SessionOpened, Phase
  <2>2. CASE ~ok
    <3>1. Return(c, Error) /\ phase[c] = "open" /\ UNCHANGED <<cache, request, rows>>
      BY <1>4, <2>2 DEF SessionOpened
    <3> QED
      BY <3>1, ReturnInv
  <2> QED
    BY <2>1, <2>2
<1>5. ASSUME NEW c \in Caller, Fetched(c) PROVE IInv'
  BY <1>5, FetchedInv
<1>6. ASSUME NEW c \in Caller, QueryFailed(c) PROVE IInv'
  BY <1>6, AwaitInv DEF QueryFailed, Phase
<1>7. ASSUME NEW c \in Caller, Closed(c) PROVE IInv'
  BY <1>7, ClosedInv
<1>8. ASSUME NEW c \in Caller, CloseFailed(c) PROVE IInv'
  BY <1>8, ReturnInv DEF CloseFailed
<1>9. CASE Tick
  BY <1>9, TickInv
<1>10. CASE UNCHANGED vars
  BY <1>10 DEF vars, IInv, TypeOK, CallsConsistent, EntriesKeyed, EntriesFresh, Hit,
     AnswersTheQuestion, FreshAnswers, GotRows
<1> QED
  BY <1>1, <1>2, <1>3, <1>4, <1>5, <1>6, <1>7, <1>8, <1>9, <1>10 DEF Next, CallStep, TimedOut

THEOREM InvHolds == Spec => []IInv
<1>1. Init => IInv
  BY QueryTimeoutAssumption, CloseAssumption
     DEF Init, IInv, TypeOK, Phase, CallsConsistent, EntriesKeyed, EntriesFresh, Hit,
     AnswersTheQuestion, FreshAnswers, GotRows
<1> QED
  BY <1>1, InvStep, PTL DEF Spec

\* The variables of the cache and of the calls have their types.
THEOREM TypeCorrect == Spec => []TypeOK
BY InvHolds, PTL DEF IInv

\* Answers are about the question that was asked.
THEOREM AnswersFit == Spec => []AnswersTheQuestion
BY InvHolds, PTL DEF IInv

\* Answers are no older than the limits of the code add up to.
THEOREM AnswersAreFresh == Spec => []FreshAnswers
BY InvHolds, PTL DEF IInv

-----------------------------------------------------------------------------
(***************************************************************************)
(* The size of the cache.  Only a store changes which keys are held, and   *)
(* it sweeps when there are too many; time keeps entries of one TTL close. *)
(***************************************************************************)

LEMMA GrowthOnStore ==
  ASSUME IInv, NEW c \in Caller, Closed(c), rows[c] # None
  PROVE  GrowthIsBounded'
<1> USE TTLAssumption
<1> DEFINE q == KeyOf(request[c])
           put == [cache EXCEPT ![q] = [age |-> 0, rows |-> rows[c]]]
<1>1. cache' = IF Cardinality(Held(put)) > MaxEntries THEN Sweep(put) ELSE put
  BY DEF Closed, Stored
<1>2. rows[c] \in Rows /\ request[c] \in Request /\ q \in Key
  BY DEF IInv, TypeOK, CallsConsistent, Closed, Key
<1>3. \A k \in Key : put[k] # None => put[k].age \in Nat
  <2>1. [age |-> 0, rows |-> rows[c]] \in Entry
    BY <1>2 DEF Entry, EntryCap
  <2>2. put \in [Key -> Entry \cup {None}]
    BY <1>2, <2>1 DEF IInv, TypeOK
  <2> HIDE DEF put
  <2> QED
    BY <2>2 DEF Entry
<1> HIDE DEF put
<1>4. CASE Cardinality(Held(put)) > MaxEntries
  <2>1. \A k \in Held(Sweep(put)) : Sweep(put)[k].age \in Nat /\ Sweep(put)[k].age <= TTL
    BY <1>3 DEF Held, Sweep
  <2> QED
    BY <1>1, <1>4, <2>1 DEF GrowthIsBounded
<1>5. CASE ~(Cardinality(Held(put)) > MaxEntries)
  BY <1>1, <1>5 DEF GrowthIsBounded
<1> QED
  BY <1>4, <1>5

LEMMA GrowthOnTick ==
  ASSUME IInv, GrowthIsBounded, Tick
  PROVE  GrowthIsBounded'
<1> USE TTLAssumption
<1>1. \A k \in Key : cache'[k] = None <=> cache[k] = None
  BY TickedEntries DEF IInv
<1>2. Held(cache') = Held(cache)
  BY <1>1 DEF Held
<1>3. \A k \in Held(cache) : /\ cache[k].age \in 0..EntryCap
                            /\ cache'[k].age = UpTo(cache[k].age + 1, EntryCap)
  BY TickedEntries DEF IInv, Held, Entry
<1>4. ASSUME Cardinality(Held(cache)) > MaxEntries, NEW j \in Held(cache), NEW k \in Held(cache)
      PROVE  cache'[j].age - cache'[k].age <= TTL
  <2>1. cache[j].age - cache[k].age <= TTL
    BY <1>4 DEF GrowthIsBounded
  <2> QED
    BY <1>3, <2>1 DEF UpTo, EntryCap
<1> QED
  BY <1>2, <1>4 DEF GrowthIsBounded

\* A cache above its limit holds only entries of one TTL.
THEOREM GrowthStaysBounded == Spec => []GrowthIsBounded
<1>1. Init => GrowthIsBounded
  BY DEF Init, GrowthIsBounded, Held
<1>2. IInv /\ GrowthIsBounded /\ [Next]_vars => GrowthIsBounded'
  <2> SUFFICES ASSUME IInv, GrowthIsBounded, [Next]_vars
               PROVE  GrowthIsBounded'
    OBVIOUS
  <2>1. CASE UNCHANGED cache
    BY <2>1 DEF GrowthIsBounded, Held
  <2>2. CASE Tick
    BY <2>2, GrowthOnTick
  <2>3. ASSUME NEW c \in Caller, Closed(c) PROVE GrowthIsBounded'
    BY <2>1, <2>3, GrowthOnStore DEF Closed
  <2> QED
    BY <2>1, <2>2, <2>3 DEF Next, vars, CallStep, Call, LiveAnswered, Inspected, SessionOpened,
       Fetched, QueryFailed, TimedOut, CloseFailed
<1> QED
  BY <1>1, <1>2, InvHolds, PTL DEF Spec

=============================================================================
