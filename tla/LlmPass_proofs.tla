--------------------------- MODULE LlmPass_proofs ---------------------------
(***************************************************************************)
(* What holds of the LLM passes and of their books for every set of        *)
(* stores, every number of calls and with or without a spool.              *)
(***************************************************************************)
EXTENDS LlmPass, FiniteSetTheorems, TLAPS

\* Every action of the module, for the proofs that go through all of them.
LEMMA StepCases ==
  ASSUME [Next]_vars
  PROVE  \/ BeginCycle
         \/ \E prompt \in todo : Ask(prompt)
         \/ StartRaises \/ CallRaises
         \/ \E a \in {"good", "empty", "odd"} : Answered(a)
         \/ Exit \/ OddRaises
         \/ \E id \in Id : Printed(id)
         \/ Opened \/ Filled \/ Renamed \/ SpoolFails
         \/ \E about \in SUBSET Store : Took(about)
         \/ NoneCorrelated \/ EntryRaises \/ Correlated
         \/ DrillRaises \/ DrillsAnswered \/ Reported
         \/ Die
         \/ \E file \in spool : RelayPicks(file)
         \/ \E posted, deleted \in BOOLEAN : RelayEnds(posted, deleted)
         \/ UNCHANGED vars
BY DEF Next

-----------------------------------------------------------------------------
(***************************************************************************)
(* Prompts.                                                                *)
(***************************************************************************)

\* The prompts for some stores ask about each of them in one prompt, about
\* one store each on the vLLM box.
LEMMA PromptsSplit ==
  ASSUME NEW stores \in SUBSET Store
  PROVE  /\ Prompts(stores) \subseteq Prompt
         /\ UNION Prompts(stores) = stores
         /\ \A p, q \in Prompts(stores) : p = q \/ p \cap q = {}
         /\ \A p \in Prompts(stores) : provider = "vllm" => Cardinality(p) <= 1
<1>1. CASE provider = "vllm" /\ Cardinality(stores) > 1
  <2>1. Prompts(stores) = {{s} : s \in stores}
    BY <1>1 DEF Prompts
  <2>2. \A p \in Prompts(stores) : Cardinality(p) <= 1
    <3>1. \A s \in stores : Cardinality({s}) = 1
      BY FS_Singleton
    <3> QED
      BY <2>1, <3>1
  <2> QED
    BY <2>1, <2>2 DEF Prompt
<1>2. CASE ~(provider = "vllm" /\ Cardinality(stores) > 1)
  <2>1. Prompts(stores) = {stores}
    BY <1>2 DEF Prompts
  <2>2. Cardinality(stores) \in Nat
    BY PassAssumption, FS_Subset, FS_CardinalityType
  <2> QED
    BY <1>2, <2>1, <2>2 DEF Prompt
<1> QED
  BY <1>1, <1>2

\* The stores answers are about are stores.
LEMMA AboutStores == TypeOK => About \in SUBSET Store
BY DEF TypeOK, About, Part

-----------------------------------------------------------------------------
(***************************************************************************)
(* Types.                                                                  *)
(***************************************************************************)

\* A call number is not 0 while its call is in progress, and there is a line while
\* it is spooled.
CallInv ==
  /\ pc \in {"wait", "exit", "print", "open", "fill", "rename", "took"} =>
       calls \in 1 .. MaxCalls
  /\ pc \in {"open", "fill", "rename"} => line \in Usage

LEMMA FileType ==
  ASSUME line \in Usage, NEW name \in {"tmp", "json"}, NEW whole \in BOOLEAN
  PROVE  Spooled(name, whole) \in File
BY DEF Spooled, SpooledUsage, File

LEMMA TypeStep ==
  ASSUME TypeOK, CallInv, [Next]_vars
  PROVE  TypeOK' /\ CallInv'
<1> USE PassAssumption DEF TypeOK, CallInv, Provider
<1>1. CASE BeginCycle
  BY <1>1 DEF BeginCycle, books, Prompt
<1>2. CASE \E prompt \in todo : Ask(prompt)
  BY <1>2 DEF Ask, pass, books, Prompt
<1>3. CASE \/ StartRaises \/ CallRaises \/ OddRaises \/ NoneCorrelated
           \/ EntryRaises \/ DrillRaises \/ Reported
  <2>1. EndCycle
    BY <1>3 DEF StartRaises, CallRaises, OddRaises, NoneCorrelated, EntryRaises,
         DrillRaises, Reported
  <2> QED
    BY <2>1 DEF EndCycle, pass, books
<1>4. CASE \E a \in {"good", "empty", "odd"} : Answered(a)
  BY <1>4 DEF Answered, pass, books
<1>5. CASE Exit \/ Correlated \/ SpoolFails
  BY <1>5 DEF Exit, Correlated, SpoolFails, pass, books
<1>6. ASSUME NEW id \in Id, Printed(id) PROVE TypeOK' /\ CallInv'
  <2>1. UsageEvent(id) \in Usage
    BY <1>6 DEF Printed, UsageEvent, Usage
  <2> QED
    BY <1>6, <2>1 DEF Printed, pass
<1>7. CASE Opened
  <2>1. Spooled("tmp", FALSE) \in File
    BY <1>7, FileType DEF Opened
  <2> QED
    BY <1>7, <2>1 DEF Opened, pass
<1>8. CASE Filled
  <2>1. Spooled("tmp", TRUE) \in File
    BY <1>8, FileType DEF Filled
  <2> QED
    BY <1>8, <2>1 DEF Filled, pass
<1>9. CASE Renamed
  <2>1. Spooled("json", TRUE) \in File
    BY <1>9, FileType DEF Renamed
  <2> QED
    BY <1>9, <2>1 DEF Renamed, pass
<1>10. CASE \E about \in SUBSET Store : Took(about)
  <2>1. PICK about \in SUBSET Store : Took(about)
    BY <1>10
  <2>2. [asked |-> asking, about |-> about] \in Part
    BY DEF Part
  <2> QED
    BY <2>1, <2>2 DEF Took, books
<1>11. CASE DrillsAnswered
  <2>1. About \in Prompt /\ Prompts(About) \subseteq Prompt
    BY AboutStores, PromptsSplit DEF Prompt
  <2> QED
    BY <1>11, <2>1 DEF DrillsAnswered, books
<1>12. CASE Die
  BY <1>12 DEF Die, pass, books
<1>13. CASE \E file \in spool : RelayPicks(file)
  BY <1>13 DEF RelayPicks, pass
<1>14. CASE \E posted, deleted \in BOOLEAN : RelayEnds(posted, deleted)
  <2>1. {file.usage : file \in relay} \subseteq Usage
    BY DEF File
  <2> QED
    BY <1>14, <2>1 DEF RelayEnds, pass
<1>15. CASE UNCHANGED vars
  BY <1>15 DEF vars, pass, books
<1> QED
  BY <1>1, <1>2, <1>3, <1>4, <1>5, <1>6, <1>7, <1>8, <1>9, <1>10, <1>11, <1>12,
     <1>13, <1>14, <1>15, StepCases

LEMMA TypeInvariant == Spec => [](TypeOK /\ CallInv)
<1>1. Init => TypeOK /\ CallInv
  BY PassAssumption DEF Init, TypeOK, CallInv, Prompt, Provider
<1>2. TypeOK /\ CallInv /\ [Next]_vars => TypeOK' /\ CallInv'
  BY TypeStep
<1> QED
  BY <1>1, <1>2, PTL DEF Spec

\* The variables of the passes and of the books have their types.
THEOREM TypeCorrect == Spec => []TypeOK
BY TypeInvariant, PTL

-----------------------------------------------------------------------------
(***************************************************************************)
(* A pass is handed on whole: what is answered and what is still to be     *)
(* asked are the prompts of the drilled stores.                            *)
(***************************************************************************)
Asked == {part.asked : part \in merged}

PassInv ==
  /\ phase = "triage" /\ pc # "idle" =>
       /\ todo \cup Asked = Prompts(drill_data)
       /\ pc = "handed" => todo = {}
  /\ pc \in {"wait", "exit", "print", "open", "fill", "rename", "took"} => asking \in todo
  /\ phase = "triage" => pc # "drills"

LEMMA PassStep ==
  ASSUME TypeOK, PassInv, [Next]_vars
  PROVE  PassInv'
<1> USE DEF PassInv
<1>1. CASE BeginCycle
  BY <1>1 DEF BeginCycle
<1>2. CASE \E prompt \in todo : Ask(prompt)
  BY <1>2 DEF Ask, pass, Asked, Prompts
<1>3. CASE \/ StartRaises \/ CallRaises \/ OddRaises \/ NoneCorrelated
           \/ EntryRaises \/ DrillRaises \/ Reported
  <2>1. pc' = "idle"
    BY <1>3 DEF StartRaises, CallRaises, OddRaises, NoneCorrelated, EntryRaises,
         DrillRaises, Reported, EndCycle
  <2> QED
    BY <2>1
<1>4. CASE \E a \in {"good", "empty", "odd"} : Answered(a)
  BY <1>4 DEF Answered, pass, Asked, Prompts
<1>5. CASE Exit \/ Correlated \/ SpoolFails
  BY <1>5 DEF Exit, Correlated, SpoolFails, pass, Asked, Prompts
<1>6. CASE (\E id \in Id : Printed(id)) \/ Opened \/ Filled \/ Renamed
  BY <1>6 DEF Printed, Opened, Filled, Renamed, pass, Asked, Prompts
<1>10. CASE \E about \in SUBSET Store : Took(about)
  <2>1. PICK about \in SUBSET Store : Took(about)
    BY <1>10
  <2>2. Asked' = Asked \cup {asking}
    <3> DEFINE part == [asked |-> asking, about |-> about]
    <3>1. merged' = merged \cup {part} /\ part.asked = asking
      BY <2>1 DEF Took
    <3> HIDE DEF part
    <3> QED
      BY <3>1, Zenon DEF Asked
  <2>3. asking \in todo /\ todo' = todo \ {asking}
    BY <2>1 DEF Took
  <2>4. todo' \cup Asked' = todo \cup Asked
    BY <2>2, <2>3
  <2>5. Prompts(drill_data)' = Prompts(drill_data)
    BY <2>1 DEF Took, Prompts
  <2> QED
    BY <2>1, <2>3, <2>4, <2>5 DEF Took
<1>11. CASE DrillsAnswered
  <2>1. Asked' = {}
    BY <1>11 DEF DrillsAnswered, Asked
  <2>2. todo' = Prompts(drill_data)'
    BY <1>11 DEF DrillsAnswered, Prompts
  <2> QED
    BY <1>11, <2>1, <2>2 DEF DrillsAnswered
<1>12. CASE Die
  BY <1>12 DEF Die, pass
<1>13. CASE \/ \E file \in spool : RelayPicks(file)
            \/ \E posted, deleted \in BOOLEAN : RelayEnds(posted, deleted)
  BY <1>13 DEF RelayPicks, RelayEnds, pass, Asked, Prompts
<1>15. CASE UNCHANGED vars
  BY <1>15 DEF vars, pass, Asked, Prompts
<1> QED
  BY <1>1, <1>2, <1>3, <1>4, <1>5, <1>6, <1>10, <1>11, <1>12, <1>13, <1>15,
     StepCases

LEMMA PassCovers == TypeOK /\ PassInv => HandedOnWhole
<1> SUFFICES ASSUME TypeOK, PassInv, pc = "handed", phase = "triage"
             PROVE  /\ UNION Asked = drill_data
                    /\ \A p, q \in merged : p.asked = q.asked \/ p.asked \cap q.asked = {}
                    /\ \A p \in merged : provider = "vllm" => Cardinality(p.asked) <= 1
  BY DEF HandedOnWhole, Asked
<1>1. Asked = Prompts(drill_data)
  BY DEF PassInv
<1>2. drill_data \in SUBSET Store
  BY DEF TypeOK, Prompt
<1>3. \A p \in merged : p.asked \in Asked
  BY DEF Asked
<1> QED
  BY <1>1, <1>2, <1>3, PromptsSplit

\* Whatever calls fail, a triage pass that returns hands on the reports on every
\* drilled store, each asked about in one prompt that fits its provider.
THEOREM PassesAreHandedOnWhole == Spec => []HandedOnWhole
<1>1. Init => PassInv
  BY DEF Init, PassInv
<1>2. TypeOK /\ PassInv /\ [Next]_vars => PassInv'
  BY PassStep
<1> QED
  BY <1>1, <1>2, PassCovers, TypeCorrect, PTL DEF Spec

-----------------------------------------------------------------------------
(***************************************************************************)
(* The books.                                                              *)
(***************************************************************************)
DueInv ==
  /\ due \subseteq {calls}
  /\ pc \notin {"exit", "print"} => due = {}
  /\ answer = "odd" => due = {}

LEMMA DueStep ==
  ASSUME DueInv, [Next]_vars
  PROVE  DueInv'
<1> USE DEF DueInv
<1>1. CASE BeginCycle
  BY <1>1 DEF BeginCycle
<1>2. CASE \E prompt \in todo : Ask(prompt)
  BY <1>2 DEF Ask
<1>3. CASE \/ StartRaises \/ CallRaises \/ OddRaises \/ NoneCorrelated
           \/ EntryRaises \/ DrillRaises \/ Reported
  <2>1. EndCycle /\ due = {}
    BY <1>3 DEF StartRaises, CallRaises, OddRaises, NoneCorrelated, EntryRaises,
         DrillRaises, Reported
  <2> QED
    BY <2>1 DEF EndCycle
<1>4. CASE \E a \in {"good", "empty", "odd"} : Answered(a)
  BY <1>4 DEF Answered
<1>5. CASE Exit \/ Correlated \/ SpoolFails
  BY <1>5 DEF Exit, Correlated, SpoolFails
<1>6. CASE (\E id \in Id : Printed(id)) \/ Opened \/ Filled \/ Renamed
  BY <1>6 DEF Printed, Opened, Filled, Renamed
<1>10. CASE \E about \in SUBSET Store : Took(about)
  BY <1>10 DEF Took
<1>11. CASE DrillsAnswered \/ Die
  BY <1>11 DEF DrillsAnswered, Die
<1>13. CASE \/ \E file \in spool : RelayPicks(file)
            \/ \E posted, deleted \in BOOLEAN : RelayEnds(posted, deleted)
  BY <1>13 DEF RelayPicks, RelayEnds
<1>15. CASE UNCHANGED vars
  BY <1>15 DEF vars
<1> QED
  BY <1>1, <1>2, <1>3, <1>4, <1>5, <1>6, <1>10, <1>11, <1>13, <1>15, StepCases

LEMMA DueHolds == Spec => []DueInv
<1>1. Init => DueInv
  BY DEF Init, DueInv
<1>2. DueInv /\ [Next]_vars => DueInv'
  BY DueStep
<1> QED
  BY <1>1, <1>2, PTL DEF Spec

\* No failure of the telemetry, of the spool or of a later call loses the usage
\* of an answer of the right shape.
THEOREM UsageIsPrinted == Spec => []UsageOfEveryAnswer
<1>1. DueInv => UsageOfEveryAnswer
  BY DEF DueInv, UsageOfEveryAnswer
<1> QED
  BY <1>1, DueHolds, PTL

\* A file has its final name when it is whole.
SpoolInv ==
  /\ \A f \in spool : f.name = "json" => f.whole
  /\ \A f \in relay : f.whole

LEMMA SpoolStep ==
  ASSUME SpoolInv, [Next]_vars
  PROVE  SpoolInv'
<1> USE DEF SpoolInv
<1>1. ASSUME NEW name \in {"tmp", "json"}, NEW whole \in BOOLEAN,
             name = "json" => whole,
             spool' \subseteq spool \cup {Spooled(name, whole)}, UNCHANGED relay
      PROVE  SpoolInv'
  <2> DEFINE file == Spooled(name, whole)
  <2>1. file.name = name /\ file.whole = whole
    BY DEF Spooled
  <2>2. spool' \subseteq spool \cup {file}
    BY <1>1
  <2> HIDE DEF file
  <2> QED
    BY <1>1, <2>1, <2>2
<1>2. CASE Opened
  <2>1. spool' \subseteq spool \cup {Spooled("tmp", FALSE)} /\ UNCHANGED relay
    BY <1>2 DEF Opened
  <2>2. "tmp" = "json" => FALSE
    OBVIOUS
  <2> QED
    BY <1>1, <2>1, <2>2
<1>3. CASE Filled
  <2>1. spool' \subseteq spool \cup {Spooled("tmp", TRUE)} /\ UNCHANGED relay
    BY <1>3 DEF Filled
  <2> QED
    BY <1>1, <2>1
<1>4. CASE Renamed
  <2>1. spool' \subseteq spool \cup {Spooled("json", TRUE)} /\ UNCHANGED relay
    BY <1>4 DEF Renamed
  <2> QED
    BY <1>1, <2>1
<1>5. CASE \E file \in spool : RelayPicks(file)
  BY <1>5 DEF RelayPicks
<1>6. CASE \E posted, deleted \in BOOLEAN : RelayEnds(posted, deleted)
  BY <1>6 DEF RelayEnds
<1>7. CASE \/ BeginCycle \/ \E prompt \in todo : Ask(prompt)
           \/ \E a \in {"good", "empty", "odd"} : Answered(a)
           \/ \E about \in SUBSET Store : Took(about)
           \/ \E id \in Id : Printed(id)
           \/ StartRaises \/ CallRaises \/ OddRaises \/ NoneCorrelated
           \/ EntryRaises \/ DrillRaises \/ Reported \/ Exit \/ Correlated
           \/ SpoolFails \/ DrillsAnswered \/ Die \/ UNCHANGED vars
  BY <1>7 DEF BeginCycle, Ask, Answered, Took, Printed, StartRaises, CallRaises,
     OddRaises, NoneCorrelated, EntryRaises, DrillRaises, Reported, EndCycle,
     Exit, Correlated, SpoolFails, DrillsAnswered, Die, vars, books
<1> QED
  BY <1>2, <1>3, <1>4, <1>5, <1>6, <1>7, StepCases

LEMMA SpoolInvariant == Spec => []SpoolInv
<1>1. Init => SpoolInv
  BY DEF Init, SpoolInv
<1>2. SpoolInv /\ [Next]_vars => SpoolInv'
  BY SpoolStep
<1> QED
  BY <1>1, <1>2, PTL DEF Spec

\* The relay never posts half a record, whenever the agent dies.
THEOREM NoHalfRecordIsPosted == Spec => []NoHalfRecord
<1>1. SpoolInv => NoHalfRecord
  BY DEF SpoolInv, NoHalfRecord
<1> QED
  BY <1>1, SpoolInvariant, PTL

-----------------------------------------------------------------------------
(***************************************************************************)
(* The ledger.  What stdout has is of calls that were sent; the record of  *)
(* the present call is there from its print on, and before it only if it   *)
(* is owed; and what the spool and the relay hold, stdout has.             *)
(***************************************************************************)
LoggedOnce ==
  /\ \A u \in stdout : u.call <= calls
  /\ pc \in {"wait", "exit", "print"} => \A u \in stdout : u.call < calls

OwedUntilPrinted ==
  /\ pc = "exit" /\ answer # "odd" => due = {calls}
  /\ pc = "print" => due = {calls}

SpooledIsLogged ==
  /\ pc \in {"open", "fill", "rename"} => line \in stdout
  /\ \A f \in spool \cup relay : f.usage \in stdout
  /\ relay = {} \/ \E f \in File : relay = {f}

LedgerInv == LoggedOnce /\ OwedUntilPrinted /\ SpooledIsLogged

\* The spool after a step of _spool_usage: a file that is spooled holds the line
\* that was printed.
LEMMA SpoolsLogged ==
  ASSUME LedgerInv, line \in stdout, NEW name, NEW whole,
         spool' \subseteq spool \cup {Spooled(name, whole)},
         UNCHANGED <<line, stdout, relay>>
  PROVE  SpooledIsLogged'
<1> DEFINE file == Spooled(name, whole)
<1>1. file.usage \in stdout
  BY DEF Spooled, SpooledUsage
<1>2. spool' \subseteq spool \cup {file}
  OBVIOUS
<1> HIDE DEF file
<1> QED
  BY <1>1, <1>2 DEF LedgerInv, SpooledIsLogged

LEMMA LedgerInvStep ==
  ASSUME TypeOK, DueInv, LedgerInv, [Next]_vars
  PROVE  LedgerInv'
<1> USE DEF LedgerInv
<1>1. CASE BeginCycle
  BY <1>1 DEF BeginCycle, books, LoggedOnce, OwedUntilPrinted, SpooledIsLogged
<1>2. CASE \E prompt \in todo : Ask(prompt)
  <2>1. \A u \in stdout : u.call \in Int
    BY PassAssumption DEF TypeOK, Usage
  <2> QED
    BY <1>2, <2>1, PassAssumption
       DEF Ask, books, LoggedOnce, OwedUntilPrinted, SpooledIsLogged, TypeOK
<1>3. CASE \/ StartRaises \/ CallRaises \/ OddRaises \/ NoneCorrelated
           \/ EntryRaises \/ DrillRaises \/ Reported
  <2>1. EndCycle
    BY <1>3 DEF StartRaises, CallRaises, OddRaises, NoneCorrelated, EntryRaises,
         DrillRaises, Reported
  <2> QED
    BY <2>1 DEF EndCycle, books, LoggedOnce, OwedUntilPrinted, SpooledIsLogged
<1>4. CASE \E a \in {"good", "empty", "odd"} : Answered(a)
  <2>1. PICK a \in {"good", "empty", "odd"} : Answered(a)
    BY <1>4
  <2>2. answer' # "odd" => due' = {calls}
    BY <2>1 DEF Answered, DueInv
  <2> QED
    BY <2>1, <2>2 DEF Answered, books, LoggedOnce, OwedUntilPrinted, SpooledIsLogged
<1>5. CASE Exit \/ Correlated \/ SpoolFails
  BY <1>5 DEF Exit, Correlated, SpoolFails, books, LoggedOnce, OwedUntilPrinted,
       SpooledIsLogged
<1>6. ASSUME NEW id \in Id, Printed(id) PROVE LedgerInv'
  <2>1. line' = UsageEvent(id) /\ stdout' = stdout \cup {line'}
    BY <1>6 DEF Printed
  <2>2. UsageEvent(id).call = calls
    BY DEF UsageEvent
  <2>3. LoggedOnce'
    BY <1>6, <2>1, <2>2 DEF Printed, LoggedOnce, TypeOK
  <2>4. SpooledIsLogged'
    BY <1>6, <2>1 DEF Printed, SpooledIsLogged
  <2> QED
    BY <1>6, <2>3, <2>4 DEF Printed, OwedUntilPrinted
<1>7. CASE Opened
  <2>1. SpooledIsLogged'
    BY <1>7, SpoolsLogged DEF Opened, SpooledIsLogged
  <2> QED
    BY <1>7, <2>1 DEF Opened, LoggedOnce, OwedUntilPrinted
<1>8. CASE Filled
  <2>1. spool' \subseteq spool \cup {Spooled("tmp", TRUE)}
    BY <1>8 DEF Filled
  <2>2. SpooledIsLogged'
    BY <1>8, <2>1, SpoolsLogged DEF Filled, SpooledIsLogged
  <2> QED
    BY <1>8, <2>2 DEF Filled, LoggedOnce, OwedUntilPrinted
<1>9. CASE Renamed
  <2>1. spool' \subseteq spool \cup {Spooled("json", TRUE)}
    BY <1>9 DEF Renamed
  <2>2. SpooledIsLogged'
    BY <1>9, <2>1, SpoolsLogged DEF Renamed, SpooledIsLogged
  <2> QED
    BY <1>9, <2>2 DEF Renamed, LoggedOnce, OwedUntilPrinted
<1>10. CASE \E about \in SUBSET Store : Took(about)
  BY <1>10 DEF Took, books, LoggedOnce, OwedUntilPrinted, SpooledIsLogged
<1>11. CASE DrillsAnswered \/ Die
  BY <1>11 DEF DrillsAnswered, Die, books, LoggedOnce, OwedUntilPrinted,
       SpooledIsLogged
<1>12. CASE \E file \in spool : RelayPicks(file)
  BY <1>12 DEF RelayPicks, LoggedOnce, OwedUntilPrinted, SpooledIsLogged, TypeOK
<1>13. CASE \E posted, deleted \in BOOLEAN : RelayEnds(posted, deleted)
  <2>1. relay' = {} /\ spool' \subseteq spool
    BY <1>13 DEF RelayEnds
  <2> QED
    BY <1>13, <2>1 DEF RelayEnds, LoggedOnce, OwedUntilPrinted, SpooledIsLogged
<1>14. CASE UNCHANGED vars
  BY <1>14 DEF vars, books, LoggedOnce, OwedUntilPrinted, SpooledIsLogged
<1> QED
  BY <1>1, <1>2, <1>3, <1>4, <1>5, <1>6, <1>7, <1>8, <1>9, <1>10, <1>11, <1>12,
     <1>13, <1>14, StepCases

\* Each step of the passes and of the relay is one of the ledger or a stutter.
LEMMA LedgerStep ==
  ASSUME TypeOK, DueInv, LedgerInv, [Next]_vars
  PROVE  [Ledger!Next]_(Ledger!vars)
<1>1. CASE \/ BeginCycle \/ Exit \/ Correlated \/ SpoolFails \/ DrillsAnswered
           \/ Opened \/ Filled \/ Renamed
           \/ \E about \in SUBSET Store : Took(about)
           \/ \E file \in spool : RelayPicks(file)
           \/ UNCHANGED vars
  BY <1>1 DEF BeginCycle, Exit, Correlated, SpoolFails, DrillsAnswered, Opened, Filled,
       Renamed, Took, RelayPicks, vars, books, Ledger!vars
<1>2. CASE \/ StartRaises \/ CallRaises \/ OddRaises \/ NoneCorrelated
           \/ EntryRaises \/ DrillRaises \/ Reported
  <2>1. EndCycle
    BY <1>2 DEF StartRaises, CallRaises, OddRaises, NoneCorrelated, EntryRaises,
         DrillRaises, Reported
  <2> QED
    BY <2>1 DEF EndCycle, books, Ledger!vars
<1>3. CASE \E prompt \in todo : Ask(prompt)
  <2>1. Ledger!Send
    BY <1>3 DEF Ask, books, DueInv, Ledger!Send
  <2> QED
    BY <2>1 DEF Ledger!Next
<1>4. CASE \E a \in {"good", "empty", "odd"} : Answered(a)
  <2>1. PICK a \in {"good", "empty", "odd"} : Answered(a)
    BY <1>4
  <2>2. pc = "wait" /\ due = {} /\ UNCHANGED <<calls, stdout, hec>>
    BY <2>1 DEF Answered, books, DueInv
  <2>3. CASE a = "odd"
    BY <2>1, <2>2, <2>3 DEF Answered, Ledger!vars
  <2>4. CASE a # "odd"
    <3>1. due' = {calls}
      BY <2>1, <2>2, <2>4 DEF Answered
    <3>2. \A u \in stdout : u.call # calls
      BY <2>2, PassAssumption DEF LedgerInv, LoggedOnce, TypeOK
    <3>3. Ledger!Answer
      BY <2>2, <3>1, <3>2 DEF Ledger!Answer
    <3> QED
      BY <3>3 DEF Ledger!Next
  <2> QED
    BY <2>3, <2>4
<1>5. ASSUME NEW id \in Id, Printed(id) PROVE Ledger!Next
  <2>1. due = {calls}
    BY <1>5 DEF Printed, LedgerInv, OwedUntilPrinted
  <2>2. Ledger!Log(id)
    BY <1>5, <2>1 DEF Printed, UsageEvent, Ledger!Log
  <2> QED
    BY <2>2 DEF Ledger!Next
<1>6. CASE Die
  <2>1. Ledger!Lose
    BY <1>6 DEF Die, books, Ledger!Lose
  <2> QED
    BY <2>1 DEF Ledger!Next
<1>7. CASE \E posted, deleted \in BOOLEAN : RelayEnds(posted, deleted)
  <2>1. PICK posted \in BOOLEAN, deleted \in BOOLEAN : RelayEnds(posted, deleted)
    BY <1>7
  <2>2. UNCHANGED <<calls, due, stdout>>
    BY <2>1 DEF RelayEnds
  <2>3. CASE ~posted
    BY <2>1, <2>2, <2>3 DEF RelayEnds, Ledger!vars
  <2>4. CASE posted
    <3>1. PICK file \in File : relay = {file}
      BY <2>1 DEF RelayEnds, LedgerInv, SpooledIsLogged
    <3>2. hec' = hec \cup {file.usage} /\ file.usage \in stdout
      BY <2>1, <2>4, <3>1 DEF RelayEnds, LedgerInv, SpooledIsLogged
    <3>3. Ledger!Post(file.usage)
      BY <2>2, <3>2 DEF Ledger!Post
    <3> QED
      BY <3>2, <3>3 DEF Ledger!Next
  <2> QED
    BY <2>3, <2>4
<1> QED
  BY <1>1, <1>2, <1>3, <1>4, <1>5, <1>6, <1>7, StepCases

\* Through failures and deaths at any point, the calls of the passes and the
\* copies of their records are the ones of UsageLedger.
THEOREM PassesImplementLedger == Spec => ImplementsLedger
<1>1. Init => LedgerInv
  BY DEF Init, LedgerInv, LoggedOnce, OwedUntilPrinted, SpooledIsLogged
<1>2. TypeOK /\ DueInv /\ LedgerInv /\ [Next]_vars => LedgerInv'
  BY LedgerInvStep
<1>3. Init => Ledger!Init
  BY DEF Init, Ledger!Init
<1>4. TypeOK /\ DueInv /\ LedgerInv /\ [Next]_vars => [Ledger!Next]_(Ledger!vars)
  BY LedgerStep
<1> QED
  BY <1>1, <1>2, <1>3, <1>4, TypeCorrect, DueHolds, PTL
     DEF Spec, ImplementsLedger, Ledger!Spec

=============================================================================
