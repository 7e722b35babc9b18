---------------------------- MODULE PipelineProofs ----------------------------
(***************************************************************************)
(* NewsPipeline, for every set of entries and runs, every story relation   *)
(* and every choice of sources: the pipeline is well typed and implements  *)
(* CardLedger, with any number of concurrent and dying runs.  With one run *)
(* at a time a story is published automatically once and only cut-off      *)
(* entries are stranded; without kills none is, by any number of runs.     *)
(*                                                                         *)
(* DatasetIngestion, for any datasets and runs: an unchanged table or file *)
(* is not told twice, and a file is taken and cited as a licence allows.   *)
(***************************************************************************)
EXTENDS NewsPipeline, DatasetIngestion, SequenceTheorems, WellFoundedInduction, TLAPS


\* The variables of the database and of the outside are well typed.
DataTyped ==
  /\ status \in [Items -> Statuses]
  /\ reason \in [Items -> Reasons]
  /\ aged \in SUBSET Items
  /\ member \in [Items -> Clusters \cup {None}]
  /\ dedup \in SUBSET Clusters
  /\ card \in [Items -> Cards \cup {None}]
  /\ notices \in [Items -> Nat]

\* The variables of the runs are well typed.
RunsTyped ==
  /\ pc \in [Runs -> Stages]
  /\ todo \in [Runs -> SUBSET Items]
  /\ cur \in [Runs -> Items \cup {None}]
  /\ target \in [Runs -> Targets \cup {None}]
  /\ seen \in [Runs -> Loaded \cup {None}]

\* A run knows what it works on exactly in the stages that use it.
RunsAgree ==
  \A x \in Runs :
    /\ cur[x] = None <=> pc[x] \in Between
    /\ target[x] = None <=> pc[x] \in Between \cup {"create", "gate"}
    /\ seen[x] = None <=> pc[x] \notin {"gate", "llm"}

\* The type invariant, in parts that the provers take one at a time.
LEMMA TypeParts == TypeOK <=> DataTyped /\ RunsTyped /\ RunsAgree
BY DEF TypeOK, DataTyped, RunsTyped, RunsAgree

\* The initial state is well typed.
LEMMA InitTyped == Init => TypeOK
<1> SUFFICES ASSUME Init PROVE TypeOK
  OBVIOUS
<1>1. DataTyped
  BY DEF Init, DataTyped, Statuses, Reasons
<1>2. RunsTyped
  BY DEF Init, RunsTyped, Stages
<1>3. RunsAgree
  BY DEF Init, RunsAgree, Between
<1>4. QED BY <1>1, <1>2, <1>3, TypeParts

\* The columns that update_raw_status writes keep their types.
LEMMA WriteLoadedTyped ==
  ASSUME NEW r \in Items, NEW was, NEW s \in Statuses, NEW why \in Reasons,
         DataTyped, WriteLoaded(r, was, s, why)
  PROVE  status' \in [Items -> Statuses] /\ reason' \in [Items -> Reasons]
BY DEF DataTyped, WriteLoaded

\* Leaving the batch behind keeps the local variables typed and consistent.
LEMMA LeaveTyped ==
  ASSUME NEW x \in Runs, RunsTyped, RunsAgree, Leave(x)
  PROVE  RunsTyped' /\ RunsAgree'
BY DEF RunsTyped, RunsAgree, Leave, Goto, Stages, Between

\* So does going on to the next entry of the batch.
LEMMA NextEntryTyped ==
  ASSUME NEW x \in Runs, RunsTyped, RunsAgree, NextEntry(x), UNCHANGED todo
  PROVE  RunsTyped' /\ RunsAgree'
BY DEF RunsTyped, RunsAgree, NextEntry, Goto, Stages, Between

\* A new card is a card, and not None.
LEMMA NewCardTyped ==
  ASSUME NEW x \in Runs, target[x] \in Targets, NEW c \in NewCard(x)
  PROVE  c \in Cards /\ c # None
BY NoneAssumption DEF NewCard, Cards, Targets, Decisions, Decision

\* One step keeps every variable in its type.
LEMMA StepTyped == TypeOK /\ [Next]_vars => TypeOK'
<1> SUFFICES ASSUME TypeOK, [Next]_vars PROVE TypeOK'
  OBVIOUS
<1>0. DataTyped /\ RunsTyped /\ RunsAgree
  BY TypeParts
<1> SUFFICES DataTyped' /\ RunsTyped' /\ RunsAgree'
  BY DEF TypeOK, DataTyped, RunsTyped, RunsAgree
<1>1. ASSUME NEW x \in Runs, RunStep(x)
      PROVE  DataTyped' /\ RunsTyped' /\ RunsAgree'
  <2> USE <1>0, NoneAssumption
  <2>1. CASE Begin(x)
    BY <2>1 DEF Begin, DataTyped, RunsTyped, RunsAgree, Goto, Stages, Between, dbVars
  <2>2. CASE FindNewEntry(x)
    BY <2>2 DEF FindNewEntry, DataTyped, RunsTyped, RunsAgree, Goto, Stages, Between, dbVars
  <2>3. CASE CreateRawItem(x)
    BY <2>3 DEF CreateRawItem, DataTyped, RunsTyped, RunsAgree, Goto, Stages, Between, Statuses
  <2>4. CASE CreateConflict(x)
    BY <2>4, LeaveTyped DEF CreateConflict, DataTyped, dbVars
  <2>5. CASE IngestDone(x)
    BY <2>5 DEF IngestDone, DataTyped, RunsTyped, RunsAgree, Goto, Stages, Between, dbVars
  <2>6. CASE Requeue(x)
    BY <2>6 DEF Requeue, DataTyped, RunsTyped, RunsAgree, Goto, Stages, Between, Statuses, Reasons
  <2>7. CASE ListBatch(x)
    BY <2>7 DEF ListBatch, DataTyped, RunsTyped, RunsAgree, Goto, Stages, Between, dbVars
  <2>8. ASSUME NEW r \in Items, Take(x, r)
        PROVE  DataTyped' /\ RunsTyped' /\ RunsAgree'
    <3>1. Row(r) \in Loaded
      BY DEF Row, Loaded, DataTyped
    <3>2. QED
      BY <2>8, <3>1 DEF Take, DataTyped, RunsTyped, RunsAgree, Goto, Stages, Between, dbVars
  <2>9. CASE Reject(x)
    <3>1. cur[x] \in Items
      BY <2>9 DEF Reject, RunsTyped, RunsAgree, Between
    <3>2. status' \in [Items -> Statuses] /\ reason' \in [Items -> Reasons]
      BY <2>9, <3>1, WriteLoadedTyped DEF Reject, Statuses, Reasons
    <3>3. DataTyped'
      BY <2>9, <3>2 DEF Reject, DataTyped
    <3>4. QED
      BY <2>9, <3>3, NextEntryTyped DEF Reject
  <2>10. CASE Assign(x)
    <3>1. cur[x] \in Items
      BY <2>10 DEF Assign, RunsTyped, RunsAgree, Between
    <3>2. status' \in [Items -> Statuses] /\ reason' \in [Items -> Reasons]
      BY <2>10, <3>1, WriteLoadedTyped DEF Assign, Statuses, Reasons
    <3>3. DataTyped'
      BY <2>10, <3>2 DEF Assign, DataTyped
    <3>4. \E t \in Targets : target' = [target EXCEPT ![x] = t]
      <4> DEFINE near == Similar(cur[x])
      <4>1. near \subseteq Clusters /\ <<cur[x], x>> \in Clusters
        BY <3>1 DEF Similar, DataTyped, Clusters
      <4>2. PICK k \in IF near = {} THEN {<<cur[x], x>>} ELSE near :
              target' = [target EXCEPT ![x] = [cluster |-> k, new |-> near = {}]]
        BY <2>10 DEF Assign
      <4>3. k \in Clusters
        BY <4>1
      <4>4. [cluster |-> k, new |-> near = {}] \in Targets
        BY <4>3, Zenon DEF Targets
      <4>5. QED BY <4>2, <4>4
    <3>5. RunsTyped' /\ RunsAgree'
      BY <2>10, <3>4 DEF Assign, RunsTyped, RunsAgree, Goto, Stages, Between
    <3>6. QED BY <3>3, <3>5
  <2>11. CASE Attach(x)
    <3>1. cur[x] \in Items /\ target[x] \in Targets
      BY <2>11 DEF Attach, RunsTyped, RunsAgree, Between
    <3>2. QED
      BY <2>11, <3>1 DEF Attach, DataTyped, RunsTyped, RunsAgree, Goto, Stages, Between, Targets
  <2>12. CASE SetCentroid(x)
    <3>1. cur[x] \in Items /\ target[x] \in Targets
      BY <2>12 DEF SetCentroid, RunsTyped, RunsAgree, Between
    <3>2. Row(cur[x]) \in Loaded
      BY <3>1 DEF Row, Loaded, DataTyped
    <3>3. QED
      BY <2>12, <3>1, <3>2
      DEF SetCentroid, DataTyped, RunsTyped, RunsAgree, Goto, Stages, Between, Targets
  <2>13. CASE DropCard(x)
    <3>1. cur[x] \in Items
      BY <2>13 DEF DropCard, RunsTyped, RunsAgree, Between
    <3>2. status' \in [Items -> Statuses] /\ reason' \in [Items -> Reasons]
      BY <2>13, <3>1, WriteLoadedTyped DEF DropCard, Statuses, Reasons
    <3>3. DataTyped'
      BY <2>13, <3>2 DEF DropCard, DataTyped
    <3>4. QED
      BY <2>13, <3>3, NextEntryTyped DEF DropCard
  <2>14. CASE CreateCard(x)
    <3>1. cur[x] \in Items /\ target[x] \in Targets
      BY <2>14 DEF CreateCard, RunsTyped, RunsAgree, Between
    <3>2. PICK c \in NewCard(x) : card' = [card EXCEPT ![cur[x]] = c]
                                  /\ Goto(x, AfterCard(c))
      BY <2>14 DEF CreateCard
    <3>3. c \in Cards
      BY <3>1, NewCardTyped
    <3>4. DataTyped'
      BY <2>14, <3>2, <3>3 DEF CreateCard, DataTyped
    <3>5. QED
      BY <2>14, <3>2, <3>4
      DEF CreateCard, RunsTyped, RunsAgree, Goto, AfterCard, Stages, Between
  <2>15. CASE CardConflict(x)
    BY <2>15, LeaveTyped DEF CardConflict, DataTyped, dbVars
  <2>16. CASE Notify(x)
    BY <2>16 DEF Notify, DataTyped, RunsTyped, RunsAgree, Goto, Stages, Between, dbVars
  <2>17. CASE Finish(x)
    BY <2>17, NextEntryTyped DEF Finish, DataTyped, Statuses, Reasons
  <2>18. CASE End(x)
    BY <2>18, LeaveTyped DEF End, DataTyped, dbVars
  <2>19. CASE FindMember(x)
    BY <2>19 DEF FindMember, DataTyped, RunsTyped, RunsAgree, Goto, Stages, Between, dbVars
  <2>20. CASE AttachConflict(x)
    BY <2>20, LeaveTyped DEF AttachConflict, DataTyped, dbVars
  <2>21. QED
    BY <1>1, <2>1, <2>2, <2>3, <2>4, <2>5, <2>6, <2>7, <2>8, <2>9, <2>10, <2>11,
       <2>12, <2>13, <2>14, <2>15, <2>16, <2>17, <2>18, <2>19, <2>20 DEF RunStep
<1>2. ASSUME NEW x \in Runs, Crash(x)
      PROVE  DataTyped' /\ RunsTyped' /\ RunsAgree'
  BY <1>0, <1>2, LeaveTyped DEF Crash, DataTyped, dbVars
<1>3. ASSUME NEW r \in Items, Age(r)
      PROVE  DataTyped' /\ RunsTyped' /\ RunsAgree'
  BY <1>0, <1>3 DEF Age, DataTyped, RunsTyped, RunsAgree, runVars
<1>4. CASE UNCHANGED vars
  BY <1>0, <1>4 DEF vars, DataTyped, RunsTyped, RunsAgree
<1>5. QED BY <1>1, <1>2, <1>3, <1>4 DEF Next

\* Every variable of the pipeline keeps its type, and every run knows its
\* entry, its cluster and its loaded row exactly where it uses them.
THEOREM TypeCorrect == Spec => []TypeOK
<1>1. QED BY InitTyped, StepTyped, PTL DEF Spec
-----------------------------------------------------------------------------
\* A run about to announce its entry has made an urgent, published card for
\* it, nobody has announced it yet, and no other run is about to.
AboutToNotify ==
  /\ \A x \in Runs : pc[x] = "notify" =>
       Published(cur[x]) /\ card[cur[x]].urgent /\ notices[cur[x]] = 0
  /\ \A x, y \in Runs :
       pc[x] = "notify" /\ pc[y] = "notify" /\ cur[x] = cur[y] => x = y

\* A run that is finishing an entry finds its card.
FinishHasCard ==
  \A x \in Runs : pc[x] = "finish" => card[cur[x]] # None

\* The inductive invariant behind the two safety properties and the
\* refinement: what runs are about to do is in order, and what is done is.
LedgerInv ==
  /\ TypeOK
  /\ AboutToNotify
  /\ FinishHasCard
  /\ NoticeAtMostOnce
  /\ ProcessedHasCard

LEMMA LedgerInit == Init => LedgerInv
<1> SUFFICES ASSUME Init PROVE LedgerInv
  OBVIOUS
<1>1. TypeOK
  BY InitTyped
<1>2. AboutToNotify /\ FinishHasCard
  BY DEF Init, AboutToNotify, FinishHasCard
<1>3. NoticeAtMostOnce
  <2>1. \A r \in Items : notices[r] <= 1 /\ ~ (notices[r] = 1)
    <3>1. notices = [r \in Items |-> 0]
      BY DEF Init
    <3>2. \A r \in Items : notices[r] = 0
      BY <3>1
    <3>3. QED BY <3>2
  <2>2. QED BY <2>1, Zenon DEF NoticeAtMostOnce
<1>4. ProcessedHasCard
  BY DEF Init, ProcessedHasCard
<1>5. QED BY <1>1, <1>2, <1>3, <1>4 DEF LedgerInv

\* A step that touches no card and sends no notice, puts no run before a
\* notice or a finish that was not there, and writes no "processed".
QuietStep ==
  /\ UNCHANGED <<card, notices>>
  /\ \A x \in Runs : pc'[x] \in {"notify", "finish"} =>
       pc'[x] = pc[x] /\ cur'[x] = cur[x]
  /\ \A r \in Items : status'[r] = "processed" => status[r] = "processed"

LEMMA QuietKeepsInv ==
  ASSUME LedgerInv, QuietStep
  PROVE  (AboutToNotify /\ FinishHasCard /\ NoticeAtMostOnce /\ ProcessedHasCard)'
<1> USE DEF LedgerInv, QuietStep
<1>1. AboutToNotify'
  BY DEF AboutToNotify, Published
<1>2. FinishHasCard'
  BY DEF FinishHasCard
<1>3. NoticeAtMostOnce'
  BY DEF NoticeAtMostOnce, Published
<1>4. ProcessedHasCard'
  BY DEF ProcessedHasCard
<1>5. QED BY <1>1, <1>2, <1>3, <1>4

\* update_raw_status with any other status does not make an entry processed.
LEMMA WriteLoadedQuiet ==
  ASSUME TypeOK, NEW e \in Items, NEW was, NEW s, s # "processed", NEW why,
         WriteLoaded(e, was, s, why), NEW r \in Items, status'[r] = "processed"
  PROVE  status[r] = "processed"
BY DEF TypeOK, WriteLoaded

\* Every step of a run but the card, the notice and the finish is quiet.
LEMMA OthersAreQuiet ==
  ASSUME TypeOK, NEW x \in Runs,
         \/ Begin(x) \/ FindNewEntry(x) \/ CreateRawItem(x) \/ CreateConflict(x)
         \/ IngestDone(x) \/ Requeue(x) \/ ListBatch(x)
         \/ (\E r \in Items : Take(x, r)) \/ Reject(x) \/ Assign(x)
         \/ FindMember(x) \/ Attach(x) \/ AttachConflict(x) \/ SetCentroid(x)
         \/ DropCard(x) \/ CardConflict(x) \/ End(x) \/ Crash(x)
  PROVE  QuietStep
<1> USE DEF QuietStep, Goto
<1>0. /\ status \in [Items -> Statuses] /\ pc \in [Runs -> Stages]
      /\ cur \in [Runs -> Items \cup {None}]
      /\ cur[x] = None <=> pc[x] \in Between
  BY DEF TypeOK
<1>1. CASE \/ Begin(x) \/ FindNewEntry(x) \/ IngestDone(x) \/ ListBatch(x)
           \/ (\E r \in Items : Take(x, r)) \/ FindMember(x)
  BY <1>0, <1>1 DEF Begin, FindNewEntry, IngestDone, ListBatch, Take, FindMember, dbVars
<1>2. CASE CreateRawItem(x) \/ Requeue(x)
  BY <1>0, <1>2 DEF CreateRawItem, Requeue
<1>3. CASE CreateConflict(x) \/ AttachConflict(x) \/ CardConflict(x) \/ End(x) \/ Crash(x)
  BY <1>0, <1>3 DEF CreateConflict, AttachConflict, CardConflict, End, Crash, Leave, dbVars
<1>4. CASE Attach(x) \/ SetCentroid(x)
  BY <1>0, <1>4 DEF Attach, SetCentroid
<1>5. ASSUME Reject(x) \/ DropCard(x) \/ Assign(x)
      PROVE  QuietStep
  <2>1. cur[x] \in Items
    BY <1>0, <1>5 DEF Reject, DropCard, Assign, Between
  <2>2. ASSUME NEW r \in Items, status'[r] = "processed" PROVE status[r] = "processed"
    BY <1>5, <2>1, <2>2, WriteLoadedQuiet DEF Reject, DropCard, Assign
  <2>3. QED
    BY <1>0, <1>5, <2>2 DEF Reject, DropCard, Assign, NextEntry
<1>6. QED BY <1>1, <1>2, <1>3, <1>4, <1>5

\* One step of any run keeps the inductive invariant.
LEMMA LedgerStep == LedgerInv /\ [Next]_vars => LedgerInv'
<1> SUFFICES ASSUME LedgerInv, [Next]_vars
             PROVE (AboutToNotify /\ FinishHasCard /\ NoticeAtMostOnce
                    /\ ProcessedHasCard)'
  BY StepTyped DEF LedgerInv
<1>0. /\ TypeOK /\ AboutToNotify /\ FinishHasCard
      /\ NoticeAtMostOnce /\ ProcessedHasCard
  BY DEF LedgerInv
<1>1. CASE QuietStep
  BY <1>1, QuietKeepsInv
<1>2. ASSUME NEW x \in Runs, CreateCard(x)
      PROVE  (AboutToNotify /\ FinishHasCard /\ NoticeAtMostOnce /\ ProcessedHasCard)'
  <2>1. cur[x] \in Items /\ target[x] \in Targets /\ card[cur[x]] = None
    BY <1>0, <1>2 DEF CreateCard, TypeOK, Between
  <2>2. PICK c \in NewCard(x) : card' = [card EXCEPT ![cur[x]] = c]
                                /\ Goto(x, AfterCard(c))
    BY <1>2 DEF CreateCard
  <2>3. c \in Cards /\ c # None
    BY <2>1, NewCardTyped
  <2>4. UNCHANGED <<cur, notices, status>>
    BY <1>2 DEF CreateCard
  <2>5. \A r \in Items : r # cur[x] => card'[r] = card[r]
    BY <2>2, <1>0 DEF TypeOK
  <2>6. card'[cur[x]] = c
    BY <2>1, <2>2, <1>0 DEF TypeOK
  <2>7. pc'[x] = "notify" => c.decision = "published" /\ c.urgent
    BY <2>2, <1>0 DEF Goto, AfterCard, TypeOK
  <2>8. \A y \in Runs : y # x => pc'[y] = pc[y]
    BY <2>2, <1>0 DEF Goto, TypeOK
  <2>9. notices[cur[x]] = 0
    BY <2>1, <1>0 DEF NoticeAtMostOnce, Published, TypeOK
  <2>10. \A y \in Runs : pc[y] \in {"notify", "finish"} =>
           cur[y] \in Items /\ cur[y] # cur[x]
    BY <1>0, <2>1 DEF AboutToNotify, FinishHasCard, TypeOK, Between, Published
  <2>11. AboutToNotify'
    BY <1>0, <2>1, <2>3, <2>4, <2>5, <2>6, <2>7, <2>8, <2>9, <2>10
    DEF AboutToNotify, Published
  <2>12. FinishHasCard'
    BY <1>0, <2>1, <2>3, <2>4, <2>5, <2>6, <2>8, <2>10 DEF FinishHasCard
  <2>13. NoticeAtMostOnce'
    BY <1>0, <2>1, <2>4, <2>5, <2>9 DEF NoticeAtMostOnce, Published
  <2>14. ProcessedHasCard'
    BY <1>0, <2>3, <2>4, <2>5, <2>6 DEF ProcessedHasCard
  <2>15. QED BY <2>11, <2>12, <2>13, <2>14
<1>3. ASSUME NEW x \in Runs, Notify(x)
      PROVE  (AboutToNotify /\ FinishHasCard /\ NoticeAtMostOnce /\ ProcessedHasCard)'
  <2>1. /\ cur[x] \in Items /\ Published(cur[x]) /\ card[cur[x]].urgent
        /\ notices[cur[x]] = 0
    BY <1>0, <1>3 DEF Notify, TypeOK, Between, AboutToNotify
  <2>2. UNCHANGED <<cur, card, status>>
    BY <1>3 DEF Notify, dbVars
  <2>3. /\ notices'[cur[x]] = 1
        /\ \A r \in Items : r # cur[x] => notices'[r] = notices[r]
    BY <1>0, <1>3, <2>1 DEF Notify, TypeOK
  <2>4. /\ pc'[x] = "finish"
        /\ \A y \in Runs : y # x => pc'[y] = pc[y]
    BY <1>0, <1>3 DEF Notify, Goto, TypeOK
  <2>5. \A y \in Runs : y # x /\ pc[y] = "notify" => cur[y] \in Items /\ cur[y] # cur[x]
    BY <1>0, <1>3 DEF Notify, AboutToNotify, TypeOK, Between
  <2>6. AboutToNotify'
    BY <1>0, <2>2, <2>3, <2>4, <2>5 DEF AboutToNotify, Published
  <2>7. FinishHasCard'
    BY <1>0, <2>1, <2>2, <2>4 DEF FinishHasCard, Published
  <2>8. NoticeAtMostOnce'
    BY <1>0, <2>1, <2>2, <2>3 DEF NoticeAtMostOnce, Published
  <2>9. ProcessedHasCard'
    BY <1>0, <2>2 DEF ProcessedHasCard
  <2>10. QED BY <2>6, <2>7, <2>8, <2>9
<1>4. ASSUME NEW x \in Runs, Finish(x)
      PROVE  (AboutToNotify /\ FinishHasCard /\ NoticeAtMostOnce /\ ProcessedHasCard)'
  <2>1. cur[x] \in Items /\ card[cur[x]] # None
    BY <1>0, <1>4 DEF Finish, TypeOK, Between, FinishHasCard
  <2>2. UNCHANGED <<card, notices>>
    BY <1>4 DEF Finish
  <2>3. /\ pc'[x] = "pick"
        /\ \A y \in Runs : y # x => pc'[y] = pc[y] /\ cur'[y] = cur[y]
    BY <1>0, <1>4 DEF Finish, NextEntry, Goto, TypeOK
  <2>4. \A r \in Items : r # cur[x] => status'[r] = status[r]
    BY <1>0, <1>4 DEF Finish, TypeOK
  <2>5. AboutToNotify'
    BY <1>0, <2>2, <2>3 DEF AboutToNotify, Published
  <2>6. FinishHasCard'
    BY <1>0, <2>2, <2>3 DEF FinishHasCard
  <2>7. NoticeAtMostOnce'
    BY <1>0, <2>2 DEF NoticeAtMostOnce, Published
  <2>8. ProcessedHasCard'
    BY <1>0, <2>1, <2>2, <2>4 DEF ProcessedHasCard
  <2>9. QED BY <2>5, <2>6, <2>7, <2>8
<1>5. ASSUME NEW r \in Items, Age(r) PROVE QuietStep
  BY <1>5 DEF Age, runVars, QuietStep
<1>6. CASE UNCHANGED vars
  BY <1>1, <1>6 DEF vars, QuietStep
<1>7. QED
  BY <1>0, <1>1, <1>2, <1>3, <1>4, <1>5, <1>6, OthersAreQuiet DEF Next, RunStep

\* An urgent card is announced at most once, and never one held for review,
\* whatever the other runs do and wherever a run dies.
THEOREM NoticesSafe == Spec => []NoticeAtMostOnce
<1>1. LedgerInv => NoticeAtMostOnce
  BY DEF LedgerInv
<1>2. QED BY LedgerInit, LedgerStep, <1>1, PTL DEF Spec

\* An entry is "processed" only once it has its card.
THEOREM ProcessedSafe == Spec => []ProcessedHasCard
<1>1. LedgerInv => ProcessedHasCard
  BY DEF LedgerInv
<1>2. QED BY LedgerInit, LedgerStep, <1>1, PTL DEF Spec
-----------------------------------------------------------------------------
\* Every step of the pipeline is a step of the ledger or leaves it alone.
LEMMA StepRefines ==
  LedgerInv /\ [Next]_vars => [Ledger!Next]_<<card, notices>>
<1> SUFFICES ASSUME LedgerInv, [Next]_vars
             PROVE  Ledger!Next \/ UNCHANGED <<card, notices>>
  OBVIOUS
<1>0. TypeOK /\ AboutToNotify
  BY DEF LedgerInv
<1>1. CASE QuietStep
  BY <1>1 DEF QuietStep
<1>2. ASSUME NEW x \in Runs, CreateCard(x) PROVE Ledger!Next
  <2>1. cur[x] \in Items /\ target[x] \in Targets
    BY <1>0, <1>2 DEF CreateCard, TypeOK, Between
  <2>2. PICK c \in NewCard(x) : card' = [card EXCEPT ![cur[x]] = c]
    BY <1>2 DEF CreateCard
  <2>3. c \in Cards
    BY <2>1, NewCardTyped
  <2>4. Ledger!Make(cur[x], c)
    BY <1>2, <2>2 DEF CreateCard, Ledger!Make
  <2>5. QED BY <2>1, <2>3, <2>4 DEF Ledger!Next
<1>3. ASSUME NEW x \in Runs, Notify(x) PROVE Ledger!Next
  <2>1. cur[x] \in Items
    BY <1>0, <1>3 DEF Notify, TypeOK, Between
  <2>2. /\ Published(cur[x]) /\ card[cur[x]].urgent /\ notices[cur[x]] = 0
        /\ notices' = [notices EXCEPT ![cur[x]] = notices[cur[x]] + 1]
        /\ UNCHANGED card
    BY <1>0, <1>3 DEF Notify, AboutToNotify, dbVars
  <2>3. notices' = [notices EXCEPT ![cur[x]] = 1]
    BY <2>2
  <2>4. Ledger!Announce(cur[x])
    BY <2>2, <2>3, Zenon DEF Published, Ledger!Announce
  <2>5. QED BY <2>1, <2>4 DEF Ledger!Next
<1>4. ASSUME NEW x \in Runs, Finish(x) PROVE UNCHANGED <<card, notices>>
  BY <1>4 DEF Finish
<1>5. ASSUME NEW r \in Items, Age(r) PROVE UNCHANGED <<card, notices>>
  BY <1>5 DEF Age
<1>6. CASE UNCHANGED vars
  BY <1>6 DEF vars
<1>7. QED
  BY <1>0, <1>1, <1>2, <1>3, <1>4, <1>5, <1>6, OthersAreQuiet DEF Next, RunStep

\* The pipeline, with any number of concurrent runs, implements the ledger.
THEOREM PipelineKeepsLedger == Spec => LedgerSpec
<1>1. Init => Ledger!Init
  BY DEF Init, Ledger!Init
<1>2. QED
  BY LedgerInit, LedgerStep, StepRefines, <1>1, PTL
  DEF Spec, LedgerSpec, Ledger!Spec
-----------------------------------------------------------------------------
\* The stages between "clustered" and the card or its refusal.
Working == {"attach", "insert", "centroid", "llm"}

\* The steps that neither give out work nor write what an entry has become.
LightStep(x) ==
  \/ Begin(x) \/ FindNewEntry(x) \/ CreateConflict(x) \/ IngestDone(x)
  \/ ListBatch(x) \/ AttachConflict(x) \/ CardConflict(x) \/ Notify(x) \/ End(x)
  \/ Crash(x)

\* They leave the rows alone and put no run among the working ones.
LEMMA LightIsLight ==
  ASSUME TypeOK, NEW x \in Runs, LightStep(x)
  PROVE  /\ UNCHANGED <<status, reason, dedup, card>>
         /\ \A y \in Runs : y # x => /\ pc'[y] = pc[y] /\ cur'[y] = cur[y]
                                     /\ target'[y] = target[y] /\ seen'[y] = seen[y]
         /\ pc'[x] \notin Working \cup {"gate"}
<1> USE DEF LightStep, Goto, Working, dbVars
<1>0. /\ pc \in [Runs -> Stages] /\ cur \in [Runs -> Items \cup {None}]
      /\ target \in [Runs -> Targets \cup {None}] /\ seen \in [Runs -> Loaded \cup {None}]
  BY DEF TypeOK
<1>1. CASE Begin(x) \/ FindNewEntry(x) \/ IngestDone(x) \/ ListBatch(x) \/ Notify(x)
  BY <1>0, <1>1 DEF Begin, FindNewEntry, IngestDone, ListBatch, Notify
<1>2. CASE CreateConflict(x) \/ AttachConflict(x) \/ CardConflict(x) \/ End(x) \/ Crash(x)
  BY <1>0, <1>2 DEF CreateConflict, AttachConflict, CardConflict, End, Crash, Leave
<1>3. QED BY <1>1, <1>2

\* What WriteLoaded leaves in the status column.
LEMMA WriteLoadedStatus ==
  ASSUME TypeOK, NEW e \in Items, NEW was, NEW s, NEW why, WriteLoaded(e, was, s, why)
  PROVE  /\ \A r \in Items : r # e => status'[r] = status[r] /\ reason'[r] = reason[r]
         /\ status'[e] = IF was.status = s THEN status[e] ELSE s
         /\ reason'[e] = IF was.reason = why THEN reason[e] ELSE why
BY DEF TypeOK, WriteLoaded

\* What a session loads of the status column.
LEMMA RowStatus == \A r : Row(r).status = status[r]
BY DEF Row

\* A run in hand of an entry works on a real one.
LEMMA HasEntry ==
  ASSUME TypeOK, NEW x \in Runs, pc[x] \notin Between
  PROVE  cur[x] \in Items
BY DEF TypeOK

\* One run at a time: the scheduler's own runs do not overlap, and nobody posts
\* to /pipeline/run while one is active.
OneRun == \A x, y \in Runs : x = y

\* With one run at a time, what the session has loaded is what the row says, and
\* the entry the run is working on is "clustered".
RowIsLoaded ==
  \A x \in Runs :
    /\ pc[x] \in {"gate", "llm"} => seen[x] = Row(cur[x])
    /\ pc[x] \in Working => status[cur[x]] = "clustered"

\* An automatically published card founded its cluster, which is a candidate of
\* deduplication.
FoundedCluster ==
  \A r \in Items :
    Published(r) => card[r].cluster[1] = r /\ card[r].cluster \in dedup

\* A run that works in a new cluster has the first entry of its story.
FirstOfStory ==
  \A x \in Runs : pc[x] \in Working /\ target[x].new =>
    /\ target[x].cluster[1] = cur[x]
    /\ \A r \in Items : Published(r) => StoryOf(r) # StoryOf(cur[x])

\* The cluster is a candidate before the card exists.
CentroidFirst ==
  \A x \in Runs : pc[x] = "llm" => target[x].cluster \in dedup

\* The inductive invariant of a pipeline that runs once at a time.
SingleInv ==
  /\ RowIsLoaded /\ FoundedCluster /\ FirstOfStory /\ CentroidFirst
  /\ OneAutoPublishPerStory

LEMMA SingleInit == Init => SingleInv
BY DEF Init, SingleInv, RowIsLoaded, FoundedCluster, FirstOfStory, CentroidFirst,
       OneAutoPublishPerStory, Published, Working

\* One step of the only run keeps the invariant.
LEMMA SingleStep ==
  ASSUME OneRun PROVE TypeOK /\ SingleInv /\ [Next]_vars => SingleInv'
<1> SUFFICES ASSUME TypeOK, SingleInv, [Next]_vars PROVE SingleInv'
  OBVIOUS
<1>0. /\ RowIsLoaded /\ FoundedCluster /\ FirstOfStory /\ CentroidFirst
      /\ OneAutoPublishPerStory
  BY DEF SingleInv
<1>t. /\ status \in [Items -> Statuses] /\ reason \in [Items -> Reasons]
      /\ dedup \in SUBSET Clusters /\ card \in [Items -> Cards \cup {None}]
      /\ pc \in [Runs -> Stages] /\ cur \in [Runs -> Items \cup {None}]
      /\ target \in [Runs -> Targets \cup {None}] /\ seen \in [Runs -> Loaded \cup {None}]
  BY DEF TypeOK
\* A step that keeps the cards and the centroids keeps what follows from them.
<1>a. ASSUME NEW x \in Runs, UNCHANGED card, dedup \subseteq dedup'
      PROVE  FoundedCluster' /\ OneAutoPublishPerStory'
  <2>1. \A r \in Items : Published(r)' <=> Published(r)
    BY <1>a DEF Published
  <2>2. QED BY <1>0, <1>a, <2>1 DEF FoundedCluster, OneAutoPublishPerStory
\* A step that leaves no run at work or at the gate has nothing else to keep.
<1>b. ASSUME NEW x \in Runs, pc'[x] \notin Working \cup {"gate"}
      PROVE  RowIsLoaded' /\ FirstOfStory' /\ CentroidFirst'
  BY <1>b, OneRun DEF OneRun, RowIsLoaded, FirstOfStory, CentroidFirst, Working
<1>1. ASSUME NEW x \in Runs, LightStep(x) PROVE SingleInv'
  BY <1>1, <1>a, <1>b, LightIsLight DEF SingleInv
<1>2. ASSUME NEW x \in Runs, CreateRawItem(x) \/ Requeue(x) \/ Reject(x) \/ DropCard(x) \/ Finish(x)
      PROVE  SingleInv'
  <2>1. UNCHANGED <<card, dedup>> /\ pc'[x] \notin Working \cup {"gate"}
    BY <1>2, <1>t DEF CreateRawItem, Requeue, Reject, DropCard, Finish, NextEntry, Goto, Working
  <2>2. QED BY <2>1, <1>a, <1>b DEF SingleInv
<1>3. ASSUME NEW x \in Runs, NEW e \in Items, Take(x, e) PROVE SingleInv'
  <2>1. /\ UNCHANGED <<status, reason, card, dedup>>
        /\ pc'[x] = "gate" /\ cur'[x] = e /\ seen'[x] = Row(e)
    BY <1>3, <1>t DEF Take, Goto, dbVars
  <2>2. RowIsLoaded'
    BY <2>1, OneRun DEF OneRun, RowIsLoaded, Row, Working
  <2>3. FirstOfStory' /\ CentroidFirst'
    BY <2>1, OneRun DEF OneRun, FirstOfStory, CentroidFirst, Working
  <2>4. QED BY <2>1, <2>2, <2>3, <1>a DEF SingleInv
<1>4. ASSUME NEW x \in Runs, Assign(x) PROVE SingleInv'
  <2> DEFINE near == Similar(cur[x])
  <2>1. /\ pc[x] = "gate" /\ pc'[x] = "attach" /\ cur'[x] = cur[x]
        /\ UNCHANGED <<card, dedup>>
    BY <1>4, <1>t DEF Assign, Goto
  <2>2. cur[x] \in Items /\ seen[x].status = status[cur[x]]
    <3>1. cur[x] \in Items
      BY <2>1, HasEntry DEF Between
    <3>2. seen[x] = Row(cur[x])
      BY <2>1, <1>0 DEF RowIsLoaded
    <3>3. QED BY <3>1, <3>2, RowStatus
  <2>3. status'[cur[x]] = "clustered"
    BY <1>4, <2>2, WriteLoadedStatus DEF Assign
  <2>4. RowIsLoaded'
    BY <2>1, <2>3, OneRun DEF OneRun, RowIsLoaded, Working
  <2>5. PICK k \in IF near = {} THEN {<<cur[x], x>>} ELSE near :
          target' = [target EXCEPT ![x] = [cluster |-> k, new |-> near = {}]]
    BY <1>4 DEF Assign
  <2>6. target'[x].cluster = k /\ (target'[x].new <=> near = {})
    BY <2>5, <1>t
  <2>7. ASSUME near = {}, NEW r \in Items, Published(r)
        PROVE  StoryOf(r) # StoryOf(cur[x])
    BY <2>7, <1>0 DEF FoundedCluster, Similar
  <2>8. FirstOfStory'
    <3>1. ASSUME target'[x].new
          PROVE  /\ target'[x].cluster[1] = cur'[x]
                 /\ \A r \in Items : Published(r)' => StoryOf(r) # StoryOf(cur'[x])
      <4>1. near = {} /\ k = <<cur[x], x>>
        BY <3>1, <2>5, <2>6
      <4>2. \A r \in Items : Published(r)' <=> Published(r)
        BY <2>1 DEF Published
      <4>3. QED BY <4>1, <4>2, <2>1, <2>6, <2>7
    <3>2. QED BY <3>1, OneRun DEF OneRun, FirstOfStory
  <2>9. CentroidFirst'
    BY <2>1, OneRun DEF OneRun, CentroidFirst
  <2>10. QED BY <2>1, <2>4, <2>8, <2>9, <1>a DEF SingleInv
<1>5. ASSUME NEW x \in Runs, FindMember(x) \/ Attach(x) \/ SetCentroid(x) PROVE SingleInv'
  <2>1. /\ UNCHANGED <<status, reason, card, cur, target>>
        /\ pc[x] \in {"attach", "insert", "centroid"} /\ dedup \subseteq dedup'
        /\ pc'[x] \in {"insert", "centroid", "llm"}
        /\ pc'[x] = "llm" => seen'[x] = Row(cur[x]) /\ target[x].cluster \in dedup'
    BY <1>5, <1>t DEF FindMember, Attach, SetCentroid, Goto, dbVars
  <2>2. RowIsLoaded'
    BY <2>1, <1>0, OneRun DEF OneRun, RowIsLoaded, Row, Working
  <2>3. FirstOfStory'
    <3>1. \A r \in Items : Published(r)' <=> Published(r)
      BY <2>1 DEF Published
    <3>2. QED BY <2>1, <3>1, <1>0, OneRun DEF OneRun, FirstOfStory, Working
  <2>4. CentroidFirst'
    BY <2>1, OneRun DEF OneRun, CentroidFirst
  <2>5. QED BY <2>1, <2>2, <2>3, <2>4, <1>a DEF SingleInv
<1>6. ASSUME NEW x \in Runs, CreateCard(x) PROVE SingleInv'
  <2>1. /\ pc[x] = "llm" /\ UNCHANGED dedup
        /\ cur[x] \in Items /\ target[x] \in Targets
    BY <1>6, HasEntry DEF CreateCard, TypeOK, Between
  <2>2. PICK c \in NewCard(x) : card' = [card EXCEPT ![cur[x]] = c] /\ Goto(x, AfterCard(c))
    BY <1>6 DEF CreateCard
  <2>3. /\ c.decision = "published" => target[x].new
        /\ c.cluster = target[x].cluster
    BY DEF NewCard, Decisions
  <2>4. pc'[x] \notin Working \cup {"gate"}
    BY <2>2, <1>t DEF Goto, AfterCard, Working
  <2>5. /\ card'[cur[x]] = c
        /\ \A r \in Items : r # cur[x] => card'[r] = card[r]
    BY <2>1, <2>2, <1>t
  <2>6. ASSUME NEW r \in Items, Published(r)'
        PROVE  IF r = cur[x] THEN c.decision = "published" ELSE Published(r)
    BY <2>5, <2>6 DEF Published
  <2>7. c.decision = "published" =>
          /\ c.cluster[1] = cur[x] /\ c.cluster \in dedup
          /\ \A r \in Items : Published(r) => StoryOf(r) # StoryOf(cur[x])
    BY <2>1, <2>3, <1>0 DEF FirstOfStory, CentroidFirst, Working
  <2>8. FoundedCluster'
    BY <2>1, <2>5, <2>6, <2>7, <1>0 DEF FoundedCluster
  <2>9. OneAutoPublishPerStory'
    BY <2>6, <2>7, <1>0 DEF OneAutoPublishPerStory
  <2>10. QED BY <2>4, <2>8, <2>9, <1>b DEF SingleInv
<1>7. CASE UNCHANGED vars \/ \E e \in Items : Age(e)
  <2>1. UNCHANGED <<status, reason, dedup, card, runVars>>
    BY <1>7 DEF vars, Age, runVars
  <2>2. \A r \in Items : Published(r)' <=> Published(r)
    BY <2>1 DEF Published
  <2>3. QED
    BY <2>1, <2>2, <1>0 DEF runVars, SingleInv, RowIsLoaded, FoundedCluster, FirstOfStory,
                            CentroidFirst, OneAutoPublishPerStory, Row
<1>8. QED BY <1>1, <1>2, <1>3, <1>4, <1>5, <1>6, <1>7 DEF Next, RunStep, LightStep

\* With one run at a time at most one entry of a story is published automatically,
\* whatever is killed, dropped or requeued in between.
THEOREM OnePublishedPerStory == ASSUME OneRun PROVE Spec => []OneAutoPublishPerStory
<1>1. SingleInv => OneAutoPublishPerStory
  BY DEF SingleInv
<1>2. QED BY InitTyped, StepTyped, SingleInit, SingleStep, <1>1, PTL DEF Spec
-----------------------------------------------------------------------------
\* What a run may do to an entry it has in work: work on, give it a card, write
\* another status, or end in the middle.
LEMMA WorkEndsInStatus ==
  ASSUME TypeOK, NEW x \in Runs, pc[x] \in Working, RunStep(x) \/ Crash(x),
         pc'[x] # "idle",
         pc[x] = "llm" => seen[x].status # "filtered_out"
  PROVE  \/ cur'[x] = cur[x] /\ pc'[x] \in Working
         \/ card'[cur[x]] # None
         \/ status'[cur[x]] = "filtered_out"
<1> USE DEF Working, Goto
<1>0. /\ pc \in [Runs -> Stages] /\ cur[x] \in Items
      /\ card \in [Items -> Cards \cup {None}]
  BY HasEntry DEF TypeOK, Between
<1>1. CASE FindMember(x) \/ Attach(x) \/ SetCentroid(x)
  BY <1>0, <1>1 DEF FindMember, Attach, SetCentroid
<1>2. CASE DropCard(x)
  BY <1>0, <1>2, WriteLoadedStatus DEF DropCard
<1>3. CASE CreateCard(x)
  <2>1. PICK c \in NewCard(x) : card' = [card EXCEPT ![cur[x]] = c]
    BY <1>3 DEF CreateCard
  <2>2. target[x] \in Targets
    BY DEF TypeOK, Between
  <2>3. c # None
    BY <2>2, NewCardTyped
  <2>4. QED BY <2>1, <2>3, <1>0
<1>4. ~ (AttachConflict(x) \/ CardConflict(x) \/ Crash(x))
  BY <1>0 DEF AttachConflict, CardConflict, Crash, Leave
<1>5. QED
  BY <1>1, <1>2, <1>3, <1>4
  DEF RunStep, Begin, FindNewEntry, CreateRawItem, CreateConflict, IngestDone, Requeue,
      ListBatch, Take, Reject, Assign, Notify, Finish, End

\* The entries in the hands of a working run.
InWork(r) == \E x \in Runs : cur[x] = r /\ pc[x] \in Working

\* Only a run that takes an entry to work makes it "clustered".
LEMMA ClusteredIsInWork ==
  ASSUME TypeOK, [Next]_vars, NEW r \in Items,
         status[r] # "clustered", status'[r] = "clustered"
  PROVE  \E x \in Runs : cur'[x] = r /\ pc'[x] = "attach"
<1>0. /\ status \in [Items -> Statuses] /\ pc \in [Runs -> Stages]
      /\ cur \in [Runs -> Items \cup {None}]
  BY DEF TypeOK
<1>1. ASSUME NEW x \in Runs, Assign(x) PROVE cur'[x] = r /\ pc'[x] = "attach"
  <2>1. cur[x] \in Items
    BY <1>1, HasEntry DEF Assign, Between
  <2>2. cur[x] = r
    BY <1>1, <2>1, WriteLoadedStatus DEF Assign
  <2>3. QED BY <1>0, <1>1, <2>2 DEF Assign, Goto
<1>2. ASSUME NEW x \in Runs, LightStep(x) PROVE FALSE
  BY <1>2, LightIsLight
<1>3. ASSUME NEW x \in Runs, Reject(x) \/ DropCard(x) PROVE FALSE
  <2>1. cur[x] \in Items
    BY <1>3, HasEntry DEF Reject, DropCard, Between
  <2>2. QED BY <1>3, <2>1, WriteLoadedStatus DEF Reject, DropCard
<1>4. ASSUME NEW x \in Runs,
             \/ CreateRawItem(x) \/ Requeue(x) \/ Finish(x) \/ FindMember(x) \/ Attach(x)
             \/ SetCentroid(x) \/ CreateCard(x) \/ \E e \in Items : Take(x, e)
      PROVE  FALSE
  BY <1>0, <1>4
  DEF CreateRawItem, Requeue, Finish, FindMember, Attach, SetCentroid, CreateCard, Take,
      dbVars
<1>5. ~ (UNCHANGED vars \/ \E e \in Items : Age(e))
  BY DEF vars, Age
<1>6. QED BY <1>1, <1>2, <1>3, <1>4, <1>5 DEF Next, RunStep, LightStep

\* A card stays, and a step moves one run.
LEMMA OneRunMoves ==
  ASSUME TypeOK, [Next]_vars
  PROVE  /\ \A r \in Items : card[r] # None => card'[r] # None
         /\ \/ UNCHANGED runVars
            \/ \E x \in Runs :
                 /\ RunStep(x) \/ Crash(x)
                 /\ \A y \in Runs : y # x => /\ pc'[y] = pc[y] /\ cur'[y] = cur[y]
                                             /\ seen'[y] = seen[y]
<1>0. /\ card \in [Items -> Cards \cup {None}]
      /\ pc \in [Runs -> Stages] /\ cur \in [Runs -> Items \cup {None}]
      /\ seen \in [Runs -> Loaded \cup {None}]
  BY DEF TypeOK
<1>1. ASSUME NEW x \in Runs, LightStep(x)
      PROVE  /\ UNCHANGED card
             /\ \A y \in Runs : y # x => /\ pc'[y] = pc[y] /\ cur'[y] = cur[y]
                                         /\ seen'[y] = seen[y]
  BY <1>1, LightIsLight
<1>2. ASSUME NEW x \in Runs,
             \/ CreateRawItem(x) \/ Requeue(x) \/ Finish(x) \/ FindMember(x) \/ Attach(x)
             \/ SetCentroid(x) \/ Reject(x) \/ Assign(x) \/ DropCard(x) \/ \E e \in Items : Take(x, e)
      PROVE  /\ UNCHANGED card
             /\ \A y \in Runs : y # x => /\ pc'[y] = pc[y] /\ cur'[y] = cur[y]
                                         /\ seen'[y] = seen[y]
  BY <1>0, <1>2
  DEF CreateRawItem, Requeue, Finish, FindMember, Attach, SetCentroid, Reject, Assign, DropCard, Take,
      NextEntry, Goto, dbVars
<1>3. ASSUME NEW x \in Runs, CreateCard(x)
      PROVE  /\ \A r \in Items : card[r] # None => card'[r] # None
             /\ \A y \in Runs : y # x => /\ pc'[y] = pc[y] /\ cur'[y] = cur[y]
                                         /\ seen'[y] = seen[y]
  BY <1>0, <1>3 DEF CreateCard, Goto
<1>4. CASE UNCHANGED vars \/ \E e \in Items : Age(e)
  BY <1>4 DEF vars, Age, runVars
<1>5. QED BY <1>1, <1>2, <1>3, <1>4 DEF Next, RunStep, LightStep

\* An entry that is given up unfinished was in work, by a run that ended.
LEMMA StrandedByCut ==
  ASSUME TypeOK, [Next]_vars, NEW r \in Items, ~ Stranded(r), Stranded(r)',
         \A x \in Runs : pc[x] = "llm" => seen[x].status # "filtered_out"
  PROVE  \E x \in Runs : cur[x] = r /\ pc'[x] = "idle"
<1>1. status'[r] = "clustered" /\ card'[r] = None
  BY DEF Stranded
<1>2. \A x \in Runs : cur'[x] = r => pc'[x] \notin Working
  BY DEF Stranded, Working
<1>3. status[r] = "clustered" /\ card[r] = None
  BY <1>1, <1>2, ClusteredIsInWork, OneRunMoves DEF Working
<1>4. PICK x \in Runs : cur[x] = r /\ pc[x] \in Working
  BY <1>3 DEF Stranded, Working
<1>5. /\ RunStep(x) \/ Crash(x)
  BY <1>2, <1>4, OneRunMoves DEF runVars
<1>6. QED BY <1>1, <1>2, <1>4, <1>5, WorkEndsInStatus

\* With one run at a time, an entry is left "clustered" without a card and out of
\* every run's hands only by a run that ended in the middle of it.
THEOREM StrandingNeedsCut == ASSUME OneRun PROVE Spec => StrandedByCutOnly
<1>1. TypeOK /\ SingleInv /\ [Next]_vars =>
        [\A r \in Items : ~ Stranded(r) /\ Stranded(r)' =>
           \E x \in Runs : cur[x] = r /\ pc'[x] = "idle"]_vars
  <2> SUFFICES ASSUME TypeOK, SingleInv, [Next]_vars,
                      NEW r \in Items, ~ Stranded(r), Stranded(r)'
               PROVE  \E x \in Runs : cur[x] = r /\ pc'[x] = "idle"
    OBVIOUS
  <2>1. \A x \in Runs : pc[x] = "llm" => seen[x].status # "filtered_out"
    <3> SUFFICES ASSUME NEW x \in Runs, pc[x] = "llm"
                 PROVE  seen[x].status # "filtered_out"
      OBVIOUS
    <3>1. seen[x] = Row(cur[x]) /\ status[cur[x]] = "clustered"
      BY DEF SingleInv, RowIsLoaded, Working
    <3>2. seen[x].status = status[cur[x]]
      BY <3>1, RowStatus
    <3>3. QED BY <3>1, <3>2
  <2>2. QED BY <2>1, StrandedByCut
<1>2. QED
  BY <1>1, InitTyped, StepTyped, SingleInit, SingleStep, PTL DEF Spec, StrandedByCutOnly
-----------------------------------------------------------------------------
\* Without kills: an entry that is "clustered" and has no card is in the hands of
\* a run that will write what becomes of it: it can still attach the entry if that
\* is what it is at, and it has loaded "clustered" if it has loaded the row already.
InGoodHands ==
  \A r \in Items : status[r] = "clustered" /\ card[r] = None =>
    \E x \in Runs : /\ cur[x] = r /\ pc[x] \in Working
                    /\ pc[x] = "insert" => member[r] = None
                    /\ pc[x] = "llm" => seen[x].status = "clustered"

\* The run that attaches an entry for the first time goes on with it.
LEMMA FirstToAttach ==
  ASSUME TypeOK, [Next]_vars, NEW r \in Items, member[r] = None, member'[r] # None
  PROVE  \E y \in Runs : cur'[y] = r /\ pc'[y] = "centroid"
<1>0. /\ member \in [Items -> Clusters \cup {None}] /\ pc \in [Runs -> Stages]
  BY DEF TypeOK
<1>1. ASSUME NEW y \in Runs, RunStep(y) \/ Crash(y), ~ Attach(y) PROVE FALSE
  BY <1>1
  DEF RunStep, Begin, FindNewEntry, CreateRawItem, CreateConflict, IngestDone, Requeue,
      ListBatch, Take, Reject, Assign, FindMember, AttachConflict, SetCentroid, DropCard,
      CreateCard, CardConflict, Notify, Finish, End, Crash, dbVars
<1>2. ~ (UNCHANGED vars \/ \E e \in Items : Age(e))
  BY DEF vars, Age
<1>3. PICK y \in Runs : Attach(y)
  BY <1>1, <1>2 DEF Next
<1>4. cur'[y] = r /\ pc'[y] = "centroid"
  BY <1>0, <1>3 DEF Attach, Goto
<1>5. QED BY <1>4

\* One step of any run keeps an unfinished entry in good hands.
LEMMA HandsStep ==
  ASSUME ~ MayCrash PROVE TypeOK /\ InGoodHands /\ [Next]_vars => InGoodHands'
<1> SUFFICES ASSUME TypeOK, InGoodHands, [Next]_vars,
                    NEW r \in Items, status'[r] = "clustered", card'[r] = None
             PROVE  \E x \in Runs : /\ cur'[x] = r /\ pc'[x] \in Working
                                    /\ pc'[x] = "insert" => member'[r] = None
                                    /\ pc'[x] = "llm" => seen'[x].status = "clustered"
  BY DEF InGoodHands
<1> USE DEF Working
<1>1. CASE status[r] # "clustered"
  BY <1>1, ClusteredIsInWork
<1>2. CASE status[r] = "clustered" /\ member[r] = None /\ member'[r] # None
  BY <1>2, FirstToAttach
<1>3. CASE status[r] = "clustered" /\ (member[r] = None => member'[r] = None)
  <2>1. card[r] = None
    BY OneRunMoves
  <2>2. PICK x \in Runs : /\ cur[x] = r /\ pc[x] \in Working
                          /\ pc[x] = "insert" => member[r] = None
                          /\ pc[x] = "llm" => seen[x].status = "clustered"
    BY <1>3, <2>1 DEF InGoodHands
  <2>3. CASE RunStep(x) \/ Crash(x)
    <3>1. pc \in [Runs -> Stages] /\ seen \in [Runs -> Loaded \cup {None}]
      BY DEF TypeOK
    <3>2. ~ (AttachConflict(x) \/ CardConflict(x) \/ Crash(x))
      BY <2>1, <2>2 DEF AttachConflict, CardConflict, Crash
    <3>3. pc'[x] # "idle"
      BY <2>2, <2>3, <3>1, <3>2
      DEF RunStep, Begin, FindNewEntry, CreateRawItem, CreateConflict, IngestDone, Requeue,
          ListBatch, Take, Reject, Assign, FindMember, Attach, SetCentroid, DropCard,
          CreateCard, Notify, Finish, End, NextEntry, Goto, AfterCard
    <3>4. cur'[x] = r /\ pc'[x] \in Working
      BY <2>2, <2>3, <3>3, WorkEndsInStatus
    <3>5. ASSUME pc'[x] = "llm" PROVE seen'[x].status = "clustered"
      <4>1. SetCentroid(x)
        BY <2>2, <2>3, <3>1, <3>2, <3>5
        DEF RunStep, Begin, FindNewEntry, CreateRawItem, CreateConflict, IngestDone, Requeue,
            ListBatch, Take, Reject, Assign, FindMember, Attach, DropCard, CreateCard, Notify,
            Finish, End, NextEntry, Goto, AfterCard
      <4>2. seen'[x] = Row(r)
        BY <2>2, <3>1, <4>1 DEF SetCentroid
      <4>3. seen'[x].status = status[r]
        BY <4>2, RowStatus
      <4>4. QED BY <1>3, <4>3
    <3>6. ASSUME pc'[x] = "insert" PROVE member'[r] = None
      <4>1. FindMember(x)
        BY <2>2, <2>3, <3>1, <3>2, <3>6
        DEF RunStep, Begin, FindNewEntry, CreateRawItem, CreateConflict, IngestDone, Requeue,
            ListBatch, Take, Reject, Assign, Attach, SetCentroid, DropCard, CreateCard,
            Notify, Finish, End, NextEntry, Goto, AfterCard
      <4>2. QED BY <1>3, <2>2, <4>1 DEF FindMember
    <3>7. QED BY <3>4, <3>5, <3>6
  <2>4. CASE ~ (RunStep(x) \/ Crash(x))
    <3>1. pc'[x] = pc[x] /\ cur'[x] = cur[x] /\ seen'[x] = seen[x]
      BY <2>4, OneRunMoves DEF runVars
    <3>2. QED BY <1>3, <2>2, <3>1
  <2>5. QED BY <2>3, <2>4
<1>4. QED BY <1>1, <1>2, <1>3

\* Nothing is ever left lying: no entry is stranded.
NothingStranded == \A r \in Items : ~ Stranded(r)

\* Without kills no entry is stranded, with any number of concurrent runs, the
\* conflicts on which they end each other included.
THEOREM NothingStrands == ASSUME ~ MayCrash PROVE Spec => []NothingStranded
<1>1. Init => InGoodHands
  BY DEF Init, InGoodHands
<1>2. InGoodHands => NothingStranded
  BY DEF InGoodHands, NothingStranded, Stranded, Working
<1>3. QED BY <1>1, <1>2, InitTyped, StepTyped, HandsStep, PTL DEF Spec

-----------------------------------------------------------------------------
(* The ingestion of official data.                                         *)

Busy == {"body", "check", "create"}
OneEntry(docs) ==
  \/ \E x \in Tables \cup Series : docs = {x}
  \/ \E p \in Packages : docs \subseteq FilesIn(p)

\* A file has one entry.
LEMMA EntryOfFile ==
  ASSUME NEW p \in Packages, NEW f \in FilesIn(p)
  PROVE  PackageOf(f) = p /\ f \in Files
<1>1. \A q \in Packages : (\E i \in DOMAIN FilesOf(q) : FilesOf(q)[i] = f) <=> f \in FilesIn(q)
  BY DEF FilesIn
<1>2. \A q \in Packages : f \in FilesIn(q) <=> q = p
  BY FilesAssumption
<1>3. PackageOf(f) = p
  BY <1>1, <1>2 DEF PackageOf
<1>4. QED BY <1>3 DEF Files

\* A set of numbers has a least one.
LEMMA LeastNat ==
  ASSUME NEW set \in SUBSET Nat, set # {}
  PROVE  \E k \in set : \A m \in set : k <= m
<1>1. PICK k \in set : \A m \in set : <<m, k>> \notin OpToRel(<, Nat)
  BY WFMin, NatLessThanWellFounded
<1>2. OpToRel(<, Nat) = {r \in Nat \X Nat : r[1] < r[2]}
  BY DEF OpToRel
<1>3. \A m \in set : m < k => <<m, k>> \in {r \in Nat \X Nat : r[1] < r[2]}
  OBVIOUS
<1>4. \A m \in set : ~(m < k)
  BY <1>1, <1>2, <1>3
<1>5. QED BY <1>4

\* The documents that a run has before it have a first one.
LEMMA FirstIsOne ==
  ASSUME NEW docs, docs # {}, OneEntry(docs)
  PROVE  First(docs) \in docs
<1>1. CASE \E x \in Tables \cup Series : docs = {x}
  BY <1>1 DEF First
<1>2. ASSUME NEW p \in Packages, docs \subseteq FilesIn(p) PROVE First(docs) \in docs
  <2>1. \A f \in docs : PackageOf(f) = p /\ f \in FilesIn(p)
    BY <1>2, EntryOfFile
  <2>2. FilesOf(p) \in Seq(Files) /\ DOMAIN FilesOf(p) = 1 .. Len(FilesOf(p)) /\ Len(FilesOf(p)) \in Nat
    BY VisitsAssumption, LenProperties
  <2>3. \A f \in docs : Listed(f) \in Nat /\ FilesOf(p)[Listed(f)] = f
    <3> SUFFICES ASSUME NEW f \in docs PROVE Listed(f) \in Nat /\ FilesOf(p)[Listed(f)] = f
      OBVIOUS
    <3>1. \E i \in DOMAIN FilesOf(p) : FilesOf(p)[i] = f
      BY <2>1 DEF FilesIn
    <3>2. Listed(f) = CHOOSE i \in DOMAIN FilesOf(p) : FilesOf(p)[i] = f
      BY <2>1 DEF Listed
    <3>3. Listed(f) \in DOMAIN FilesOf(p) /\ FilesOf(p)[Listed(f)] = f
      BY <3>1, <3>2
    <3>4. QED BY <2>2, <3>3
  <2>4. \A f \in docs : Key(f) \in Nat
    BY <2>1, VisitsAssumption DEF Key
  <2>5. PICK k \in {Key(f) : f \in docs} : \A f \in docs : k <= Key(f)
    <3> DEFINE keys == {Key(f) : f \in docs}
    <3>1. keys \in SUBSET Nat /\ keys # {}
      BY <2>4
    <3>2. \E k \in keys : \A m \in keys : k <= m
      <4> HIDE DEF keys
      <4>1. QED BY <3>1, LeastNat
    <3>3. QED BY <3>2
  <2>6. PICK n \in {Listed(f) : f \in {g \in docs : Key(g) = k}} :
               \A f \in docs : Key(f) = k => n <= Listed(f)
    <3> DEFINE places == {Listed(f) : f \in {g \in docs : Key(g) = k}}
    <3>1. places \in SUBSET Nat /\ places # {}
      BY <2>3, <2>5
    <3>2. \E n \in places : \A m \in places : n <= m
      <4> HIDE DEF places
      <4>1. QED BY <3>1, LeastNat
    <3>3. QED BY <3>2
  <2>7. PICK f \in docs : Key(f) = k /\ Listed(f) = n
    BY <2>6
  <2>8. \A g \in docs \ {f} : Sooner(f, g)
    <3> SUFFICES ASSUME NEW g \in docs, g # f PROVE Sooner(f, g)
      OBVIOUS
    <3>1. Key(f) <= Key(g) /\ (Key(g) = Key(f) => Listed(f) <= Listed(g))
      BY <2>5, <2>6, <2>7
    <3>2. Listed(f) # Listed(g)
      BY <2>3
    <3>3. QED BY <2>3, <2>4, <3>1, <3>2 DEF Sooner
  <2>9. QED BY <2>8 DEF First
<1>3. QED BY <1>1, <1>2 DEF OneEntry

-----------------------------------------------------------------------------
(* The inductive invariant of the ingestion.                               *)

Permits(texts) == \E text \in texts : "restricted" \notin text
Allows(texts) == \E text \in texts : "open" \in text /\ "restricted" \notin text

\* A run has documents of one dataset before it, files only that a licence did not forbid,
\* and cites only those that a licence allowed.
CarriedBy(j) ==
  j.stage \in Busy =>
    /\ OneEntry(j.docs)
    /\ \A f \in Files : /\ f \in j.docs => Permits(had[f])
                        /\ f \in j.rights => Allows(had[f])

\* But for series, what was fetched is named by its data alone.
NamedBy(j) ==
  (j.stage \in {"check", "create"} /\ First(j.docs) \notin Series) =>
    /\ j.hash = <<"hash", j.data, 0>>
    /\ First(j.docs) \notin Tables => j.guid = j.hash

\* What a run is about to insert was unknown when it looked, and is unless another run has
\* inserted since.
LookedBy(j) ==
  j.stage = "create" =>
    /\ j.seen <= Len(items[First(j.docs)])
    /\ j.seen = Len(items[First(j.docs)]) => ~Known(First(j.docs), j.guid, j.hash)

RowsNamed ==
  \A x \in Docs \ Series : \A i \in DOMAIN items[x] :
    /\ items[x][i].rev = <<"hash", items[x][i].data, 0>>
    /\ x \notin Tables => items[x][i].guid = items[x][i].rev

\* The licence that covers a file is one it has had.
Remembered == \A f \in Files : Covering(f) \in had[f]
Stamped == \A x \in Docs : world[x].stamp <= changes + 1
RunsSound == \A r \in DataRuns : CarriedBy(run[r]) /\ NamedBy(run[r]) /\ LookedBy(run[r])

IngestInv ==
  /\ DataTypeOK /\ Stamped /\ Remembered /\ RowsNamed /\ RunsSound
  /\ NoEcho /\ LicenceGate

\* What a run at a stage is.
LEMMA RunShape ==
  ASSUME DataTypeOK, NEW r \in DataRuns
  PROVE  /\ run[r].stage = "visit" <=> run[r] \in [stage : {"visit"}, at : 1 .. Len(Visits) + 1]
         /\ run[r].stage = "body" <=> run[r] \in Opened
         /\ run[r].stage = "check" <=> run[r] \in Fetched
         /\ run[r].stage = "create" <=> run[r] \in Fresh
         /\ run[r].stage \in Busy =>
              /\ run[r].docs # {} /\ run[r].docs \subseteq Docs /\ run[r].rights \subseteq Docs
              /\ run[r].at \in 1 .. Len(Visits) /\ run[r].stamp \in Stamp
<1>1. run[r] \in RunStates /\ (run[r].stage \in {"body", "check", "create"} => run[r].docs # {})
  BY DEF DataTypeOK
<1>2. QED BY <1>1 DEF RunStates, Idle, Opened, Fetched, Fresh, Busy

\* The document that a run works on is one of those it has before it.
LEMMA DocTyped ==
  ASSUME IngestInv, NEW r \in DataRuns, run[r].stage \in Busy
  PROVE  Doc(r) \in run[r].docs /\ Doc(r) \in Docs
<1>1. run[r].docs # {} /\ run[r].docs \subseteq Docs
  BY RunShape DEF IngestInv
<1>2. OneEntry(run[r].docs)
  BY DEF IngestInv, RunsSound, CarriedBy
<1>3. QED BY <1>1, <1>2, FirstIsOne DEF Doc

\* A run that goes on, with nothing else changed, keeps the invariant if its own state is sound.
LEMMA RunMoves ==
  ASSUME IngestInv, NEW r \in DataRuns, NEW j \in RunStates,
         run' = [run EXCEPT ![r] = j], UNCHANGED <<worldVars, items>>,
         faults' \in 0 .. MaxFaults, j.stage \in Busy => j.docs # {},
         CarriedBy(j), NamedBy(j), LookedBy(j)
  PROVE  IngestInv'
<1>1. UNCHANGED <<world, licence, terms, changes, had, items>>
  BY DEF worldVars
<1>2. run \in [DataRuns -> RunStates]
  BY DEF IngestInv, DataTypeOK
<1>3. \A q \in DataRuns : run'[q] = IF q = r THEN j ELSE run[q]
  BY <1>2
<1>4. DataTypeOK'
  <2>1. run' \in [DataRuns -> RunStates]
    BY <1>2
  <2>2. \A q \in DataRuns : run'[q].stage \in {"body", "check", "create"} => run'[q].docs # {}
    BY <1>3 DEF IngestInv, DataTypeOK, Busy
  <2>3. QED BY <1>1, <2>1, <2>2 DEF IngestInv, DataTypeOK
<1>5. Stamped' /\ RowsNamed' /\ NoEcho' /\ LicenceGate'
  BY <1>1 DEF IngestInv, Stamped, RowsNamed, NoEcho, LicenceGate
<1>6. Remembered'
  BY <1>1 DEF IngestInv, Remembered, Covering
<1>7. RunsSound'
  <2>1. \A i : (CarriedBy(i) => CarriedBy(i)') /\ (NamedBy(i) => NamedBy(i)') /\ (LookedBy(i) => LookedBy(i)')
    BY <1>1 DEF CarriedBy, NamedBy, LookedBy, Known, HasRawItem, Latest
  <2>2. \A q \in DataRuns : CarriedBy(run'[q]) /\ NamedBy(run'[q]) /\ LookedBy(run'[q])
    BY <1>3 DEF IngestInv, RunsSound
  <2>3. QED BY <2>1, <2>2 DEF RunsSound
<1>8. QED BY <1>4, <1>5, <1>6, <1>7 DEF IngestInv

-----------------------------------------------------------------------------
(* The steps of a run.                                                     *)

\* A run that has nothing before it is sound.
LEMMA AtRest ==
  ASSUME NEW j, j.stage \in {"idle", "visit"}
  PROVE  CarriedBy(j) /\ NamedBy(j) /\ LookedBy(j) /\ j.stage \notin Busy
BY DEF CarriedBy, NamedBy, LookedBy, Busy

\* A run that starts, ends, dies or passes over a dataset.
LEMMA RestKeeps ==
  ASSUME IngestInv, NEW r \in DataRuns,
         \/ Start(r) \/ FinishRun(r) \/ PackageDown(r) \/ Conflict(r) \/ Die(r) \/ Uncaught(r)
  PROVE  IngestInv'
<1>1. faults' \in 0 .. MaxFaults
  BY SizeAssumption DEF IngestInv, DataTypeOK, Start, FinishRun, PackageDown, Conflict, Die, Uncaught, Fault
<1>2. UNCHANGED <<worldVars, items>>
  BY DEF Start, FinishRun, PackageDown, Conflict, Die, Uncaught
<1>3. Len(Visits) \in Nat
  BY VisitsAssumption, LenProperties
<1>4. PICK j \in RunStates : j.stage \in {"idle", "visit"} /\ run' = [run EXCEPT ![r] = j]
  <2>1. CASE FinishRun(r) \/ Conflict(r) \/ Die(r) \/ Uncaught(r)
    <3>1. Idle \in RunStates /\ Idle.stage = "idle"
      BY DEF RunStates, Idle
    <3>2. QED BY <2>1, <3>1 DEF FinishRun, Conflict, Die, Uncaught
  <2>2. CASE Start(r)
    <3>1. Visiting(1) \in RunStates /\ Visiting(1).stage = "visit"
      BY <1>3 DEF RunStates, Visiting
    <3>2. QED BY <2>2, <3>1 DEF Start
  <2>3. CASE PackageDown(r)
    <3>1. run[r].at \in 1 .. Len(Visits)
      BY <2>3, <1>3, RunShape DEF PackageDown, AtDataset, At, IngestInv
    <3>2. Visiting(run[r].at + 1) \in RunStates /\ Visiting(run[r].at + 1).stage = "visit"
      BY <1>3, <3>1 DEF RunStates, Visiting
    <3>3. QED BY <2>3, <3>2 DEF PackageDown
  <2>4. QED BY <2>1, <2>2, <2>3
<1>5. CarriedBy(j) /\ NamedBy(j) /\ LookedBy(j) /\ j.stage \notin Busy
  BY <1>4, AtRest
<1>6. QED BY <1>1, <1>2, <1>4, <1>5, RunMoves

\* A run opens a dataset: a table, a series, or the files of an entry that no licence forbids.
LEMMA OpenKeeps ==
  ASSUME IngestInv, NEW r \in DataRuns,
         \/ TableMeta(r) \/ TableMetaDown(r) \/ VisitSeries(r) \/ VisitPackage(r)
  PROVE  IngestInv'
<1>1. /\ faults' \in 0 .. MaxFaults /\ UNCHANGED <<worldVars, items>>
      /\ run[r].stage = "visit" /\ run[r].at <= Len(Visits)
  BY SizeAssumption DEF IngestInv, DataTypeOK, TableMeta, TableMetaDown, VisitSeries, VisitPackage, Fault,
                        AtDataset, At
<1>2. Len(Visits) \in Nat /\ run[r].at \in 1 .. Len(Visits)
  BY <1>1, RunShape, VisitsAssumption, LenProperties DEF IngestInv
<1>3. ASSUME NEW docs \in SUBSET Docs, NEW stamp \in Stamp, NEW rights \in SUBSET Docs,
             NEW n \in 1 .. Len(Visits), docs # {}, OneEntry(docs), Open(r, n, docs, stamp, rights),
             \A f \in Files : (f \in docs => Permits(had[f])) /\ (f \in rights => Allows(had[f]))
      PROVE  IngestInv'
  <2> DEFINE j == Fetching(n, docs, stamp, rights)
  <2>1. j \in Opened /\ j.stage = "body" /\ j.docs = docs /\ j.rights = rights
    BY <1>2 DEF Fetching, Opened
  <2>2. j \in RunStates
    BY <2>1 DEF RunStates
  <2>3. run' = [run EXCEPT ![r] = j]
    BY <1>3 DEF Open
  <2> HIDE DEF j
  <2>4. CarriedBy(j) /\ NamedBy(j) /\ LookedBy(j)
    BY <1>3, <2>1 DEF CarriedBy, NamedBy, LookedBy
  <2>5. QED BY <1>1, <1>3, <2>1, <2>2, <2>3, <2>4, RunMoves
<1>4. 0 \in Stamp
  BY SizeAssumption DEF Stamp
<1>5. CASE TableMeta(r) \/ TableMetaDown(r) \/ VisitSeries(r)
  <2>1. Target(r) \in Tables \cup Series
    BY <1>5 DEF TableMeta, TableMetaDown, VisitSeries, AtDataset
  <2>2. {Target(r)} \in SUBSET Docs /\ OneEntry({Target(r)}) /\ Target(r) \notin Files
    BY <2>1, NamesAssumption DEF Docs, OneEntry
  <2>3. world[Target(r)].stamp \in Stamp
    BY <2>2 DEF IngestInv, DataTypeOK
  <2>4. \/ Open(r, run[r].at, {Target(r)}, world[Target(r)].stamp, {Target(r)})
        \/ Open(r, run[r].at, {Target(r)}, 0, {Target(r)})
    BY <1>5 DEF TableMeta, TableMetaDown, VisitSeries
  <2>5. QED BY <1>2, <1>3, <1>4, <2>2, <2>3, <2>4
<1>6. CASE VisitPackage(r)
  <2> DEFINE p == Target(r)
             cited == {f \in Files : Verdict(f) = "allowed"}
             last == IF Malformed(p) # {} THEN Len(Visits) ELSE run[r].at
  <2>1. p \in Packages
    BY <1>6 DEF VisitPackage, AtDataset
  <2>2. Chosen(p) \subseteq FilesIn(p) /\ Chosen(p) \in SUBSET Docs /\ cited \in SUBSET Docs
    BY <2>1 DEF Chosen, Selected, Readable, Files, Docs
  <2>3. \A f \in Files : (f \in Chosen(p) => Permits(had[f])) /\ (f \in cited => Allows(had[f]))
    <3>1. \A f \in Files : Covering(f) \in had[f]
      BY DEF IngestInv, Remembered
    <3>2. \A f \in Chosen(p) : Verdict(f) # "blocked"
      BY DEF Chosen
    <3>3. QED BY <3>1, <3>2 DEF Verdict, Classify, Permits, Allows
  <2>4. CASE Chosen(p) = {}
    <3> DEFINE j == Visiting(last + 1)
    <3>1. j \in RunStates /\ j.stage = "visit"
      BY <1>2 DEF RunStates, Visiting
    <3>2. run' = [run EXCEPT ![r] = j]
      BY <1>6, <2>4 DEF VisitPackage
    <3> HIDE DEF j
    <3>3. CarriedBy(j) /\ NamedBy(j) /\ LookedBy(j) /\ j.stage \notin Busy
      BY <3>1, AtRest
    <3>4. QED BY <1>1, <3>1, <3>2, <3>3, RunMoves
  <2>5. CASE Chosen(p) # {}
    <3>1. Open(r, last, Chosen(p), 0, cited) /\ last \in 1 .. Len(Visits)
      BY <1>2, <1>6, <2>5 DEF VisitPackage
    <3>2. OneEntry(Chosen(p))
      BY <2>1, <2>2 DEF OneEntry
    <3>3. QED BY <1>3, <1>4, <2>2, <2>3, <2>5, <3>1, <3>2
  <2>6. QED BY <2>4, <2>5
<1>7. QED BY <1>5, <1>6

\* The run goes on to the next document of the dataset, or past its end.
LEMMA GoesOn ==
  ASSUME IngestInv, NEW r \in DataRuns, run[r].stage \in Busy, NextDoc(r)
  PROVE  \E j \in RunStates :
           /\ run' = [run EXCEPT ![r] = j]
           /\ j.stage \in {"visit", "body"} /\ (j.stage \in Busy => j.docs # {})
           /\ CarriedBy(j)
<1>1. /\ run[r].docs # {} /\ run[r].docs \subseteq Docs /\ run[r].rights \subseteq Docs
      /\ run[r].at \in 1 .. Len(Visits) /\ run[r].stamp \in Stamp
  BY RunShape DEF IngestInv
<1>2. Len(Visits) \in Nat
  BY VisitsAssumption, LenProperties
<1>3. CASE run[r].docs = {Doc(r)}
  <2> DEFINE j == Visiting(run[r].at + 1)
  <2>1. j \in RunStates /\ j.stage = "visit"
    BY <1>1, <1>2 DEF RunStates, Visiting
  <2>2. run' = [run EXCEPT ![r] = j]
    BY <1>3 DEF NextDoc
  <2>3. CarriedBy(j) /\ j.stage \notin Busy
    BY <2>1, AtRest
  <2>4. QED BY <2>1, <2>2, <2>3
<1>4. CASE run[r].docs # {Doc(r)}
  <2> DEFINE docs == run[r].docs \ {Doc(r)}
             j == Fetching(run[r].at, docs, run[r].stamp, run[r].rights)
  <2>1. docs # {} /\ docs \subseteq run[r].docs
    BY <1>1, <1>4
  <2>2. /\ j \in Opened /\ j.stage = "body" /\ j.docs = docs
        /\ j.rights = run[r].rights
    BY <1>1 DEF Fetching, Opened
  <2>3. j \in RunStates
    BY <2>2 DEF RunStates
  <2>4. run' = [run EXCEPT ![r] = j]
    BY <1>4 DEF NextDoc
  <2>5. CarriedBy(run[r])
    BY DEF IngestInv, RunsSound
  <2>6. OneEntry(docs)
    <3>1. Doc(r) \in run[r].docs
      BY DocTyped
    <3>2. QED BY <1>4, <2>5, <3>1 DEF CarriedBy, OneEntry
  <2>7. CarriedBy(j)
    BY <2>1, <2>2, <2>5, <2>6 DEF CarriedBy
  <2>8. QED BY <2>1, <2>2, <2>3, <2>4, <2>7
<1>5. QED BY <1>3, <1>4

\* A document that cannot be read is passed over.
LEMMA UnreadKeeps ==
  ASSUME IngestInv, NEW r \in DataRuns, Unread(r)
  PROVE  IngestInv'
<1>1. /\ run[r].stage \in Busy /\ NextDoc(r) /\ UNCHANGED <<worldVars, items>>
      /\ faults' \in 0 .. MaxFaults
  BY SizeAssumption DEF Unread, At, Busy, IngestInv, DataTypeOK, Fault
<1>2. PICK j \in RunStates :
         /\ run' = [run EXCEPT ![r] = j]
         /\ j.stage \in {"visit", "body"} /\ (j.stage \in Busy => j.docs # {})
         /\ CarriedBy(j)
  BY <1>1, GoesOn
<1>3. NamedBy(j) /\ LookedBy(j)
  BY <1>2 DEF NamedBy, LookedBy
<1>4. QED BY <1>1, <1>2, <1>3, RunMoves

\* What is fetched is named by what the publisher has at that moment.
LEMMA FetchKeeps ==
  ASSUME IngestInv, NEW r \in DataRuns, Fetch(r)
  PROVE  IngestInv'
<1>1. /\ run[r].stage = "body" /\ run[r].stage \in Busy /\ UNCHANGED <<worldVars, items, faults>>
      /\ world[Doc(r)].body \in Data
  BY DEF Fetch, At, Busy
<1>2. run[r] \in Opened /\ run[r].docs # {}
  BY <1>1, RunShape DEF IngestInv
<1>3. Doc(r) \in Docs
  BY <1>1, DocTyped
<1>4. world[Doc(r)].body \in Data /\ world[Doc(r)].stamp \in Stamp /\ 0 \in Stamp
  BY <1>1, <1>3, SizeAssumption DEF IngestInv, DataTypeOK, Stamp
<1>5. PICK noise \in {0, 1} : run' = [run EXCEPT ![r] =
             [stage |-> "check", at |-> run[r].at, docs |-> run[r].docs, stamp |-> run[r].stamp,
              rights |-> run[r].rights, data |-> world[Doc(r)].body,
              hash |-> Hash(Doc(r), world[Doc(r)].body, world[Doc(r)].stamp, noise),
              guid |-> Guid(Doc(r), run[r].stamp, Hash(Doc(r), world[Doc(r)].body, world[Doc(r)].stamp, noise))]]
  BY DEF Fetch
<1> DEFINE hash == Hash(Doc(r), world[Doc(r)].body, world[Doc(r)].stamp, noise)
           j == [stage |-> "check", at |-> run[r].at, docs |-> run[r].docs, stamp |-> run[r].stamp,
                 rights |-> run[r].rights, data |-> world[Doc(r)].body, hash |-> hash,
                 guid |-> Guid(Doc(r), run[r].stamp, hash)]
<1>6. hash \in Revisions /\ (Doc(r) \notin Series => hash = <<"hash", world[Doc(r)].body, 0>>)
  BY <1>4 DEF Hash, Revisions
<1>7. /\ Guid(Doc(r), run[r].stamp, hash) \in Revisions
      /\ Doc(r) \notin Tables => Guid(Doc(r), run[r].stamp, hash) = hash
  BY <1>2, <1>6 DEF Guid, Revisions, Opened
<1>8. /\ j \in Fetched /\ j.stage = "check" /\ j.docs = run[r].docs /\ j.rights = run[r].rights
      /\ j.hash = hash /\ j.guid = Guid(Doc(r), run[r].stamp, hash) /\ j.data = world[Doc(r)].body
  <2> HIDE DEF hash
  <2>1. QED BY <1>2, <1>4, <1>6, <1>7 DEF Fetched, Opened
<1>9. run' = [run EXCEPT ![r] = j]
  BY <1>5
<1> HIDE DEF j, hash
<1>10. CarriedBy(run[r])
  BY DEF IngestInv, RunsSound
<1>11. CarriedBy(j) /\ NamedBy(j) /\ LookedBy(j)
  BY <1>1, <1>6, <1>7, <1>8, <1>10 DEF CarriedBy, NamedBy, LookedBy, Doc
<1>12. j \in RunStates
  BY <1>8 DEF RunStates
<1>13. faults' \in 0 .. MaxFaults
  BY <1>1 DEF IngestInv, DataTypeOK
<1>14. QED BY <1>1, <1>2, <1>8, <1>9, <1>11, <1>12, <1>13, RunMoves

\* What is known is passed over, and of the rest the run remembers what it has seen.
LEMMA CheckKeeps ==
  ASSUME IngestInv, NEW r \in DataRuns, Check(r)
  PROVE  IngestInv'
<1>1. /\ run[r].stage = "check" /\ run[r].stage \in Busy /\ UNCHANGED <<worldVars, items, faults>>
  BY DEF Check, At, Busy
<1>2. run[r] \in Fetched /\ run[r].docs # {} /\ faults' \in 0 .. MaxFaults
  BY <1>1, RunShape DEF IngestInv, DataTypeOK
<1>3. CASE Known(Doc(r), run[r].guid, run[r].hash)
  <2>1. PICK j \in RunStates :
           /\ run' = [run EXCEPT ![r] = j]
           /\ j.stage \in {"visit", "body"} /\ (j.stage \in Busy => j.docs # {})
           /\ CarriedBy(j)
    BY <1>1, <1>3, GoesOn DEF Check
  <2>2. NamedBy(j) /\ LookedBy(j)
    BY <2>1 DEF NamedBy, LookedBy
  <2>3. QED BY <1>1, <1>2, <2>1, <2>2, RunMoves
<1>4. CASE ~Known(Doc(r), run[r].guid, run[r].hash)
  <2> DEFINE j == [stage |-> "create", at |-> run[r].at, docs |-> run[r].docs, stamp |-> run[r].stamp,
                   rights |-> run[r].rights, data |-> run[r].data, hash |-> run[r].hash,
                   guid |-> run[r].guid, seen |-> Len(items[Doc(r)])]
  <2>1. Len(items[Doc(r)]) \in Nat
    <3>1. Doc(r) \in Docs
      BY <1>1, DocTyped
    <3>2. QED BY <3>1, LenProperties DEF IngestInv, DataTypeOK
  <2>2. /\ j \in Fresh /\ j.stage = "create" /\ j.docs = run[r].docs /\ j.rights = run[r].rights
        /\ j.hash = run[r].hash /\ j.guid = run[r].guid /\ j.data = run[r].data
        /\ j.seen = Len(items[Doc(r)])
    BY <1>2, <2>1 DEF Fetched, Fresh
  <2>3. run' = [run EXCEPT ![r] = j]
    BY <1>4 DEF Check
  <2> HIDE DEF j
  <2>4. CarriedBy(run[r]) /\ NamedBy(run[r])
    BY DEF IngestInv, RunsSound
  <2>5. CarriedBy(j) /\ NamedBy(j)
    BY <1>1, <2>2, <2>4 DEF CarriedBy, NamedBy
  <2>6. LookedBy(j)
    BY <1>4, <2>1, <2>2 DEF LookedBy, Doc
  <2>7. j \in RunStates
    BY <2>2 DEF RunStates
  <2>8. QED BY <1>1, <1>2, <2>2, <2>3, <2>5, <2>6, <2>7, RunMoves
<1>5. QED BY <1>3, <1>4

\* A row that no other run has preceded since the look differs from the last one.
LEMMA CreateKeeps ==
  ASSUME IngestInv, NEW r \in DataRuns, Create(r)
  PROVE  IngestInv'
<1> DEFINE x == Doc(r)
           row == [guid |-> run[r].guid, rev |-> run[r].hash, rights |-> x \in run[r].rights,
                   data |-> run[r].data, blind |-> Len(items[x]) # run[r].seen]
<1>1. /\ run[r].stage = "create" /\ run[r].stage \in Busy /\ NextDoc(r)
      /\ UNCHANGED <<world, licence, terms, changes, had, faults>>
  BY DEF Create, At, Busy, worldVars
<1>2. run[r] \in Fresh /\ x \in Docs /\ x \in run[r].docs
  BY <1>1, RunShape, DocTyped DEF IngestInv
<1>3. items' = [items EXCEPT ![x] = Append(items[x], row)]
  BY DEF Create
<1>4. row \in RawItems
  BY <1>2 DEF RawItems, Fresh
<1>5. /\ row.guid = run[r].guid /\ row.rev = run[r].hash /\ row.data = run[r].data
      /\ row.rights <=> x \in run[r].rights
      /\ row.blind <=> Len(items[x]) # run[r].seen
  OBVIOUS
<1>6. CarriedBy(run[r]) /\ NamedBy(run[r]) /\ LookedBy(run[r])
  BY DEF IngestInv, RunsSound
<1>7. PICK j \in RunStates :
         /\ run' = [run EXCEPT ![r] = j]
         /\ j.stage \in {"visit", "body"} /\ (j.stage \in Busy => j.docs # {})
         /\ CarriedBy(j)
  BY <1>1, GoesOn
<1>8. /\ x = First(run[r].docs)
      /\ run \in [DataRuns -> RunStates] /\ items \in [Docs -> Seq(RawItems)]
  BY DEF Doc, IngestInv, DataTypeOK
<1> HIDE DEF row, x
<1> DEFINE n == Len(items[x])
<1>9. /\ n \in Nat /\ items'[x] \in Seq(RawItems) /\ Len(items'[x]) = n + 1
      /\ DOMAIN items[x] = 1 .. n /\ DOMAIN items'[x] = 1 .. n + 1
      /\ \A i \in 1 .. n : items'[x][i] = items[x][i]
      /\ items'[x][n + 1] = row
  <2>1. items[x] \in Seq(RawItems) /\ items'[x] = Append(items[x], row)
    BY <1>2, <1>3, <1>8
  <2>2. QED BY <1>4, <2>1, LenProperties, AppendProperties
<1>10. \A y \in Docs \ {x} : items'[y] = items[y]
  BY <1>3, <1>8
<1>11. \A q \in DataRuns : run'[q] = IF q = r THEN j ELSE run[q]
  BY <1>7, <1>8
<1>12. DataTypeOK'
  <2>1. items' \in [Docs -> Seq(RawItems)]
    BY <1>3, <1>8, <1>9, <1>10
  <2>2. run' \in [DataRuns -> RunStates]
    BY <1>7, <1>8
  <2>3. \A q \in DataRuns : run'[q].stage \in {"body", "check", "create"} => run'[q].docs # {}
    BY <1>7, <1>11 DEF IngestInv, DataTypeOK, Busy
  <2>4. QED BY <1>1, <2>1, <2>2, <2>3 DEF IngestInv, DataTypeOK
<1>13. Stamped' /\ Remembered'
  BY <1>1 DEF IngestInv, Stamped, Remembered, Covering
<1>14. RowsNamed'
  <2> SUFFICES ASSUME NEW y \in Docs \ Series, NEW i \in DOMAIN items'[y]
               PROVE  /\ items'[y][i].rev = <<"hash", items'[y][i].data, 0>>
                      /\ y \notin Tables => items'[y][i].guid = items'[y][i].rev
    BY DEF RowsNamed
  <2>1. CASE y # x \/ i # n + 1
    <3>1. i \in DOMAIN items[y] /\ items'[y][i] = items[y][i]
      BY <1>9, <1>10, <2>1
    <3>2. QED BY <3>1 DEF IngestInv, RowsNamed
  <2>2. CASE y = x /\ i = n + 1
    BY <1>1, <1>5, <1>6, <1>8, <1>9, <2>2 DEF NamedBy
  <2>3. QED BY <2>1, <2>2
<1>15. NoEcho'
  <2> SUFFICES ASSUME NEW y \in Docs \ Series, NEW i \in 2 .. Len(items'[y]),
                      items'[y][i].data = items'[y][i - 1].data
               PROVE  items'[y][i].blind
    BY DEF NoEcho
  <2>1. CASE y # x \/ i # n + 1
    <3>1. /\ i \in 2 .. Len(items[y])
          /\ items'[y][i] = items[y][i] /\ items'[y][i - 1] = items[y][i - 1]
      BY <1>9, <1>10, <2>1
    <3>2. QED BY <3>1 DEF IngestInv, NoEcho
  <2>2. CASE y = x /\ i = n + 1
    <3>1. n \in DOMAIN items[x] /\ n >= 1 /\ items'[x][i - 1] = items[x][n] /\ items'[x][i] = row
      BY <1>9, <2>2
    <3>2. /\ items[x][n].rev = <<"hash", items[x][n].data, 0>>
          /\ x \notin Tables => items[x][n].guid = items[x][n].rev
      BY <2>2, <3>1 DEF IngestInv, RowsNamed
    <3>3. /\ row.rev = <<"hash", row.data, 0>>
          /\ x \notin Tables => row.guid = row.rev
      BY <1>1, <1>5, <1>6, <1>8, <2>2 DEF NamedBy
    <3>4. items[x][n].rev = row.rev
      BY <2>2, <3>1, <3>2, <3>3
    <3>5. ASSUME ~row.blind PROVE FALSE
      <4>1. ~Known(x, row.guid, row.rev)
        BY <1>1, <1>5, <1>6, <1>8, <3>5 DEF LookedBy
      <4>2. CASE x \in Tables
        <5>1. items[x] # << >> /\ Latest(x) = items[x][n]
          BY <3>1 DEF Latest
        <5>2. QED BY <3>4, <4>1, <4>2, <5>1 DEF Known
      <4>3. CASE x \notin Tables
        BY <3>1, <3>2, <3>3, <3>4, <4>1, <4>3 DEF Known, HasRawItem
      <4>4. QED BY <4>2, <4>3
    <3>6. QED BY <2>2, <3>1, <3>5
  <2>3. QED BY <2>1, <2>2
<1>16. LicenceGate'
  <2> SUFFICES ASSUME NEW f \in Files, NEW i \in DOMAIN items'[f]
               PROVE  Permits(had[f]) /\ (items'[f][i].rights => Allows(had[f]))
    BY <1>1 DEF LicenceGate, Permits, Allows
  <2>1. CASE f # x \/ i # n + 1
    <3>1. i \in DOMAIN items[f] /\ items'[f][i] = items[f][i]
      BY <1>9, <1>10, <2>1 DEF Docs
    <3>2. QED BY <3>1 DEF IngestInv, LicenceGate, Permits, Allows
  <2>2. CASE f = x /\ i = n + 1
    BY <1>1, <1>2, <1>5, <1>6, <1>9, <2>2 DEF CarriedBy
  <2>3. QED BY <2>1, <2>2
<1>17. RunsSound'
  <2>1. \A i : (CarriedBy(i) => CarriedBy(i)') /\ (NamedBy(i) => NamedBy(i)')
    BY <1>1 DEF CarriedBy, NamedBy
  <2>2. \A y, g, h : items'[y] = items[y] => (Known(y, g, h)' <=> Known(y, g, h))
    BY DEF Known, HasRawItem, Latest
  <2>3. ASSUME NEW k, k.stage = "create" => First(k.docs) \in Docs /\ k.seen \in Nat, LookedBy(k)
        PROVE  LookedBy(k)'
    <3> SUFFICES ASSUME k.stage = "create"
                 PROVE  /\ k.seen <= Len(items'[First(k.docs)])
                        /\ k.seen = Len(items'[First(k.docs)]) =>
                             ~Known(First(k.docs), k.guid, k.hash)'
      BY DEF LookedBy
    <3>1. /\ k.seen <= Len(items[First(k.docs)])
          /\ k.seen = Len(items[First(k.docs)]) => ~Known(First(k.docs), k.guid, k.hash)
      BY <2>3 DEF LookedBy
    <3>2. CASE First(k.docs) = x
      BY <1>9, <2>3, <3>1, <3>2
    <3>3. CASE First(k.docs) # x
      <4>1. items'[First(k.docs)] = items[First(k.docs)]
        BY <1>10, <2>3, <3>3
      <4>2. QED BY <2>2, <3>1, <4>1
    <3>4. QED BY <3>2, <3>3
  <2>4. ASSUME NEW q \in DataRuns, q # r
        PROVE  CarriedBy(run[q])' /\ NamedBy(run[q])' /\ LookedBy(run[q])'
    <3>1. run'[q] = run[q] /\ CarriedBy(run[q]) /\ NamedBy(run[q]) /\ LookedBy(run[q])
      BY <1>11, <2>4 DEF IngestInv, RunsSound
    <3>2. run[q].stage = "create" => First(run[q].docs) \in Docs /\ run[q].seen \in Nat
      BY DocTyped, RunShape DEF Doc, Busy, IngestInv, Fresh
    <3>3. QED BY <2>1, <2>3, <3>1, <3>2
  <2>5. CarriedBy(run[r])' /\ NamedBy(run[r])' /\ LookedBy(run[r])'
    <3>1. run'[r] = j
      BY <1>11
    <3>2. QED BY <1>7, <2>1, <3>1 DEF NamedBy, LookedBy
  <2>6. QED BY <2>4, <2>5 DEF RunsSound
<1>18. QED BY <1>12, <1>13, <1>14, <1>15, <1>16, <1>17 DEF IngestInv

\* Publishers change neither rows nor runs, and what a licence allowed once stays said.
LEMMA WorldKeeps ==
  ASSUME IngestInv, UNCHANGED <<items, run, faults>>, DataTypeOK', Stamped', Remembered',
         \A f \in Files : had[f] \subseteq had'[f]
  PROVE  IngestInv'
<1>1. \A f \in Files : (Permits(had[f]) => Permits(had'[f])) /\ (Allows(had[f]) => Allows(had'[f]))
  BY DEF Permits, Allows
<1>2. RowsNamed' /\ NoEcho'
  BY DEF IngestInv, RowsNamed, NoEcho
<1>3. LicenceGate'
  <2>1. \A f \in Files : \A i \in DOMAIN items[f] :
          Permits(had[f]) /\ (items[f][i].rights => Allows(had[f]))
    BY DEF IngestInv, LicenceGate, Permits, Allows
  <2>2. \A f \in Files : \A i \in DOMAIN items'[f] :
          Permits(had'[f]) /\ (items'[f][i].rights => Allows(had'[f]))
    BY <1>1, <2>1
  <2>3. QED BY <2>2 DEF LicenceGate, Permits, Allows
<1>4. RunsSound'
  <2>1. \A k : (CarriedBy(k) => CarriedBy(k)') /\ (NamedBy(k) => NamedBy(k)') /\ (LookedBy(k) => LookedBy(k)')
    BY <1>1 DEF CarriedBy, NamedBy, LookedBy, Known, HasRawItem, Latest
  <2>2. QED BY <2>1 DEF IngestInv, RunsSound
<1>5. QED BY <1>2, <1>3, <1>4 DEF IngestInv

\* A revision gets the next stamp.
LEMMA PublishKeeps ==
  ASSUME IngestInv, NEW x \in Docs, Publish(x)
  PROVE  IngestInv'
<1>1. /\ changes \in Nat /\ changes < MaxChanges /\ changes' = changes + 1
      /\ UNCHANGED <<licence, terms, items, run, faults, had>>
  BY SizeAssumption DEF Publish, Change, IngestInv, DataTypeOK
<1>2. PICK body \in NextBodies(x) : world' = [world EXCEPT ![x] = [body |-> body, stamp |-> world[x].stamp + 1]]
  BY DEF Publish
<1> DEFINE new == [body |-> body, stamp |-> world[x].stamp + 1]
<1>3. world[x].stamp \in Nat /\ world[x].stamp <= changes + 1
  BY SizeAssumption DEF IngestInv, DataTypeOK, Stamped, Stamp
<1>4. new \in [body : Bodies, stamp : Stamp] /\ new.stamp = world[x].stamp + 1
  BY <1>1, <1>3, SizeAssumption, BodiesAssumption DEF Stamp
<1>5. world' = [world EXCEPT ![x] = new]
  BY <1>2
<1> HIDE DEF new
<1>6. world \in [Docs -> [body : Bodies, stamp : Stamp]]
  BY DEF IngestInv, DataTypeOK
<1>7. world' \in [Docs -> [body : Bodies, stamp : Stamp]]
  BY <1>4, <1>5, <1>6
<1>8. DataTypeOK'
  <2>1. changes' \in 0 .. MaxChanges
    BY <1>1, SizeAssumption
  <2>2. QED BY <1>1, <1>7, <2>1 DEF IngestInv, DataTypeOK
<1>9. Stamped'
  <2>1. \A y \in Docs : world'[y] = IF y = x THEN new ELSE world[y]
    BY <1>5, <1>6
  <2>2. \A y \in Docs : world[y].stamp \in Nat /\ world[y].stamp <= changes + 1
    BY SizeAssumption DEF IngestInv, DataTypeOK, Stamped, Stamp
  <2>3. QED BY <1>1, <1>3, <1>4, <2>1, <2>2 DEF Stamped
<1>10. Remembered'
  BY <1>1 DEF IngestInv, Remembered, Covering
<1>11. QED BY <1>1, <1>8, <1>9, <1>10, WorldKeeps

\* The licence that covers a file now is remembered with the older ones.
LEMMA RelicenseKeeps ==
  ASSUME IngestInv, NEW f \in Files, Relicense(f)
  PROVE  IngestInv'
<1>1. /\ changes \in Nat /\ changes < MaxChanges /\ changes' = changes + 1
      /\ UNCHANGED <<world, terms, items, run, faults>>
      /\ had' = [had EXCEPT ![f] = had[f] \cup {Covering(f)'}]
  BY SizeAssumption DEF Relicense, Change, IngestInv, DataTypeOK
<1>2. PICK l \in Texts : licence' = [licence EXCEPT ![f] = l]
  BY DEF Relicense
<1>3. licence \in [Files -> Texts] /\ terms \in [Packages -> Texts] /\ had \in [Files -> SUBSET Texts]
  BY DEF IngestInv, DataTypeOK
<1>4. PackageOf(f) \in Packages
  <2>1. PICK p \in Packages : f \in FilesIn(p)
    BY DEF Files
  <2>2. QED BY <2>1, EntryOfFile
<1>5. Covering(f)' \in Texts
  BY <1>1, <1>2, <1>3, <1>4 DEF Covering
<1>6. DataTypeOK'
  <2>1. changes' \in 0 .. MaxChanges
    BY <1>1, SizeAssumption
  <2>2. had' \in [Files -> SUBSET Texts] /\ licence' \in [Files -> Texts]
    BY <1>1, <1>2, <1>3, <1>5
  <2>3. QED BY <1>1, <2>1, <2>2 DEF IngestInv, DataTypeOK
<1>7. Stamped'
  <2>1. \A y \in Docs : world[y].stamp \in Nat /\ world[y].stamp <= changes + 1
    BY SizeAssumption DEF IngestInv, DataTypeOK, Stamped, Stamp
  <2>2. QED BY <1>1, <2>1 DEF Stamped
<1>8. Remembered'
  <2> SUFFICES ASSUME NEW g \in Files PROVE Covering(g)' \in had'[g]
    BY DEF Remembered
  <2>1. CASE g = f
    BY <1>1, <1>3, <2>1
  <2>2. CASE g # f
    <3>1. Covering(g)' = Covering(g) /\ had'[g] = had[g]
      BY <1>1, <1>2, <1>3, <2>2 DEF Covering
    <3>2. QED BY <3>1 DEF IngestInv, Remembered
  <2>3. QED BY <2>1, <2>2
<1>9. \A g \in Files : had[g] \subseteq had'[g]
  BY <1>1, <1>3
<1>10. QED BY <1>1, <1>6, <1>7, <1>8, <1>9, WorldKeeps

\* Nothing is ingested yet.
LEMMA IngestInit == DataInit => IngestInv
<1> SUFFICES ASSUME DataInit PROVE IngestInv
  OBVIOUS
<1>1. /\ world \in [Docs -> [body : Bodies, stamp : {1}]]
      /\ licence \in [Files -> Texts] /\ terms \in [Packages -> Texts]
      /\ items = [x \in Docs |-> << >>] /\ run = [r \in DataRuns |-> Idle]
      /\ changes = 0 /\ faults = 0 /\ had = [f \in Files |-> {Covering(f)}]
  BY DEF DataInit
<1>2. \A f \in Files : Covering(f) \in Texts
  <2> SUFFICES ASSUME NEW f \in Files PROVE Covering(f) \in Texts
    OBVIOUS
  <2>1. PICK p \in Packages : f \in FilesIn(p)
    BY DEF Files
  <2>2. PackageOf(f) \in Packages
    BY <2>1, EntryOfFile
  <2>3. QED BY <1>1, <2>2 DEF Covering
<1>3. DataTypeOK
  <2>1. world \in [Docs -> [body : Bodies, stamp : Stamp]]
    <3>1. 1 \in Stamp
      BY SizeAssumption DEF Stamp
    <3>2. \A x \in Docs : world[x] \in [body : Bodies, stamp : Stamp]
      BY <1>1, <3>1
    <3>3. QED BY <1>1, <3>2
  <2>2. items \in [Docs -> Seq(RawItems)]
    BY <1>1, EmptySeq
  <2>3. run \in [DataRuns -> RunStates] /\ \A r \in DataRuns : run[r].stage = "idle"
    BY <1>1 DEF RunStates, Idle
  <2>4. had \in [Files -> SUBSET Texts]
    BY <1>1, <1>2
  <2>5. changes \in 0 .. MaxChanges /\ faults \in 0 .. MaxFaults
    BY <1>1, SizeAssumption
  <2>6. QED BY <1>1, <2>1, <2>2, <2>3, <2>4, <2>5 DEF DataTypeOK
<1>4. Stamped /\ Remembered
  BY <1>1 DEF Stamped, Remembered
<1>5. RunsSound
  BY <1>1, AtRest DEF RunsSound, Idle
<1>6. RowsNamed /\ NoEcho /\ LicenceGate
  <2>1. \A x \in Docs : Len(items[x]) = 0 /\ DOMAIN items[x] = {}
    BY <1>1
  <2>2. QED BY <2>1 DEF RowsNamed, NoEcho, LicenceGate, Docs
<1>7. QED BY <1>3, <1>4, <1>5, <1>6 DEF IngestInv

\* Every step keeps the invariant.
LEMMA IngestStep == IngestInv /\ [DataNext]_dataVars => IngestInv'
<1> SUFFICES ASSUME IngestInv, [DataNext]_dataVars PROVE IngestInv'
  OBVIOUS
<1>1. ASSUME NEW r \in DataRuns, Step(r) \/ TableMetaDown(r) \/ PackageDown(r) \/ Die(r) PROVE IngestInv'
  BY <1>1, RestKeeps, OpenKeeps, UnreadKeeps, FetchKeeps, CheckKeeps, CreateKeeps DEF Step
<1>2. ASSUME NEW x \in Docs, Publish(x) PROVE IngestInv'
  BY <1>2, PublishKeeps
<1>3. ASSUME NEW f \in Files, Relicense(f) PROVE IngestInv'
  BY <1>3, RelicenseKeeps
<1>4. CASE UNCHANGED dataVars
  <2>1. UNCHANGED <<world, licence, terms, items, run, changes, faults, had>>
    BY <1>4 DEF dataVars, worldVars
  <2>2. DataTypeOK' /\ Stamped' /\ Remembered'
    BY <2>1 DEF IngestInv, DataTypeOK, Stamped, Remembered, Covering
  <2>3. QED BY <2>1, <2>2, WorldKeeps
<1>5. QED BY <1>1, <1>2, <1>3, <1>4 DEF DataNext

\* So it holds in every reachable state.
LEMMA IngestAlways == DataSpec => []IngestInv
BY IngestInit, IngestStep, PTL DEF DataSpec

\* For any datasets, runs and publishers every variable keeps its type, and a run has a
\* document before it whenever it is to fetch, to look up or to insert one.
THEOREM DataTypeCorrect == DataSpec => []DataTypeOK
<1>1. IngestInv => DataTypeOK
  BY DEF IngestInv
<1>2. QED BY <1>1, IngestAlways, PTL

\* Whatever stamps the publishers give, whatever metadata cannot be read and however runs
\* overlap, die and conflict, an unchanged table or file is told again only by a run that did
\* not see the row another run inserted after its look (_should_skip_genesis_item, has_raw_item).
THEOREM NothingToldTwice == DataSpec => []NoEcho
<1>1. IngestInv => NoEcho
  BY DEF IngestInv
<1>2. QED BY <1>1, IngestAlways, PTL

\* For any entries and files, however often they are put under another licence, a file becomes
\* news only under a licence that does not forbid it, and is cited only under one that allows it
\* (classify_license, _classify_resource_license, classify_distribution_license).
THEOREM LicencesAreKept == DataSpec => []LicenceGate
<1>1. IngestInv => LicenceGate
  BY DEF IngestInv
<1>2. QED BY <1>1, IngestAlways, PTL
=============================================================================
