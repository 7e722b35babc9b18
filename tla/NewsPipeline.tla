---------------------------- MODULE NewsPipeline ----------------------------
(***************************************************************************)
(* PipelineService.run: the way of a feed entry from ingestion over        *)
(* relevance filter, clustering, LLM and publication decision to a card    *)
(* (a row of processed_news), with several runs at once: the hourly        *)
(* scheduler job and POST /pipeline/run take no lock.                      *)
(*                                                                         *)
(* One step is one repository call, up to and including its commit, or the *)
(* stretch between a slow call (embedding, LLM, Telegram) and the commit   *)
(* that follows it.  A run may die between any two steps.                  *)
(***************************************************************************)
EXTENDS Naturals, FiniteSets

CONSTANTS
  Items,        \* feed entries; one (source_id, guid) each
  Runs,         \* pipeline runs that may be active at the same time
  None,         \* no item, no cluster, no card
  StoryOf(_),   \* the story an entry tells: the entries the encoder finds
                \* similar to each other
  Blocked,      \* entries of a source that is not enabled or has no licence
  Irrelevant,   \* entries the relevance filter rejects
  Breaking,     \* entries matching the breaking-news rules
  Official,     \* entries of an official data source
  Publisher,    \* entries of a publisher feed under the unverified bypass
  MayCrash      \* whether the process may be killed

ASSUME SetsAssumption ==
  /\ Blocked \subseteq Items /\ Irrelevant \subseteq Items
  /\ Breaking \subseteq Items /\ Official \subseteq Items
  /\ Publisher \subseteq Items
  \* the three bypasses of the relevance filter come before its rejections
  /\ Irrelevant \cap (Breaking \cup Official \cup Publisher) = {}

VARIABLES
  \* the database
  status,    \* raw_news_items.pipeline_status, or "absent"
  reason,    \* raw_news_items.relevance_reason
  aged,      \* entries older than the 48 hours of the requeue rules
  member,    \* cluster_items: the cluster an entry is attached to
  dedup,     \* clusters that have a centroid, the candidates of deduplication
  card,      \* processed_news
  \* outside
  notices,   \* urgent Telegram notices sent for an entry
  \* each run
  pc,        \* its next statement
  todo,      \* entries of its batch not yet taken up
  cur,       \* the entry it works on
  target,    \* the cluster assign_cluster chose, and whether it is new
  seen       \* the status and reason its session has loaded for cur

dbVars == <<status, reason, aged, member, dedup, card>>
runVars == <<pc, todo, cur, target, seen>>
vars == <<status, reason, aged, member, dedup, card, notices,
          pc, todo, cur, target, seen>>

Statuses == {"absent", "ingested", "filtered_out", "clustered", "processed"}
Reasons == {"", "source_not_enabled", "not_relevant", "relevant",
            "llm_validation_fallback", "story_kind"}
\* A run makes at most one cluster of its own for an entry.
Clusters == Items \X Runs
Stages == {"idle", "ingest", "create", "requeue", "list", "pick",
           "gate", "attach", "insert", "centroid", "llm", "notify", "finish"}
Between == {"idle", "ingest", "requeue", "list", "pick"}   \* entries
Decision == {"published", "duplicate_cluster", "other_review"}
Cards == [decision : Decision, urgent : BOOLEAN, cluster : Clusters]
Targets == [cluster : Clusters, new : BOOLEAN]
Loaded == [status : Statuses, reason : Reasons]

\* "Nothing" is a value of its own.
ASSUME NoneAssumption == None \notin Items \cup Cards \cup Targets \cup Loaded

TypeOK ==
  /\ status \in [Items -> Statuses]
  /\ reason \in [Items -> Reasons]
  /\ aged \in SUBSET Items
  /\ member \in [Items -> Clusters \cup {None}]
  /\ dedup \in SUBSET Clusters
  /\ card \in [Items -> Cards \cup {None}]
  /\ notices \in [Items -> Nat]
  /\ pc \in [Runs -> Stages]
  /\ todo \in [Runs -> SUBSET Items]
  /\ cur \in [Runs -> Items \cup {None}]
  /\ target \in [Runs -> Targets \cup {None}]
  /\ seen \in [Runs -> Loaded \cup {None}]
  \* a run knows its entry, its cluster and the loaded row where it uses them
  /\ \A x \in Runs :
       /\ cur[x] = None <=> pc[x] \in Between
       /\ target[x] = None <=> pc[x] \in Between \cup {"create", "gate"}
       /\ seen[x] = None <=> pc[x] \notin {"gate", "llm"}

Init ==
  /\ status = [r \in Items |-> "absent"]
  /\ reason = [r \in Items |-> ""]
  /\ aged = {}
  /\ member = [r \in Items |-> None]
  /\ dedup = {}
  /\ card = [r \in Items |-> None]
  /\ notices = [r \in Items |-> 0]
  /\ pc = [x \in Runs |-> "idle"]
  /\ todo = [x \in Runs |-> {}]
  /\ cur = [x \in Runs |-> None]
  /\ target = [x \in Runs |-> None]
  /\ seen = [x \in Runs |-> None]
-----------------------------------------------------------------------------
Goto(x, stage) == pc' = [pc EXCEPT ![x] = stage]

\* update_raw_status for an entry whose row the session has loaded: SQLAlchemy
\* writes only the columns that differ from the values it has seen.
WriteLoaded(r, was, s, why) ==
  /\ status' = IF was.status = s THEN status ELSE [status EXCEPT ![r] = s]
  /\ reason' = IF was.reason = why THEN reason ELSE [reason EXCEPT ![r] = why]

Row(r) == [status |-> status[r], reason |-> reason[r]]

\* The run leaves its session and its batch behind: it is over, an exception
\* has ended it, or its process has died.
Leave(x) ==
  /\ Goto(x, "idle")
  /\ todo' = [todo EXCEPT ![x] = {}]
  /\ cur' = [cur EXCEPT ![x] = None]
  /\ target' = [target EXCEPT ![x] = None]
  /\ seen' = [seen EXCEPT ![x] = None]

\* The scheduler or an operator starts the pipeline.
Begin(x) ==
  /\ pc[x] = "idle"
  /\ Goto(x, "ingest")
  /\ UNCHANGED <<dbVars, notices, todo, cur, target, seen>>

\* A feed delivers an entry that has_raw_item does not find.
FindNewEntry(x) ==
  /\ pc[x] = "ingest"
  /\ \E r \in Items : status[r] = "absent" /\ cur' = [cur EXCEPT ![x] = r]
  /\ Goto(x, "create")
  /\ UNCHANGED <<dbVars, notices, todo, target, seen>>

\* create_raw_item commits the row.
CreateRawItem(x) ==
  /\ pc[x] = "create"
  /\ status[cur[x]] = "absent"
  /\ status' = [status EXCEPT ![cur[x]] = "ingested"]
  /\ cur' = [cur EXCEPT ![x] = None]
  /\ Goto(x, "ingest")
  /\ UNCHANGED <<reason, aged, member, dedup, card, notices, todo, target, seen>>

\* Another run has inserted the same (source_id, guid) in between: the
\* IntegrityError ends the run.
CreateConflict(x) ==
  /\ pc[x] = "create"
  /\ status[cur[x]] # "absent"
  /\ Leave(x)
  /\ UNCHANGED <<dbVars, notices>>

IngestDone(x) ==
  /\ pc[x] = "ingest"
  /\ Goto(x, "requeue")
  /\ UNCHANGED <<dbVars, notices, todo, cur, target, seen>>

\* is_source_allowed_for_publication, and the relevance filter.
SourceAllowed(r) == r \notin Blocked
IsRelevant(r) == r \notin Irrelevant

\* The three requeue rules, for entries filtered out in the last 48 hours.
\* Only the last two leave entries dropped for an empty LLM card alone, and
\* only the first asks whether the source is still allowed.
RequeueBreaking == {r \in Breaking : SourceAllowed(r)}
RequeueOfficial == {r \in Official : reason[r] # "llm_validation_fallback"}
RequeuePublisher == {r \in Publisher : reason[r] # "llm_validation_fallback"}

Requeued ==
  {r \in (RequeueBreaking \cup RequeueOfficial \cup RequeuePublisher) \ aged :
     status[r] = "filtered_out"}

Requeue(x) ==
  /\ pc[x] = "requeue"
  /\ status' = [r \in Items |-> IF r \in Requeued THEN "ingested" ELSE status[r]]
  /\ reason' = [r \in Items |-> IF r \in Requeued THEN "" ELSE reason[r]]
  /\ Goto(x, "list")
  /\ UNCHANGED <<aged, member, dedup, card, notices, todo, cur, target, seen>>

\* list_raw_items_for_processing: the batch is fixed here.
ListBatch(x) ==
  /\ pc[x] = "list"
  /\ todo' = [todo EXCEPT ![x] = {r \in Items : status[r] = "ingested"}]
  /\ Goto(x, "pick")
  /\ UNCHANGED <<dbVars, notices, cur, target, seen>>

\* The run takes up an entry of its batch and loads its row, which expired at
\* the last commit.  Nothing asks whether it is still "ingested".
Take(x, r) ==
  /\ pc[x] = "pick"
  /\ r \in todo[x]
  /\ todo' = [todo EXCEPT ![x] = @ \ {r}]
  /\ cur' = [cur EXCEPT ![x] = r]
  /\ seen' = [seen EXCEPT ![x] = Row(r)]
  /\ Goto(x, "gate")
  /\ UNCHANGED <<dbVars, notices, target>>

\* The run is done with its entry; the session forgets the row it had loaded.
NextEntry(x) ==
  /\ cur' = [cur EXCEPT ![x] = None]
  /\ target' = [target EXCEPT ![x] = None]
  /\ seen' = [seen EXCEPT ![x] = None]
  /\ Goto(x, "pick")

\* The source gate or the relevance filter turns the entry down.
Reject(x) ==
  /\ pc[x] = "gate"
  /\ ~ (SourceAllowed(cur[x]) /\ IsRelevant(cur[x]))
  /\ WriteLoaded(cur[x], seen[x], "filtered_out",
       IF SourceAllowed(cur[x]) THEN "not_relevant" ELSE "source_not_enabled")
  /\ NextEntry(x)
  /\ UNCHANGED <<aged, member, dedup, card, notices, todo>>

\* Clusters that assign_cluster finds similar to the entry.
Similar(r) == {k \in dedup : StoryOf(k[1]) = StoryOf(r)}

\* assign_cluster encodes the text, reads the clusters and joins a similar one
\* or makes up a new key; the entry becomes "clustered".
Assign(x) ==
  /\ pc[x] = "gate"
  /\ SourceAllowed(cur[x]) /\ IsRelevant(cur[x])
  /\ LET near == Similar(cur[x])
     IN  \E k \in IF near = {} THEN {<<cur[x], x>>} ELSE near :
           target' = [target EXCEPT ![x] = [cluster |-> k, new |-> near = {}]]
  /\ WriteLoaded(cur[x], seen[x], "clustered", "relevant")
  /\ seen' = [seen EXCEPT ![x] = None]
  /\ Goto(x, "attach")
  /\ UNCHANGED <<aged, member, dedup, card, notices, todo, cur>>

\* upsert_cluster; attach_raw_to_cluster finds no row of the entry to change.
FindMember(x) ==
  /\ pc[x] = "attach"
  /\ member[cur[x]] = None
  /\ Goto(x, "insert")
  /\ UNCHANGED <<dbVars, notices, todo, cur, target, seen>>

\* upsert_cluster and attach_raw_to_cluster; an entry attached elsewhere moves.
Attach(x) ==
  /\ \/ pc[x] = "attach" /\ member[cur[x]] # None
     \/ pc[x] = "insert" /\ member[cur[x]] = None
  /\ member' = [member EXCEPT ![cur[x]] = target[x].cluster]
  /\ Goto(x, "centroid")
  /\ UNCHANGED <<status, reason, aged, dedup, card, notices, todo, cur, target, seen>>

\* Another run has attached the entry since; raw_item_id is unique, and the
\* IntegrityError ends the run.
AttachConflict(x) ==
  /\ pc[x] = "insert"
  /\ member[cur[x]] # None
  /\ Leave(x)
  /\ UNCHANGED <<dbVars, notices>>

\* Mutant: the centroid of a new cluster is not stored.
SetCentroid_Merge(x) ==
  /\ pc[x] = "centroid"
  /\ dedup' = IF target[x].new THEN dedup ELSE dedup \cup {target[x].cluster}
  /\ seen' = [seen EXCEPT ![x] = Row(cur[x])]
  /\ Goto(x, "llm")
  /\ UNCHANGED <<status, reason, aged, member, card, notices, todo, cur, target>>

\* set_ or merge_cluster_centroid_embedding makes the cluster a candidate of
\* deduplication; the arguments of the LLM call then reload the row of cur.
SetCentroid(x) ==
  /\ pc[x] = "centroid"
  /\ dedup' = dedup \cup {target[x].cluster}
  /\ seen' = [seen EXCEPT ![x] = Row(cur[x])]
  /\ Goto(x, "llm")
  /\ UNCHANGED <<status, reason, aged, member, card, notices, todo, cur, target>>

\* Mutant: the dropped entry is not skipped and ends as "processed".
DropCard_FallThrough(x) ==
  /\ pc[x] = "llm"
  /\ \E why \in {"llm_validation_fallback", "story_kind"} :
       WriteLoaded(cur[x], seen[x], "filtered_out", why)
  /\ seen' = [seen EXCEPT ![x] = None]
  /\ Goto(x, "finish")
  /\ UNCHANGED <<aged, member, dedup, card, notices, todo, cur, target>>

\* Mutant: the entry is skipped without a status of its own.
DropCard_KeepStatus(x) ==
  /\ pc[x] = "llm"
  /\ NextEntry(x)
  /\ UNCHANGED <<dbVars, notices, todo>>

\* The LLM fails, its card is an empty fallback, or it is of a denied kind.
DropCard(x) ==
  /\ pc[x] = "llm"
  /\ \E why \in {"llm_validation_fallback", "story_kind"} :
       WriteLoaded(cur[x], seen[x], "filtered_out", why)
  /\ NextEntry(x)
  /\ UNCHANGED <<aged, member, dedup, card, notices, todo>>

\* decide_status and the Eurostat rule: a card in an existing cluster is never
\* published automatically; the other rules may hold any card for review.
Decisions(isNew) ==
  IF isNew THEN {"published", "other_review"}
           ELSE {"duplicate_cluster", "other_review"}

NewCard(x) ==
  {[decision |-> d, urgent |-> u, cluster |-> target[x].cluster] :
     d \in Decisions(target[x].new), u \in BOOLEAN}

AfterCard(c) ==
  IF c.decision = "published" /\ c.urgent THEN "notify" ELSE "finish"

\* Mutant: an existing card of the entry is replaced.
CreateCard_Replace(x) ==
  /\ pc[x] = "llm"
  /\ \E c \in NewCard(x) :
       /\ card' = [card EXCEPT ![cur[x]] = c]
       /\ Goto(x, AfterCard(c))
  /\ seen' = [seen EXCEPT ![x] = None]
  /\ UNCHANGED <<status, reason, aged, member, dedup, notices, todo, cur, target>>

\* create_processed_news: raw_item_id is unique, so the insert succeeds for one
\* run only.
CreateCard(x) ==
  /\ pc[x] = "llm"
  /\ card[cur[x]] = None
  /\ \E c \in NewCard(x) :
       /\ card' = [card EXCEPT ![cur[x]] = c]
       /\ Goto(x, AfterCard(c))
  /\ seen' = [seen EXCEPT ![x] = None]
  /\ UNCHANGED <<status, reason, aged, member, dedup, notices, todo, cur, target>>

\* The IntegrityError is not caught: the run ends, the rest of its batch stays
\* "ingested", and the entry keeps the status this run gave it.
CardConflict(x) ==
  /\ pc[x] = "llm"
  /\ card[cur[x]] # None
  /\ Leave(x)
  /\ UNCHANGED <<dbVars, notices>>

\* The urgent Telegram notice of a card published just now.
Notify(x) ==
  /\ pc[x] = "notify"
  /\ notices' = [notices EXCEPT ![cur[x]] = @ + 1]
  /\ Goto(x, "finish")
  /\ UNCHANGED <<dbVars, todo, cur, target, seen>>

\* update_raw_status of an expired row: the columns are written blindly.
Finish(x) ==
  /\ pc[x] = "finish"
  /\ status' = [status EXCEPT ![cur[x]] = "processed"]
  /\ reason' = [reason EXCEPT ![cur[x]] = "relevant"]
  /\ NextEntry(x)
  /\ UNCHANGED <<aged, member, dedup, card, notices, todo>>

End(x) ==
  /\ pc[x] = "pick"
  /\ todo[x] = {}
  /\ Leave(x)
  /\ UNCHANGED <<dbVars, notices>>

\* The process is killed, or a database error ends the run.
Crash(x) ==
  /\ MayCrash
  /\ pc[x] # "idle"
  /\ Leave(x)
  /\ UNCHANGED <<dbVars, notices>>

\* 48 hours after an entry was created the requeue rules forget it (for other
\* entries its age plays no part).
Age(r) ==
  /\ status[r] # "absent"
  /\ r \in Breaking \cup Official \cup Publisher
  /\ r \notin aged
  /\ aged' = aged \cup {r}
  /\ UNCHANGED <<status, reason, member, dedup, card, notices, runVars>>

RunStep(x) ==
  \/ Begin(x) \/ FindNewEntry(x) \/ CreateRawItem(x) \/ CreateConflict(x)
  \/ IngestDone(x) \/ Requeue(x) \/ ListBatch(x)
  \/ (\E r \in Items : Take(x, r)) \/ Reject(x) \/ Assign(x)
  \/ FindMember(x) \/ Attach(x) \/ AttachConflict(x) \/ SetCentroid(x)
  \/ DropCard(x) \/ CreateCard(x) \/ CardConflict(x) \/ Notify(x) \/ Finish(x) \/ End(x)

Next ==
  \/ \E x \in Runs : RunStep(x) \/ Crash(x)
  \/ \E r \in Items : Age(r)

Spec == Init /\ [][Next]_vars

\* The scheduler starts a run every hour, and a run that is not killed goes on:
\* every call it makes has a timeout.
FairSpec == Spec /\ \A x \in Runs : WF_vars(RunStep(x))
-----------------------------------------------------------------------------
Published(r) == card[r] # None /\ card[r].decision = "published"

\* An urgent card is announced by the run that created it and by no other:
\* at most once, and never for a card that is held for review.
NoticeAtMostOnce ==
  \A r \in Items :
    /\ notices[r] <= 1
    /\ notices[r] = 1 => Published(r) /\ card[r].urgent

\* An entry is "processed" only once its card exists, whichever run wrote the
\* status last.
ProcessedHasCard ==
  \A r \in Items : status[r] = "processed" => card[r] # None

\* However runs, requeues and conflicts interleave, an entry gets its card
\* once, the card stays as it was made, and its notice follows it.
Ledger == INSTANCE CardLedger
LedgerSpec == Ledger!Spec

\* With one run at a time: of the entries telling one story at most one is
\* published automatically; the others meet its cluster and are held, whatever
\* was killed, dropped or requeued before.
OneAutoPublishPerStory ==
  \A r, s \in Items :
    Published(r) /\ Published(s) /\ StoryOf(r) = StoryOf(s) => r = s

\* An entry that is "clustered", has no card and is in no run's hands: nothing
\* lists or requeues it again.
Stranded(r) ==
  /\ status[r] = "clustered" /\ card[r] = None
  /\ \A x \in Runs : cur[x] = r => pc[x] \notin {"attach", "insert", "centroid", "llm"}

\* With one run at a time: only a run that ends in the middle of an entry (killed,
\* or by an exception) leaves the entry stranded; what a run says of an entry it is
\* done with is always a status that some later run can act on.  (Of two runs, the
\* second can drop an entry without a word: it loaded "filtered_out", so it writes
\* nothing over the "clustered" of a first run that took the entry up again and died.)
StrandedByCutOnly ==
  [][\A r \in Items : ~ Stranded(r) /\ Stranded(r)' =>
       \E x \in Runs : cur[x] = r /\ pc'[x] = "idle"]_vars

\* Without a kill, an ingested entry is eventually filtered out or has a card,
\* even when runs race and end each other with conflicts.
EventuallySettled ==
  \A r \in Items :
    status[r] = "ingested" ~> (status[r] = "filtered_out" \/ card[r] # None)
=============================================================================
