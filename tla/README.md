# Verification of NewsDeForRu

TLA+ modules, TLC configurations and TLAPS proofs about the news service in this
repository: a FastAPI backend that ingests feeds and official data, has a language model
write them up in Russian, publishes cards and announces them on Telegram, and a React
client (also an Android app) that shows the feed and synchronises a reader's library and
listening queue.

Paths are relative to `backend/app/` unless they start with `frontend/`, which stands for
`frontend/src/`.

## 1. Inventory

| Component | State | Operations | Hard behaviour |
|---|---|---|---|
| Job lock, table (`repositories/job_lock_repository.py`) | `app_job_locks`: holder, locked_until | `_ensure_row`, `try_acquire`, `release` | several processes, a clock read before the UPDATE, crash while holding, jobs longer than the lease |
| Job lock, PostgreSQL (`tasks/*_task.py`, `core/database.py`) | session-level advisory lock, connection pool | lock, commits of the body, unlock | the lock belongs to a connection, the session changes connections at every commit, a full pool closes the one that comes back |
| Pipeline (`services/pipeline_service.py`, `repositories/news_repository.py`) | `raw_news_items`, `news_clusters`, `cluster_items`, `processed_news` | ingest, requeue, filter, assign cluster, LLM, decide, create card, notify | scheduler and `POST /pipeline/run` overlap without a lock, stale ORM rows, an uncaught IntegrityError, kills |
| Official data (`services/official_data_ingestion.py`, `govdata_ingestion.py`, `data_europa_ingestion.py`, `open_license_gate.py`) | revisions kept as guids of `raw_news_items` | visit, fetch, classify a licence, tell | publishers revise during a run, failing files, two runs, licences of entry and file |
| Publication policy (`rss_sources.py`, `relevance_filter_service.py`, `urgent_news.py`, `publication_service.py`, `news_attribution.py`, `primary_source.py`, `official_press_matcher.py`) | settings, `processed_news` | decide, attribute, match a press release, quarantine, unpublish | precedence of rules, the same question asked in several places at different times |
| LLM providers and guards (`llm_openai_provider.py`, `schemas/llm_output.py`, `publisher_text_guard.py`) | none | ask, retry, repair, validate, compare with the feed's text | malformed answers, copies |
| Telegram delivery (`tasks/telegram_digest_task.py`, `services/telegram_notifier.py`) | `telegram_notified_at` | digest slot, urgent notice, approval notice, mark | three senders; send and mark are two steps; late answers, retries |
| Moderation (`api/routes/moderation.py`) | `publication_status`, `moderation_events` | approve, reject, edit | check and write of a loaded row, concurrent moderators |
| Feed (`news_repository.list_published`, `frontend/hooks/useInfiniteFeed.ts`, `useUsefulSavedFeed.ts`) | cursor, pages of the client | page, switch tab, render | publication and withdrawal between pages, answers of an older request, cards hidden on the client |
| Sessions (`api/routes/auth.py`, `frontend/context/AuthContext.tsx`) | `app_refresh_tokens`; a pair in memory and one in localStorage | login, refresh, me, logout, delete | rotation raced by parallel calls and pages |
| Mailed links (`password_reset_service.py`, `email_verification_service.py`) | two token tables | ask, void the old, issue, use | several commits per request, crashes between them |
| Library (`user_library_repository.py`, `frontend/lib/userLibrarySync.ts`, `librarySyncQueue.ts`) | saved and read marks with time stamps, tombstones, queue of removals | mark, unmark, flush, reconcile, purge | several devices, several accounts on one device, storage changed during an await |
| Listening (`user_listening_repository.py`, `frontend/lib/listeningSync.ts`, `listeningState.ts`, `frontend/context/ListeningContext.tsx`) | one document with one time stamp | queue, play, flush, pull | as above, with a player that keeps a copy of its own |
| Engagement, urgent push, source URL check, monitoring, scripts and migrations, speech engines, pages | | | see section 7 |

Interaction: the scheduler (`workers/scheduler.py`) starts the pipeline every hour, the digest
at fixed hours and the link check daily.  Digest and link check take a job lock; the pipeline does
not.  The pipeline writes cards; digest, moderation and feed read and change the same
rows.  Requests run in threads beside the scheduler and share the process's connection pool.
The client talks to the API only; its pages share localStorage.

What makes the components correct:

* a job runs in one process at a time, and its lock comes back after a crash;
* an entry gets one final card, a story one automatic publication, and no entry is lost half-way
  or taken up for ever;
* a card goes out by itself on its merits only, names one source everywhere, and is not a copy;
* data that has not changed is not news, data that has changed becomes news, and forbidden files
  are not taken;
* nothing is announced that was not released, the mark means a message, a duplicate needs a
  fault, and every digest card is announced in the end;
* a token or a link is good once, and a session is lost only for a reason;
* a mark, removal or queue made last wins on every device, arrives in the end, and does not come to
  another account;
* a feed shows every card once, to its end.

`PROJECT.json` lists every component and every hazard at its line.

## 2. Modules

A specification has its constants, variables, one action per operation and its properties in one
module; `MC...` modules hold the instances for TLC; `...Proofs` modules hold the theorems.

| Module | Models | Against the code |
|---|---|---|
| `JobMutex` | what a job lock promises | abstract specification |
| `JobLock` | the lock row | one action per statement of `JobLockRepository`, which a worker process (`Workers`) runs; `Begin`/`InsertRow` are the halves of `_ensure_row`, `ReadClock`/`Acquire`/`Busy` those of `try_acquire` |
| `AdvisoryLock` | the PostgreSQL lock | the pool of a process is a queue of idle connections (SQLAlchemy's QueuePool is first in, first out), with an overflow that is closed on return (`CheckIn`); the session gives its connection back at `BodyCommit` and `JobEnd` and takes one at `JobStart` and `Touch`; `RequestBegin` and `RequestEnd` are any other session of the process |
| `LockProofs` | theorems about both locks | extends both; the names of `JobLock` that would clash start with `Row` |
| `CardLedger` | what the pipeline promises feed and channel | abstract specification |
| `NewsPipeline`, `MCNewsPipeline`, `PipelineProofs` | `PipelineService.run`, interleaved | one action per repository call; `pc` of a run is its next statement |
| `CardPolicy`, `MCCardPolicy`, `CardPolicyProofs` | what the run decides about one entry | the rules as operators (`Relevance`, `Urgent`, `Mode`, `Publishable`, `Cited`, ...), the run as actions that apply them; `Approve`, `Reject`, `Edit`, and the scripts `Quarantine`, `Unpublish`, `DropBacklog` |
| `PrimarySource` | the source an entry may cite | `extract_primary_source` and `OfficialPressCatalog`, `find_official_release` |
| `ModelAnswer` | what an answer of the model is | `parse_llm_news_json`, `LLMNewsOutput`, the overlap guard |
| `DatasetIngestion`, `MCDatasetIngestion`, `PipelineProofs` | the four dataset services | a run is a list of visits; the files of an entry it has still to fetch are a set, and `First` is the next of them; `TableMeta`, `VisitSeries`, `VisitPackage`, `Fetch`, `Check`, `Create` are its requests and commits; `Unread` is what a service catches and passes over, `Uncaught` and `Conflict` what ends the run, and a file `urlparse` refuses cuts off what comes after it |
| `NewsDelivery`, `MCNewsDelivery`, `NewsDeliveryProofs` | a card after the pipeline has made it | the actors are moderators' requests, the digest, and one urgent sender per card |
| `FeedPages`, `MCFeedPages`, `FeedPagesProofs` | a reader's feed | `Open`, `LoadMore`, `Render`, `Switch` are the hook, `Serve` the endpoint, `Answer` and `Fail` its promise |
| `Sessions`, `MCSessions`, `AccountsProofs` | tokens of one account over the pages of a browser | `stage` of a call is where it stands between browser and server; `Check`/`Revoke`/`Issue` are the statements of `refresh`; `Login` is the form of a page that is signed out, `VerifyEmail` a mailed link opened at any time |
| `AccountLinks`, `MCAccountLinks`, `AccountsProofs` | verification and reset links | `Read`, `Clear`, `IssueLink`, `Commit` are the transactions of a request |
| `LibrarySync`, `MCLibrarySync`, `LibrarySyncProofs` | marks of saved and read cards | a step is a synchronous stretch of the client; an upload is `Load` and `Commit` on the server |
| `ListeningSync`, `MCListeningSync`, `ListeningSyncProofs` | the listening queue | the same shape, with the player's own copy of the queue (`ref`) |

Composition: `JobLock` and `AdvisoryLock` both implement `JobMutex`; `NewsDelivery` has one digest
actor because of them.  `NewsPipeline` implements `CardLedger` and leaves its verdicts open, within what
`CardPolicy` shows the rules to decide; `CardPolicy` is built from `PrimarySource` and `ModelAnswer` and has
one run after the other, whose interleaving `NewsPipeline` has.  `NewsDelivery` starts where they end, `FeedPages`
shows what both have published.

Modelling decisions a reader should know:

* **Steps.** A step of the server ends with a commit or a slow call (embedding, LLM, HTTP).  The commits of
  the three requeue rules are one step of `NewsPipeline`, and so are the insert of a cluster's member and the recount
  that follows: no other component reads the state between them.
* **Rows in a session.** SQLAlchemy expires rows at a commit, reloads a row when an attribute is
  read and writes only columns that differ from what it has loaded.  `seen` (pipeline), `request`
  (moderation) and `task.rows` (library) hold the loaded row; `WriteLoaded`, `Apply` and `Commit` leave a
  column alone that equals it.  `Finish` of the pipeline writes blindly because nothing has reloaded the row
  after `create_processed_news`.
* **Time.** `JobLock` keeps times relative to the present, so that its state space is finite.
  In the pipeline, the policy and the delivery age is one bit: past the 48 hours of the requeue rules, past
  `telegram_digest_max_age_hours`.  In the sync modules each edit has a time of its own; clocks of
  devices agree, since the code has no way to notice that they do not.
* **Similarity** of entries is an equivalence, `StoryOf`, and all entries lie within the lookback
  of `assign_cluster`; the real measure is a cosine against a moving centroid.  In `CardPolicy` it is two
  numbers per entry, the scores of the closest anchors (`near`, `far`), in percent.
* **Texts** are sets of word classes, one word for each list of keywords a rule looks into; links carry the kind
  of their host; an answer of the model is the class of each of its fields and the common runs it has with the
  feed's text, each with its pair of segments and its place: `find_longest_match` reports one of a pair (`Reported`).  `Prefixes` names the pairs of words of which one starts the other.
* **Verdicts** in `NewsPipeline`: the LLM's card may be usable, empty or of a denied kind, and a card of a new
  cluster may be published or held.  The rule for existing clusters is kept, with
  `auto_publish_review_on_duplicate_cluster` at its default.
* **Requeue and settings** in `CardPolicy`: the requeue rules are an action of their own, guarded as each rule is;
  a change of settings is a restart of the process, since they are read once; an edit of a moderator
  replaces the text of the card.
* **Order of a batch** is arbitrary; the code orders by publication time, which the feeds choose.
* **Notices.** `NewsPipeline` counts attempts of a run to announce its card; `NewsDelivery` models the attempt
  itself: a failed request may nevertheless have reached the channel, `sendPhoto` falls back to `sendMessage`, and the
  next attempt follows.  A sender without Telegram configured does nothing and is left out.
* **Revisions.** A dataset has a body and a stamp.  A table is known by its update stamp or the hash of what was
  fetched, a file by its hash; a body that is too large or an HTML page is one value, `Unreadable`.  What the run does not
  catch are values as well: `Raises` (`httpx.InvalidURL`), `Unparsable` (`urlparse`), and the data in `Refused`, whose row the
  database does not take.  A licence text is a set of words; a restriction no marker matches ("CC BY NC 4.0") is `respelt`.
* **Feed.** A card's place in an order is given by numbers (`when`, `score`), with ties; the cursor is the id
  of the last card, looked up again on the server as the code does.
* **Mutants.** Operators `X_Something` before a definition `X` are plausible bugs in the code `X`
  models (a dropped condition, a result not looked at, a missing write).  Each property has one that breaks it;
  they are not part of any specification.

## 3. Runs

| Run | Instance | Shows |
|---|---|---|
| `job_lock` | three processes, lease 3 ticks, jobs of at most 2 | the lease is held while the job runs (`LeaseHeldWhileRunning`), the row implements `JobMutex` (`RowMutexSpec`), and a row left locked by a dead process frees itself (`LockComesBack`) |
| `advisory_lock` | two processes whose pools keep two connections and open one more, failing statements, kills | the lock implements `JobMutex` for the jobs whose lock the pool has not closed (`MutexSpec`), although connections change hands; a lock left behind needs a failed statement or a second connection (`OrphanIsExplained`) |
| `pipeline_single` | three entries, two stories, one run at a time, kills | one automatic publication per story (`OneAutoPublishPerStory`); an entry is stranded only where a run was cut off (`StrandedByCutOnly`) |
| `pipeline_concurrent` | two entries of one story (one breaking, one of an official source that is not enabled), two runs | nothing is `processed` without a card, `CardLedger` is implemented, and every entry is settled although runs end each other with conflicts (`EventuallySettled`) |
| `card_policy` | one entry of each of 18 kinds, three settings, twelve answers, two press feeds | automatic publication has merits (`PublishedOnItsMerits`); instruction, notices and page name one source (`OneVoice`); a primary source is unambiguous (`PrimaryIsClear`); a card is a valid report and no copy (`CardIsOwnWork`); no entry is taken up for ever (`EventuallySettled`) |
| `dataset_ingestion` | a table, a series, a catalogue entry with three files of which one may end the run, two runs, one revision, one fault | what has not changed is not told again (`NoEcho`); a licence that forbids is obeyed (`LicenceGate`); every lasting revision arrives unless something before it ends every run (`RevisionArrives`) |
| `delivery` | two cards of a cluster, one moderator, two failures | the mark means a message (`MarkedMeansSent`), a duplicate needs a fault (`DuplicateNeedsFault`), every card of the digest is reached (`DigestReaches`) |
| `feed_pages` | four cards, pages of one, four tabs, two moves, two events | no card twice (`NoRepeat`), none missing at the end (`EndIsComplete`), the SQL rule and the Python rule for what is visible agree (`RulesAgree`), a list does not stay empty while pages are left (`EmptyListAdvances`) |
| `sessions` | a page with two calls at a time, a second page, four pairs | a refresh token is exchanged once but for a race on the server (`RotatedOnce`), a sign-out is final (`SignedOut`), a page presents its newest token (`PresentsNewest`), a lost session has a cause (`LossIsExplained`) |
| `account_links` | one account, three links, two requests, crashes | one live link of a kind (`OneLiveLink`), used once (`LinkUsedOnce`), and only the newest (`NewestLinkWorks`), but for requests that overlap |
| `library_sync` | a private and a shared device, two accounts, three edits, lost requests | a confirmed removal stands (`NoResurrection`), a queued one is kept (`RemovalNotForgotten`) and arrives (`RemovalArrives`), marks change accounts only through two known gaps (`LeakIsExplained`) |
| `listening_sync` | the same devices, one with a full queue that is being spoken, queues of two out of three cards | a spoken card leaves the queue by the reader's hand only, but for one gap (`PlayedCardStays`), the account's document does not get older (`NeverOlder`), changes arrive (`ChangeArrives`), queues change accounts only through known gaps (`LeakIsExplained`) |

**Bounds, and why they are enough.**

* `MaxRun` and `TTL` are in ticks; the longest job ends one tick before its lease.  Three processes are needed: one that
  holds the lock, one that compares with an old clock value, one that inserts the row late.  `MaxDepth` 2 lets a
  connection take the advisory lock again over an orphan.  A pool that keeps two connections and opens a third is full
  when two sessions have ended and the job's commit comes third; `core/database.py` leaves the sizes at SQLAlchemy's 5 and
  10, for which the theorems hold as for any others.
* Two runs over two entries contain every conflict of two runs over one entry and the batch that is left
  behind; a third run would meet the same conflicts.  The three entries of `pipeline_single` make a cluster grow, be
  requeued and be joined.
* `card_policy` has a sample for each branch a rule can take, with the words that touch two rules at once
  ("polizei", "unfall", "explosion" and its negation), links that are clear and links that are not, and releases that
  match alone, twice, too late and with a rival.  One change of settings is a change between any two steps.
* Two runs, a revision and a fault meet each other in `dataset_ingestion` in every order; of the three files of the entry
  one is a service, one is told, and one, read before it, is unreadable,
  raises, or is refused by `urlparse`, and may be mended, or replaced by data whose row the database refuses.
* `MaxFaults` 2 in `delivery` allows a failure in two senders or two of one; `MaxPosts` 2 is one retry, after which
  the sender gives up; one message per slot makes the digest need several.
* Pages of one card give the feed a boundary between any two cards; two cards of one instant need the tie-break;
  two moves and two events are one interference with each half of a request.
* Four pairs allow three rotations: two that race and one that follows.  Three links are an old, a new and a newer one.
* Time 3 with a retention of one tick lets a tombstone be purged while an older mark is still under way.  Two requests on
  their way are what an overlap needs.  Two moves in `listening_sync` sign one reader out and another in, and edits and moves together are three
  (`MaxActs`); the shared device alone was also checked with four moves (`LeakIsExplained`), and the theorem is about any number.  Its
  player speaks a card of a full queue from the beginning, so that a remote document can displace it in two steps.

Where actors are unbounded in reality, the theorems of section 5 hold for any number of them.

**Deadlock** is checked in `job_lock`, `advisory_lock`, both pipeline runs, `delivery` and `dataset_ingestion`, whose
actors always have a next job.  It is switched off in the others, since their systems come to rest: a reader who has
used up the edits and moves of the instance, all links spent, an entry settled.

**Conditions that matter.**  `OneAutoPublishPerStory` and `StrandedByCutOnly` are checked, and proved, for one run at a time, and
`DuplicateNeedsFault` for one moderator; section 6 says what happens otherwise.

## 4. Fairness

| Specification | Assumed | Because |
|---|---|---|
| `JobLock` | time passes; a process that has begun its task goes on | statements return or fail; nothing forces the trigger to fire, and crashes may come first |
| `NewsPipeline` | each run takes its next step | the scheduler starts one every hour and every call has a timeout; kills are excluded in this run, as an entry cut off between `clustered` and its card stays there (`StrandedByCutOnly`) |
| `CardPolicy` | the pipeline takes a step when it can, and the entry ages | the same scheduler, the clock; which settings, feeds and answers come is open |
| `DatasetIngestion` | each run takes its next step | the same scheduler; faults and kills are bounded and may come at any time |
| `NewsDelivery` | the digest job takes its next step | a cron job; nothing makes moderators or the pipeline act |
| `FeedPages` | requests are answered or fail, React renders, the observer fires while the list is empty | the sentinel is in view then, and is observed anew after every answer |
| `LibrarySync`, `ListeningSync` | the steps of a device: its timers, and its requests on both sides | browser timers fire and every request has an answer or an error; nothing makes the reader act |

`AdvisoryLock`, `Sessions` and `AccountLinks` have safety properties only.  All fairness is weak.

## 5. Proofs

TLAPS checks the following for every value of the constants that satisfies the named `ASSUME`s of the modules
(any number of processes, cards, devices, accounts, requests, and any bound).  TLC evaluates the same assumptions
in the runs.

* `LockProofs`, of the row: `RowTypeCorrect`, `RowLeaseHeld` (`[]LeaseHeldWhileRunning`) and `RowLockIsMutex`
  (`RowMutexSpec`: `JobLock` implements `JobMutex`), the last two from `MaxRun < TTL`.  Inductive:
  `RowTypeOK /\ LeaseHeldWhileRunning`.  A process in the body owns the row with `left = TTL - age > 0`; a competitor
  whose clock value is `a` ticks old needs `left + a <= 0`.
* `LockProofs`, of the advisory lock: `TypeCorrect`, `LockIsMutex` (`MutexSpec`), `ExclusiveWithoutOverflow` (`[]Exclusive`, from
  `MaxOverflow = 0`) and `OrphansExplained` (`[]OrphanIsExplained`).  The invariant says that
  connections stay with their process and in one hand (`ConnInv`), that the process of a running job owns the lock on some open
  connection unless the pool has closed that (`OwnerInv`), and that a process without failures and with one connection holds the
  lock once, only while its job runs (`CleanInv`).  The session's connection itself is no part of it: it is mostly another one.
  `MutexSpec` is about the jobs that still have their lock, and says that nothing but a surplus connection takes it from them.
  Without overflow no connection is surplus: those in use and those idle are different ones (`Unshared`), so a pool that gets one
  back is not full, by the pigeonhole theorem of the library.
* `PipelineProofs`, of `NewsPipeline`: `TypeCorrect`, `NoticesSafe` (an entry is announced once at most, and only if its card is published and
  urgent), `ProcessedSafe` and `PipelineKeepsLedger` (implementation of `CardLedger`).  `LedgerInv` adds what a
  run knows between two commits: a run at `notify` works on an entry with a published urgent card and no notice yet, and
  no other run is there for the same entry; a run at `finish` works on an entry that has a card.  The properties
  alone are not inductive, since `Finish` and `Notify` do not look at the card.
  With one run at a time (`OneRun`), `OnePublishedPerStory` (`[]OneAutoPublishPerStory`) and `StrandingNeedsCut`
  (`StrandedByCutOnly`), from `SingleInv`: an automatically published card founded its cluster, whose centroid is stored
  before the card; a run in a new cluster has found no published entry of its story; and what the session has loaded is
  what the row says.  `NothingStrands` needs no such premise: without kills any number of runs strands nothing, because an
  entry that is `clustered` is always in the hands of some run that will not take its own decision for written and can
  still attach the entry (`InGoodHands`).
* `PipelineProofs`, of `DatasetIngestion`: `DataTypeCorrect`, `NothingToldTwice` (`[]NoEcho`) and `LicencesAreKept`
  (`[]LicenceGate`), from `IngestInv`.  Both properties are about rows that are inserted long after the run has looked, so the
  invariant says what a run carries from request to request.  The files it has left belong to one entry, none of them
  under a licence that forbids it in every text it has had, and what it may cite has had an open one (`CarriedBy`, with
  `Remembered`: the covering licence is one the file has had).  What it has fetched is named by its data alone, but for series
  (`NamedBy`, and `RowsNamed` of the rows).  And what it is about to insert was unknown when it counted the rows, and is as long as the
  count is the same (`LookedBy`).  Then a row that repeats its predecessor is `blind`: the hash of equal data is equal, and
  `_should_skip_genesis_item` would have found it in the newest row.  Series are no part of it, since their revision contains the stamp.
* `CardPolicyProofs`: `TypeCorrect`, `MeritsHold` and `VoicesAgree`.  `MeritsHold` is about any thresholds with
  `MinRelevance <= AutoRelevance` and `10 < AutoRelevance` (`LimitsAssumption`; the code's are 34 and 50, in percent): a score that is high enough was
  then either accepted by `evaluate` or stands below the off-topic one (`ScoredOffTopic`).  The invariant `Faithful` ties the
  card to the row it was made from (rights, licence, the source the model was told), so that neither later settings nor
  scripts nor moderators part them.  Rules and samples are arbitrary.
  `PrimarySourceIsClear` (`[]PrimaryIsClear`) is a statement about the matching itself, for any feeds, words and
  thresholds: the releases of the feeds that answered are finite in number, so one ranks first; a release about another
  event that matches as well would tie with it or beat it, and a tie is refused.  `_is_same_release` lets ties between near copies
  pass, and whether copies are about one event is no fact about the code, so that is the premise, `TitlesTell`; TLC
  evaluates it on the instance.  The invariant is `Origins`: a row keeps the source its entry came with.
  `OwnWorkHolds` (`[]CardIsOwnWork`) adds what is between the model's answer and the card (`Judged`), and that of the runs one pair of
  segments shares one is reported, and of those one decides (`LongestRun`), which is where `Hidden` comes from.
* `NewsDeliveryProofs`: `TypeCorrect`, `ReleasedOnly` (nothing is announced that was neither published by the pipeline nor
  approved) and `MarkIsEarned`.  `DeliveryInv` adds that published cards, the digest's list and the card of every sender are
  released, and that a sender about to mark has sent; releases are never taken back, so a list read long ago is
  still good.
  `DuplicatesNeedFaults` (`[]DuplicateNeedsFault`, from `OneModerator`) and `AutomaticSentOnce` (the same bound for cards the
  pipeline published, with any number of moderators) rest on `SendersInv`: every card has one kind of sender only, the urgent
  ones the run that made them, the others the digest, held ones their moderator (`Apart`), and a message that no failure
  pays for has a sender before its mark, or the mark (`Counted`).
* `AccountsProofs`, of `Sessions`: `TypeCorrect`, `ExchangedOnce` (`[]RotatedOnce`) and `SignOutIsFinal` (`[]SignedOut`).
  `Issuance`: what a page or call holds was issued.  `Exchange`: of a token nobody raced for, one request at most is between
  check and answer, and once it has revoked the token the row says so.  `AfterSignOut`: while nothing has disturbed a sign-out,
  every call is idle or a sign-out itself.
  A second invariant, `History`, gives the action properties `NewestIsPresented` (`PresentsNewest`) and `LossHasAReason`
  (`LossIsExplained`): a pair a call has got and not stored yet is nobody else's, and what a page has replaced cannot be
  exchanged any more (`Lineage`); a page that loads has no other call that could change what it holds (`Loads`); neither the
  browser nor a page goes back to a token the page has replaced (`Newest`); and a token that two calls present, or that is
  revoked under one, has been sent twice (`Presentations`).
* `AccountsProofs`, of `AccountLinks`: `LinksTypeCorrect`, `OneLinkLives`, `LinkWorksOnce` and `OldLinkRefused` (the three properties of
  the run), from two invariants: links are issued in order (`LinksIssued`), and a link that nobody raced for
  is unused when its use commits (`Used`).
* `LibrarySyncProofs`: `TypeCorrect` and `RemovalsStay` (`[]NoResurrection`).  The invariant `Floor` says that a confirmed
  removal, and whatever an upload has read, is covered: its row tells of something at least as late, or its time is past
  the retention, or uploads overlapped on the row.  It needs the second part because an upload that writes nothing
  still confirms its removals, on the strength of rows it has read before.  The lemmas behind it say that upserts, removals and
  purging never move what a row says last backwards while it counts.
  `LeaksAreExplained` (`[]LeakIsExplained`) and `RemovalsAreKept` (`RemovalNotForgotten`) follow from `History`: storage,
  requests and rows hold only marks that somebody may have made there (`Origins`, `Explained`), a reconcile is for the account of
  its slot (`OwnSlots`), and an answered upload has its removals in the rows, unless they no longer count (`Confirmed`).
* `ListeningSyncProofs`: `TypeCorrect`, `PlayedCardsStay` (`PlayedCardStays`), `NeverReplacedByOlder` (`NeverOlder`) and `QueuesStayApart`
  (`[]LeakIsExplained`).  `TypeCorrect` says that no queue outgrows `MAX_LISTEN_QUEUE` or holds a card twice, in `localStorage`, in the player, in
  a request or at the server (`AllNeat`).  `PlayedCardsStay` rests on what the edits of `listeningState.ts` do to a queue of any length: `Trimmed` (the limit drops
  one item, and not the current one when there is another), `Ensured`, `Removed`, `KeptItems`; `PlayerEdits` puts them together: whatever
  the reader does, the new document is made of items of the player's copy and one of the reader's own.  The spoken card need not be
  the current one: an adopted document may have named another (`adopted`), and then only a full queue drops it (`Displaced`).
  `NeverOlder` needs `Compared`: an upload past the comparison is not older than the row it has loaded.  `LeakIsExplained` needs
  `Apart`: every copy of a queue fits its account, at the server (`RowsApart`), in a request, both what it carries and what it has
  loaded (`TasksApart`), and on a device for whoever is signed in there or owns the queue (`LocalApart`), or the account is one of `mixed`.
  TLC had found the history variable `mixed` too narrow once a device makes more than two moves: a late answer can leave
  the queue of one reader under the ownership of another without changing a document.  `Mix` and `Stray` now cover that,
  `ChangeArrives` excuses `Stray` only, and the theorem holds for any number of moves.

* `FeedPagesProofs`: `TypeCorrect`, `FeedNeverRepeats` (`[]NoRepeat`), `EndMissesNothing` (`[]EndIsComplete`) and `SqlAndPythonAgree`
  (`[]RulesAgree`).  `Paging` is inductive.  Of the requests that are still the latest of their list there is one of a kind, and none
  for a further page beside one for the first (`OneOfAKind`, `Starting`), and they go on from the cursor of the open tab (`Following`).
  The list, and the list each answer under way would make of it, are sorted and end at their cursor (`Ordering`).  What has
  been on the server since the first page is in that list or behind that cursor (`Completeness`).  The stronger form is needed
  because an answer is worked out long before it is appended.  The lemmas are that the two `ORDER BY`s are
  strict total orders (`FeedIsOrder`, `TopIsOrder`: the id decides a tie), and what a page of a sorted list is for any number of
  cards.  `RulesAgree` holds in every state, by `SourcesAssumption`: an official source is never also in the catalogue of feeds.

Type invariants are proved rather than run.

The assumptions on constants are those the code's types and loops give: feeds, lists of links and the set of cards are finite, times and scores are numbers, a file is named by its entry and its own id (as
`govdata_content_revision` does), a feed has
one release per URL, thresholds are natural numbers.  The theorems with a further premise state it: `MaxRun < TTL`, `OneRun`,
`OneModerator`, `~ MayCrash`, `TitlesTell`.

A page of the feed is cut from a sorted set of cards (`Ordered`), and the files of an entry are a set with an order of their own
(`First`, `Selected`).  What sorting a list returns would be induction over data, which cannot be proved here; that a
finite set has a first element, and a sorted list, follows from the theorems of the library.

Every safety property, action property and refinement that a run checks is stated by a theorem.

**Only model-checked:** all liveness (`LockComesBack`, the two `EventuallySettled`, `DigestReaches`, `RevisionArrives`, `EmptyListAdvances`,
`RemovalArrives`, `ChangeArrives`), which is out of the prover's reach, and that the mutants break what they should.

## 6. Known divergences

Places where the code does something a reader of it may not expect.  The properties exclude them by name or by instance, so
that everything around them is checked; the change in brackets makes TLC show them.

* A job that outlasts its lease frees the row of its successor: `release` does not ask who holds it
  (`repositories/job_lock_repository.py:35`).  [`MaxRun = 4` in `JobLock.cfg`]
* The advisory unlock may be sent on a pooled connection that does not own the lock, without any failure
  (`tasks/telegram_digest_task.py:83`); the lock then stays until the connection closes.  [`MayFail = FALSE` in `AdvisoryLock.cfg`, and
  `OrphanIsExplained` without its last disjunct]
* The connection that owns the advisory lock may be closed under the running job: `core/database.py:32` leaves the pool at five idle
  connections and ten beyond, and one that comes back to a full pool, after a commit of the body or a request that borrowed it, is
  closed, and its lock with it.  A second process then enters the job.  `MutexSpec` leaves such a job out (`exposed`), and
  `Exclusive`, which does not, is violated in the run's instance and proved without overflow.  [`Exclusive` as an
  invariant in `AdvisoryLock.cfg`]  Connections that the server or the network loses are not modelled.
* Two overlapping runs may publish one story twice: both look for clusters before either has stored a centroid
  (`services/dedup_service.py:30`).  The repository's README asks for the schedulers to run in one process, but
  `POST /pipeline/run` is not covered by that.  [`Runs = {x, y}` in `PipelineSingle.cfg`]
* Of two overlapping runs one can drop an entry without a trace: it has loaded `filtered_out`, so SQLAlchemy writes nothing over
  the `clustered` of another run that took the requeued entry up and was killed, and no rule lists the entry again
  (`repositories/news_repository.py:427`).  [`Runs = {x, y}` in `PipelineSingle.cfg`, for `StrandedByCutOnly`]
* An entry dropped for an empty LLM card comes back if it is breaking news: `requeue_filtered_breaking_news`
  (`repositories/news_repository.py:324`) does not look for the fallback.  It then meets the centroid of its own
  cluster and is held as a duplicate of itself.
* Two moderators who approve at the same moment both announce the card (`api/routes/moderation.py:114`).
  [`Moderators = {m, n}` in `Delivery.cfg`]
* Of an approval and a rejection at the same moment the later may be recorded without effect: a status equal to the loaded
  one is not written, the audit event is (`repositories/news_repository.py:834`).
* An urgent notice that fails for good is not retried, since the digest leaves urgent cards out (`services/pipeline_service.py:429`).
* A publisher's entry closer to an off-topic anchor than to one of daily life is let through to be drafted, and may be
  published automatically: `evaluate` without the bypass rejects it, but returns its own score (`services/relevance_filter_service.py:101`),
  and `decide_status` compares that only (`services/publication_service.py:74`).  The comment at `services/pipeline_service.py:313`
  says that sport and celebrity items would otherwise pass; these do.  [`ScoredOffTopic` replaced by `FALSE` in
  `PublishedOnItsMerits`, for the entry "rente theater" of `MCCardPolicy`]
* A copied run escapes the text guard behind a run of more but shorter words: the longest is chosen by
  words first (`services/publisher_text_guard.py:77`).  In one pair of segments `find_longest_match` reports one run only, of several
  as long the first (`:73`), so a copy may also stand behind one of as many, shorter words.  `Hidden` in `CardIsOwnWork` is these shapes.
* A file can end the run, and every run after it, at the same place: `httpx.InvalidURL` is no `httpx.HTTPError`
  (`services/govdata_ingestion.py:211`, `data_europa_ingestion.py:309`), `urlparse` is called outside the `try` (`govdata_ingestion.py:79`,
  `data_europa_ingestion.py:141`), and an insert the database refuses is not caught either; `PipelineService.run` (`pipeline_service.py:91`)
  has no `try` of its own.  What comes later in the order of the services waits until the publisher mends the file: `Barred` in
  `RevisionArrives`.  [without `~Barred(x)` in `Wanted`]
* A restriction spelt with blanks ("CC BY NC 4.0") matches no restrictive marker and is taken as an open licence
  (`services/open_license_gate.py:148`), though the docstring (`:109`) promises to fail closed.  `LicenceGate` is about the words
  the gate knows.  [`{"restricted", "respelt"} \cap text = {}` in `LicenceGate`]
* A spoken card is dropped from a full queue when the document of another device has been adopted meanwhile and names another current card:
  `trimQueue` spares that one (`frontend/lib/listeningState.ts:160`).  `Displaced` in `PlayedCardStays` is this case.
  [`PlayedCardStays` without it]
* Playback stops at a card whose script is not loaded, with the queue unfinished (`frontend/context/ListeningContext.tsx:174`).
* A sign-out that a rotation under way overlaps may be followed by the stored answer of that rotation, which signs the page in again
  (`frontend/context/AuthContext.tsx:100`); calls that rotate in parallel can cost the session (`:150`), and a page load can store an old pair
  over a newer one (`:241`).  `SignedOut` is about undisturbed sign-outs, and `LossIsExplained` and `PresentsNewest` name the others.
* A press release that would be ambiguous becomes the source when the rival's feed fails: `PrimaryIsClear` is judged by
  the feeds that answered.
* Two requests that rotate one refresh token together both get a pair, two that use one link together both work, and
  two that ask for links together may leave two: check and write are separate statements.  `raced`, `contended` and `crossed` name them.
* In the library, a flush before the first reconcile uploads the marks of the last owner (`early`), and edits made then
  count for the new one (`stray`).  In the listening queue the player's copy, a late answer and a queue whose owner was never written
  do the same (`mixed`, of the causes in `Mix`).
* A page of the feed whose anchor has been withdrawn ends the list (`cut`), and two calls of `loadMore` in one
  render can keep a list empty (`twice`).

## 7. Not modelled

* Engagement events, visits and installs: rows inserted once per client id and never read back by the program.
* Urgent push: a registration row and a best-effort broadcast; nothing depends on its outcome.
* The body of the source URL check: a sequential loop of probes with one commit; its lock is modelled.
* Covers, previews, the wording of prompts, the texts built from tables, scoring weights: presentation.
* The stub LLM provider, passwords, mail transport, rate limits: data or local development.
* Feedback: one insert behind an in-memory limit.
* The listing of topics and of urgent cards, which differ from the tabs modelled by a filter, and search by id.
* The migration of marks kept under old storage keys.
* Monitoring and provenance reports, one-off scripts (but for those that take cards back) and database migrations.
* Speech engines; `ListeningSync` has the callbacks they make.  Rendering of pages.

What could follow: a composition of `FeedPages` with `LibrarySync` through the archive of marked cards.
