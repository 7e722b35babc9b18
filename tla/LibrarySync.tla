----------------------------- MODULE LibrarySync -----------------------------
(***************************************************************************)
(* The reader's library, marks of saved and of read cards, on several      *)
(* devices and in the account.  A device keeps its marks in localStorage,  *)
(* with a queue of removals that the server has not seen; signing in       *)
(* reconciles both sides, and later edits are uploaded by a flush.  Time   *)
(* stamps decide: the last write wins.                                     *)
(*                                                                         *)
(* A step is one synchronous stretch of the client, or one half of a       *)
(* request on the server: it reads the rows and later commits its changes. *)
(***************************************************************************)
EXTENDS Naturals, FiniteSets

CONSTANTS
  Devices,
  Users,         \* accounts
  Accounts(_),   \* bound: the accounts used on a device
  Started(_),    \* who may be signed in on a device to begin with
  Saved, Read,   \* the marks: a card saved, a card read
  Retention,     \* [mark -> ticks it is kept], 60 days saved, 30 days read
  Flush,         \* the slot of the running flush of a device
  None,          \* nobody, no request
  Guest,         \* author of an edit made while signed out
  MaxTime,       \* bound: ticks of the clock; every edit takes one
  MaxEdits,      \* bound: edits
  MaxRequests,   \* bound: requests on their way at the same time
  MaxMoves       \* bound: sign-ins and sign-outs, hidden pages and lost requests, together

Marks == Saved \cup Read

ASSUME SlotsAssumption ==
  Flush \notin Users /\ None \notin Users /\ Guest \notin Users /\ Guest # None
ASSUME TimeAssumption ==
  /\ MaxTime \in Nat /\ MaxEdits \in Nat /\ MaxRequests \in Nat /\ MaxMoves \in Nat
  /\ Saved \cap Read = {}
  /\ Retention \in [Marks -> Nat]

VARIABLES
  now,      \* Date.now(), the same everywhere
  \* the server
  rows,     \* user_saved_news and user_read_news of each account
  \* each device
  user,     \* who is signed in
  owner,    \* nga_library_owner_user_id
  local,    \* time of each mark in localStorage, 0 when it is not marked
  queue,    \* nga_library_sync_queue_v1: time of the unsent removal, or 0
  timer,    \* a flush is scheduled
  task,     \* requests of the device: one flush, one reconcile per account
  \* history
  author,   \* who made the edit of a time
  removed,  \* latest removal the server has confirmed, per account and mark
  clash,    \* marks of an account for which two uploads overlapped
  early,    \* accounts a device has uploaded another account's storage to
  stray,    \* times of edits made before the device had reconciled
  moves     \* sign-ins and sign-outs, hidden pages and lost requests so far

deviceVars == <<user, owner, local, queue, timer, task>>
vars == <<now, rows, user, owner, local, queue, timer, task,
          author, removed, clash, early, stray, moves>>

Time == 0 .. MaxTime
Row == [marked : Time, removed : Time]   \* 0: never, NULL
NoRow == [marked |-> 0, removed |-> 0]
Slots == Users \cup {Flush}
Nothing == [k \in Marks |-> 0]
\* A request on its way: the marks and removals it carries, and the rows the
\* server has read for it.
Tasks == [user : Users, stage : {"get", "got", "put", "loaded", "done"},
          marks : [Marks -> Time], ops : [Marks -> Time], rows : [Marks -> Row]]

TypeOK ==
  /\ now \in Time
  /\ rows \in [Users -> [Marks -> Row]]
  /\ user \in [Devices -> Users \cup {None}]
  /\ owner \in [Devices -> Users \cup {None}]
  /\ local \in [Devices -> [Marks -> Time]]
  /\ queue \in [Devices -> [Marks -> Time]]
  /\ timer \in [Devices -> BOOLEAN]
  /\ task \in [Devices -> [Slots -> Tasks \cup {None}]]
  /\ author \in [Time -> Users \cup {Guest, None}]
  /\ removed \in [Users -> [Marks -> Time]]
  /\ clash \in SUBSET (Users \X Marks)
  /\ early \in SUBSET Users
  /\ stray \in SUBSET Time
  /\ moves \in 0 .. MaxMoves

Init ==
  /\ now = 0
  /\ rows = [u \in Users |-> [k \in Marks |-> NoRow]]
  /\ user \in {f \in [Devices -> Users \cup {None}] : \A d \in Devices : f[d] \in Started(d)}
  /\ owner = user
  /\ local = [d \in Devices |-> Nothing]
  /\ queue = [d \in Devices |-> Nothing]
  /\ timer = [d \in Devices |-> FALSE]
  /\ task = [d \in Devices |-> [s \in Slots |-> None]]
  /\ author = [t \in Time |-> None]
  /\ removed = [u \in Users |-> Nothing]
  /\ clash = {}
  /\ early = {}
  /\ stray = {}
  /\ moves = 0
-----------------------------------------------------------------------------
Later(s, t) == IF s >= t THEN s ELSE t

\* Whether a time of mark k is within its retention.
Fresh(k, t) == t > 0 /\ t + Retention[k] >= now
Kept(marks) == [k \in Marks |-> IF Fresh(k, marks[k]) THEN marks[k] ELSE 0]

\* mergeLibraryEntries: the later time of either side.
Merge(mine, theirs) == [k \in Marks |-> Later(mine[k], theirs[k])]

\* applySavedRemoves: a removal beats a mark that is not younger.
ApplyRemoves(marks, ops) ==
  [k \in Marks |-> IF ops[k] > 0 /\ ops[k] >= marks[k] THEN 0 ELSE marks[k]]

\* Mutant: a mark is compared with the mark only, not with the tombstone.
Upsert_IgnoreTombstone(row, t) ==
  IF t >= row.marked THEN [marked |-> t, removed |-> 0] ELSE row

\* _apply_saved_upsert and _apply_read_upsert.
Upsert(row, t) ==
  IF t >= row.marked /\ t >= row.removed
  THEN [marked |-> t, removed |-> 0] ELSE row

\* _apply_saved_remove leaves a tombstone.
Remove(row, t) ==
  IF t >= row.marked /\ t >= row.removed THEN [row EXCEPT !.removed = t] ELSE row

\* _purge_expired_saved and _purge_expired_read: the last event is too old.
Purged(k, row) == IF Fresh(k, Later(row.marked, row.removed)) THEN row ELSE NoRow

\* list_saved and list_read.
Listed(u) ==
  [k \in Marks |-> LET row == rows[u][k]
                   IN  IF row.removed = 0 /\ Fresh(k, row.marked) THEN row.marked ELSE 0]

\* apply_saved_deltas and apply_read_upserts: for each mark of the upload the
\* mark first, then the removal; what is past its retention is skipped.
Uploaded(k, row, mark, op) ==
  LET put == IF Fresh(k, mark) THEN Upsert(row, mark) ELSE row
  IN  IF Fresh(k, op) THEN Remove(put, op) ELSE put
-----------------------------------------------------------------------------
NewTask(u, stage, marks, ops) ==
  [user |-> u, stage |-> stage, marks |-> marks, ops |-> ops,
   rows |-> [k \in Marks |-> NoRow]]

SetTask(d, s, t) == task' = [task EXCEPT ![d][s] = t]

Move == moves < MaxMoves /\ moves' = moves + 1
OnTheWay == {r \in Devices \X Slots : task[r[1]][r[2]] # None}
MayRequest == Cardinality(OnTheWay) < MaxRequests

Tick ==
  /\ now < MaxTime
  /\ now' = now + 1
  /\ UNCHANGED <<rows, deviceVars, author, removed, clash, early, stray, moves>>

\* An edit on d has a time of its own; it is made by whoever is signed in.
Edit(d) ==
  /\ now < MaxTime
  /\ Cardinality({t \in Time : author[t] # None}) < MaxEdits
  /\ now' = now + 1
  /\ author' = [author EXCEPT ![now'] = IF user[d] = None THEN Guest ELSE user[d]]
  /\ stray' = IF user[d] \in {None, owner[d]} THEN stray ELSE stray \cup {now'}

\* setStoredUseful(id, true) and markNewsAsReadBatch.
Mark(d, k) ==
  /\ Edit(d)
  /\ local' = [local EXCEPT ![d] = [Kept(@) EXCEPT ![k] = now']]
  /\ timer' = [timer EXCEPT ![d] = @ \/ user[d] # None]
  /\ UNCHANGED <<rows, user, owner, queue, task, removed, clash, early, moves>>

\* setStoredUseful(id, false) and enqueueLibraryOp, which replaces an earlier
\* removal of the card.  The removal is queued whether or not anybody is
\* signed in.
Unmark(d, k) ==
  /\ Edit(d)
  /\ local[d][k] > 0
  /\ local' = [local EXCEPT ![d] = [Kept(@) EXCEPT ![k] = 0]]
  /\ queue' = [queue EXCEPT ![d][k] = now']
  /\ timer' = [timer EXCEPT ![d] = @ \/ user[d] # None]
  /\ UNCHANGED <<rows, user, owner, task, removed, clash, early, moves>>

\* configureUserLibrarySync for a user who has signed in: a flush is scheduled
\* and, at the same time, the library is requested.
Login(d, u) ==
  /\ user[d] = None
  /\ u \in Accounts(d)
  /\ task[d][u] = None    \* bound: not while the last reconcile is under way
  /\ MayRequest
  /\ Move
  /\ user' = [user EXCEPT ![d] = u]
  /\ timer' = [timer EXCEPT ![d] = TRUE]
  /\ SetTask(d, u, NewTask(u, "get", Nothing, Nothing))
  /\ UNCHANGED <<now, rows, owner, local, queue, author, removed, clash, early, stray>>

\* The flush handler is taken away; marks, owner and queue stay on the device.
Logout(d) ==
  /\ user[d] # None
  /\ Move
  /\ user' = [user EXCEPT ![d] = None]
  /\ UNCHANGED <<now, rows, owner, local, queue, timer, task,
                 author, removed, clash, early, stray>>

\* GET /users/me/library purges, commits and answers.
ServeGet(d, u) ==
  /\ task[d][u] # None
  /\ task[d][u].stage = "get"
  /\ rows' = [rows EXCEPT ![u] = [k \in Marks |-> Purged(k, @[k])]]
  /\ SetTask(d, u, NewTask(u, "got", Listed(u), Nothing))
  /\ UNCHANGED <<now, user, owner, local, queue, timer,
                 author, removed, clash, early, stray, moves>>

\* Mutant: the library of another account is merged like one's own.
Reconcile_AnyOwner(d, u) ==
  /\ task[d][u] # None
  /\ task[d][u].stage = "got"
  /\ LET mine == Kept(ApplyRemoves(Merge(Kept(local[d]), task[d][u].marks), queue[d]))
     IN  /\ local' = [local EXCEPT ![d] = mine]
         /\ SetTask(d, u, NewTask(u, "put", mine, queue[d]))
  /\ owner' = [owner EXCEPT ![d] = u]
  /\ UNCHANGED <<now, rows, user, queue, timer, author, removed, clash, early, stray, moves>>

\* reconcileUserLibrary with the answer: marks of another account are replaced
\* by those of the server, all others are merged with them; the result is
\* uploaded.  Nothing asks whether u is still signed in.
Reconcile(d, u) ==
  /\ task[d][u] # None
  /\ task[d][u].stage = "got"
  /\ LET remote == task[d][u].marks
         foreign == owner[d] \notin {None, u}
         ops == IF foreign THEN Nothing ELSE queue[d]
         mine == Kept(IF foreign THEN remote
                      ELSE ApplyRemoves(Merge(Kept(local[d]), remote), ops))
     IN  /\ local' = [local EXCEPT ![d] = mine]
         /\ queue' = [queue EXCEPT ![d] = ops]
         /\ SetTask(d, u, NewTask(u, "put", mine, ops))
  /\ owner' = [owner EXCEPT ![d] = u]
  /\ UNCHANGED <<now, rows, user, timer, author, removed, clash, early, stray, moves>>

\* flushLibrarySyncQueue: what the device holds is uploaded to the account
\* signed in.
StartFlush(d) ==
  /\ user[d] # None
  /\ task[d][Flush] = None
  /\ MayRequest
  /\ SetTask(d, Flush, NewTask(user[d], "put", Kept(local[d]), queue[d]))
  /\ timer' = [timer EXCEPT ![d] = FALSE]
  /\ early' = IF owner[d] \in {None, user[d]} THEN early ELSE early \cup {user[d]}
  /\ UNCHANGED <<now, rows, user, owner, local, queue, author, removed, clash, stray>>

\* The flush is due, or the page is hidden.
TimedFlush(d) == timer[d] /\ StartFlush(d) /\ UNCHANGED moves
HiddenFlush(d) == StartFlush(d) /\ Move

\* The timer fires while a flush is running, or nobody is signed in.
TimerIdle(d) ==
  /\ timer[d]
  /\ user[d] = None \/ task[d][Flush] # None
  /\ timer' = [timer EXCEPT ![d] = FALSE]
  /\ UNCHANGED <<now, rows, user, owner, local, queue, task,
                 author, removed, clash, early, stray, moves>>

\* PUT /users/me/library reads the rows of the account ...
Load(d, s) ==
  /\ task[d][s] # None
  /\ task[d][s].stage = "put"
  /\ SetTask(d, s, [task[d][s] EXCEPT !.stage = "loaded", !.rows = rows[task[d][s].user]])
  /\ UNCHANGED <<now, rows, user, owner, local, queue, timer,
                 author, removed, clash, early, stray, moves>>

\* The rows as this upload would leave them, and those it writes at all.
Result(t, k) == Uploaded(k, t.rows[k], t.marks[k], t.ops[k])
Writes(t) == {k \in Marks : Result(t, k) # t.rows[k]}
\* An insert meets a row inserted since, or an update a row deleted since.
Conflict(t) ==
  \E k \in Writes(t) : (t.rows[k] = NoRow) # (rows[t.user][k] = NoRow)

\* ... and commits: an update writes the columns that differ from what was
\* read, over whatever has happened to the row since.
Commit(d, s) ==
  /\ task[d][s] # None
  /\ task[d][s].stage = "loaded"
  /\ ~Conflict(task[d][s])
  /\ LET t == task[d][s]
         column(k, c) == IF Result(t, k)[c] = t.rows[k][c]
                         THEN rows[t.user][k][c] ELSE Result(t, k)[c]
         written(k) == [marked |-> column(k, "marked"), removed |-> column(k, "removed")]
     IN  /\ rows' = [rows EXCEPT ![t.user] = [k \in Marks |-> Purged(k, written(k))]]
         /\ removed' = [removed EXCEPT ![t.user] =
              [k \in Marks |-> IF Fresh(k, t.ops[k]) THEN Later(@[k], t.ops[k]) ELSE @[k]]]
         /\ clash' = clash \cup
              {<<t.user, k>> : k \in {j \in Writes(t) : t.rows[j] # rows[t.user][j]}}
         /\ SetTask(d, s, NewTask(t.user, "done", Nothing, t.ops))
  /\ UNCHANGED <<now, user, owner, local, queue, timer, author, early, stray, moves>>

\* The end of a flush: it is repeated while removals are left.
EndFlush(d, s, left) ==
  timer' = IF s = Flush /\ user[d] # None /\ left # Nothing
           THEN [timer EXCEPT ![d] = TRUE] ELSE timer

\* Mutant: the whole queue is dropped after an upload.
Confirm_DropQueue(d, s) ==
  /\ task[d][s] # None
  /\ task[d][s].stage = "done"
  /\ queue' = [queue EXCEPT ![d] = Nothing]
  /\ EndFlush(d, s, Nothing)
  /\ SetTask(d, s, None)
  /\ UNCHANGED <<now, rows, user, owner, local, author, removed, clash, early, stray, moves>>

\* The answer of the PUT: the removals it carried leave the queue, those made
\* since stay.
Confirm(d, s) ==
  /\ task[d][s] # None
  /\ task[d][s].stage = "done"
  /\ LET left == [k \in Marks |-> IF queue[d][k] = task[d][s].ops[k] THEN 0 ELSE queue[d][k]]
     IN  queue' = [queue EXCEPT ![d] = left] /\ EndFlush(d, s, left)
  /\ SetTask(d, s, None)
  /\ UNCHANGED <<now, rows, user, owner, local, author, removed, clash, early, stray, moves>>

\* Mutant: a failed flush is not scheduled again.
Abort_NoRetry(d, s) ==
  /\ timer' = timer
  /\ SetTask(d, s, None)
  /\ UNCHANGED <<now, rows, user, owner, local, queue, author, removed, clash, early, stray>>

\* A request is given up.
Abort(d, s) ==
  /\ EndFlush(d, s, queue[d])
  /\ SetTask(d, s, None)
  /\ UNCHANGED <<now, rows, user, owner, local, queue, author, removed, clash, early, stray>>

\* The server refuses a conflicting upload as a whole.
Refuse(d, s) ==
  /\ task[d][s] # None
  /\ task[d][s].stage = "loaded"
  /\ Conflict(task[d][s])
  /\ Abort(d, s)
  /\ UNCHANGED moves

\* The request or its answer is lost.
Lose(d, s) ==
  /\ task[d][s] # None
  /\ Move
  /\ task[d][s].stage \in {"get", "put", "done"}
  /\ Abort(d, s)

Step(d) ==
  \/ TimedFlush(d) \/ TimerIdle(d)
  \/ \E u \in Users : ServeGet(d, u) \/ Reconcile(d, u)
  \/ \E s \in Slots : Load(d, s) \/ Commit(d, s) \/ Confirm(d, s) \/ Refuse(d, s)

Act(d) ==
  \/ \E k \in Marks : Mark(d, k)
  \/ \E k \in Saved : Unmark(d, k)
  \/ (\E u \in Users : Login(d, u)) \/ Logout(d)
  \/ HiddenFlush(d)
  \/ \E s \in Slots : Lose(d, s)

Next == Tick \/ \E d \in Devices : Act(d) \/ Step(d)

Spec == Init /\ [][Next]_vars

\* Timers fire and requests are answered; nothing makes the reader act.
FairSpec == Spec /\ \A d \in Devices : WF_vars(Step(d))
-----------------------------------------------------------------------------
\* user_library_repository.py: a removal the server has confirmed is not undone
\* by marks made before it, from whichever device and however late they come,
\* also after its tombstone was purged; only uploads that overlap on the
\* server, where neither sees the other's row, may bring the mark back.
NoResurrection ==
  \A u \in Users, k \in Marks :
    \/ Listed(u)[k] = 0
    \/ Listed(u)[k] >= removed[u][k]
    \/ <<u, k>> \in clash

\* Marks of one account come to another only through the two gaps before the
\* first reconcile: a flush that uploads the storage of the last owner, and
\* edits made while the storage was not yet the reader's own.
LeakIsExplained ==
  \A u \in Users, k \in Marks :
    LET t == rows[u][k].marked
    IN  t > 0 => author[t] \in {u, Guest} \/ u \in early \/ t \in stray

\* A queued removal is dropped only when the server has it, when it is too old
\* to count, or when the device's storage passes to another account: not by
\* uploads that began before it was made.
RemovalNotForgotten ==
  [][\A d \in Devices, k \in Saved :
       queue[d][k] > 0 /\ queue'[d][k] = 0 =>
         \/ \E u \in Users : removed[u][k] >= queue[d][k]
         \/ ~Fresh(k, queue[d][k])
         \/ owner'[d] # owner[d]]_vars

\* The removal of a reader who stays signed in reaches the server, however
\* many uploads fail on the way.
RemovalArrives ==
  \A d \in Devices, k \in Saved :
    queue[d][k] > 0 /\ user[d] # None ~> queue[d][k] = 0 \/ user[d] = None
=============================================================================
