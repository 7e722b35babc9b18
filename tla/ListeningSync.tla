---------------------------- MODULE ListeningSync ----------------------------
(***************************************************************************)
(* The listen queue of a reader: one document per device and one per       *)
(* account, each with the time of its last change.  The player edits the   *)
(* document of its page; it is written to localStorage and uploaded, and   *)
(* signing in compares it with that of the account.  The younger document  *)
(* replaces the older one as a whole.                                      *)
(***************************************************************************)
EXTENDS Naturals, Sequences, FiniteSets, SequencesExt

CONSTANTS
  Devices,
  Users,
  Accounts(_),   \* bound: the accounts that sign in on a device
  Started(_),    \* who has just signed in on a device, to begin with
  Settled,       \* the devices where the first reconcile is over
  FirstDocs(_),  \* the queues a device may have to begin with, at time 1
  Players,       \* bound: the devices on which cards are spoken, the current one from the beginning
  News,
  Cards(_),      \* bound: the cards handled on a device
  Known,         \* news the server has
  MaxQueue,      \* MAX_LISTEN_QUEUE
  Flush,         \* the slot of the running flush of a device
  None, Guest,
  MaxTime,       \* bound: edits, each at a time of its own
  MaxRequests,   \* bound: requests on their way at the same time
  MaxMoves,      \* bound: sign-ins and sign-outs, hidden pages and lost requests, together
  MaxActs        \* bound: edits and moves, together

ASSUME NamesAssumption ==
  /\ None \notin News \cup Users \cup {Flush} /\ Guest \notin Users /\ Flush \notin Users
  /\ Known \subseteq News /\ Players \subseteq Devices /\ Settled \subseteq Devices
  /\ \A d \in Devices : Cards(d) \subseteq News /\ Started(d) \in Users \cup {None}
ASSUME BoundsAssumption ==
  /\ MaxQueue \in Nat \ {0} /\ MaxTime \in Nat \ {0} /\ MaxRequests \in Nat /\ MaxMoves \in Nat
  /\ MaxActs \in Nat

VARIABLES
  now,      \* Date.now(), the same everywhere
  rows,     \* user_listening_state of each account, or None
  user,     \* who is signed in on a device
  owner,    \* nga_listening_owner_user_id
  local,    \* nga_listening_state_v1
  ref,      \* stateRef of the player
  playing,  \* the card being spoken
  timer,    \* a flush is scheduled
  again,    \* flushAgain
  task,     \* requests of the device: one flush, one reconcile per account
  moves,
  \* history
  mixed,    \* accounts that the player's own copy, a late answer or a queue without an
            \* owner may have left with another account's queue
  clash,    \* accounts for which two uploads overlapped on the server
  failed,   \* the last upload of the device has failed
  adopted   \* devices whose player took over another document while it spoke

sync == <<user, owner, timer, again, task>>
history == <<mixed, clash, failed, adopted>>
vars == <<now, rows, sync, local, ref, playing, moves, history>>

Slots == Users \cup {Flush}
Time == 0 .. MaxTime
Item == [id : News, by : Users \cup {Guest}, heard : BOOLEAN, finished : BOOLEAN]
Docs == [items : Seq(Item), current : News \cup {None}, auto : BOOLEAN, at : Time]
Empty == [items |-> << >>, current |-> None, auto |-> FALSE, at |-> 0]

ASSUME NoDocAssumption == None \notin Docs
-----------------------------------------------------------------------------
(* The document, as listeningState.ts changes it.                          *)

Ids(doc) == {doc.items[i].id : i \in DOMAIN doc.items}
NewItem(n, by) == [id |-> n, by |-> by, heard |-> FALSE, finished |-> FALSE]

\* The items with one of some ids, in their order.
Keep(items, ids) ==
  LET left == {i \in DOMAIN items : items[i].id \in ids}
      place(i) == Cardinality({j \in left : j <= i})
  IN  [k \in 1 .. Cardinality(left) |-> items[CHOOSE i \in left : place(i) = k]]

\* sanitizeListeningState: only a queued card can be the current one.
Sanitize(doc) == [doc EXCEPT !.current = IF @ \in Ids(doc) THEN @ ELSE None]

\* Mutant: the oldest item goes, whichever it is.
Trim_Oldest(items, current) == IF Len(items) <= MaxQueue THEN items ELSE Tail(items)

\* trimQueue of a queue that has grown by one: the first finished card goes,
\* or else the first at all, but not the current one.
Trim(items, current) ==
  LET other == {i \in DOMAIN items : items[i].id # current}
      finished == {i \in other : items[i].finished}
  IN  IF Len(items) <= MaxQueue THEN items
      ELSE IF finished # {} THEN RemoveAt(items, Min(finished))
      ELSE IF other # {} THEN RemoveAt(items, Min(other))
      ELSE Tail(items)

\* enqueueNews of a card that is not queued yet.
EnqueueNews(doc, n, by, t) ==
  [doc EXCEPT !.items = Trim(Append(@, NewItem(n, by)), doc.current), !.at = t]

RemoveNews(doc, n, t) ==
  [doc EXCEPT !.items = Keep(@, News \ {n}),
              !.current = IF @ = n THEN None ELSE @, !.at = t]

\* An item of the queue is changed, if it is there.
Change(items, n, Op(_)) ==
  [i \in DOMAIN items |-> IF items[i].id = n THEN Op(items[i]) ELSE items[i]]

\* ensurePlaying: a finished card starts anew.
EnsurePlaying(doc, n, by, t) ==
  LET resume(e) == [e EXCEPT !.heard = @ /\ ~e.finished, !.finished = FALSE]
  IN  [doc EXCEPT
         !.items = IF n \in Ids(doc) THEN Change(@, n, resume)
                   ELSE Trim(Append(@, NewItem(n, by)), n),
         !.current = n, !.at = t]

\* setChunk and setPosition, past the beginning of the card.
SetPlace(doc, n, t) ==
  [doc EXCEPT !.items = Change(@, n, LAMBDA e : [e EXCEPT !.heard = TRUE, !.finished = FALSE]),
              !.current = n, !.at = t]

MarkFinished(doc, n, t) ==
  [doc EXCEPT !.items = Change(@, n, LAMBDA e : [e EXCEPT !.finished = TRUE]), !.at = t]

\* nextUnfinishedId: the first unfinished card after the current one, from the
\* beginning again when there is none.
NextUnfinished(doc, n) ==
  LET items == doc.items
      start == IF n \in Ids(doc) THEN Min({i \in DOMAIN items : items[i].id = n}) ELSE 0
      left == {i \in DOMAIN items \ {start} : ~items[i].finished}
      after == {i \in left : i > start}
  IN  IF left = {} THEN None ELSE items[Min(IF after # {} THEN after ELSE left)].id

\* chooseListeningState.
Choose(mine, theirs) == IF theirs.at > mine.at THEN theirs ELSE mine

\* _drop_unknown_news.
Cleaned(doc) ==
  Sanitize([doc EXCEPT !.items = Keep(@, Known)])
-----------------------------------------------------------------------------
Stages == {"get", "got", "put", "loaded", "done"}
Tasks == [user : Users, stage : Stages, doc : Docs, base : Docs \cup {None}]
NewTask(u, stage, doc) == [user |-> u, stage |-> stage, doc |-> doc, base |-> None]

\* The queue keeps its limit, and no card is queued twice.
Neat(items) ==
  /\ Len(items) <= MaxQueue
  /\ \A i, j \in DOMAIN items : items[i].id = items[j].id => i = j

WellFormed(doc) == Neat(doc.items) /\ doc.current \in Ids(doc) \cup {None}

TypeOK ==
  /\ now \in Time
  /\ rows \in [Users -> Docs \cup {None}]
  /\ user \in [Devices -> Users \cup {None}]
  /\ owner \in [Devices -> Users \cup {None}]
  /\ local \in [Devices -> Docs]
  /\ ref \in [Devices -> Docs]
  /\ playing \in [Devices -> News \cup {None}]
  /\ timer \in [Devices -> BOOLEAN]
  /\ again \in [Devices -> BOOLEAN]
  /\ task \in [Devices -> [Slots -> Tasks \cup {None}]]
  /\ moves \in 0 .. MaxMoves
  /\ mixed \subseteq Users /\ clash \subseteq Users
  /\ failed \in [Devices -> BOOLEAN] /\ adopted \subseteq Devices
  /\ \A d \in Devices : WellFormed(local[d]) /\ Neat(ref[d].items)
  /\ \A u \in Users : rows[u] # None => WellFormed(rows[u])

Init ==
  /\ now = 1
  /\ local \in {f \in [Devices -> UNION {FirstDocs(d) : d \in Devices}] :
                  \A d \in Devices : f[d] \in FirstDocs(d)}
  /\ ref = local
  /\ rows = [u \in Users |-> IF \E d \in Settled : Started(d) = u
                             THEN local[CHOOSE d \in Settled : Started(d) = u] ELSE None]
  /\ user = [d \in Devices |-> Started(d)]
  /\ owner = [d \in Devices |-> IF d \in Settled THEN Started(d) ELSE None]
  /\ playing = [d \in Devices |-> IF d \in Players THEN local[d].current ELSE None]
  /\ timer = [d \in Devices |-> d \notin Settled /\ Started(d) # None]
  /\ again = [d \in Devices |-> FALSE]
  /\ task = [d \in Devices |-> [s \in Slots |->
              IF d \notin Settled /\ s = Started(d) THEN NewTask(s, "get", Empty) ELSE None]]
  /\ moves = 0
  /\ mixed = {} /\ clash = {} /\ adopted = {}
  /\ failed = [d \in Devices |-> FALSE]

Flushing(d) == task[d][Flush] # None
SetTask(d, s, t) == task' = [task EXCEPT ![d][s] = t]
MayAct == now + moves <= MaxActs
Move == MayAct /\ moves < MaxMoves /\ moves' = moves + 1
OnTheWay == {r \in Devices \X Slots : task[r[1]][r[2]] # None}
MayRequest == Cardinality(OnTheWay) < MaxRequests
By(d) == IF user[d] = None THEN Guest ELSE user[d]
Foreign(doc, u) == \E i \in DOMAIN doc.items : doc.items[i].by \notin {u, Guest}

\* Who has just signed in finds a queue of nobody else.
ASSUME FirstDocsAssumption ==
  \A d \in Devices : \A doc \in FirstDocs(d) :
    doc \in Docs /\ WellFormed(doc) /\ (Started(d) # None => ~Foreign(doc, Started(d)))

\* Someone is signed in while the queue of the device is put down to another.
Stray(d) == user[d] # None /\ owner[d] \notin {None, user[d]}

\* A step that may leave some of the accounts with a queue that is not theirs.
Mix(d, accounts, cause) ==
  mixed' = mixed \cup {u \in accounts \ {None} : cause /\ Foreign(local'[d], u)}

\* scheduleListeningSyncFlush.
Schedule(d) ==
  /\ timer' = [timer EXCEPT ![d] = @ \/ (user[d] # None /\ ~Flushing(d))]
  /\ again' = [again EXCEPT ![d] = @ \/ (user[d] # None /\ Flushing(d))]

\* writeListeningState and clearListeningState: the page is told, and the
\* player takes over what is not older than its own document.
Write(d, doc) ==
  /\ local' = [local EXCEPT ![d] = Sanitize(doc)]
  /\ ref' = [ref EXCEPT ![d] = IF doc.at >= @.at THEN Sanitize(doc) ELSE @]
  /\ adopted' = IF playing[d] # None /\ ref' # ref THEN adopted \cup {d} ELSE adopted

\* commitListeningState: the next document of the player, who had the old one.
Commit(d, doc) ==
  /\ MayAct /\ now < MaxTime
  /\ now' = now + 1
  /\ ref' = [ref EXCEPT ![d] = doc]
  /\ local' = [local EXCEPT ![d] = Sanitize(doc)]
  /\ Schedule(d)
  /\ Mix(d, {user[d], owner[d]}, ref[d].items # local[d].items \/ Stray(d))
  /\ UNCHANGED <<rows, user, owner, task, clash, failed, adopted>>

\* toggleQueue, also for the card being spoken, which is stopped.
Toggle(d, n) ==
  /\ IF n \in Ids(ref[d])
     THEN /\ Commit(d, RemoveNews(ref[d], n, now + 1))
          /\ playing' = [playing EXCEPT ![d] = IF ref[d].current = n THEN None ELSE @]
     ELSE /\ Commit(d, EnqueueNews(ref[d], n, By(d), now + 1))
          /\ UNCHANGED playing
  /\ UNCHANGED moves

Play(d, n) ==
  /\ Commit(d, EnsurePlaying(ref[d], n, By(d), now + 1))
  /\ playing' = [playing EXCEPT ![d] = n]
  /\ UNCHANGED moves

\* onChunk.
Progress(d) ==
  /\ playing[d] # None
  /\ Commit(d, SetPlace(ref[d], playing[d], now + 1))
  /\ UNCHANGED <<playing, moves>>

\* stop and pause with rememberPlace: the place is that of the card spoken, and
\* is kept for the current card of the document.
Stop(d) ==
  /\ playing[d] # None
  /\ ref[d].current # None
  /\ Commit(d, SetPlace(ref[d], ref[d].current, now + 1))
  /\ playing' = [playing EXCEPT ![d] = None]
  /\ UNCHANGED moves

\* onError, and stop without a current card: no place is kept.
Silence(d) ==
  /\ playing[d] # None
  /\ playing' = [playing EXCEPT ![d] = None]
  /\ UNCHANGED <<now, rows, sync, local, ref, moves, history>>

\* onEnd: the card is finished, and with autoNext the next one is spoken, if
\* its script is at hand.
End(d) ==
  /\ playing[d] # None
  /\ LET finished == MarkFinished(ref[d], playing[d], now + 1)
         follows == IF ref[d].auto THEN NextUnfinished(finished, playing[d]) ELSE None
     IN  \E next \in {None, follows} :
           /\ Commit(d, IF next = None THEN finished
                        ELSE EnsurePlaying(finished, next, By(d), now + 1))
           /\ playing' = [playing EXCEPT ![d] = next]
  /\ UNCHANGED moves

SetAutoNext(d) ==
  /\ Commit(d, [ref[d] EXCEPT !.auto = ~@, !.at = now + 1])
  /\ UNCHANGED <<playing, moves>>
-----------------------------------------------------------------------------
\* Mutant: the queue of another account is merged like one's own.
Login_KeepQueue(d, u) ==
  /\ user[d] = None /\ u \in Accounts(d)
  /\ playing[d] = None
  /\ task[d][u] = None
  /\ MayRequest
  /\ Move
  /\ user' = [user EXCEPT ![d] = u]
  /\ timer' = [timer EXCEPT ![d] = @ \/ ~Flushing(d)]
  /\ again' = [again EXCEPT ![d] = @ \/ Flushing(d)]
  /\ owner' = [owner EXCEPT ![d] = u]
  /\ SetTask(d, u, NewTask(u, "get", Empty))
  /\ UNCHANGED <<now, rows, local, ref, playing, clash, failed, adopted>>
  /\ Mix(d, {u}, owner[d] = None)

\* configureListeningSync: a flush is scheduled, the queue of another account
\* is cleared, and that of the account is requested.
Login(d, u) ==
  /\ user[d] = None /\ u \in Accounts(d)
  /\ playing[d] = None
  /\ task[d][u] = None     \* bound: not while the last reconcile is under way
  /\ MayRequest
  /\ Move
  /\ user' = [user EXCEPT ![d] = u]
  /\ timer' = [timer EXCEPT ![d] = @ \/ ~Flushing(d)]
  /\ again' = [again EXCEPT ![d] = @ \/ Flushing(d)]
  /\ IF owner[d] \in {None, u} THEN UNCHANGED <<local, ref, owner, adopted>>
     ELSE Write(d, Empty) /\ owner' = [owner EXCEPT ![d] = u]
  /\ SetTask(d, u, NewTask(u, "get", Empty))
  /\ Mix(d, {u}, owner[d] = None)
  /\ UNCHANGED <<now, rows, playing, clash, failed>>

\* The handler is taken away; a last flush finds no tokens.
Logout(d) ==
  /\ user[d] # None
  /\ playing[d] = None
  /\ Move
  /\ user' = [user EXCEPT ![d] = None]
  /\ again' = [again EXCEPT ![d] = @ \/ Flushing(d)]
  /\ UNCHANGED <<now, rows, owner, local, ref, playing, timer, task, history>>

\* One round of the flush: what is in localStorage is sent, if there is anything.
Round(d, doc) ==
  task' = [task EXCEPT ![d][Flush] =
    IF user[d] # None /\ doc.at # 0 THEN NewTask(user[d], "put", doc) ELSE None]

\* flushListeningSyncQueue: a flush that is due while one is running, or while
\* nobody is signed in, is only remembered.
StartFlush(d) ==
  /\ IF user[d] = None \/ Flushing(d)
     THEN again' = [again EXCEPT ![d] = TRUE] /\ UNCHANGED <<task, failed>>
     ELSE /\ MayRequest
          /\ again' = [again EXCEPT ![d] = FALSE]
          /\ Round(d, local[d])
          /\ failed' = [failed EXCEPT ![d] = FALSE]
  /\ UNCHANGED <<now, rows, user, owner, local, ref, playing, mixed, clash, adopted>>

TimedFlush(d) ==
  /\ timer[d]
  /\ timer' = [timer EXCEPT ![d] = FALSE]
  /\ StartFlush(d)
  /\ UNCHANGED moves

\* The page is hidden while nothing is spoken.
HiddenFlush(d) ==
  /\ user[d] # None /\ playing[d] = None
  /\ Move
  /\ StartFlush(d)
  /\ UNCHANGED timer
-----------------------------------------------------------------------------
\* GET /users/me/listening.
ServeGet(d, u) ==
  /\ task[d][u] # None /\ task[d][u].stage = "get"
  /\ SetTask(d, u, NewTask(u, "got", IF rows[u] = None THEN Empty ELSE rows[u]))
  /\ UNCHANGED <<now, rows, user, owner, timer, again, local, ref, playing, moves, history>>

\* reconcileListening with the answer: the younger side wins as a whole, and
\* two empty queues of one time are forgotten.
\* Nothing asks whether u is still signed in.
Reconcile(d, u) ==
  /\ task[d][u] # None /\ task[d][u].stage = "got"
  /\ LET remote == task[d][u].doc
     IN  IF local[d].at > remote.at
         THEN /\ SetTask(d, u, NewTask(u, "put", local[d]))
              /\ UNCHANGED <<local, ref, owner, adopted>>
         ELSE /\ SetTask(d, u, None)
              /\ owner' = [owner EXCEPT ![d] = u]
              /\ IF remote.at > local[d].at THEN Write(d, remote)
                 ELSE IF Ids(local[d]) = {} /\ Ids(remote) = {} THEN Write(d, Empty)
                 ELSE UNCHANGED <<local, ref, adopted>>
  /\ Mix(d, {u, user[d]}, user[d] # u)
  /\ UNCHANGED <<now, rows, user, timer, again, playing, moves, clash, failed>>

\* Mutant: the time of the document of the account is not looked at.
Load_Always(d, s) ==
  /\ task[d][s] # None /\ task[d][s].stage = "put"
  /\ SetTask(d, s, [task[d][s] EXCEPT !.stage = "loaded", !.base = rows[task[d][s].user]])
  /\ UNCHANGED <<now, rows, user, owner, timer, again, local, ref, playing, moves, history>>

\* PUT /users/me/listening, save_state: a younger document of the account is
\* kept, and answered ...
Load(d, s) ==
  /\ task[d][s] # None /\ task[d][s].stage = "put"
  /\ LET t == task[d][s]
         row == rows[t.user]
         kept == row # None /\ row.at > t.doc.at
     IN  SetTask(d, s, [t EXCEPT !.stage = IF kept THEN "done" ELSE "loaded", !.base = row])
  /\ UNCHANGED <<now, rows, user, owner, timer, again, local, ref, playing, moves, history>>

\* ... or replaced, by what is known of the upload.  A first document that
\* another upload has just inserted fails the commit.
Conflict(t) == t.base = None /\ rows[t.user] # None
Save(d, s) ==
  /\ task[d][s] # None /\ task[d][s].stage = "loaded"
  /\ ~Conflict(task[d][s])
  /\ LET t == task[d][s]
     IN  /\ rows' = [rows EXCEPT ![t.user] = Cleaned(t.doc)]
         /\ clash' = IF rows[t.user] # t.base THEN clash \cup {t.user} ELSE clash
         /\ SetTask(d, s, [t EXCEPT !.stage = "done", !.base = None])
  /\ UNCHANGED <<now, user, owner, timer, again, local, ref, playing, moves, mixed, failed, adopted>>

\* Mutant: changes made during the upload are not sent after it.
Answer_NoRepeat(d, s) ==
  /\ task[d][s] # None /\ task[d][s].stage = "done"
  /\ LET t == task[d][s]
     IN  /\ IF local[d].at = t.doc.at /\ t.base # None THEN Write(d, Choose(local[d], t.base))
            ELSE UNCHANGED <<local, ref, adopted>>
         /\ SetTask(d, s, None)
         /\ owner' = IF s = Flush THEN owner ELSE [owner EXCEPT ![d] = t.user]
         /\ again' = [again EXCEPT ![d] = FALSE]
  /\ UNCHANGED <<now, rows, user, timer, playing, moves, mixed, clash, failed>>

\* The answer of the PUT: changes made meanwhile are sent again; otherwise the
\* younger document of the account is taken over.  The flush goes on as long as
\* it is asked to; a reconcile is done.
Answer(d, s) ==
  /\ task[d][s] # None /\ task[d][s].stage = "done"
  /\ LET t == task[d][s]
         changed == local[d].at # t.doc.at
         repeat == again[d] \/ (changed /\ user[d] # None)
     IN  /\ IF ~changed /\ t.base # None THEN Write(d, Choose(local[d], t.base))
            ELSE UNCHANGED <<local, ref, adopted>>
         /\ Mix(d, {user[d], IF s = Flush THEN owner[d] ELSE t.user},
                user[d] # t.user \/ Stray(d))
         /\ IF s = Flush
            THEN /\ IF repeat THEN Round(d, local'[d]) ELSE SetTask(d, s, None)
                 /\ again' = [again EXCEPT ![d] = FALSE]
                 /\ UNCHANGED <<timer, owner>>
            ELSE /\ SetTask(d, s, None)
                 /\ owner' = [owner EXCEPT ![d] = t.user]
                 /\ IF changed THEN Schedule(d) ELSE UNCHANGED <<timer, again>>
  /\ UNCHANGED <<now, rows, user, playing, moves, clash, failed>>

\* A request is given up.  The flush ends, and nothing schedules another.
Abort(d, s) ==
  /\ SetTask(d, s, None)
  /\ failed' = [failed EXCEPT ![d] = TRUE]
  /\ UNCHANGED <<now, rows, user, owner, timer, again, local, ref, playing, mixed, clash, adopted>>

Refuse(d, s) ==
  /\ task[d][s] # None /\ task[d][s].stage = "loaded"
  /\ Conflict(task[d][s])
  /\ Abort(d, s)
  /\ UNCHANGED moves

\* The request or its answer is lost.
Lose(d, s) ==
  /\ task[d][s] # None
  /\ task[d][s].stage \in {"get", "put", "done"}
  /\ Move
  /\ Abort(d, s)

Step(d) ==
  \/ TimedFlush(d)
  \/ \E u \in Users : ServeGet(d, u) \/ Reconcile(d, u)
  \/ \E s \in Slots : Load(d, s) \/ Save(d, s) \/ Answer(d, s) \/ Refuse(d, s)

Next ==
  \E d \in Devices :
    \/ \E n \in Cards(d) : Toggle(d, n) \/ (d \in Players /\ Play(d, n))
    \/ Progress(d) \/ Stop(d) \/ Silence(d) \/ End(d)
    \/ (d \in Players /\ SetAutoNext(d))
    \/ (\E u \in Users : Login(d, u)) \/ Logout(d)
    \/ HiddenFlush(d) \/ Step(d)
    \/ \E s \in Slots : Lose(d, s)

Spec == Init /\ [][Next]_vars

\* Timers fire and requests are answered; nothing makes the reader act.
FairSpec == Spec /\ \A d \in Devices : WF_vars(Step(d))
-----------------------------------------------------------------------------
\* The reader takes the spoken card, and no other, out of the queue.
TakenOut(d) == Ids(ref'[d]) = Ids(ref[d]) \ {playing[d]}

\* A gap: the player has taken over a document that names another current card,
\* or none, and trimQueue spares that one when the queue is full.
Displaced(d) ==
  d \in adopted /\ ref[d].current # playing[d] /\ Len(ref[d].items) >= MaxQueue

\* listeningState.ts: a card that is being spoken and is in the queue leaves it
\* by a change made on that device only if the reader takes it out, however full
\* the queue is and whatever else has finished; except by the gap above.
PlayedCardStays ==
  [][\A d \in Devices :
       playing[d] \in Ids(ref[d]) /\ now' # now /\ playing'[d] = playing[d]
       => playing[d] \in Ids(ref'[d]) \/ TakenOut(d) \/ Displaced(d)]_vars

\* user_listening_repository.py: the document of an account is never replaced
\* by an older one, in whatever order the uploads of its devices arrive; only
\* uploads that overlap on the server can do that.
NeverOlder ==
  [][\A u \in Users :
       rows[u] # None => rows'[u] # None /\ (rows'[u].at >= rows[u].at \/ u \in clash')]_vars

\* A card that one reader has queued does not come to the account of another,
\* although they share a device; except through the copy the player keeps, an
\* answer that comes after another reader has signed in, and a queue whose
\* owner was never written because the first reconcile failed.
LeakIsExplained ==
  \A u \in Users : rows[u] # None /\ Foreign(rows[u], u) => u \in mixed

Unsent(d) ==
  /\ user[d] # None
  /\ rows[user[d]] = None \/ rows[user[d]].at < local[d].at
  /\ local[d].at > 0

\* Every change of a reader who stays signed in reaches the account, also when
\* it is made during an upload; unless an upload has failed and nothing has
\* started another, uploads overlapped on the server, or a late answer has left
\* the reader with the queue of another account.
ChangeArrives ==
  \A d \in Devices :
    Unsent(d) ~> \/ ~Unsent(d) \/ failed[d]
                 \/ user[d] \in clash \/ Stray(d)
=============================================================================
