-------------------------- MODULE LibrarySyncProofs --------------------------
(***************************************************************************)
(* For any devices, accounts, marks and retention: a removal that the      *)
(* server has confirmed stays, unless two uploads overlap; no mark gets    *)
(* into another account but through the gaps before the first reconcile;   *)
(* and a removal leaves the queue only when it is confirmed, too old, or   *)
(* the storage passes on.                                                  *)
(***************************************************************************)
EXTENDS LibrarySync, TLAPS

\* The last event of a row, mark or removal.
Last(row) == Later(row.marked, row.removed)

\* Whatever happened to mark k at time x is in its row, or superseded there, as
\* long as x counts at all.
Covered(u, k, x) ==
  \/ x = 0 \/ ~Fresh(k, x)
  \/ Last(rows[u][k]) >= x
  \/ <<u, k>> \in clash

\* The confirmed removals are covered, and so is what an upload has read.
Floor ==
  /\ \A u \in Users, k \in Marks : Covered(u, k, removed[u][k])
  /\ \A d \in Devices, s \in Slots :
       task[d][s] # None /\ task[d][s].stage = "loaded" =>
         \A k \in Marks : Covered(task[d][s].user, k, Last(task[d][s].rows[k]))

IInv == TypeOK /\ Floor
-----------------------------------------------------------------------------
\* What counts at x counts at any later time.
LEMMA FreshGrows ==
  ASSUME NEW k \in Marks, NEW x \in Time, NEW y \in Time, y >= x, Fresh(k, x), now \in Time
  PROVE  Fresh(k, y)
BY TimeAssumption DEF Fresh, Time

LEMMA UploadedWell ==
  ASSUME NEW k \in Marks, NEW row \in Row, NEW mark \in Time, NEW op \in Time
  PROVE  /\ Uploaded(k, row, mark, op) \in Row
         /\ Last(Uploaded(k, row, mark, op)) >= Last(row)
         /\ Fresh(k, op) => Last(Uploaded(k, row, mark, op)) >= op
<1>1. \A r \in Row, t \in Time :
        /\ Upsert(r, t) \in Row /\ Last(Upsert(r, t)) >= Last(r)
        /\ Remove(r, t) \in Row /\ Last(Remove(r, t)) >= Last(r) /\ Last(Remove(r, t)) >= t
  BY TimeAssumption DEF Row, Time, Upsert, Remove, Last, Later
<1>2. \A r \in Row : Last(r) \in Time
  BY TimeAssumption DEF Row, Time, Last, Later
<1>3. PICK put \in Row : /\ Last(put) >= Last(row)
                         /\ Uploaded(k, row, mark, op) = IF Fresh(k, op) THEN Remove(put, op) ELSE put
  <2>1. CASE Fresh(k, mark)
    BY <1>1, <2>1 DEF Uploaded
  <2>2. CASE ~Fresh(k, mark)
    BY <1>1, <1>2, <2>2, TimeAssumption DEF Uploaded, Time
  <2>3. QED BY <2>1, <2>2
<1>4. CASE Fresh(k, op)
  BY <1>1, <1>2, <1>3, <1>4, TimeAssumption DEF Time
<1>5. CASE ~Fresh(k, op)
  BY <1>3, <1>5
<1>6. QED BY <1>4, <1>5

LEMMA PurgedWell ==
  ASSUME NEW k \in Marks, NEW row \in Row
  PROVE  /\ Purged(k, row) \in Row
         /\ Last(row) \in Time
         /\ Last(Purged(k, row)) >= Last(row) \/ ~Fresh(k, Last(row))
         /\ Fresh(k, Last(row)) => Purged(k, row) = row
BY TimeAssumption DEF Row, Time, NoRow, Purged, Last, Later
-----------------------------------------------------------------------------
\* What a device or the server makes of marks are marks again.
LEMMA MarksTyped ==
  ASSUME NEW m \in [Marks -> Time], NEW n \in [Marks -> Time]
  PROVE  /\ Nothing \in [Marks -> Time]
         /\ Kept(m) \in [Marks -> Time]
         /\ Merge(m, n) \in [Marks -> Time]
         /\ ApplyRemoves(m, n) \in [Marks -> Time]
BY TimeAssumption DEF Time, Nothing, Kept, Merge, ApplyRemoves, Later

LEMMA ListedTyped ==
  ASSUME TypeOK, NEW u \in Users
  PROVE  Listed(u) \in [Marks -> Time]
BY TimeAssumption DEF TypeOK, Time, Row, Listed

LEMMA TaskTyped ==
  ASSUME NEW u \in Users, NEW stage \in {"get", "got", "put", "loaded", "done"},
         NEW marks \in [Marks -> Time], NEW ops \in [Marks -> Time]
  PROVE  NewTask(u, stage, marks, ops) \in Tasks
<1>1. [k \in Marks |-> NoRow] \in [Marks -> Row]
  BY TimeAssumption DEF NoRow, Row, Time
<1>2. QED BY <1>1 DEF NewTask, Tasks

LEMMA TaskIsSet ==
  ASSUME TypeOK, NEW d \in Devices, NEW s \in Slots, NEW t \in Tasks \cup {None}, SetTask(d, s, t)
  PROVE  task' \in [Devices -> [Slots -> Tasks \cup {None}]]
BY DEF TypeOK, SetTask

\* What a request carries.
LEMMA TaskFields ==
  ASSUME TypeOK, NEW d \in Devices, NEW s \in Slots, task[d][s] # None
  PROVE  /\ task[d][s] \in Tasks
         /\ task[d][s].user \in Users
         /\ task[d][s].marks \in [Marks -> Time]
         /\ task[d][s].ops \in [Marks -> Time]
         /\ task[d][s].rows \in [Marks -> Row]
BY DEF TypeOK, Tasks
-----------------------------------------------------------------------------
\* The clock, the bounds and who is signed in keep their types.
LEMMA ClockTyped ==
  ASSUME TypeOK, NEW d \in Devices, Act(d) \/ Step(d)
  PROVE  now' \in Time /\ moves' \in 0 .. MaxMoves /\ now' >= now
<1> USE TimeAssumption DEF TypeOK, Time, Move, Edit, StartFlush, Abort
<1>1. CASE \E k \in Marks : Mark(d, k)
  BY <1>1 DEF Mark
<1>2. CASE \E k \in Saved : Unmark(d, k)
  BY <1>2 DEF Unmark
<1>3. CASE \E u \in Users : Login(d, u)
  BY <1>3 DEF Login
<1>4. CASE Logout(d)
  BY <1>4 DEF Logout
<1>5. CASE HiddenFlush(d)
  BY <1>5 DEF HiddenFlush
<1>6. CASE TimedFlush(d)
  BY <1>6 DEF TimedFlush
<1>7. CASE TimerIdle(d)
  BY <1>7 DEF TimerIdle
<1>8. CASE \E u \in Users : ServeGet(d, u)
  BY <1>8 DEF ServeGet
<1>9. CASE \E u \in Users : Reconcile(d, u)
  BY <1>9 DEF Reconcile
<1>10. CASE \E s \in Slots : Load(d, s)
  BY <1>10 DEF Load
<1>11. CASE \E s \in Slots : Commit(d, s)
  BY <1>11 DEF Commit
<1>12. CASE \E s \in Slots : Confirm(d, s)
  BY <1>12 DEF Confirm
<1>13. CASE \E s \in Slots : Refuse(d, s)
  BY <1>13 DEF Refuse
<1>14. CASE \E s \in Slots : Lose(d, s)
  BY <1>14 DEF Lose
<1>15. QED BY <1>1, <1>2, <1>3, <1>4, <1>5, <1>6, <1>7, <1>8, <1>9,
           <1>10, <1>11, <1>12, <1>13, <1>14 DEF Act, Step

LEMMA DevicesTyped ==
  ASSUME TypeOK, NEW d \in Devices, Act(d) \/ Step(d)
  PROVE  /\ user' \in [Devices -> Users \cup {None}]
         /\ owner' \in [Devices -> Users \cup {None}]
         /\ timer' \in [Devices -> BOOLEAN]
<1> USE DEF TypeOK, Edit, StartFlush, Abort, EndFlush
<1>1. CASE \E k \in Marks : Mark(d, k)
  BY <1>1 DEF Mark
<1>2. CASE \E k \in Saved : Unmark(d, k)
  BY <1>2 DEF Unmark
<1>3. CASE \E u \in Users : Login(d, u)
  BY <1>3 DEF Login
<1>4. CASE Logout(d)
  BY <1>4 DEF Logout
<1>5. CASE HiddenFlush(d)
  BY <1>5 DEF HiddenFlush
<1>6. CASE TimedFlush(d)
  BY <1>6 DEF TimedFlush
<1>7. CASE TimerIdle(d)
  BY <1>7 DEF TimerIdle
<1>8. CASE \E u \in Users : ServeGet(d, u)
  BY <1>8 DEF ServeGet
<1>9. CASE \E u \in Users : Reconcile(d, u)
  BY <1>9 DEF Reconcile
<1>10. CASE \E s \in Slots : Load(d, s)
  BY <1>10 DEF Load
<1>11. CASE \E s \in Slots : Commit(d, s)
  BY <1>11 DEF Commit
<1>12. CASE \E s \in Slots : Confirm(d, s)
  BY <1>12 DEF Confirm
<1>13. CASE \E s \in Slots : Refuse(d, s)
  BY <1>13 DEF Refuse
<1>14. CASE \E s \in Slots : Lose(d, s)
  BY <1>14 DEF Lose
<1>15. QED BY <1>1, <1>2, <1>3, <1>4, <1>5, <1>6, <1>7, <1>8, <1>9,
           <1>10, <1>11, <1>12, <1>13, <1>14 DEF Act, Step

\* So does the history.
LEMMA HistoryTyped ==
  ASSUME TypeOK, NEW d \in Devices, Act(d) \/ Step(d)
  PROVE  /\ author' \in [Time -> Users \cup {Guest, None}]
         /\ clash' \in SUBSET (Users \X Marks)
         /\ early' \in SUBSET Users
         /\ stray' \in SUBSET Time
<1> USE TimeAssumption DEF TypeOK, Time, Edit, StartFlush, Abort
<1>1. CASE \E k \in Marks : Mark(d, k)
  BY <1>1 DEF Mark
<1>2. CASE \E k \in Saved : Unmark(d, k)
  BY <1>2 DEF Unmark
<1>3. CASE \E u \in Users : Login(d, u)
  BY <1>3 DEF Login
<1>4. CASE Logout(d)
  BY <1>4 DEF Logout
<1>5. CASE HiddenFlush(d)
  BY <1>5 DEF HiddenFlush
<1>6. CASE TimedFlush(d)
  BY <1>6 DEF TimedFlush
<1>7. CASE TimerIdle(d)
  BY <1>7 DEF TimerIdle
<1>8. CASE \E u \in Users : ServeGet(d, u)
  BY <1>8 DEF ServeGet
<1>9. CASE \E u \in Users : Reconcile(d, u)
  BY <1>9 DEF Reconcile
<1>10. CASE \E s \in Slots : Load(d, s)
  BY <1>10 DEF Load
<1>11. CASE \E s \in Slots : Commit(d, s)
  <2>1. PICK s \in Slots : Commit(d, s)
    BY <1>11
  <2>2. task[d][s].user \in Users
    BY <2>1, TaskFields DEF Commit
  <2>3. QED BY <2>1, <2>2 DEF Commit, Writes
<1>12. CASE \E s \in Slots : Confirm(d, s)
  BY <1>12 DEF Confirm
<1>13. CASE \E s \in Slots : Refuse(d, s)
  BY <1>13 DEF Refuse
<1>14. CASE \E s \in Slots : Lose(d, s)
  BY <1>14 DEF Lose
<1>15. QED BY <1>1, <1>2, <1>3, <1>4, <1>5, <1>6, <1>7, <1>8, <1>9,
           <1>10, <1>11, <1>12, <1>13, <1>14 DEF Act, Step

\* What the devices hold stays marks.
LEMMA HoldingsTyped ==
  ASSUME TypeOK, NEW d \in Devices, Act(d) \/ Step(d)
  PROVE  /\ local' \in [Devices -> [Marks -> Time]]
         /\ queue' \in [Devices -> [Marks -> Time]]
<1> USE DEF TypeOK, StartFlush, Abort
<1>1. CASE \E k \in Marks : Mark(d, k)
  <2>1. PICK k \in Marks : Mark(d, k)
    BY <1>1
  <2>2. DEFINE marked == [Kept(local[d]) EXCEPT ![k] = now']
  <2>3. local' = [local EXCEPT ![d] = marked] /\ queue' = queue
    BY <2>1 DEF Mark
  <2>4. Kept(local[d]) \in [Marks -> Time] /\ now' \in Time
    BY MarksTyped, ClockTyped
  <2>5. marked \in [Marks -> Time]
    BY <2>4
  <2>6. HIDE DEF marked
  <2>7. QED BY <2>3, <2>5
<1>2. CASE \E k \in Saved : Unmark(d, k)
  <2>1. PICK k \in Saved : Unmark(d, k)
    BY <1>2
  <2>2. DEFINE left == [Kept(local[d]) EXCEPT ![k] = 0]
  <2>3. local' = [local EXCEPT ![d] = left]
    BY <2>1 DEF Unmark
  <2>4. queue' = [queue EXCEPT ![d][k] = now']
    BY <2>1 DEF Unmark
  <2>5. Kept(local[d]) \in [Marks -> Time] /\ now' \in Time /\ 0 \in Time
    <3>1. 0 \in Time
      BY TimeAssumption DEF Time
    <3>2. QED BY <3>1, MarksTyped, ClockTyped
  <2>6. left \in [Marks -> Time]
    BY <2>5
  <2>7. HIDE DEF left
  <2>8. local' \in [Devices -> [Marks -> Time]]
    BY <2>3, <2>6
  <2>9. queue' \in [Devices -> [Marks -> Time]]
    BY <2>4, <2>5 DEF Marks
  <2>10. QED BY <2>8, <2>9
<1>3. CASE \E u \in Users : Login(d, u)
  BY <1>3 DEF Login
<1>4. CASE Logout(d)
  BY <1>4 DEF Logout
<1>5. CASE HiddenFlush(d)
  BY <1>5 DEF HiddenFlush
<1>6. CASE TimedFlush(d)
  BY <1>6 DEF TimedFlush
<1>7. CASE TimerIdle(d)
  BY <1>7 DEF TimerIdle
<1>8. CASE \E u \in Users : ServeGet(d, u)
  BY <1>8 DEF ServeGet
<1>9. CASE \E u \in Users : Reconcile(d, u)
  <2>1. PICK u \in Users : Reconcile(d, u)
    BY <1>9
  <2>2. task[d][u].marks \in [Marks -> Time]
    BY <2>1, TaskFields DEF Reconcile, Slots
  <2>3. PICK mine, ops \in [Marks -> Time] :
          local' = [local EXCEPT ![d] = mine] /\ queue' = [queue EXCEPT ![d] = ops]
    BY <2>1, <2>2, MarksTyped DEF Reconcile
  <2>4. QED BY <2>3
<1>10. CASE \E s \in Slots : Load(d, s)
  BY <1>10 DEF Load
<1>11. CASE \E s \in Slots : Commit(d, s)
  BY <1>11 DEF Commit
<1>12. CASE \E s \in Slots : Confirm(d, s)
  <2>1. 0 \in Time
    BY TimeAssumption DEF Time
  <2>2. QED BY <1>12, <2>1 DEF Confirm
<1>13. CASE \E s \in Slots : Refuse(d, s)
  BY <1>13 DEF Refuse
<1>14. CASE \E s \in Slots : Lose(d, s)
  BY <1>14 DEF Lose
<1>15. QED BY <1>1, <1>2, <1>3, <1>4, <1>5, <1>6, <1>7, <1>8, <1>9,
           <1>10, <1>11, <1>12, <1>13, <1>14 DEF Act, Step

LEMMA FlushTyped ==
  ASSUME TypeOK, NEW d \in Devices, StartFlush(d)
  PROVE  task' \in [Devices -> [Slots -> Tasks \cup {None}]]
<1>1. user[d] \in Users /\ local[d] \in [Marks -> Time] /\ queue[d] \in [Marks -> Time]
  BY DEF TypeOK, StartFlush
<1>2. NewTask(user[d], "put", Kept(local[d]), queue[d]) \in Tasks
  BY <1>1, TaskTyped, MarksTyped
<1>3. QED BY <1>2, TaskIsSet DEF StartFlush, Slots

\* Requests carry marks and rows.
LEMMA TasksTyped ==
  ASSUME TypeOK, NEW d \in Devices, Act(d) \/ Step(d)
  PROVE  task' \in [Devices -> [Slots -> Tasks \cup {None}]]
<1> USE DEF Slots
<1>1. CASE \E k \in Marks : Mark(d, k)
  BY <1>1 DEF Mark, TypeOK
<1>2. CASE \E k \in Saved : Unmark(d, k)
  BY <1>2 DEF Unmark, TypeOK
<1>3. CASE \E u \in Users : Login(d, u)
  <2>1. PICK u \in Users : SetTask(d, u, NewTask(u, "get", Nothing, Nothing))
    BY <1>3 DEF Login
  <2>2. NewTask(u, "get", Nothing, Nothing) \in Tasks
    <3>1. Nothing \in [Marks -> Time]
      BY TimeAssumption DEF Nothing, Time
    <3>2. QED BY <3>1, TaskTyped
  <2>3. QED BY <2>1, <2>2, TaskIsSet
<1>4. CASE Logout(d)
  BY <1>4 DEF Logout, TypeOK
<1>5. CASE HiddenFlush(d)
  BY <1>5, FlushTyped DEF HiddenFlush
<1>6. CASE TimedFlush(d)
  BY <1>6, FlushTyped DEF TimedFlush
<1>7. CASE TimerIdle(d)
  BY <1>7 DEF TimerIdle, TypeOK
<1>8. CASE \E u \in Users : ServeGet(d, u)
  <2>1. PICK u \in Users : SetTask(d, u, NewTask(u, "got", Listed(u), Nothing))
    BY <1>8 DEF ServeGet
  <2>2. NewTask(u, "got", Listed(u), Nothing) \in Tasks
    BY TaskTyped, MarksTyped, ListedTyped
  <2>3. QED BY <2>1, <2>2, TaskIsSet
<1>9. CASE \E u \in Users : Reconcile(d, u)
  <2>1. PICK u \in Users : Reconcile(d, u)
    BY <1>9
  <2>2. task[d][u].marks \in [Marks -> Time]
    BY <2>1, TaskFields DEF Reconcile
  <2>3. local[d] \in [Marks -> Time] /\ queue[d] \in [Marks -> Time]
    BY DEF TypeOK
  <2>4. PICK mine, ops \in [Marks -> Time] : SetTask(d, u, NewTask(u, "put", mine, ops))
    BY <2>1, <2>2, <2>3, MarksTyped DEF Reconcile
  <2>5. NewTask(u, "put", mine, ops) \in Tasks
    BY TaskTyped
  <2>6. QED BY <2>4, <2>5, TaskIsSet
<1>10. CASE \E s \in Slots : Load(d, s)
  <2>1. PICK s \in Slots : Load(d, s)
    BY <1>10
  <2>2. task[d][s] \in Tasks /\ rows[task[d][s].user] \in [Marks -> Row]
    BY <2>1, TaskFields DEF Load, TypeOK
  <2>3. [task[d][s] EXCEPT !.stage = "loaded", !.rows = rows[task[d][s].user]] \in Tasks
    BY <2>2 DEF Tasks
  <2>4. QED BY <2>1, <2>3, TaskIsSet DEF Load
<1>11. CASE \E s \in Slots : Commit(d, s)
  <2>1. PICK s \in Slots : Commit(d, s)
    BY <1>11
  <2>2. task[d][s].user \in Users /\ task[d][s].ops \in [Marks -> Time]
    BY <2>1, TaskFields DEF Commit
  <2>3. NewTask(task[d][s].user, "done", Nothing, task[d][s].ops) \in Tasks
    BY <2>2, TaskTyped, MarksTyped
  <2>4. QED BY <2>1, <2>3, TaskIsSet DEF Commit
<1>12. CASE \E s \in Slots : Confirm(d, s)
  BY <1>12, TaskIsSet DEF Confirm
<1>13. CASE \E s \in Slots : Refuse(d, s)
  BY <1>13, TaskIsSet DEF Refuse, Abort
<1>14. CASE \E s \in Slots : Lose(d, s)
  BY <1>14, TaskIsSet DEF Lose, Abort
<1>15. QED BY <1>1, <1>2, <1>3, <1>4, <1>5, <1>6, <1>7, <1>8, <1>9,
           <1>10, <1>11, <1>12, <1>13, <1>14 DEF Act, Step
-----------------------------------------------------------------------------
\* Rows are marks and removals; what a row says last never goes back while it
\* counts, unless uploads overlap on the server.
LEMMA CommitGrows ==
  ASSUME IInv, NEW d \in Devices, NEW s \in Slots, Commit(d, s)
  PROVE  /\ rows' \in [Users -> [Marks -> Row]]
         /\ removed' \in [Users -> [Marks -> Time]]
         /\ \A u \in Users, k \in Marks :
              \/ <<u, k>> \in clash'
              \/ /\ \/ Last(rows'[u][k]) >= Last(rows[u][k])
                    \/ ~Fresh(k, Last(rows[u][k]))
                 /\ \/ removed'[u][k] = removed[u][k]
                    \/ Last(rows'[u][k]) >= removed'[u][k]
<1> DEFINE t == task[d][s]
           column(k, c) == IF Result(t, k)[c] = t.rows[k][c]
                           THEN rows[t.user][k][c] ELSE Result(t, k)[c]
           written(k) == [marked |-> column(k, "marked"), removed |-> column(k, "removed")]
<1>1. /\ rows' = [rows EXCEPT ![t.user] = [k \in Marks |-> Purged(k, written(k))]]
      /\ removed' = [removed EXCEPT ![t.user] =
           [k \in Marks |-> IF Fresh(k, t.ops[k]) THEN Later(removed[t.user][k], t.ops[k])
                            ELSE removed[t.user][k]]]
      /\ clash' = clash \cup {<<t.user, k>> : k \in {j \in Writes(t) : t.rows[j] # rows[t.user][j]}}
      /\ t # None /\ t.stage = "loaded"
  BY DEF Commit
<1>2. /\ t.user \in Users /\ t.marks \in [Marks -> Time] /\ t.ops \in [Marks -> Time]
      /\ t.rows \in [Marks -> Row] /\ rows[t.user] \in [Marks -> Row]
      /\ rows \in [Users -> [Marks -> Row]] /\ removed \in [Users -> [Marks -> Time]]
  BY <1>1, TaskFields DEF IInv, TypeOK
<1>3. \A k \in Marks : /\ Result(t, k) \in Row /\ Last(Result(t, k)) >= Last(t.rows[k])
                       /\ Fresh(k, t.ops[k]) => Last(Result(t, k)) >= t.ops[k]
  BY <1>2, UploadedWell DEF Result
<1>4. \A k \in Marks : written(k) \in Row
  BY <1>2, <1>3 DEF Row
<1>5. \A k \in Marks : /\ t.rows[k] = rows[t.user][k] => written(k) = Result(t, k)
                       /\ Result(t, k) = t.rows[k] => written(k) = rows[t.user][k]
  BY <1>2, <1>3 DEF Row
<1>6. \A k \in Marks : Covered(t.user, k, Last(t.rows[k]))
  BY <1>1 DEF IInv, Floor
<1>10. now \in Time
  BY DEF IInv, TypeOK
<1> HIDE DEF t, written
<1>7. rows' \in [Users -> [Marks -> Row]]
  BY <1>1, <1>2, <1>4, PurgedWell
<1>8. removed' \in [Users -> [Marks -> Time]]
  BY <1>1, <1>2 DEF Later
<1>9. ASSUME NEW u \in Users, NEW k \in Marks, <<u, k>> \notin clash'
      PROVE  /\ Last(rows'[u][k]) >= Last(rows[u][k]) \/ ~Fresh(k, Last(rows[u][k]))
             /\ removed'[u][k] = removed[u][k] \/ Last(rows'[u][k]) >= removed'[u][k]
  <2>1. CASE u # t.user
    BY <1>1, <1>2, <2>1, PurgedWell DEF Time
  <2>2. CASE u = t.user
    <3>1. /\ rows'[u][k] = Purged(k, written(k))
          /\ removed'[u][k] = IF Fresh(k, t.ops[k]) THEN Later(removed[u][k], t.ops[k])
                              ELSE removed[u][k]
      BY <1>1, <1>2, <2>2
    <3>2. /\ Last(rows[u][k]) \in Time /\ Last(written(k)) \in Time
          /\ Last(t.rows[k]) \in Time /\ t.ops[k] \in Time /\ removed[u][k] \in Time
      BY <1>2, <1>4, PurgedWell
    <3>3. t.rows[k] = rows[u][k] \/ k \notin Writes(t)
      BY <1>1, <1>9, <2>2
    <3>4. /\ Last(written(k)) >= Last(rows[u][k])
          /\ Fresh(k, t.ops[k]) => Last(written(k)) >= t.ops[k]
      <4>1. CASE t.rows[k] = rows[u][k]
        BY <1>3, <1>5, <2>2, <4>1
      <4>2. CASE k \notin Writes(t)
        <5>1. Result(t, k) = t.rows[k] /\ written(k) = rows[u][k]
          BY <1>5, <2>2, <4>2 DEF Writes
        <5>2. <<u, k>> \notin clash
          BY <1>1, <1>9
        <5>3. ASSUME Fresh(k, t.ops[k]) PROVE Last(rows[u][k]) >= t.ops[k]
          <6>1. Last(t.rows[k]) >= t.ops[k]
            BY <1>3, <5>1, <5>3
          <6>2. Fresh(k, Last(t.rows[k])) /\ Last(t.rows[k]) # 0
            BY <1>10, <3>2, <5>3, <6>1, FreshGrows DEF Fresh, Time
          <6>3. Last(rows[u][k]) >= Last(t.rows[k])
            BY <1>6, <2>2, <5>2, <6>2 DEF Covered
          <6>4. QED BY <3>2, <6>1, <6>3 DEF Time
        <5>4. QED BY <3>2, <5>1, <5>3 DEF Time
      <4>3. QED BY <3>3, <4>1, <4>2
    <3>5. ASSUME Fresh(k, Last(rows[u][k])) PROVE Last(rows'[u][k]) >= Last(rows[u][k])
      <4>1. Fresh(k, Last(written(k)))
        BY <1>10, <3>2, <3>4, <3>5, FreshGrows
      <4>2. Purged(k, written(k)) = written(k)
        BY <1>4, <4>1, PurgedWell
      <4>3. QED BY <3>1, <3>4, <4>2
    <3>6. ASSUME removed'[u][k] # removed[u][k] PROVE Last(rows'[u][k]) >= removed'[u][k]
      <4>1. Fresh(k, t.ops[k]) /\ removed'[u][k] = t.ops[k]
        BY <3>1, <3>6 DEF Later
      <4>2. Fresh(k, Last(written(k)))
        BY <1>10, <3>2, <3>4, <4>1, FreshGrows
      <4>3. Purged(k, written(k)) = written(k)
        BY <1>4, <4>2, PurgedWell
      <4>4. QED BY <3>1, <3>4, <4>1, <4>3
    <3>7. QED BY <3>5, <3>6
  <2>3. QED BY <2>1, <2>2
<1>11. QED BY <1>7, <1>8, <1>9

\* A GET purges what no longer counts.
LEMMA GetGrows ==
  ASSUME IInv, NEW d \in Devices, NEW u \in Users, ServeGet(d, u)
  PROVE  /\ rows' \in [Users -> [Marks -> Row]]
         /\ \A v \in Users, k \in Marks : \/ Last(rows'[v][k]) >= Last(rows[v][k])
                                          \/ ~Fresh(k, Last(rows[v][k]))
<1>1. rows' = [rows EXCEPT ![u] = [k \in Marks |-> Purged(k, rows[u][k])]]
  BY DEF ServeGet
<1>2. \A v \in Users, k \in Marks : rows[v][k] \in Row
  BY DEF IInv, TypeOK
<1>3. \A v \in Users, k \in Marks : /\ Purged(k, rows[v][k]) \in Row
                                    /\ Last(rows[v][k]) \in Time
                                    /\ \/ Last(Purged(k, rows[v][k])) >= Last(rows[v][k])
                                       \/ ~Fresh(k, Last(rows[v][k]))
  BY <1>2, PurgedWell
<1>4. rows' \in [Users -> [Marks -> Row]]
  BY <1>1, <1>3 DEF IInv, TypeOK
<1>5. ASSUME NEW v \in Users, NEW k \in Marks
      PROVE  Last(rows'[v][k]) >= Last(rows[v][k]) \/ ~Fresh(k, Last(rows[v][k]))
  <2>1. CASE v = u
    BY <1>1, <1>3, <2>1 DEF IInv, TypeOK
  <2>2. CASE v # u
    BY <1>1, <1>3, <2>2 DEF IInv, TypeOK, Time
  <2>3. QED BY <2>1, <2>2
<1>6. QED BY <1>4, <1>5

\* So what was covered stays covered.
LEMMA CoverStays ==
  ASSUME TypeOK, NEW u \in Users, NEW k \in Marks, NEW x \in Time,
         now' \in Time, now' >= now, rows'[u][k] \in Row,
         \/ <<u, k>> \in clash' 
         \/ Last(rows'[u][k]) >= Last(rows[u][k]) \/ ~Fresh(k, Last(rows[u][k])),
         <<u, k>> \in clash => <<u, k>> \in clash',
         Covered(u, k, x)
  PROVE  Covered(u, k, x)'
<1>1. Last(rows[u][k]) \in Time /\ Last(rows'[u][k]) \in Time /\ now \in Time
  BY PurgedWell DEF TypeOK
<1>2. ASSUME ~Fresh(k, x) PROVE ~Fresh(k, x)'
  BY <1>1, <1>2, TimeAssumption DEF Fresh, Time
<1>3. ASSUME Last(rows[u][k]) >= x, ~Fresh(k, Last(rows[u][k])) PROVE ~Fresh(k, x)
  BY <1>1, <1>3, FreshGrows
<1>4. ASSUME Last(rows[u][k]) >= x, Last(rows'[u][k]) >= Last(rows[u][k]) PROVE Last(rows'[u][k]) >= x
  BY <1>1, <1>4 DEF Time
<1>5. Last(rows[u][k])' = Last(rows'[u][k])
  BY DEF Last, Later
<1>6. QED BY <1>2, <1>3, <1>4, <1>5 DEF Covered

\* Only a GET and the commit of an upload touch the rows, and only a commit the
\* history of removals.
LEMMA RowsStay ==
  ASSUME NEW d \in Devices, Act(d) \/ Step(d)
  PROVE  \/ rows' = rows /\ removed' = removed /\ clash' = clash
         \/ \E u \in Users : ServeGet(d, u) /\ removed' = removed /\ clash' = clash
         \/ \E s \in Slots : Commit(d, s)
BY DEF Act, Step, Mark, Unmark, Edit, Login, Logout, HiddenFlush, TimedFlush, StartFlush, TimerIdle,
       ServeGet, Reconcile, Load, Confirm, Refuse, Lose, Abort

\* In every step what rows say last does not go back while it counts.
LEMMA Grows ==
  ASSUME IInv, NEW d \in Devices, Act(d) \/ Step(d)
  PROVE  /\ rows' \in [Users -> [Marks -> Row]]
         /\ removed' \in [Users -> [Marks -> Time]]
         /\ clash \subseteq clash'
         /\ \A u \in Users, k \in Marks :
              \/ <<u, k>> \in clash'
              \/ /\ \/ Last(rows'[u][k]) >= Last(rows[u][k])
                    \/ ~Fresh(k, Last(rows[u][k]))
                 /\ \/ removed'[u][k] = removed[u][k]
                    \/ Last(rows'[u][k]) >= removed'[u][k]
<1>1. /\ rows \in [Users -> [Marks -> Row]]
      /\ removed \in [Users -> [Marks -> Time]]
  BY DEF IInv, TypeOK
<1>2. CASE rows' = rows /\ removed' = removed /\ clash' = clash
  <2>1. \A u \in Users, k \in Marks : Last(rows[u][k]) \in Time
    BY <1>1, PurgedWell
  <2>2. QED BY <1>1, <1>2, <2>1 DEF Time
<1>3. CASE \E u \in Users : ServeGet(d, u) /\ removed' = removed /\ clash' = clash
  BY <1>1, <1>3, GetGrows
<1>4. CASE \E s \in Slots : Commit(d, s)
  <2>1. PICK s \in Slots : Commit(d, s)
    BY <1>4
  <2>2. clash \subseteq clash'
    BY <2>1 DEF Commit
  <2>3. QED BY <2>1, <2>2, CommitGrows
<1>5. QED BY <1>2, <1>3, <1>4, RowsStay

\* A request is in its commit only when it was, or has just read the rows.
LEMMA LoadedNow ==
  ASSUME TypeOK, NEW d \in Devices, Act(d) \/ Step(d), NEW e \in Devices, NEW s \in Slots,
         task'[e][s] # None, task'[e][s].stage = "loaded"
  PROVE  \/ task'[e][s] = task[e][s]
         \/ /\ e = d /\ Load(d, s)
            /\ task'[e][s].user = task[e][s].user
            /\ task'[e][s].rows = rows[task[e][s].user]
<1>1. task \in [Devices -> [Slots -> Tasks \cup {None}]]
  BY DEF TypeOK
<1> USE <1>1 DEF Slots, SetTask, NewTask, StartFlush, Abort
<1>2. CASE task' = task
  BY <1>2
<1>3. CASE \E u \in Users : Login(d, u)
  BY <1>3 DEF Login
<1>4. CASE StartFlush(d)
  BY <1>4
<1>5. CASE \E u \in Users : ServeGet(d, u)
  BY <1>5 DEF ServeGet
<1>6. CASE \E u \in Users : Reconcile(d, u)
  BY <1>6 DEF Reconcile
<1>7. CASE \E r \in Slots : Load(d, r)
  <2>1. PICK r \in Slots : Load(d, r)
    BY <1>7
  <2>2. CASE e = d /\ r = s
    <3>1. task[d][r] \in Tasks
      BY <1>1, <2>1 DEF Load
    <3>2. QED BY <2>1, <2>2, <3>1 DEF Load, Tasks
  <2>3. CASE ~(e = d /\ r = s)
    BY <2>1, <2>3 DEF Load
  <2>4. QED BY <2>2, <2>3
<1>8. CASE \E r \in Slots : Commit(d, r)
  BY <1>8 DEF Commit
<1>9. CASE \E r \in Slots : Confirm(d, r) \/ Refuse(d, r) \/ Lose(d, r)
  <2>1. PICK r \in Slots : SetTask(d, r, None)
    BY <1>9 DEF Confirm, Refuse, Lose
  <2>2. QED BY <2>1
<1>10. QED BY <1>2, <1>3, <1>4, <1>5, <1>6, <1>7, <1>8, <1>9
           DEF Act, Step, Mark, Unmark, Logout, HiddenFlush, TimedFlush, TimerIdle
-----------------------------------------------------------------------------
\* One step of a device or of its requests.
LEMMA DeviceStep ==
  ASSUME IInv, NEW d \in Devices, Act(d) \/ Step(d)
  PROVE  IInv'
<1>1. TypeOK
  BY DEF IInv
<1>2. /\ now' \in Time /\ now' >= now
      /\ rows' \in [Users -> [Marks -> Row]]
      /\ removed' \in [Users -> [Marks -> Time]]
      /\ clash \subseteq clash'
  BY <1>1, ClockTyped, Grows
<1>3. TypeOK'
  BY <1>1, <1>2, ClockTyped, DevicesTyped, HistoryTyped, HoldingsTyped, TasksTyped DEF TypeOK
<1>4. ASSUME NEW u \in Users, NEW k \in Marks, NEW x \in Time, Covered(u, k, x)
      PROVE  Covered(u, k, x)'
  BY <1>1, <1>2, <1>4, Grows, CoverStays
<1>5. ASSUME NEW u \in Users, NEW k \in Marks
      PROVE  Covered(u, k, removed[u][k])'
  <2>1. removed[u][k] \in Time
    BY <1>1 DEF TypeOK
  <2>2. CASE removed'[u][k] = removed[u][k]
    <3>1. PICK x \in Time : x = removed[u][k]
      BY <2>1
    <3>2. Covered(u, k, x)
      BY <3>1 DEF IInv, Floor
    <3>3. Covered(u, k, x)'
      BY <3>2, <1>4
    <3>4. QED BY <2>2, <3>1, <3>3 DEF Covered, Fresh
  <2>3. CASE removed'[u][k] # removed[u][k]
    BY <2>3, Grows DEF Covered, Last, Later
  <2>4. QED BY <2>2, <2>3
<1>6. ASSUME NEW e \in Devices, NEW s \in Slots, task'[e][s] # None, task'[e][s].stage = "loaded", NEW k \in Marks
      PROVE  Covered(task[e][s].user, k, Last(task[e][s].rows[k]))'
  <2>1. PICK v \in Users, x \in Time :
          /\ v = task'[e][s].user /\ x = Last(task'[e][s].rows[k])
          /\ Covered(v, k, x)
    <3>1. CASE task'[e][s] = task[e][s]
      <4>1. /\ Covered(task[e][s].user, k, Last(task[e][s].rows[k]))
            /\ task[e][s].user \in Users /\ Last(task[e][s].rows[k]) \in Time
        BY <1>1, <1>6, <3>1, TaskFields, PurgedWell DEF IInv, Floor
      <4>2. QED BY <3>1, <4>1 DEF Last
    <3>2. CASE /\ e = d /\ Load(d, s)
               /\ task'[e][s].user = task[e][s].user
               /\ task'[e][s].rows = rows[task[e][s].user]
      <4>1. task[d][s] \in Tasks /\ task[d][s].user \in Users
        BY <1>1, <3>2, TaskFields DEF Load
      <4>2. rows[task[d][s].user][k] \in Row
        BY <1>1, <4>1 DEF TypeOK
      <4>3. /\ Covered(task[d][s].user, k, Last(rows[task[d][s].user][k]))
            /\ Last(rows[task[d][s].user][k]) \in Time
        BY <4>2, PurgedWell DEF Covered, Time
      <4>4. QED BY <3>2, <4>1, <4>3
    <3>3. \/ task'[e][s] = task[e][s]
          \/ /\ e = d /\ Load(d, s)
             /\ task'[e][s].user = task[e][s].user
             /\ task'[e][s].rows = rows[task[e][s].user]
      BY <1>1, <1>6, LoadedNow
    <3>4. QED BY <3>1, <3>2, <3>3
  <2>2. Covered(v, k, x)'
    BY <2>1, <1>4
  <2>3. QED BY <2>1, <2>2 DEF Covered, Last, Later, Fresh
<1>7. QED BY <1>3, <1>5, <1>6 DEF IInv, Floor

\* A tick of the clock.
LEMMA TickStep ==
  ASSUME IInv, Tick
  PROVE  IInv'
<1>1. TypeOK
  BY DEF IInv
<1>2. now \in Time /\ now' \in Time /\ now' >= now
  BY <1>1, TimeAssumption DEF Tick, TypeOK, Time
<1>3. TypeOK'
  BY <1>1, <1>2 DEF TypeOK, Tick, deviceVars, OnTheWay, Tasks
<1>4. ASSUME NEW u \in Users, NEW k \in Marks, NEW x \in Time, Covered(u, k, x)
      PROVE  Covered(u, k, x)'
  <2>1. rows' = rows /\ clash' = clash
    BY DEF Tick
  <2>2. ASSUME ~Fresh(k, x) PROVE ~Fresh(k, x)'
    BY <1>2, <2>2, TimeAssumption DEF Fresh, Time
  <2>3. QED BY <1>4, <2>1, <2>2 DEF Covered, Last, Later
<1>5. ASSUME NEW u \in Users, NEW k \in Marks
      PROVE  Covered(u, k, removed[u][k])'
  <2>1. PICK x \in Time : x = removed[u][k]
    BY <1>1 DEF TypeOK
  <2>2. Covered(u, k, x)'
    BY <2>1, <1>4 DEF IInv, Floor
  <2>3. removed' = removed
    BY DEF Tick
  <2>4. QED BY <2>1, <2>2, <2>3 DEF Covered, Fresh
<1>6. ASSUME NEW e \in Devices, NEW s \in Slots, task'[e][s] # None, task'[e][s].stage = "loaded", NEW k \in Marks
      PROVE  Covered(task[e][s].user, k, Last(task[e][s].rows[k]))'
  <2>1. task' = task
    BY DEF Tick, deviceVars
  <2>2. /\ Covered(task[e][s].user, k, Last(task[e][s].rows[k]))
        /\ task[e][s].user \in Users /\ Last(task[e][s].rows[k]) \in Time
    BY <1>1, <1>6, <2>1, TaskFields, PurgedWell DEF IInv, Floor
  <2>3. PICK v \in Users, x \in Time : v = task[e][s].user /\ x = Last(task[e][s].rows[k])
    BY <2>2
  <2>4. Covered(v, k, x)'
    BY <2>2, <2>3, <1>4
  <2>5. QED BY <2>1, <2>3, <2>4 DEF Covered, Last, Later, Fresh
<1>7. QED BY <1>3, <1>5, <1>6 DEF IInv, Floor

LEMMA InvInit == Init => IInv
<1> SUFFICES ASSUME Init PROVE IInv
  OBVIOUS
<1>1. 0 \in Time /\ NoRow \in Row
  BY TimeAssumption DEF Time, NoRow, Row
<1>2. user \in [Devices -> Users \cup {None}]
  BY DEF Init
<1>3. TypeOK
  BY <1>1, <1>2, TimeAssumption DEF Init, TypeOK, Nothing
<1>4. Floor
  BY DEF Init, Floor, Covered, Nothing
<1>5. QED BY <1>3, <1>4 DEF IInv

LEMMA InvStep == IInv /\ [Next]_vars => IInv'
<1> SUFFICES ASSUME IInv, [Next]_vars PROVE IInv'
  OBVIOUS
<1>1. CASE Tick
  BY <1>1, TickStep
<1>2. CASE \E d \in Devices : Act(d) \/ Step(d)
  BY <1>2, DeviceStep
<1>3. CASE UNCHANGED vars
  BY <1>3 DEF IInv, TypeOK, Floor, Covered, Last, Fresh, Later, vars
<1>4. QED BY <1>1, <1>2, <1>3 DEF Next

-----------------------------------------------------------------------------
\* A mark of time t may be where it counts as o's: somebody made it then, and it
\* was o or nobody signed in, or it came through a gap.
Explained(o, t) ==
  t = 0 \/ /\ t <= now
           /\ author[t] \in {o, Guest} \ {None} \/ o \in early \/ t \in stray

\* A reconcile is for the account of its slot.
OwnSlots == \A d \in Devices, u \in Users : task[d][u] # None => task[d][u].user = u

\* The storage of a device holds marks of its owner, a request marks of its
\* account, and so do the rows.
Origins ==
  /\ \A d \in Devices, k \in Marks : Explained(owner[d], local[d][k])
  /\ \A d \in Devices, s \in Slots : task[d][s] # None =>
       \A k \in Marks : Explained(task[d][s].user, task[d][s].marks[k])
  /\ \A u \in Users, k \in Marks : Explained(u, rows[u][k].marked)

\* What the answer of an upload confirms.
Confirmed ==
  \A d \in Devices, s \in Slots : task[d][s] # None /\ task[d][s].stage = "done" =>
    \A k \in Marks : \/ ~Fresh(k, task[d][s].ops[k])
                     \/ removed[task[d][s].user][k] >= task[d][s].ops[k]

\* No step rewrites the past.
LEMMA PastStays ==
  ASSUME TypeOK, NEW d \in Devices, Act(d) \/ Step(d)
  PROVE  /\ now <= now' /\ now \in Time /\ now' \in Time
         /\ \A t \in Time : t <= now => author'[t] = author[t]
         /\ early \subseteq early' /\ stray \subseteq stray'
<1>1. now \in Nat /\ now \in Time /\ now' \in Time /\ now <= now'
  BY ClockTyped, TimeAssumption DEF TypeOK, Time
<1>2. CASE \E k \in Marks : Mark(d, k) \/ (k \in Saved /\ Unmark(d, k))
  <2>1. Edit(d) /\ early' = early
    BY <1>2 DEF Mark, Unmark
  <2>2. \A t \in Time : t <= now => t # now + 1
    BY <1>1, TimeAssumption DEF Time
  <2>3. \A t \in Time : t <= now => author'[t] = author[t]
    BY <2>1, <2>2 DEF Edit, TypeOK
  <2>4. stray \subseteq stray'
    BY <2>1 DEF Edit
  <2>5. QED BY <1>1, <2>1, <2>3, <2>4
<1>3. CASE author' = author /\ stray' = stray /\ early \subseteq early'
  BY <1>1, <1>3
<1>4. QED
  BY <1>2, <1>3
  DEF Act, Step, Login, Logout, HiddenFlush, TimedFlush, StartFlush, TimerIdle,
      ServeGet, Reconcile, Load, Commit, Confirm, Refuse, Lose, Abort, Marks

\* So what is explained stays explained.
LEMMA ExplainedStays ==
  ASSUME TypeOK, NEW d \in Devices, Act(d) \/ Step(d), NEW o, NEW t \in Time, Explained(o, t)
  PROVE  Explained(o, t)'
<1>1. t <= now => t <= now'
  BY PastStays, TimeAssumption DEF Time
<1>2. QED BY <1>1, PastStays DEF Explained

\* Marks that nobody in particular has made may be taken over by any account.
LEMMA ExplainedToAll ==
  ASSUME TypeOK, NEW t \in Time, Explained(None, t), NEW o PROVE Explained(o, t)
<1>1. None \notin early
  BY SlotsAssumption DEF TypeOK
<1>2. QED BY <1>1 DEF Explained

\* An edit is made by the owner of the storage, by nobody, or before the
\* reader's first reconcile.
LEMMA EditIsExplained ==
  ASSUME TypeOK, NEW d \in Devices, Edit(d), NEW o, o = owner[d], NEW t, t = now'
  PROVE  t \in Time /\ Explained(o, t)'
<1>1. t \in Time /\ now' = now + 1 /\ now \in Nat
  BY TimeAssumption DEF Edit, TypeOK, Time
<1>2. author'[t] = IF user[d] = None THEN Guest ELSE user[d]
  BY <1>1 DEF Edit, TypeOK
<1>3. user[d] \notin {None, o} => t \in stray'
  BY DEF Edit
<1>4. author'[t] \in {o, Guest} \ {None} \/ t \in stray'
  BY <1>2, <1>3, SlotsAssumption
<1>5. t <= now'
  BY <1>1
<1>6. QED BY <1>1, <1>4, <1>5 DEF Explained

\* What a device holds after a reconcile comes from the answer, or from its own
\* storage, and from that only if it was the account's or nobody's.
LEMMA Reconciled ==
  ASSUME TypeOK, NEW d \in Devices, NEW u \in Users, Reconcile(d, u)
  PROVE  /\ owner' = [owner EXCEPT ![d] = u]
         /\ \E mine \in [Marks -> Time], ops \in [Marks -> Time] :
              /\ local' = [local EXCEPT ![d] = mine]
              /\ SetTask(d, u, NewTask(u, "put", mine, ops))
              /\ \A k \in Marks : \/ mine[k] = 0 \/ mine[k] = task[d][u].marks[k]
                                  \/ owner[d] \in {None, u} /\ mine[k] = local[d][k]
<1> DEFINE remote == task[d][u].marks
           foreign == owner[d] \notin {None, u}
           ops == IF foreign THEN Nothing ELSE queue[d]
           mine == Kept(IF foreign THEN remote
                        ELSE ApplyRemoves(Merge(Kept(local[d]), remote), ops))
<1>1. /\ remote \in [Marks -> Time] /\ local[d] \in [Marks -> Time]
      /\ queue[d] \in [Marks -> Time]
  BY TaskFields DEF Reconcile, Slots, TypeOK
<1>2. mine \in [Marks -> Time] /\ ops \in [Marks -> Time]
  BY <1>1, MarksTyped
<1>3. \A k \in Marks : \/ mine[k] = 0 \/ mine[k] = remote[k]
                       \/ ~foreign /\ mine[k] = local[d][k]
  BY DEF Kept, ApplyRemoves, Merge, Later
<1>4. /\ owner' = [owner EXCEPT ![d] = u] /\ local' = [local EXCEPT ![d] = mine]
      /\ SetTask(d, u, NewTask(u, "put", mine, ops))
  BY DEF Reconcile
<1>5. QED
  <2> HIDE DEF mine, ops
  <2>1. QED BY <1>2, <1>3, <1>4

\* Each storage after a step, by where its marks come from.
LEMMA StorageKept ==
  ASSUME TypeOK, OwnSlots, Origins, NEW d \in Devices, Act(d) \/ Step(d),
         NEW e \in Devices, NEW k \in Marks
  PROVE  Explained(owner[e], local[e][k])'
<1> USE DEF TypeOK
<1>1. local[e][k] \in Time /\ 0 \in Time /\ Explained(owner[e], local[e][k])
  BY TimeAssumption DEF Origins, Time
<1>2. PICK o : o = owner[e]
  OBVIOUS
<1>9. PICK t \in Time : t = local[e][k]
  BY <1>1
<1>3. Explained(o, t)
  BY <1>1, <1>2, <1>9
<1>4. Explained(o, t)' /\ Explained(o, 0)'
  BY <1>3, ExplainedStays DEF Explained
<1>5. CASE owner'[e] = owner[e] /\ local'[e][k] \in {0, local[e][k]}
  BY <1>2, <1>9, <1>4, <1>5 DEF Explained
<1>6. CASE \E j \in Marks : (Mark(d, j) \/ Unmark(d, j)) /\ e = d
  <2>1. PICK j \in Marks : (Mark(d, j) \/ Unmark(d, j)) /\ e = d
    BY <1>6
  <2>2. Edit(d) /\ owner' = owner
    BY <2>1 DEF Mark, Unmark
  <2>3. local'[d][k] \in {0, local[d][k], now'}
    <3>1. PICK x : local' = [local EXCEPT ![d] = [Kept(local[d]) EXCEPT ![j] = x]] /\ x \in {0, now'}
      BY <2>1 DEF Mark, Unmark
    <3>2. local'[d][k] = IF k = j THEN x ELSE Kept(local[d])[k]
      BY <3>1 DEF Kept
    <3>3. Kept(local[d])[k] \in {0, local[d][k]}
      BY DEF Kept
    <3>4. QED BY <3>1, <3>2, <3>3
  <2>4. CASE local'[d][k] = now'
    <3>1. PICK n : n = now'
      OBVIOUS
    <3>2. Explained(o, n)'
      BY <1>2, <2>1, <2>2, <3>1, EditIsExplained
    <3>3. owner'[e] = o /\ local'[e][k] = n
      BY <1>2, <2>1, <2>2, <2>4, <3>1
    <3>4. QED BY <3>2, <3>3 DEF Explained
  <2>5. QED BY <1>5, <2>1, <2>2, <2>3, <2>4
<1>7. CASE \E u \in Users : Reconcile(d, u) /\ e = d
  <2>1. PICK u \in Users : Reconcile(d, u) /\ e = d
    BY <1>7
  <2>2. PICK mine \in [Marks -> Time] :
          /\ owner'[e] = u /\ local'[e][k] = mine[k]
          /\ \/ mine[k] = 0 \/ mine[k] = task[d][u].marks[k]
             \/ owner[d] \in {None, u} /\ mine[k] = local[d][k]
    <3>1. PICK mine \in [Marks -> Time] :
            /\ owner' = [owner EXCEPT ![d] = u] /\ local' = [local EXCEPT ![d] = mine]
            /\ \A j \in Marks : \/ mine[j] = 0 \/ mine[j] = task[d][u].marks[j]
                                \/ owner[d] \in {None, u} /\ mine[j] = local[d][j]
      BY <2>1, Reconciled
    <3>2. owner'[e] = u /\ local'[e] = mine
      BY <2>1, <3>1
    <3>3. QED BY <3>1, <3>2
  <2>3. PICK x \in Time : x = mine[k]
    BY <2>2
  <2>4. Explained(u, x)
    <3>1. CASE x = 0
      BY <3>1 DEF Explained
    <3>2. CASE x = task[d][u].marks[k]
      <4>1. task[d][u] # None /\ task[d][u].user = u
        BY <2>1 DEF Reconcile, OwnSlots
      <4>2. QED BY <3>2, <4>1 DEF Origins, Slots
    <3>3. CASE owner[d] \in {None, u} /\ x = local[d][k]
      BY <1>2, <1>9, <1>3, <2>1, <3>3, ExplainedToAll
    <3>4. QED BY <2>2, <2>3, <3>1, <3>2, <3>3
  <2>5. Explained(u, x)'
    BY <2>4, ExplainedStays
  <2>6. QED BY <2>2, <2>3, <2>5 DEF Explained
<1>8. QED
  BY <1>5, <1>6, <1>7
  DEF Act, Step, Mark, Unmark, Login, Logout, HiddenFlush, TimedFlush, StartFlush, TimerIdle,
      ServeGet, Reconcile, Load, Commit, Confirm, Refuse, Lose, Abort, Marks

\* Each request after a step, by where its marks come from; and its user is the
\* one of its slot.
LEMMA RequestNow ==
  ASSUME TypeOK, OwnSlots, NEW d \in Devices, Act(d) \/ Step(d),
         NEW e \in Devices, NEW s \in Slots, task'[e][s] # None
  PROVE  /\ s \in Users => task'[e][s].user = s
         /\ task'[e][s].user \in Users
         /\ \/ /\ task[e][s] # None
               /\ task'[e][s].user = task[e][s].user /\ task'[e][s].marks = task[e][s].marks
            \/ task'[e][s].marks = Nothing
            \/ e = d /\ StartFlush(d) /\ task'[e][s].user = user[d]
                     /\ task'[e][s].marks = Kept(local[d])
            \/ e = d /\ s \in Users /\ ServeGet(d, s) /\ task'[e][s].marks = Listed(s)
            \/ e = d /\ s \in Users /\ Reconcile(d, s) /\ task'[e][s].marks = local'[d]
                     /\ owner'[d] = s
<1>1. task \in [Devices -> [Slots -> Tasks \cup {None}]]
  BY DEF TypeOK
<1>2. task[e][s] # None => task[e][s].user \in Users /\ (s \in Users => task[e][s].user = s)
  BY TaskFields DEF OwnSlots
<1>3. ASSUME NEW r \in Slots, NEW t, SetTask(d, r, t)
      PROVE  task'[e][s] = IF e = d /\ s = r THEN t ELSE task[e][s]
  BY <1>1, <1>3 DEF SetTask
<1>4. \A u, stage, marks, ops : /\ NewTask(u, stage, marks, ops).user = u
                                /\ NewTask(u, stage, marks, ops).marks = marks
  BY DEF NewTask
<1>5. Flush \notin Users /\ Flush \in Slots /\ Users \subseteq Slots
  BY SlotsAssumption DEF Slots
<1>6. CASE task' = task
  BY <1>2, <1>6
<1>7. CASE \E u \in Users : Login(d, u)
  <2>1. PICK u \in Users : SetTask(d, u, NewTask(u, "get", Nothing, Nothing))
    BY <1>7 DEF Login
  <2>2. task'[e][s] = IF e = d /\ s = u THEN NewTask(u, "get", Nothing, Nothing) ELSE task[e][s]
    BY <1>3, <1>5, <2>1
  <2>3. QED BY <1>2, <1>4, <2>2
<1>8. CASE StartFlush(d)
  <2>1. user[d] \in Users /\ SetTask(d, Flush, NewTask(user[d], "put", Kept(local[d]), queue[d]))
    BY <1>8 DEF StartFlush, TypeOK
  <2>2. task'[e][s] = IF e = d /\ s = Flush
                      THEN NewTask(user[d], "put", Kept(local[d]), queue[d]) ELSE task[e][s]
    BY <1>3, <1>5, <2>1
  <2>3. QED BY <1>2, <1>4, <1>5, <1>8, <2>1, <2>2
<1>9. CASE \E u \in Users : ServeGet(d, u)
  <2>1. PICK u \in Users : ServeGet(d, u)
    BY <1>9
  <2>2. SetTask(d, u, NewTask(u, "got", Listed(u), Nothing))
    BY <2>1 DEF ServeGet
  <2>3. task'[e][s] = IF e = d /\ s = u THEN NewTask(u, "got", Listed(u), Nothing) ELSE task[e][s]
    BY <1>3, <1>5, <2>2
  <2>4. QED BY <1>2, <1>4, <2>1, <2>3
<1>10. CASE \E u \in Users : Reconcile(d, u)
  <2>1. PICK u \in Users : Reconcile(d, u)
    BY <1>10
  <2>2. PICK mine \in [Marks -> Time], ops \in [Marks -> Time] :
          owner'[d] = u /\ local'[d] = mine /\ SetTask(d, u, NewTask(u, "put", mine, ops))
    <3>1. owner \in [Devices -> Users \cup {None}] /\ local \in [Devices -> [Marks -> Time]]
      BY DEF TypeOK
    <3>2. QED BY <2>1, <3>1, Reconciled
  <2>3. task'[e][s] = IF e = d /\ s = u THEN NewTask(u, "put", mine, ops) ELSE task[e][s]
    BY <1>3, <1>5, <2>2
  <2>4. QED BY <1>2, <1>4, <2>1, <2>2, <2>3
<1>11. CASE \E r \in Slots : Load(d, r)
  <2>1. PICK r \in Slots : Load(d, r)
    BY <1>11
  <2>2. PICK t : /\ t = [task[d][r] EXCEPT !.stage = "loaded", !.rows = rows[task[d][r].user]]
                 /\ SetTask(d, r, t)
    BY <2>1 DEF Load
  <2>3. task[d][r] # None /\ t.user = task[d][r].user /\ t.marks = task[d][r].marks
    BY <2>1, <2>2, TaskFields DEF Load, Tasks
  <2>4. task'[e][s] = IF e = d /\ s = r THEN t ELSE task[e][s]
    BY <1>3, <2>2
  <2>5. QED BY <1>2, <2>3, <2>4
<1>12. CASE \E r \in Slots : Commit(d, r)
  <2>1. PICK r \in Slots : Commit(d, r)
    BY <1>12
  <2>2. PICK t : /\ t = NewTask(task[d][r].user, "done", Nothing, task[d][r].ops)
                 /\ SetTask(d, r, t)
    BY <2>1 DEF Commit
  <2>3. task[d][r] # None /\ t.user = task[d][r].user /\ t.marks = Nothing
    BY <1>4, <2>1, <2>2 DEF Commit
  <2>4. task'[e][s] = IF e = d /\ s = r THEN t ELSE task[e][s]
    BY <1>3, <2>2
  <2>5. QED BY <1>2, <2>3, <2>4
<1>13. CASE \E r \in Slots : Confirm(d, r) \/ Refuse(d, r) \/ Lose(d, r)
  <2>1. PICK r \in Slots : SetTask(d, r, None)
    BY <1>13 DEF Confirm, Refuse, Lose, Abort
  <2>2. QED BY <1>2, <1>3, <2>1
<1>14. QED
  BY <1>6, <1>7, <1>8, <1>9, <1>10, <1>11, <1>12, <1>13
  DEF Act, Step, Mark, Unmark, Logout, HiddenFlush, TimedFlush, TimerIdle

LEMMA RequestsKept ==
  ASSUME TypeOK, OwnSlots, Origins, NEW d \in Devices, Act(d) \/ Step(d),
         NEW e \in Devices, NEW s \in Slots, task'[e][s] # None, NEW k \in Marks
  PROVE  Explained(task[e][s].user, task[e][s].marks[k])'
<1>1. task'[e][s].user \in Users
  BY RequestNow
<1>2. SUFFICES \E o \in Users, t \in Time :
                 o = task'[e][s].user /\ t = task'[e][s].marks[k] /\ Explained(o, t)'
  BY DEF Explained
<1>3. 0 \in Time /\ \A o : Explained(o, 0)'
  BY TimeAssumption DEF Time, Explained
<1>4. CASE /\ task[e][s] # None
           /\ task'[e][s].user = task[e][s].user /\ task'[e][s].marks = task[e][s].marks
  <2>1. PICK o \in Users, t \in Time :
          o = task[e][s].user /\ t = task[e][s].marks[k] /\ Explained(o, t)
    BY <1>4, TaskFields DEF Origins
  <2>2. Explained(o, t)'
    BY <2>1, ExplainedStays
  <2>3. QED BY <1>4, <2>1, <2>2
<1>5. CASE task'[e][s].marks = Nothing
  BY <1>1, <1>3, <1>5 DEF Nothing
<1>6. CASE e = d /\ StartFlush(d) /\ task'[e][s].user = user[d] /\ task'[e][s].marks = Kept(local[d])
  <2>1. PICK o \in Users : o = user[d]
    BY <1>1, <1>6
  <2>2. PICK t \in Time : t = local[d][k]
    BY DEF TypeOK
  <2>3. Explained(owner[d], t)
    BY <2>2 DEF Origins
  <2>4. Explained(o, t)'
    <3>1. CASE owner[d] \in {None, o}
      <4>1. Explained(o, t)
        BY <2>3, <3>1, ExplainedToAll
      <4>2. QED BY <4>1, ExplainedStays
    <3>2. CASE owner[d] \notin {None, o}
      <4>1. o \in early'
        BY <1>6, <2>1, <3>2 DEF StartFlush
      <4>2. t = 0 \/ t <= now
        BY <2>3 DEF Explained
      <4>3. t = 0 \/ t <= now'
        BY <4>2, PastStays, TimeAssumption DEF Time
      <4>4. QED BY <4>1, <4>3 DEF Explained
    <3>3. QED BY <3>1, <3>2
  <2>5. task'[e][s].marks[k] \in {0, t}
    BY <1>6, <2>2 DEF Kept
  <2>6. QED BY <1>3, <1>6, <2>1, <2>4, <2>5
<1>7. CASE e = d /\ s \in Users /\ ServeGet(d, s) /\ task'[e][s].marks = Listed(s)
  <2>1. task'[e][s].user = s
    BY <1>7, RequestNow
  <2>2. PICK t \in Time : t = rows[s][k].marked
    BY <1>7 DEF TypeOK, Row
  <2>3. Explained(s, t)
    BY <1>7, <2>2 DEF Origins
  <2>4. Explained(s, t)'
    BY <2>3, ExplainedStays
  <2>5. task'[e][s].marks[k] \in {0, t}
    BY <1>7, <2>2 DEF Listed
  <2>6. QED BY <1>3, <1>7, <2>1, <2>4, <2>5
<1>8. CASE e = d /\ s \in Users /\ Reconcile(d, s) /\ task'[e][s].marks = local'[d] /\ owner'[d] = s
  <2>1. Explained(owner[d], local[d][k])' /\ local'[d][k] \in Time
    BY StorageKept, HoldingsTyped
  <2>2. task'[e][s].user = s
    BY <1>8, RequestNow
  <2>3. PICK t \in Time : t = local'[d][k]
    BY <2>1
  <2>4. Explained(s, t)'
    BY <1>8, <2>1, <2>3 DEF Explained
  <2>5. QED BY <1>8, <2>2, <2>3, <2>4
<1>9. QED BY <1>4, <1>5, <1>6, <1>7, <1>8, RequestNow

\* A row is marked with what it had, with what an upload brings, or not at all.
LEMMA RowsNow ==
  ASSUME TypeOK, NEW d \in Devices, Act(d) \/ Step(d), NEW u \in Users, NEW k \in Marks
  PROVE  \/ rows'[u][k].marked \in {0, rows[u][k].marked}
         \/ \E s \in Slots : /\ task[d][s] # None /\ task[d][s].user = u
                             /\ rows'[u][k].marked = task[d][s].marks[k]
<1>1. rows \in [Users -> [Marks -> Row]]
  BY DEF TypeOK
<1>2. CASE rows' = rows
  BY <1>2
<1>3. CASE \E v \in Users : ServeGet(d, v)
  BY <1>1, <1>3 DEF ServeGet, Purged, NoRow
<1>4. CASE \E s \in Slots : Commit(d, s)
  <2>1. PICK s \in Slots : Commit(d, s)
    BY <1>4
  <2> DEFINE t == task[d][s]
             column(j, c) == IF Result(t, j)[c] = t.rows[j][c]
                             THEN rows[t.user][j][c] ELSE Result(t, j)[c]
             written(j) == [marked |-> column(j, "marked"), removed |-> column(j, "removed")]
  <2>2. rows' = [rows EXCEPT ![t.user] = [j \in Marks |-> Purged(j, written(j))]] /\ t # None
    BY <2>1 DEF Commit
  <2>3. t.user \in Users /\ t.rows[k] \in Row
    BY <2>2, TaskFields
  <2>4. Result(t, k).marked \in {t.rows[k].marked, t.marks[k]}
    <3>1. PICK row : row = t.rows[k] /\ row \in Row
      BY <2>3
    <3>2. \A x : /\ Upsert(row, x).marked \in {row.marked, x}
                 /\ Upsert(row, x) \in [marked : {row.marked, x}, removed : Time \cup {0}]
      BY <3>1 DEF Upsert, Row
    <3>3. \A r, x : r \in [marked : {row.marked, t.marks[k]}, removed : Time \cup {0}]
                      => Remove(r, x).marked = r.marked
      BY DEF Remove
    <3>4. row \in [marked : {row.marked, t.marks[k]}, removed : Time \cup {0}]
      BY <3>1 DEF Row
    <3>5. QED BY <3>1, <3>2, <3>3, <3>4 DEF Result, Uploaded
  <2>5. written(k).marked \in {rows[t.user][k].marked, t.marks[k]}
    BY <2>4
  <2>6. rows'[u][k] = IF u = t.user THEN Purged(k, written(k)) ELSE rows[u][k]
    BY <1>1, <2>2, <2>3
  <2>7. QED
    <3> HIDE DEF t, written
    <3>1. Purged(k, written(k)).marked \in {0, written(k).marked}
      BY DEF Purged, NoRow
    <3>2. QED BY <2>2, <2>5, <2>6, <3>1 DEF t
<1>5. QED BY <1>2, <1>3, <1>4, RowsStay

LEMMA RowsKept ==
  ASSUME TypeOK, Origins, NEW d \in Devices, Act(d) \/ Step(d),
         NEW u \in Users, NEW k \in Marks
  PROVE  Explained(u, rows[u][k].marked)'
<1>1. PICK t \in Time : t = rows'[u][k].marked /\ Explained(u, t)
  <2>1. 0 \in Time /\ Explained(u, 0)
    BY TimeAssumption DEF Time, Explained
  <2>2. rows[u][k].marked \in Time /\ Explained(u, rows[u][k].marked)
    BY DEF Origins, TypeOK, Row
  <2>3. ASSUME NEW s \in Slots, task[d][s] # None, task[d][s].user = u
        PROVE  task[d][s].marks[k] \in Time /\ Explained(u, task[d][s].marks[k])
    BY <2>3, TaskFields DEF Origins
  <2>4. QED BY <2>1, <2>2, <2>3, RowsNow
<1>2. Explained(u, t)'
  BY <1>1, ExplainedStays
<1>3. QED BY <1>1, <1>2 DEF Explained

\* What the server has confirmed it does not take back.
LEMMA RemovedGrows ==
  ASSUME TypeOK, NEW d \in Devices, Act(d) \/ Step(d), NEW u \in Users, NEW k \in Marks
  PROVE  removed'[u][k] >= removed[u][k]
<1>1. removed \in [Users -> [Marks -> Time]]
  BY DEF TypeOK
<1>2. removed[u][k] \in Nat
  BY <1>1, TimeAssumption DEF Time
<1>3. CASE removed' = removed
  BY <1>2, <1>3
<1>4. CASE \E s \in Slots : Commit(d, s)
  <2>1. PICK s \in Slots : Commit(d, s)
    BY <1>4
  <2>2. task[d][s].user \in Users /\ task[d][s].ops[k] \in Nat
    BY <2>1, TaskFields, TimeAssumption DEF Commit, Time
  <2>3. removed'[u][k] \in {removed[u][k], Later(removed[u][k], task[d][s].ops[k])}
    BY <1>1, <2>1, <2>2 DEF Commit
  <2>4. QED BY <1>2, <2>2, <2>3 DEF Later
<1>5. QED BY <1>3, <1>4, RowsStay

LEMMA RemovedTyped ==
  ASSUME TypeOK, NEW d \in Devices, Act(d) \/ Step(d)
  PROVE  removed' \in [Users -> [Marks -> Time]]
<1>1. removed \in [Users -> [Marks -> Time]]
  BY DEF TypeOK
<1>2. CASE \E s \in Slots : Commit(d, s)
  <2>1. PICK s \in Slots : Commit(d, s)
    BY <1>2
  <2>2. task[d][s].ops \in [Marks -> Time]
    BY <2>1, TaskFields DEF Commit
  <2>3. QED BY <1>1, <2>1, <2>2 DEF Commit, Later
<1>3. QED BY <1>1, <1>2, RowsStay

\* What no longer counts does not count again.
LEMMA StaleStays ==
  ASSUME TypeOK, NEW d \in Devices, Act(d) \/ Step(d), NEW k \in Marks, NEW x \in Time,
         ~Fresh(k, x)
  PROVE  ~Fresh(k, x)'
BY PastStays, TimeAssumption DEF Fresh, Time

\* An upload is done when it was before, or has just been committed.
LEMMA DoneNow ==
  ASSUME TypeOK, NEW d \in Devices, Act(d) \/ Step(d), NEW e \in Devices, NEW s \in Slots,
         task'[e][s] # None, task'[e][s].stage = "done"
  PROVE  \/ task'[e][s] = task[e][s]
         \/ e = d /\ Commit(d, s) /\ task'[e][s].user = task[e][s].user
                  /\ task'[e][s].ops = task[e][s].ops
<1>1. task \in [Devices -> [Slots -> Tasks \cup {None}]]
  BY DEF TypeOK
<1> USE <1>1 DEF Slots, SetTask, NewTask, StartFlush, Abort
<1>2. CASE task' = task
  BY <1>2
<1>3. CASE \E u \in Users : Login(d, u)
  BY <1>3 DEF Login
<1>4. CASE StartFlush(d)
  BY <1>4
<1>5. CASE \E u \in Users : ServeGet(d, u)
  BY <1>5 DEF ServeGet
<1>6. CASE \E u \in Users : Reconcile(d, u)
  BY <1>6 DEF Reconcile
<1>7. CASE \E r \in Slots : Load(d, r)
  <2>1. PICK r \in Slots : Load(d, r)
    BY <1>7
  <2>2. task[d][r] \in Tasks
    BY <2>1 DEF Load
  <2>3. QED BY <2>1, <2>2 DEF Load, Tasks
<1>8. CASE \E r \in Slots : Commit(d, r)
  <2>1. PICK r \in Slots : Commit(d, r)
    BY <1>8
  <2>2. task'[e][s] = IF e = d /\ s = r
                      THEN NewTask(task[d][r].user, "done", Nothing, task[d][r].ops)
                      ELSE task[e][s]
    BY <2>1 DEF Commit
  <2>3. QED BY <2>1, <2>2
<1>9. CASE \E r \in Slots : Confirm(d, r) \/ Refuse(d, r) \/ Lose(d, r)
  <2>1. PICK r \in Slots : SetTask(d, r, None)
    BY <1>9 DEF Confirm, Refuse, Lose
  <2>2. QED BY <2>1
<1>10. QED BY <1>2, <1>3, <1>4, <1>5, <1>6, <1>7, <1>8, <1>9
           DEF Act, Step, Mark, Unmark, Logout, HiddenFlush, TimedFlush, TimerIdle

LEMMA ConfirmedKept ==
  ASSUME TypeOK, Confirmed, NEW d \in Devices, Act(d) \/ Step(d)
  PROVE  Confirmed'
<1> SUFFICES ASSUME NEW e \in Devices, NEW s \in Slots,
                    task'[e][s] # None, task'[e][s].stage = "done", NEW k \in Marks
             PROVE  \/ ~Fresh(k, task[e][s].ops[k])'
                    \/ removed'[task'[e][s].user][k] >= task'[e][s].ops[k]
  BY DEF Confirmed
<1>1. \/ task'[e][s] = task[e][s]
      \/ e = d /\ Commit(d, s) /\ task'[e][s].user = task[e][s].user
               /\ task'[e][s].ops = task[e][s].ops
  BY DoneNow
<1>2. task[e][s] # None /\ task'[e][s].user = task[e][s].user /\ task'[e][s].ops = task[e][s].ops
  BY <1>1 DEF Commit
<1>3. PICK u \in Users, x \in Time : u = task[e][s].user /\ x = task[e][s].ops[k]
  BY <1>2, TaskFields
<1>4. SUFFICES ~Fresh(k, x)' \/ removed'[u][k] >= x
  BY <1>2, <1>3 DEF Fresh
<1>5. removed \in [Users -> [Marks -> Time]] /\ removed[u][k] \in Nat /\ x \in Nat
      /\ removed'[u][k] \in Nat
  BY RemovedTyped, TimeAssumption DEF TypeOK, Time
<1>6. CASE task'[e][s] = task[e][s]
  <2>1. ~Fresh(k, x) \/ removed[u][k] >= x
    BY <1>3, <1>6 DEF Confirmed
  <2>2. QED BY <2>1, <1>5, RemovedGrows, StaleStays
<1>7. CASE e = d /\ Commit(d, s)
  <2>1. removed'[u][k] = IF Fresh(k, x) THEN Later(removed[u][k], x) ELSE removed[u][k]
    BY <1>3, <1>5, <1>7 DEF Commit
  <2>2. now' = now
    BY <1>7 DEF Commit
  <2>3. QED BY <2>1, <2>2, <1>5 DEF Later, Fresh
<1>8. QED BY <1>1, <1>6, <1>7

History == OwnSlots /\ Origins /\ Confirmed

LEMMA HistoryInit == Init => History
<1> SUFFICES ASSUME Init PROVE History
  OBVIOUS
<1>1. OwnSlots /\ Confirmed
  BY DEF Init, OwnSlots, Confirmed, Slots
<1>2. Origins
  BY DEF Init, Origins, Explained, Nothing, NoRow
<1>3. QED BY <1>1, <1>2 DEF History

LEMMA HistoryStep == IInv /\ History /\ [Next]_vars => History'
<1> SUFFICES ASSUME IInv, History, [Next]_vars PROVE History'
  OBVIOUS
<1>1. TypeOK /\ OwnSlots /\ Origins /\ Confirmed
  BY DEF IInv, History
<1>2. CASE \E d \in Devices : Act(d) \/ Step(d)
  <2>1. PICK d \in Devices : Act(d) \/ Step(d)
    BY <1>2
  <2>2. OwnSlots'
    BY <1>1, <2>1, RequestNow DEF OwnSlots, Slots
  <2>3. Origins'
    BY <1>1, <2>1, StorageKept, RequestsKept, RowsKept DEF Origins
  <2>4. Confirmed'
    BY <1>1, <2>1, ConfirmedKept
  <2>5. QED BY <2>2, <2>3, <2>4 DEF History
<1>3. CASE Tick
  <2>1. /\ now \in Nat /\ now' = now + 1
        /\ \A t \in Time : t <= now => t <= now'
    BY <1>1, <1>3, TimeAssumption DEF Tick, TypeOK, Time
  <2>2. UNCHANGED <<owner, local, task, rows, author, early, stray, removed>>
    BY <1>3 DEF Tick, deviceVars
  <2>3. \A o, t : t \in Time /\ Explained(o, t) => Explained(o, t)'
    BY <2>1, <2>2 DEF Explained
  <2>4. OwnSlots'
    BY <1>1, <2>2 DEF OwnSlots
  <2>5. Origins'
    <3>1. /\ \A d \in Devices, k \in Marks : local[d][k] \in Time
          /\ \A d \in Devices, s \in Slots : task[d][s] # None =>
               \A k \in Marks : task[d][s].marks[k] \in Time
          /\ \A u \in Users, k \in Marks : rows[u][k].marked \in Time
      BY <1>1, TaskFields DEF TypeOK, Row
    <3>2. \A t \in Time : t = 0 \/ t <= now => t = 0 \/ t <= now'
      BY <2>1
    <3>3. QED BY <1>1, <2>2, <3>1, <3>2 DEF Origins, Explained
  <2>6. Confirmed'
    <3>1. \A k \in Marks, x \in Time : x + Retention[k] >= now' => x + Retention[k] >= now
      BY <2>1, TimeAssumption DEF Time
    <3>2. \A d \in Devices, s \in Slots : task[d][s] # None =>
            \A k \in Marks : task[d][s].ops[k] \in Time
      BY <1>1, TaskFields
    <3>3. QED BY <1>1, <2>2, <3>1, <3>2 DEF Confirmed, Fresh
  <2>7. QED BY <2>4, <2>5, <2>6 DEF History
<1>4. CASE UNCHANGED vars
  BY <1>1, <1>4 DEF History, OwnSlots, Origins, Explained, Confirmed, Fresh, vars
<1>5. QED BY <1>2, <1>3, <1>4 DEF Next

\* A removal leaves the queue when an answer confirms it, or with the storage.
LEMMA QueueStep ==
  ASSUME IInv, History, [Next]_vars, NEW d \in Devices, NEW k \in Saved,
         queue[d][k] > 0, queue'[d][k] = 0
  PROVE  \/ \E u \in Users : removed[u][k] >= queue[d][k]
         \/ ~Fresh(k, queue[d][k])
         \/ owner'[d] # owner[d]
<1>1. queue \in [Devices -> [Marks -> Time]] /\ owner \in [Devices -> Users \cup {None}]
      /\ queue[d][k] \in Nat /\ k \in Marks
  <2>1. k \in Marks /\ Time \subseteq Nat
    BY TimeAssumption DEF Time, Marks
  <2>2. queue \in [Devices -> [Marks -> Time]] /\ owner \in [Devices -> Users \cup {None}]
    BY DEF IInv, TypeOK
  <2>3. QED BY <2>1, <2>2
<1>2. queue' # queue
  BY <1>1
<1>3. PICK e \in Devices : \/ \E j \in Saved : Unmark(e, j)
                           \/ \E u \in Users : Reconcile(e, u)
                           \/ \E s \in Slots : Confirm(e, s)
  <2>1. ~UNCHANGED vars /\ ~Tick
    BY <1>2 DEF vars, Tick, deviceVars
  <2>2. PICK e \in Devices : Act(e) \/ Step(e)
    BY <2>1 DEF Next
  <2>3. QED
    BY <1>2, <2>2 DEF Act, Step, Mark, Login, Logout, HiddenFlush, TimedFlush, StartFlush,
                      TimerIdle, ServeGet, Load, Commit, Refuse, Lose, Abort
<1>4. CASE \E j \in Saved : Unmark(e, j)
  <2>1. PICK j \in Saved : Unmark(e, j)
    BY <1>4
  <2>2. PICK n \in Nat : n = now' /\ n > 0
    BY <2>1, TimeAssumption DEF Unmark, Edit, IInv, TypeOK, Time
  <2>3. queue' = [queue EXCEPT ![e][j] = n]
    BY <2>1, <2>2 DEF Unmark
  <2>4. queue'[d][k] \in {queue[d][k], n}
    BY <1>1, <2>3
  <2>5. QED BY <1>1, <2>2, <2>4
<1>5. CASE \E u \in Users : Reconcile(e, u)
  <2>1. PICK u \in Users : Reconcile(e, u)
    BY <1>5
  <2>2. e = d /\ owner[d] \notin {None, u}
    BY <1>1, <2>1 DEF Reconcile
  <2>3. owner'[d] = u
    BY <1>1, <2>1, <2>2 DEF Reconcile
  <2>4. QED BY <2>2, <2>3
<1>6. CASE \E s \in Slots : Confirm(e, s)
  <2>1. PICK s \in Slots : Confirm(e, s)
    BY <1>6
  <2>2. /\ e = d /\ queue[d][k] = task[d][s].ops[k]
        /\ task[d][s] # None /\ task[d][s].stage = "done"
    <3>1. queue' = [queue EXCEPT ![e] = [j \in Marks |-> IF queue[e][j] = task[e][s].ops[j]
                                                       THEN 0 ELSE queue[e][j]]]
      BY <2>1 DEF Confirm
    <3>2. QED BY <1>1, <2>1, <3>1 DEF Confirm
  <2>3. task[d][s].user \in Users
    BY <2>2, TaskFields DEF IInv
  <2>4. ~Fresh(k, task[d][s].ops[k]) \/ removed[task[d][s].user][k] >= task[d][s].ops[k]
    BY <1>1, <2>2 DEF History, Confirmed
  <2>5. QED BY <2>2, <2>3, <2>4
<1>7. QED BY <1>3, <1>4, <1>5, <1>6
-----------------------------------------------------------------------------
\* The state of devices and server is well formed.
THEOREM TypeCorrect == Spec => []TypeOK
<1>1. IInv => TypeOK
  BY DEF IInv
<1>2. QED BY <1>1, InvInit, InvStep, PTL DEF Spec

\* user_library_repository.py: whichever marks arrive, from whichever device and
\* however late, a card the server has confirmed as removed is not listed with
\* a mark older than the removal, unless two uploads overlapped on its row.
THEOREM RemovalsStay == Spec => []NoResurrection
<1>1. ASSUME IInv PROVE NoResurrection
  <2>1. SUFFICES ASSUME NEW u \in Users, NEW k \in Marks,
                        Listed(u)[k] # 0, <<u, k>> \notin clash
                 PROVE  Listed(u)[k] >= removed[u][k]
    BY DEF NoResurrection
  <2>2. /\ Listed(u)[k] = rows[u][k].marked
        /\ rows[u][k].removed = 0 /\ Fresh(k, rows[u][k].marked)
    BY <2>1 DEF Listed
  <2>3. rows[u][k].marked \in Time /\ removed[u][k] \in Time /\ now \in Time
    BY <1>1 DEF IInv, TypeOK, Row
  <2>4. Last(rows[u][k]) = rows[u][k].marked
    BY <2>2, <2>3 DEF Last, Later, Time
  <2>5. Covered(u, k, removed[u][k])
    BY <1>1 DEF IInv, Floor
  <2>6. CASE removed[u][k] = 0 \/ Last(rows[u][k]) >= removed[u][k]
    BY <2>2, <2>3, <2>4, <2>6 DEF Time
  <2>7. CASE ~Fresh(k, removed[u][k])
    <3>1. ~(removed[u][k] >= rows[u][k].marked)
      BY <2>2, <2>3, <2>7, FreshGrows
    <3>2. QED BY <2>2, <2>3, <3>1 DEF Time
  <2>8. QED BY <2>1, <2>5, <2>6, <2>7 DEF Covered
<1>2. QED BY <1>1, InvInit, InvStep, PTL DEF Spec

\* userLibrarySync.ts: whatever is uploaded, by timers, hidden pages and late
\* reconciles, a mark in the rows of an account was made by its reader or by
\* nobody signed in, but for the two gaps before the first reconcile.
THEOREM LeaksAreExplained == Spec => []LeakIsExplained
<1>1. ASSUME IInv, History PROVE LeakIsExplained
  <2>1. \A u \in Users, k \in Marks : Explained(u, rows[u][k].marked)
    BY <1>1 DEF History, Origins
  <2>2. \A u \in Users, k \in Marks : rows[u][k].marked > 0 => rows[u][k].marked # 0
    OBVIOUS
  <2>3. QED BY <2>1, <2>2 DEF LeakIsExplained, Explained
<1>2. QED BY <1>1, InvInit, InvStep, HistoryInit, HistoryStep, PTL DEF Spec

\* librarySyncQueue.ts: a removal waits in the queue until the server has it,
\* it no longer counts, or the storage is another account's.
THEOREM RemovalsAreKept == Spec => RemovalNotForgotten
<1>1. IInv /\ History /\ [Next]_vars =>
        [\A d \in Devices, k \in Saved :
           queue[d][k] > 0 /\ queue'[d][k] = 0 =>
             \/ \E u \in Users : removed[u][k] >= queue[d][k]
             \/ ~Fresh(k, queue[d][k])
             \/ owner'[d] # owner[d]]_vars
  BY QueueStep
<1>2. QED
  BY <1>1, InvInit, InvStep, HistoryInit, HistoryStep, PTL DEF Spec, RemovalNotForgotten
=============================================================================
