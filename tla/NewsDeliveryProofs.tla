-------------------------- MODULE NewsDeliveryProofs --------------------------
(***************************************************************************)
(* For any cards, limits and number of failures: the senders announce      *)
(* released cards only, the mark is never set without a message, and with  *)
(* one moderator at a time no card is announced twice without a failure.   *)
(* For cards the pipeline published, that holds with any moderators.       *)
(***************************************************************************)
EXTENDS NewsDelivery, TLAPS

\* The rows, the channel and the failures are well typed.
RowsTyped ==
  /\ status \in [Cards -> Statuses]
  /\ urgent \in [Cards -> BOOLEAN]
  /\ notified \in [Cards -> BOOLEAN]
  /\ aged \in SUBSET Cards
  /\ approved \in SUBSET Cards
  /\ audit \in [Cards -> {"none", "approve", "reject"}]
  /\ auto \in SUBSET Cards

\* The counters are well typed.
CountsTyped ==
  /\ sent \in [Cards -> Nat]
  /\ faults \in 0 .. MaxFaults

\* The local variables of the actors are well typed ...
ActorsTyped ==
  /\ pc \in [Actors -> {"idle", "apply", "next", "send", "mark"}]
  /\ cur \in [Actors -> Cards \cup {None}]
  /\ tries \in [Actors -> 0 .. MaxPosts - 1]
  /\ todo \in SUBSET Cards
  /\ request \in [Moderators -> Requests \cup {None}]

\* ... and in use exactly while an actor works.
ActorsAgree ==
  /\ \A a \in Actors : cur[a] = None <=> pc[a] \in {"idle", "next"}
  /\ \A m \in Moderators : request[m] = None <=> pc[m] = "idle"
  /\ \A a \in Actors : pc[a] = "next" => a = Digest
  /\ \A a \in Actors : pc[a] = "apply" => a \in Moderators

\* The type invariant, in parts that the provers take one at a time.
LEMMA TypeParts ==
  TypeOK <=> RowsTyped /\ CountsTyped /\ ActorsTyped /\ ActorsAgree
BY DEF TypeOK, RowsTyped, CountsTyped, ActorsTyped, ActorsAgree

\* The initial state is well typed.
LEMMA InitTyped == Init => TypeOK
<1> SUFFICES ASSUME Init PROVE TypeOK
  OBVIOUS
<1>1. RowsTyped
  BY DEF Init, RowsTyped, Statuses
<1>2. CountsTyped
  BY BoundsAssumption DEF Init, CountsTyped
<1>3. ActorsTyped
  BY BoundsAssumption DEF Init, ActorsTyped
<1>4. ActorsAgree
  BY DEF Init, ActorsAgree, Actors
<1>5. QED BY <1>1, <1>2, <1>3, <1>4, TypeParts

\* Ending the work on a card keeps the local variables typed and in agreement.
LEMMA DoneTyped ==
  ASSUME ActorsTyped, ActorsAgree, NEW a \in Actors, Done(a), todo' \in SUBSET Cards
  PROVE  ActorsTyped' /\ ActorsAgree'
<1> USE BoundsAssumption, ActorsAssumption DEF Done, Actors
<1>1. ActorsTyped'
  BY DEF ActorsTyped
<1>2. ActorsAgree'
  BY DEF ActorsTyped, ActorsAgree
<1>3. QED BY <1>1, <1>2

\* So does going from deciding to sending.
LEMMA StartTyped ==
  ASSUME ActorsTyped, ActorsAgree, NEW a \in Actors, NEW n \in Cards,
         StartSending(a, n), UNCHANGED <<tries, request>>, todo' \in SUBSET Cards,
         a \in Moderators => pc[a] = "apply"
  PROVE  ActorsTyped' /\ ActorsAgree'
<1> USE ActorsAssumption DEF StartSending, Actors
<1>1. ActorsTyped'
  BY DEF ActorsTyped
<1>2. ActorsAgree'
  BY DEF ActorsTyped, ActorsAgree
<1>3. QED BY <1>1, <1>2

\* One step keeps every variable in its type.
LEMMA StepTyped == TypeOK /\ [Next]_vars => TypeOK'
<1> SUFFICES ASSUME TypeOK, [Next]_vars
             PROVE  (RowsTyped /\ CountsTyped /\ ActorsTyped /\ ActorsAgree)'
  BY DEF TypeOK, RowsTyped, CountsTyped, ActorsTyped, ActorsAgree
<1>0. RowsTyped /\ CountsTyped /\ ActorsTyped /\ ActorsAgree
  BY TypeParts
<1> DEFINE P == RowsTyped /\ CountsTyped /\ ActorsTyped /\ ActorsAgree
<1> USE <1>0, BoundsAssumption, ActorsAssumption
<1>1. ASSUME NEW n \in Cards, NEW u \in BOOLEAN, PublishCard(n, u) PROVE P'
  <2>1. RowsTyped' /\ CountsTyped'
    BY <1>1 DEF PublishCard, RowsTyped, CountsTyped, Statuses
  <2>2. CASE u
    BY <1>1, <2>1, <2>2, StartTyped DEF PublishCard, ActorsTyped, Actors
  <2>3. CASE ~u
    BY <1>1, <2>1, <2>3 DEF PublishCard, ActorsTyped, ActorsAgree
  <2>4. QED BY <2>2, <2>3
<1>2. ASSUME NEW n \in Cards, NEW u \in BOOLEAN, HoldCard(n, u) PROVE P'
  BY <1>2 DEF HoldCard, RowsTyped, CountsTyped, ActorsTyped, ActorsAgree, Statuses, actorVars
<1>3. ASSUME NEW n \in Cards, Age(n) PROVE P'
  BY <1>3 DEF Age, RowsTyped, CountsTyped, ActorsTyped, ActorsAgree, actorVars
<1>4. ASSUME NEW m \in Moderators, NEW n \in Cards, NEW action \in Actions,
             Open(m, n, action)
      PROVE  P'
  <2>1. [action |-> action, status |-> status[n], urgent |-> urgent[n]] \in Requests
    BY DEF Requests, RowsTyped
  <2>2. RowsTyped' /\ CountsTyped'
    BY <1>4 DEF Open, RowsTyped, CountsTyped, rowVars
  <2>3. ActorsTyped'
    BY <1>4, <2>1 DEF Open, ActorsTyped, Actors
  <2>4. ActorsAgree'
    BY <1>4, <2>1 DEF Open, ActorsTyped, ActorsAgree, Actors
  <2>5. QED BY <2>2, <2>3, <2>4
<1>5. ASSUME NEW m \in Moderators, Apply(m) PROVE P'
  <2>1. m \in Actors /\ cur[m] \in Cards
    BY <1>5 DEF Apply, Actors, ActorsTyped, ActorsAgree
  <2>2. status' \in [Cards -> Statuses]
    <3>1. Target(request[m].action) \in Statuses /\ status \in [Cards -> Statuses]
      BY DEF Target, Statuses, RowsTyped
    <3>2. status' \in {status, [status EXCEPT ![cur[m]] = Target(request[m].action)]}
      BY <1>5 DEF Apply
    <3>3. QED BY <3>1, <3>2
  <2>3. audit' \in [Cards -> {"none", "approve", "reject"}] /\ approved' \in SUBSET Cards
    BY <1>5, <2>1 DEF Apply, RowsTyped
  <2>4. RowsTyped' /\ CountsTyped'
    BY <1>5, <2>2, <2>3 DEF Apply, RowsTyped, CountsTyped
  <2>5. CASE Done(m)
    BY <1>5, <2>1, <2>4, <2>5, DoneTyped DEF Apply, ActorsTyped
  <2>6. CASE StartSending(m, cur[m]) /\ UNCHANGED <<tries, request>>
    BY <1>5, <2>1, <2>4, <2>6, StartTyped DEF Apply, ActorsTyped
  <2>7. QED BY <1>5, <2>5, <2>6 DEF Apply
<1>6. ASSUME NEW m \in Moderators, Patch(m) PROVE P'
  <2>1. m \in Actors
    BY DEF Actors
  <2>2. RowsTyped' /\ CountsTyped'
    BY <1>6 DEF Patch, RowsTyped, CountsTyped
  <2>3. QED BY <1>6, <2>1, <2>2, DoneTyped DEF Patch, ActorsTyped
<1>7. CASE DigestStart
  BY <1>7
  DEF DigestStart, Candidates, RowsTyped, CountsTyped, ActorsTyped, ActorsAgree, Actors, rowVars
<1>8. CASE DigestNext
  <2>1. PICK n \in todo : todo' = todo \ {n} /\ StartSending(Digest, n)
    BY <1>8 DEF DigestNext
  <2>2. RowsTyped' /\ CountsTyped'
    BY <1>8 DEF DigestNext, RowsTyped, CountsTyped, rowVars
  <2>3. QED BY <1>8, <2>1, <2>2, StartTyped DEF DigestNext, ActorsTyped, Actors
<1>9. CASE DigestEnd
  BY <1>9
  DEF DigestEnd, RowsTyped, CountsTyped, ActorsTyped, ActorsAgree, Actors, rowVars
<1>10. ASSUME NEW a \in Actors, PostOk(a) PROVE P'
  <2>1. cur[a] \in Cards
    BY <1>10 DEF PostOk, ActorsTyped, ActorsAgree
  <2>2. CountsTyped'
    BY <1>10, <2>1 DEF PostOk, CountsTyped
  <2>3. RowsTyped' /\ ActorsTyped' /\ ActorsAgree'
    BY <1>10, <2>1 DEF PostOk, RowsTyped, ActorsTyped, ActorsAgree, rowVars
  <2>4. QED BY <2>2, <2>3
<1>11. ASSUME NEW a \in Actors, PostFail(a) PROVE P'
  <2>1. cur[a] \in Cards
    BY <1>11 DEF PostFail, ActorsTyped, ActorsAgree
  <2>2. CountsTyped'
    BY <1>11, <2>1 DEF PostFail, CountsTyped
  <2>3. RowsTyped'
    BY <1>11 DEF PostFail, RowsTyped, rowVars
  <2>4. CASE Done(a)
    BY <1>11, <2>2, <2>3, <2>4, DoneTyped DEF PostFail, ActorsTyped
  <2>5. CASE tries[a] + 1 < MaxPosts /\ tries' = [tries EXCEPT ![a] = @ + 1]
             /\ UNCHANGED <<pc, cur, request>>
    BY <1>11, <2>2, <2>3, <2>5 DEF PostFail, ActorsTyped, ActorsAgree
  <2>6. QED BY <1>11, <2>4, <2>5 DEF PostFail
<1>12. ASSUME NEW a \in Actors, Mark(a) PROVE P'
  <2>1. RowsTyped' /\ CountsTyped'
    BY <1>12 DEF Mark, RowsTyped, CountsTyped
  <2>2. QED BY <1>12, <2>1, DoneTyped DEF Mark, ActorsTyped
<1>13. ASSUME NEW a \in Actors, Crash(a) PROVE P'
  <2>1. RowsTyped' /\ CountsTyped'
    BY <1>13 DEF Crash, RowsTyped, CountsTyped, rowVars
  <2>2. ActorsTyped'
    BY <1>13 DEF Crash, ActorsTyped
  <2>3. ActorsAgree'
    BY <1>13 DEF Crash, ActorsTyped, ActorsAgree, Actors
  <2>4. QED BY <2>1, <2>2, <2>3
<1>14. CASE UNCHANGED vars
  BY <1>14 DEF vars, RowsTyped, CountsTyped, ActorsTyped, ActorsAgree
<1>15. QED
  BY <1>1, <1>2, <1>3, <1>4, <1>5, <1>6, <1>7, <1>8, <1>9, <1>10, <1>11, <1>12,
     <1>13, <1>14 DEF Next

\* Every variable of the delivery keeps its type.
THEOREM TypeCorrect == Spec => []TypeOK
<1>1. QED BY InitTyped, StepTyped, PTL DEF Spec
-----------------------------------------------------------------------------
\* The cards that may be announced.
Released == auto \cup approved

\* Whatever is on its way to the channel was released before it set out: the
\* published rows, the digest's list, and the cards in the hands of a sender.
OnlyReleased ==
  /\ \A n \in Cards : status[n] = "published" => n \in Released
  /\ todo \subseteq Released
  /\ \A a \in Actors : pc[a] \in {"send", "mark"} => cur[a] \in Released

\* A sender about to set the mark has put a message in the channel.
MarkAfterSend ==
  \A a \in Actors : pc[a] = "mark" => sent[cur[a]] > 0

\* The inductive invariant of the two safety properties.
DeliveryInv ==
  /\ TypeOK
  /\ OnlyReleased
  /\ NoticeNeedsRelease
  /\ MarkAfterSend
  /\ MarkedMeansSent

LEMMA DeliveryInit == Init => DeliveryInv
<1> SUFFICES ASSUME Init PROVE DeliveryInv
  OBVIOUS
<1>1. TypeOK
  BY InitTyped
<1>2. OnlyReleased
  BY DEF Init, OnlyReleased
<1>3. NoticeNeedsRelease
  BY DEF Init, NoticeNeedsRelease
<1>4. MarkAfterSend
  BY DEF Init, MarkAfterSend
<1>5. MarkedMeansSent
  BY DEF Init, MarkedMeansSent
<1>6. QED BY <1>1, <1>2, <1>3, <1>4, <1>5 DEF DeliveryInv

\* Releases are never taken back.
LEMMA ReleasedGrows ==
  ASSUME TypeOK, [Next]_vars
  PROVE  Released \subseteq Released'
BY DEF Released, Next, vars, PublishCard, HoldCard, Age, Open, Apply, Patch,
       DigestStart, DigestNext, DigestEnd, PostOk, PostFail, Mark, Crash, rowVars

\* What the channel and the marks are about is untouched by a step that sends
\* nothing, sets no mark and brings nobody before a mark.
LEMMA NothingSent ==
  ASSUME DeliveryInv, [Next]_vars, UNCHANGED <<sent, notified>>,
         \A a \in Actors : pc'[a] = "mark" => pc[a] = "mark" /\ cur'[a] = cur[a]
  PROVE  (NoticeNeedsRelease /\ MarkAfterSend /\ MarkedMeansSent)'
<1>1. NoticeNeedsRelease'
  BY ReleasedGrows DEF DeliveryInv, NoticeNeedsRelease, Released
<1>2. MarkAfterSend'
  BY DEF DeliveryInv, MarkAfterSend
<1>3. MarkedMeansSent'
  BY DEF DeliveryInv, MarkedMeansSent
<1>4. QED BY <1>1, <1>2, <1>3

\* A step that publishes no row, makes no new list and starts no sender lets
\* only released cards be on their way.
LEMMA NothingStarted ==
  ASSUME DeliveryInv, [Next]_vars,
         \A n \in Cards : status'[n] = "published" => status[n] = "published",
         todo' \subseteq todo,
         \A a \in Actors : pc'[a] \in {"send", "mark"} =>
           pc[a] \in {"send", "mark"} /\ cur'[a] = cur[a]
  PROVE  OnlyReleased'
BY ReleasedGrows DEF DeliveryInv, OnlyReleased

\* One step of any actor keeps the inductive invariant.
LEMMA DeliveryStep == DeliveryInv /\ [Next]_vars => DeliveryInv'
<1> SUFFICES ASSUME DeliveryInv, [Next]_vars
             PROVE  (OnlyReleased /\ NoticeNeedsRelease /\ MarkAfterSend
                     /\ MarkedMeansSent)'
  BY StepTyped DEF DeliveryInv
<1> DEFINE Q == OnlyReleased /\ NoticeNeedsRelease /\ MarkAfterSend /\ MarkedMeansSent
<1>0. /\ RowsTyped /\ CountsTyped /\ ActorsTyped /\ ActorsAgree
      /\ OnlyReleased /\ NoticeNeedsRelease /\ MarkAfterSend /\ MarkedMeansSent
      /\ Released \subseteq Released'
      /\ CountsTyped'
  BY TypeParts, StepTyped, ReleasedGrows DEF DeliveryInv, TypeOK, CountsTyped
<1> USE <1>0, ActorsAssumption
<1>1. ASSUME NEW n \in Cards, NEW u \in BOOLEAN, PublishCard(n, u) PROVE Q'
  <2>1. \A a \in Actors : a # n => pc'[a] = pc[a] /\ cur'[a] = cur[a]
    BY <1>1 DEF PublishCard, StartSending, ActorsTyped
  <2>2. \/ pc'[n] = "send" /\ cur'[n] = n
        \/ pc'[n] = pc[n] /\ cur'[n] = cur[n]
    BY <1>1 DEF PublishCard, StartSending, ActorsTyped, Actors
  <2>3. n \in Released'
    BY <1>1 DEF PublishCard, Released
  <2>4. OnlyReleased'
    BY <1>1, <2>1, <2>2, <2>3 DEF PublishCard, OnlyReleased, RowsTyped
  <2>5. (NoticeNeedsRelease /\ MarkAfterSend /\ MarkedMeansSent)'
    BY <1>1, <2>1, <2>2, NothingSent DEF PublishCard
  <2>6. QED BY <2>4, <2>5
<1>2. ASSUME NEW n \in Cards, NEW u \in BOOLEAN, HoldCard(n, u) PROVE Q'
  BY <1>2, NothingStarted, NothingSent DEF HoldCard, RowsTyped, actorVars
<1>3. ASSUME NEW n \in Cards, Age(n) PROVE Q'
  BY <1>3, NothingStarted, NothingSent DEF Age, actorVars
<1>4. ASSUME NEW m \in Moderators, NEW n \in Cards, NEW action \in Actions,
             Open(m, n, action)
      PROVE  Q'
  BY <1>4, NothingStarted, NothingSent DEF Open, ActorsTyped, rowVars
<1>5. ASSUME NEW m \in Moderators, Apply(m) PROVE Q'
  <2>1. m \in Actors /\ cur[m] \in Cards
    BY <1>5 DEF Apply, Actors, ActorsTyped, ActorsAgree
  <2>2. request[m].action = "approve" => cur[m] \in Released'
    BY <1>5 DEF Apply, Released
  <2>3. /\ \A a \in Actors : a # m => pc'[a] = pc[a] /\ cur'[a] = cur[a]
        /\ pc'[m] = "send" => request[m].action = "approve" /\ cur'[m] = cur[m]
        /\ pc'[m] # "mark"
    <3>1. CASE Done(m)
      BY <2>1, <3>1 DEF Done, ActorsTyped
    <3>2. CASE StartSending(m, cur[m]) /\ request[m].action = "approve"
      BY <2>1, <3>2 DEF StartSending, ActorsTyped
    <3>3. QED BY <1>5, <3>1, <3>2 DEF Apply
  <2>4. \A n \in Cards : status'[n] = "published" =>
          status[n] = "published" \/ (n = cur[m] /\ request[m].action = "approve")
    BY <1>5 DEF Apply, Target, RowsTyped
  <2>5. OnlyReleased'
    <3>1. \A n \in Cards : status'[n] = "published" => n \in Released'
      BY <2>2, <2>4 DEF OnlyReleased
    <3>2. \A a \in Actors : pc'[a] \in {"send", "mark"} => cur'[a] \in Released'
      BY <2>1, <2>2, <2>3 DEF OnlyReleased
    <3>3. UNCHANGED todo
      BY <1>5 DEF Apply
    <3>4. QED BY <3>1, <3>2, <3>3 DEF OnlyReleased
  <2>6. (NoticeNeedsRelease /\ MarkAfterSend /\ MarkedMeansSent)'
    BY <1>5, <2>3, NothingSent DEF Apply
  <2>7. QED BY <2>5, <2>6
<1>6. ASSUME NEW m \in Moderators, Patch(m) PROVE Q'
  BY <1>6, NothingStarted, NothingSent DEF Patch, Done, ActorsTyped, Actors
<1>7. CASE DigestStart
  <2>1. Candidates \subseteq Released
    BY DEF Candidates, Eligible, OnlyReleased
  <2>2. OnlyReleased'
    BY <1>7, <2>1 DEF DigestStart, OnlyReleased, ActorsTyped, rowVars
  <2>3. (NoticeNeedsRelease /\ MarkAfterSend /\ MarkedMeansSent)'
    BY <1>7, NothingSent DEF DigestStart, ActorsTyped, rowVars
  <2>4. QED BY <2>2, <2>3
<1>8. CASE DigestNext
  <2>1. PICK n \in todo : todo' = todo \ {n} /\ StartSending(Digest, n)
    BY <1>8 DEF DigestNext
  <2>2. OnlyReleased'
    BY <1>8, <2>1 DEF DigestNext, StartSending, OnlyReleased, ActorsTyped, rowVars
  <2>3. (NoticeNeedsRelease /\ MarkAfterSend /\ MarkedMeansSent)'
    BY <1>8, <2>1, NothingSent DEF DigestNext, StartSending, ActorsTyped, rowVars
  <2>4. QED BY <2>2, <2>3
<1>9. CASE DigestEnd
  BY <1>9, NothingStarted, NothingSent DEF DigestEnd, ActorsTyped, rowVars
<1>10. ASSUME NEW a \in Actors, PostOk(a) PROVE Q'
  <2>1. cur[a] \in Cards /\ cur[a] \in Released
    BY <1>10 DEF PostOk, ActorsTyped, ActorsAgree, OnlyReleased
  <2>2. \A n \in Cards : sent'[n] >= sent[n] /\ (n # cur[a] => sent'[n] = sent[n])
    BY <1>10, <2>1 DEF PostOk, CountsTyped
  <2>3. sent'[cur[a]] > 0
    BY <1>10, <2>1 DEF PostOk, CountsTyped
  <2>4. OnlyReleased'
    BY <1>10, NothingStarted DEF PostOk, ActorsTyped, rowVars
  <2>5. NoticeNeedsRelease'
    BY <1>10, <2>1, <2>2 DEF PostOk, NoticeNeedsRelease, Released, rowVars
  <2>6. \A n \in Cards : sent[n] > 0 => sent'[n] > 0
    BY <2>2 DEF CountsTyped
  <2>7. MarkAfterSend'
    BY <1>10, <2>3, <2>6 DEF PostOk, MarkAfterSend, ActorsTyped, ActorsAgree
  <2>8. MarkedMeansSent'
    BY <1>10, <2>6 DEF PostOk, MarkedMeansSent, rowVars
  <2>9. QED BY <2>4, <2>5, <2>7, <2>8
<1>11. ASSUME NEW a \in Actors, PostFail(a) PROVE Q'
  <2>1. cur[a] \in Cards /\ cur[a] \in Released
    BY <1>11 DEF PostFail, ActorsTyped, ActorsAgree, OnlyReleased
  <2>2. \A n \in Cards : sent'[n] >= sent[n] /\ (n # cur[a] => sent'[n] = sent[n])
    <3>1. PICK d \in {0, 1} : sent' = [sent EXCEPT ![cur[a]] = @ + d]
      BY <1>11 DEF PostFail
    <3>2. QED BY <2>1, <3>1 DEF CountsTyped
  <2>3. /\ \A b \in Actors : pc'[b] \in {"send", "mark"} =>
             pc[b] = pc'[b] /\ cur'[b] = cur[b]
        /\ UNCHANGED <<status, auto, approved, notified, todo>>
    <3>1. CASE Done(a)
      BY <1>11, <3>1 DEF PostFail, Done, ActorsTyped, rowVars
    <3>2. CASE UNCHANGED <<pc, cur>>
      BY <1>11, <3>2 DEF PostFail, rowVars
    <3>3. QED BY <1>11, <3>1, <3>2 DEF PostFail
  <2>4. OnlyReleased'
    BY <2>3, NothingStarted
  <2>5. NoticeNeedsRelease'
    BY <2>1, <2>2, <2>3 DEF NoticeNeedsRelease, Released
  <2>6. \A n \in Cards : sent[n] > 0 => sent'[n] > 0
    BY <2>2 DEF CountsTyped
  <2>7. MarkAfterSend'
    BY <2>3, <2>6 DEF MarkAfterSend, ActorsTyped, ActorsAgree
  <2>8. MarkedMeansSent'
    BY <2>3, <2>6 DEF MarkedMeansSent
  <2>9. QED BY <2>4, <2>5, <2>7, <2>8
<1>12. ASSUME NEW a \in Actors, Mark(a) PROVE Q'
  <2>1. cur[a] \in Cards /\ sent[cur[a]] > 0
    BY <1>12 DEF Mark, ActorsTyped, ActorsAgree, MarkAfterSend
  <2>2. \A b \in Actors : pc'[b] \in {"send", "mark"} => pc[b] = pc'[b] /\ cur'[b] = cur[b]
    BY <1>12 DEF Mark, Done, ActorsTyped
  <2>3. \A n \in Cards : notified'[n] => notified[n] \/ n = cur[a]
    BY <1>12 DEF Mark, RowsTyped
  <2>4. OnlyReleased'
    BY <1>12, <2>2, NothingStarted DEF Mark
  <2>5. (NoticeNeedsRelease /\ MarkAfterSend)'
    BY <1>12, <2>2 DEF Mark, NoticeNeedsRelease, MarkAfterSend
  <2>6. MarkedMeansSent'
    <3>1. UNCHANGED sent
      BY <1>12 DEF Mark
    <3>2. \A n \in Cards : notified'[n] => sent[n] > 0
      BY <2>1, <2>3, Zenon DEF MarkedMeansSent
    <3>3. QED BY <3>1, <3>2, Zenon DEF MarkedMeansSent
  <2>7. QED BY <2>4, <2>5, <2>6
<1>13. ASSUME NEW a \in Actors, Crash(a) PROVE Q'
  <2>1. \A b \in Actors : pc'[b] \in {"send", "mark"} => pc[b] = pc'[b] /\ cur'[b] = cur[b]
    BY <1>13 DEF Crash, ActorsTyped
  <2>2. QED
    BY <1>13, <2>1, NothingStarted, NothingSent DEF Crash, rowVars
<1>14. CASE UNCHANGED vars
  BY <1>14, NothingStarted, NothingSent DEF vars
<1>15. QED
  BY <1>1, <1>2, <1>3, <1>4, <1>5, <1>6, <1>7, <1>8, <1>9, <1>10, <1>11, <1>12,
     <1>13, <1>14 DEF Next

-----------------------------------------------------------------------------
\* At most one moderator works at a time.
OneModerator == \A m, w \in Moderators : m = w

\* Actor a is about to announce card n, or has just done so.
Claims(a, n) == pc[a] \in {"send", "mark"} /\ cur[a] = n
Listed(n) == n \in todo

\* Nothing has happened to a card that is not decided yet.
Undecided ==
  \A n \in Cards : status[n] \in {"absent", "needs_review"} =>
    sent[n] = 0 /\ n \notin auto /\ ~Listed(n) /\ \A a \in Actors : ~Claims(a, n)

\* What a moderator's session has loaded.
Loaded ==
  \A m \in Moderators : pc[m] = "apply" =>
    /\ status[cur[m]] # "absent"
    /\ request[m].action = "patch" => request[m].status = "needs_review"
    /\ request[m].status = "needs_review" =>
         cur[m] \notin auto /\ (OneModerator => status[cur[m]] = "needs_review")

\* Each kind of sender has cards of its own: the pipeline's senders the urgent
\* cards it published, the digest the others, moderators what was held.
Apart ==
  /\ \A n \in Cards, c \in Cards : Claims(c, n) => c = n /\ n \in auto /\ urgent[n]
  /\ \A n \in Cards : Claims(Digest, n) => n \in auto /\ ~urgent[n] /\ ~Listed(n)
  /\ \A n \in Cards : Listed(n) => n \in auto /\ ~urgent[n]
  /\ \A n \in Cards, m \in Moderators : Claims(m, n) => n \notin auto

\* A message without a failure has its sender before the mark, or the mark.
Counted ==
  \A n \in Cards : n \in auto \/ OneModerator =>
    /\ sent[n] <= 1 + faults
    /\ sent[n] <= faults \/ notified[n] \/ \E a \in Actors : pc[a] = "mark" /\ cur[a] = n
    /\ Listed(n) => sent[n] <= faults
    /\ \A a \in Actors : pc[a] = "send" /\ cur[a] = n => sent[n] <= faults

SendersInv == Undecided /\ Loaded /\ Apart /\ Counted

LEMMA SendersInit == Init => SendersInv
<1> SUFFICES ASSUME Init PROVE SendersInv
  OBVIOUS
<1> USE DEF Init, Claims, Listed, Actors
<1>1. Undecided
  BY DEF Undecided
<1>2. Loaded
  BY DEF Loaded
<1>3. Apart
  BY DEF Apart
<1>4. Counted
  BY DEF Counted
<1>5. QED BY <1>1, <1>2, <1>3, <1>4 DEF SendersInv

\* A step that sends nothing, starts no sender and leaves no sender's card
\* without the mark, unless by a failure.
LEMMA CalmKeeps ==
  ASSUME TypeOK, Undecided, Apart, Counted,
         faults' \in Nat, faults' >= faults, sent' = sent, auto' = auto, todo' \subseteq todo,
         \A n \in Cards : n \in auto => urgent'[n] = urgent[n],
         \A n \in Cards : notified[n] => notified'[n],
         \A n \in Cards : status'[n] \in {"absent", "needs_review"} =>
           status[n] \in {"absent", "needs_review"},
         \A a \in Actors : pc'[a] \in {"send", "mark"} => pc'[a] = pc[a] /\ cur'[a] = cur[a],
         \/ faults' = faults + 1
         \/ \A a \in Actors : pc[a] = "mark" =>
              \/ pc'[a] = "mark" /\ cur'[a] = cur[a]
              \/ notified'[cur[a]]
  PROVE  (Undecided /\ Apart /\ Counted)'
<1>1. \A a \in Actors, n \in Cards : Claims(a, n)' => Claims(a, n)
  BY DEF Claims
<1>2. \A n \in Cards : Listed(n)' => Listed(n)
  BY DEF Listed
<1>3. Undecided'
  BY <1>1, <1>2 DEF Undecided
<1>4. Apart'
  BY <1>1, <1>2 DEF Apart, Actors
<1>5. Counted'
  <2> SUFFICES ASSUME NEW n \in Cards, n \in auto \/ OneModerator
               PROVE  /\ sent[n] <= 1 + faults'
                      /\ \/ sent[n] <= faults' \/ notified'[n]
                         \/ \E a \in Actors : pc'[a] = "mark" /\ cur'[a] = n
                      /\ Listed(n)' => sent[n] <= faults'
                      /\ \A a \in Actors : pc'[a] = "send" /\ cur'[a] = n => sent[n] <= faults'
    BY DEF Counted, OneModerator
  <2>1. sent[n] \in Nat /\ faults \in Nat
    BY BoundsAssumption DEF TypeOK
  <2>2. /\ sent[n] <= 1 + faults
        /\ sent[n] <= faults \/ notified[n] \/ \E a \in Actors : pc[a] = "mark" /\ cur[a] = n
        /\ Listed(n) => sent[n] <= faults
        /\ \A a \in Actors : pc[a] = "send" /\ cur[a] = n => sent[n] <= faults
    BY DEF Counted
  <2>3. sent[n] <= 1 + faults' /\ (sent[n] <= faults => sent[n] <= faults')
    BY <2>1, <2>2
  <2>4. CASE faults' = faults + 1
    BY <2>1, <2>2, <2>4
  <2>5. CASE \A a \in Actors : pc[a] = "mark" =>
              \/ pc'[a] = "mark" /\ cur'[a] = cur[a]
              \/ notified'[cur[a]]
    <3>1. \/ sent[n] <= faults' \/ notified'[n]
          \/ \E a \in Actors : pc'[a] = "mark" /\ cur'[a] = n
      BY <2>2, <2>3, <2>5
    <3>2. QED BY <1>2, <2>2, <2>3, <3>1
  <2>6. QED BY <2>4, <2>5
<1>6. QED BY <1>3, <1>4, <1>5

\* A step that leaves the cards moderators have open alone.
LEMMA LoadedKeeps ==
  ASSUME TypeOK, Loaded,
         \A n \in Cards : status[n] # "absent" =>
           status'[n] = status[n] /\ (n \in auto' => n \in auto),
         \A m \in Moderators : pc'[m] = "apply" =>
           pc[m] = "apply" /\ cur'[m] = cur[m] /\ request'[m] = request[m]
  PROVE  Loaded'
<1> SUFFICES ASSUME NEW m \in Moderators, pc'[m] = "apply"
             PROVE  /\ status'[cur'[m]] # "absent"
                    /\ request'[m].action = "patch" => request'[m].status = "needs_review"
                    /\ request'[m].status = "needs_review" =>
                         /\ cur'[m] \notin auto'
                         /\ OneModerator => status'[cur'[m]] = "needs_review"
  BY DEF Loaded, OneModerator
<1>1. pc[m] = "apply" /\ cur'[m] = cur[m] /\ request'[m] = request[m]
  OBVIOUS
<1>2. cur[m] \in Cards
  BY <1>1 DEF TypeOK, Actors
<1>3. QED BY <1>1, <1>2 DEF Loaded

\* No two senders have one card, nor has a sender one that is on the list.
LEMMA OneSender ==
  ASSUME Apart, NEW n \in Cards, n \in auto \/ OneModerator, NEW a \in Actors, Claims(a, n)
  PROVE  ~Listed(n) /\ \A b \in Actors : Claims(b, n) => b = a
<1>1. a \in Cards \/ a \in Moderators \/ a = Digest
  BY DEF Actors
<1>2. ~Listed(n)
  BY <1>1 DEF Apart
<1>3. ASSUME NEW b \in Actors, Claims(b, n) PROVE b = a
  <2>1. b \in Cards \/ b \in Moderators \/ b = Digest
    BY DEF Actors
  <2>2. QED BY <1>1, <1>3, <2>1 DEF Apart, OneModerator
<1>4. QED BY <1>2, <1>3

LEMMA PublishKeeps ==
  ASSUME DeliveryInv, SendersInv, NEW n \in Cards, NEW u \in BOOLEAN, PublishCard(n, u)
  PROVE  SendersInv'
<1> USE ActorsAssumption
<1>1. TypeOK /\ Undecided /\ Loaded /\ Apart /\ Counted
  BY DEF DeliveryInv, SendersInv
<1>2. /\ status[n] = "absent" /\ status' = [status EXCEPT ![n] = "published"]
      /\ urgent' = [urgent EXCEPT ![n] = u] /\ auto' = auto \cup {n}
      /\ UNCHANGED <<notified, sent, faults, todo, request>>
  BY DEF PublishCard
<1>3. /\ status \in [Cards -> Statuses] /\ urgent \in [Cards -> BOOLEAN]
      /\ sent \in [Cards -> Nat] /\ faults \in Nat
  BY <1>1, BoundsAssumption DEF TypeOK
<1>4. sent[n] = 0 /\ ~Listed(n) /\ \A a \in Actors : ~Claims(a, n)
  BY <1>1, <1>2 DEF Undecided
<1>5. /\ \A a \in Actors : a # n => pc'[a] = pc[a] /\ cur'[a] = cur[a]
      /\ \/ u /\ pc'[n] = "send" /\ cur'[n] = n
         \/ pc'[n] = pc[n] /\ cur'[n] = cur[n]
  BY <1>1 DEF PublishCard, StartSending, TypeOK, Actors
<1>6. \A a \in Actors, k \in Cards : Claims(a, k)' =>
        (k # n /\ Claims(a, k)) \/ (k = n /\ a = n /\ u)
  BY <1>4, <1>5 DEF Claims
<1>7. \A k \in Cards : Listed(k)' <=> Listed(k)
  BY <1>2 DEF Listed
<1>8. \A k \in Cards : k # n =>
        status'[k] = status[k] /\ urgent'[k] = urgent[k] /\ (k \in auto' <=> k \in auto)
  BY <1>2, <1>3
<1>9. status'[n] = "published" /\ urgent'[n] = u /\ n \in auto'
  BY <1>2, <1>3
<1>10. Undecided'
  BY <1>1, <1>2, <1>6, <1>7, <1>8, <1>9 DEF Undecided
<1>11. Loaded'
  BY <1>1, <1>2, <1>5, <1>8, LoadedKeeps DEF Actors
<1>12. Apart'
  BY <1>1, <1>4, <1>6, <1>7, <1>8, <1>9 DEF Apart, Actors
<1>13. Counted'
  <2> SUFFICES ASSUME NEW k \in Cards, k \in auto' \/ OneModerator
               PROVE  /\ sent[k] <= 1 + faults
                      /\ \/ sent[k] <= faults \/ notified[k]
                         \/ \E a \in Actors : pc'[a] = "mark" /\ cur'[a] = k
                      /\ Listed(k)' => sent[k] <= faults
                      /\ \A a \in Actors : pc'[a] = "send" /\ cur'[a] = k => sent[k] <= faults
    BY <1>2 DEF Counted, OneModerator
  <2>1. CASE k = n
    BY <1>3, <1>4, <2>1
  <2>2. CASE k # n
    <3>1. \A a \in Actors : pc[a] = "mark" /\ cur[a] = k => pc'[a] = "mark" /\ cur'[a] = k
      <4>1. ~(pc[n] = "mark" /\ cur[n] = k)
        BY <1>1, <2>2 DEF Apart, Claims
      <4>2. QED BY <1>5, <4>1
    <3>2. \A a \in Actors : pc'[a] = "send" /\ cur'[a] = k => pc[a] = "send" /\ cur[a] = k
      BY <1>5, <2>2
    <3>3. QED BY <1>1, <1>7, <1>8, <2>2, <3>1, <3>2 DEF Counted
  <2>3. QED BY <2>1, <2>2
<1>14. QED BY <1>10, <1>11, <1>12, <1>13 DEF SendersInv

LEMMA ApplyKeeps ==
  ASSUME DeliveryInv, SendersInv, NEW m \in Moderators, Apply(m)
  PROVE  SendersInv'
<1> USE ActorsAssumption
<1> DEFINE n == cur[m]  req == request[m]
<1>1. TypeOK /\ Undecided /\ Loaded /\ Apart /\ Counted
  BY DEF DeliveryInv, SendersInv
<1>2. /\ pc[m] = "apply" /\ req.action \in {"approve", "reject"}
      /\ status' = IF req.status = Target(req.action) THEN status
                   ELSE [status EXCEPT ![n] = Target(req.action)]
      /\ UNCHANGED <<urgent, notified, auto, sent, faults, todo>>
  BY DEF Apply
<1>3. /\ status \in [Cards -> Statuses] /\ sent \in [Cards -> Nat] /\ faults \in Nat
      /\ m \in Actors /\ n \in Cards
  BY <1>1, <1>2, BoundsAssumption DEF TypeOK, Actors
<1>4. /\ status[n] # "absent"
      /\ req.status = "needs_review" =>
           n \notin auto /\ (OneModerator => status[n] = "needs_review")
  BY <1>1, <1>2 DEF Loaded
<1>5. /\ Target(req.action) \in {"published", "filtered_out"}
      /\ \A k \in Cards : k # n => status'[k] = status[k]
      /\ status'[n] \in {status[n], Target(req.action)}
  BY <1>2, <1>3 DEF Target
<1>6. \A a \in Actors : a # m => pc'[a] = pc[a] /\ cur'[a] = cur[a]
  BY <1>1, <1>3 DEF Apply, StartSending, Done, TypeOK
<1>7. \A w \in Moderators : w # m => request'[w] = request[w]
  BY <1>1, <1>3 DEF Apply, Done, TypeOK
<1>8. pc'[m] # "apply"
  BY <1>1, <1>3 DEF Apply, StartSending, Done, TypeOK
<1>9. Loaded'
  <2> SUFFICES ASSUME NEW w \in Moderators, pc'[w] = "apply"
               PROVE  /\ status'[cur'[w]] # "absent"
                      /\ request'[w].action = "patch" => request'[w].status = "needs_review"
                      /\ request'[w].status = "needs_review" =>
                           /\ cur'[w] \notin auto'
                           /\ OneModerator => status'[cur'[w]] = "needs_review"
    BY DEF Loaded, OneModerator
  <2>1. w # m
    BY <1>8
  <2>2. pc[w] = "apply" /\ cur'[w] = cur[w] /\ request'[w] = request[w] /\ ~OneModerator
    BY <1>6, <1>7, <2>1 DEF Actors, OneModerator
  <2>3. cur[w] \in Cards
    BY <1>1, <2>2 DEF TypeOK, Actors
  <2>4. status'[cur[w]] # "absent"
    BY <1>1, <1>5, <2>2, <2>3 DEF Loaded
  <2>5. QED BY <1>1, <1>2, <2>2, <2>4 DEF Loaded
<1>10. CASE Done(m)
  <2>1. pc'[m] \notin {"send", "mark"}
    BY <1>1, <1>3, <1>10 DEF Done, TypeOK
  <2>2. (Undecided /\ Apart /\ Counted)'
    BY <1>1, <1>2, <1>3, <1>5, <1>6, <2>1, CalmKeeps
  <2>3. QED BY <1>9, <2>2 DEF SendersInv
<1>11. CASE StartSending(m, n) /\ req.action = "approve" /\ req.status = "needs_review"
  <2>1. /\ status'[n] = "published" /\ n \notin auto
        /\ pc'[m] = "send" /\ cur'[m] = n
    BY <1>1, <1>2, <1>3, <1>4, <1>11 DEF Target, StartSending, TypeOK
  <2>2. \A a \in Actors, k \in Cards : Claims(a, k)' => Claims(a, k) \/ (k = n /\ a = m)
    BY <1>6, <2>1 DEF Claims
  <2>3. \A k \in Cards : Listed(k)' <=> Listed(k)
    BY <1>2 DEF Listed
  <2>4. Undecided'
    BY <1>1, <1>2, <1>5, <2>1, <2>2, <2>3 DEF Undecided
  <2>5. Apart'
    BY <1>1, <1>2, <2>1, <2>2, <2>3 DEF Apart, Actors
  <2>6. Counted'
    <3> SUFFICES ASSUME NEW k \in Cards, k \in auto \/ OneModerator
                 PROVE  /\ sent[k] <= 1 + faults
                        /\ \/ sent[k] <= faults \/ notified[k]
                           \/ \E a \in Actors : pc'[a] = "mark" /\ cur'[a] = k
                        /\ Listed(k) => sent[k] <= faults
                        /\ \A a \in Actors : pc'[a] = "send" /\ cur'[a] = k => sent[k] <= faults
      BY <1>2, <2>3 DEF Counted, OneModerator
    <3>1. CASE k = n
      <4>1. sent[n] = 0
        BY <1>1, <1>3, <1>4, <1>11, <2>1, <3>1 DEF Undecided
      <4>2. QED BY <1>3, <3>1, <4>1
    <3>2. CASE k # n
      <4>1. \A a \in Actors : pc[a] = "mark" => pc'[a] = "mark" /\ cur'[a] = cur[a]
        BY <1>2, <1>6
      <4>2. \A a \in Actors : pc'[a] = "send" /\ cur'[a] = k => pc[a] = "send" /\ cur[a] = k
        BY <1>6, <2>1, <3>2
      <4>3. QED BY <1>1, <4>1, <4>2 DEF Counted
    <3>3. QED BY <3>1, <3>2
  <2>7. QED BY <1>9, <2>4, <2>5, <2>6 DEF SendersInv
<1>12. QED BY <1>10, <1>11 DEF Apply

\* The digest lists cards that only it announces.
LEMMA DigestStartKeeps ==
  ASSUME DeliveryInv, SendersInv, DigestStart PROVE SendersInv'
<1> USE ActorsAssumption
<1>1. TypeOK /\ OnlyReleased /\ Undecided /\ Loaded /\ Apart /\ Counted
  BY DEF DeliveryInv, SendersInv
<1>2. /\ pc[Digest] = "idle" /\ todo' = Candidates /\ pc' = [pc EXCEPT ![Digest] = "next"]
      /\ UNCHANGED <<status, urgent, notified, auto, sent, faults, cur, request>>
  BY DEF DigestStart, rowVars
<1>3. \A n \in Candidates : /\ n \in Cards /\ status[n] = "published" /\ n \in auto
                            /\ ~urgent[n] /\ ~notified[n]
  BY <1>1 DEF Candidates, Eligible, OnlyReleased, Released
<1>4. Digest \in Actors /\ pc'[Digest] = "next"
      /\ \A a \in Actors : a # Digest => pc'[a] = pc[a]
  BY <1>1, <1>2 DEF TypeOK, Actors
<1>5. \A a \in Actors, n \in Cards : Claims(a, n)' => Claims(a, n)
  BY <1>2, <1>4 DEF Claims
<1>6. \A n \in Cards : Listed(n)' <=> n \in Candidates
  BY <1>2 DEF Listed
<1>7. Undecided'
  BY <1>1, <1>2, <1>3, <1>5, <1>6 DEF Undecided
<1>8. Loaded'
  BY <1>1, <1>2, <1>4, LoadedKeeps DEF Actors
<1>9. \A n \in Cards : ~Claims(Digest, n)'
  BY <1>4 DEF Claims
<1>10. Apart'
  BY <1>1, <1>2, <1>3, <1>5, <1>6, <1>9 DEF Apart, Actors
<1>11. Counted'
  <2> SUFFICES ASSUME NEW n \in Cards, n \in auto \/ OneModerator
               PROVE  /\ sent[n] <= 1 + faults
                      /\ \/ sent[n] <= faults \/ notified[n]
                         \/ \E a \in Actors : pc'[a] = "mark" /\ cur[a] = n
                      /\ n \in Candidates => sent[n] <= faults
                      /\ \A a \in Actors : pc'[a] = "send" /\ cur[a] = n => sent[n] <= faults
    BY <1>2, <1>6 DEF Counted, OneModerator
  <2>1. \A a \in Actors : (pc'[a] = "mark" <=> pc[a] = "mark") /\ (pc'[a] = "send" <=> pc[a] = "send")
    BY <1>2, <1>4
  <2>2. ASSUME n \in Candidates PROVE sent[n] <= faults
    <3>1. \A a \in Actors : ~(pc[a] = "mark" /\ cur[a] = n)
      BY <1>1, <1>2, <1>3, <2>2 DEF Apart, Claims, Actors
    <3>2. QED BY <1>1, <1>3, <2>2, <3>1 DEF Counted
  <2>3. QED BY <1>1, <2>1, <2>2 DEF Counted
<1>12. QED BY <1>7, <1>8, <1>10, <1>11 DEF SendersInv

LEMMA DigestNextKeeps ==
  ASSUME DeliveryInv, SendersInv, DigestNext PROVE SendersInv'
<1> USE ActorsAssumption
<1>1. TypeOK /\ Undecided /\ Loaded /\ Apart /\ Counted
  BY DEF DeliveryInv, SendersInv
<1>2. PICK n \in todo : todo' = todo \ {n} /\ StartSending(Digest, n)
  BY DEF DigestNext
<1>3. /\ pc[Digest] = "next"
      /\ UNCHANGED <<status, urgent, notified, auto, sent, faults, request>>
  BY DEF DigestNext, rowVars
<1>4. n \in Cards /\ Listed(n) /\ n \in auto /\ ~urgent[n]
  BY <1>1 DEF TypeOK, Listed, Apart
<1>5. /\ Digest \in Actors /\ pc'[Digest] = "send" /\ cur'[Digest] = n
      /\ \A a \in Actors : a # Digest => pc'[a] = pc[a] /\ cur'[a] = cur[a]
  BY <1>1, <1>2 DEF StartSending, TypeOK, Actors
<1>6. \A a \in Actors, k \in Cards : Claims(a, k)' => Claims(a, k) \/ (k = n /\ a = Digest)
  BY <1>5 DEF Claims
<1>7. \A k \in Cards : Listed(k)' => Listed(k) /\ k # n
  BY <1>2 DEF Listed
<1>8. Undecided'
  BY <1>1, <1>3, <1>4, <1>6, <1>7 DEF Undecided
<1>9. Loaded'
  BY <1>1, <1>3, <1>5, LoadedKeeps DEF Actors
<1>10. Apart'
  <2>1. \A k \in Cards : Claims(Digest, k)' => k = n
    BY <1>5 DEF Claims
  <2>2. QED BY <1>1, <1>3, <1>4, <1>6, <1>7, <2>1 DEF Apart, Actors
<1>11. Counted'
  <2> SUFFICES ASSUME NEW k \in Cards, k \in auto \/ OneModerator
               PROVE  /\ sent[k] <= 1 + faults
                      /\ \/ sent[k] <= faults \/ notified[k]
                         \/ \E a \in Actors : pc'[a] = "mark" /\ cur'[a] = k
                      /\ Listed(k)' => sent[k] <= faults
                      /\ \A a \in Actors : pc'[a] = "send" /\ cur'[a] = k => sent[k] <= faults
    BY <1>3 DEF Counted, OneModerator
  <2>1. \A a \in Actors : pc[a] = "mark" => pc'[a] = "mark" /\ cur'[a] = cur[a]
    BY <1>3, <1>5
  <2>2. \A a \in Actors : pc'[a] = "send" /\ cur'[a] = k =>
          (pc[a] = "send" /\ cur[a] = k) \/ k = n
    BY <1>5
  <2>3. k = n => sent[k] <= faults
    BY <1>1, <1>4 DEF Counted
  <2>4. QED BY <1>1, <1>7, <2>1, <2>2, <2>3 DEF Counted
<1>12. QED BY <1>8, <1>9, <1>10, <1>11 DEF SendersInv

\* A message: its sender was the only one to have the card.
LEMMA PostOkKeeps ==
  ASSUME DeliveryInv, SendersInv, NEW a \in Actors, PostOk(a) PROVE SendersInv'
<1> USE ActorsAssumption
<1>1. TypeOK /\ Undecided /\ Loaded /\ Apart /\ Counted
  BY DEF DeliveryInv, SendersInv
<1>2. /\ pc[a] = "send" /\ sent' = [sent EXCEPT ![cur[a]] = sent[cur[a]] + 1]
      /\ pc' = [pc EXCEPT ![a] = "mark"]
      /\ UNCHANGED <<status, urgent, notified, auto, faults, cur, todo, request>>
  BY DEF PostOk, rowVars
<1>3. PICK n \in Cards : n = cur[a] /\ Claims(a, n)
  BY <1>1, <1>2 DEF TypeOK, Claims
<1>4. /\ sent \in [Cards -> Nat] /\ faults \in Nat
      /\ sent'[n] = sent[n] + 1 /\ \A k \in Cards : k # n => sent'[k] = sent[k]
  BY <1>1, <1>2, <1>3, BoundsAssumption DEF TypeOK
<1>5. pc'[a] = "mark" /\ \A b \in Actors : b # a => pc'[b] = pc[b]
  BY <1>1, <1>2 DEF TypeOK
<1>6. \A b \in Actors, k \in Cards : Claims(b, k)' <=> Claims(b, k)
  BY <1>2, <1>5 DEF Claims
<1>7. \A k \in Cards : Listed(k)' <=> Listed(k)
  BY <1>2 DEF Listed
<1>8. Undecided'
  <2>1. status[n] \notin {"absent", "needs_review"}
    BY <1>1, <1>3 DEF Undecided
  <2>2. QED BY <1>1, <1>2, <1>4, <1>6, <1>7, <2>1 DEF Undecided
<1>9. Loaded'
  BY <1>1, <1>2, <1>5, LoadedKeeps DEF Actors
<1>10. Apart'
  BY <1>1, <1>2, <1>6, <1>7 DEF Apart, Actors
<1>11. Counted'
  <2> SUFFICES ASSUME NEW k \in Cards, k \in auto \/ OneModerator
               PROVE  /\ sent'[k] <= 1 + faults
                      /\ \/ sent'[k] <= faults \/ notified[k]
                         \/ \E b \in Actors : pc'[b] = "mark" /\ cur[b] = k
                      /\ Listed(k) => sent'[k] <= faults
                      /\ \A b \in Actors : pc'[b] = "send" /\ cur[b] = k => sent'[k] <= faults
    BY <1>2, <1>7 DEF Counted, OneModerator
  <2>1. CASE k = n
    <3>1. sent[n] <= faults
      BY <1>1, <1>2, <1>3, <2>1 DEF Counted
    <3>2. ~Listed(n) /\ \A b \in Actors : Claims(b, n) => b = a
      BY <1>1, <1>3, <2>1, OneSender
    <3>3. \A b \in Actors : ~(pc'[b] = "send" /\ cur[b] = n)
      BY <1>5, <3>2 DEF Claims
    <3>4. sent'[n] <= 1 + faults
      BY <1>4, <3>1
    <3>5. QED BY <1>3, <1>5, <2>1, <3>2, <3>3, <3>4
  <2>2. CASE k # n
    BY <1>1, <1>3, <1>4, <1>5, <2>2 DEF Counted
  <2>3. QED BY <2>1, <2>2
<1>12. QED BY <1>8, <1>9, <1>10, <1>11 DEF SendersInv

\* A failure pays for the message it may have left.
LEMMA PostFailKeeps ==
  ASSUME DeliveryInv, SendersInv, NEW a \in Actors, PostFail(a) PROVE SendersInv'
<1> USE ActorsAssumption
<1>1. TypeOK /\ Undecided /\ Loaded /\ Apart /\ Counted
  BY DEF DeliveryInv, SendersInv
<1>2. /\ pc[a] = "send" /\ faults' = faults + 1
      /\ UNCHANGED <<status, urgent, notified, auto, todo>>
  BY DEF PostFail, rowVars
<1>3. PICK n \in Cards : n = cur[a] /\ Claims(a, n)
  BY <1>1, <1>2 DEF TypeOK, Claims
<1>4. PICK d \in {0, 1} : sent' = [sent EXCEPT ![n] = sent[n] + d]
  BY <1>3 DEF PostFail
<1>5. /\ sent \in [Cards -> Nat] /\ faults \in Nat
      /\ sent'[n] = sent[n] + d /\ \A k \in Cards : k # n => sent'[k] = sent[k]
  BY <1>1, <1>4, BoundsAssumption DEF TypeOK
<1>6. /\ \A b \in Actors : b # a => pc'[b] = pc[b] /\ cur'[b] = cur[b]
      /\ pc'[a] \in {"next", "idle"} \/ (pc'[a] = pc[a] /\ cur'[a] = cur[a])
      /\ \A m \in Moderators : m # a => request'[m] = request[m]
  BY <1>1 DEF PostFail, Done, TypeOK
<1>7. \A b \in Actors, k \in Cards : Claims(b, k)' => Claims(b, k)
  BY <1>6 DEF Claims
<1>8. \A k \in Cards : Listed(k)' <=> Listed(k)
  BY <1>2 DEF Listed
<1>9. Undecided'
  <2>1. status[n] \notin {"absent", "needs_review"}
    BY <1>1, <1>3 DEF Undecided
  <2>2. QED BY <1>1, <1>2, <1>5, <1>7, <1>8, <2>1 DEF Undecided
<1>10. Loaded'
  BY <1>1, <1>2, <1>6, LoadedKeeps DEF Actors
<1>11. Apart'
  BY <1>1, <1>2, <1>7, <1>8 DEF Apart, Actors
<1>12. Counted'
  <2> SUFFICES ASSUME NEW k \in Cards, k \in auto \/ OneModerator PROVE sent'[k] <= faults'
    <3>1. \A k \in Cards : sent'[k] <= faults' => sent'[k] <= 1 + faults'
      BY <1>2, <1>4, <1>5
    <3>2. QED BY <1>2, <3>1 DEF Counted, OneModerator
  <2>1. CASE k = n
    <3>1. sent[n] <= faults
      BY <1>1, <1>2, <1>3, <2>1 DEF Counted
    <3>2. QED BY <1>2, <1>4, <1>5, <2>1, <3>1
  <2>2. CASE k # n
    BY <1>1, <1>2, <1>5, <2>2 DEF Counted
  <2>3. QED BY <2>1, <2>2
<1>13. QED BY <1>9, <1>10, <1>11, <1>12 DEF SendersInv

LEMMA OpenKeeps ==
  ASSUME DeliveryInv, SendersInv, NEW m \in Moderators, NEW n \in Cards, NEW action \in Actions,
         Open(m, n, action)
  PROVE  SendersInv'
<1> USE ActorsAssumption
<1>1. TypeOK /\ Undecided /\ Loaded /\ Apart /\ Counted
  BY DEF DeliveryInv, SendersInv
<1>2. /\ pc[m] = "idle" /\ status[n] # "absent" /\ (action = "patch" => status[n] = "needs_review")
      /\ pc' = [pc EXCEPT ![m] = "apply"] /\ cur' = [cur EXCEPT ![m] = n]
      /\ request' = [request EXCEPT ![m] =
           [action |-> action, status |-> status[n], urgent |-> urgent[n]]]
      /\ UNCHANGED <<status, urgent, notified, auto, sent, faults, todo>>
  BY DEF Open, rowVars
<1>3. m \in Actors /\ faults \in Nat
  BY <1>1, BoundsAssumption DEF Actors, TypeOK
<1>4. /\ pc'[m] = "apply" /\ cur'[m] = n
      /\ request'[m].action = action /\ request'[m].status = status[n]
      /\ \A a \in Actors : a # m => pc'[a] = pc[a] /\ cur'[a] = cur[a]
      /\ \A w \in Moderators : w # m => request'[w] = request[w]
  BY <1>1, <1>2, <1>3 DEF TypeOK
<1>5. (Undecided /\ Apart /\ Counted)'
  BY <1>1, <1>2, <1>3, <1>4, CalmKeeps
<1>6. Loaded'
  <2> SUFFICES ASSUME NEW w \in Moderators, pc'[w] = "apply"
               PROVE  /\ status[cur'[w]] # "absent"
                      /\ request'[w].action = "patch" => request'[w].status = "needs_review"
                      /\ request'[w].status = "needs_review" =>
                           /\ cur'[w] \notin auto
                           /\ OneModerator => status[cur'[w]] = "needs_review"
    BY <1>2 DEF Loaded, OneModerator
  <2>1. CASE w = m
    BY <1>1, <1>2, <1>4, <2>1 DEF Undecided
  <2>2. CASE w # m
    <3>1. pc[w] = "apply" /\ cur'[w] = cur[w] /\ request'[w] = request[w]
      BY <1>4, <2>2 DEF Actors
    <3>2. QED BY <1>1, <3>1 DEF Loaded
  <2>3. QED BY <2>1, <2>2
<1>7. QED BY <1>5, <1>6 DEF SendersInv

\* The other steps send nothing and start no sender.
LEMMA CalmSteps ==
  ASSUME DeliveryInv, SendersInv,
         \/ \E n \in Cards : (\E u \in BOOLEAN : HoldCard(n, u)) \/ Age(n)
         \/ \E m \in Moderators : Patch(m)
         \/ DigestEnd
         \/ \E a \in Actors : Mark(a) \/ Crash(a)
         \/ UNCHANGED vars
  PROVE  SendersInv'
<1> USE ActorsAssumption
<1>1. TypeOK /\ Undecided /\ Loaded /\ Apart /\ Counted /\ faults \in Nat
  BY BoundsAssumption DEF DeliveryInv, SendersInv, TypeOK
<1>2. CASE \E n \in Cards : (\E u \in BOOLEAN : HoldCard(n, u)) \/ Age(n)
  <2>1. PICK n \in Cards : (\E u \in BOOLEAN : HoldCard(n, u)) \/ Age(n)
    BY <1>2
  <2>2. /\ UNCHANGED <<notified, auto, sent, faults, pc, cur, tries, todo, request>>
        /\ \A k \in Cards : \/ status'[k] = status[k] /\ urgent'[k] = urgent[k]
                            \/ status[k] = "absent"
        /\ \A k \in Cards : status'[k] \in {"absent", "needs_review"} =>
             status[k] \in {"absent", "needs_review"}
    BY <1>1, <2>1 DEF HoldCard, Age, actorVars, TypeOK
  <2>3. \A k \in Cards : k \in auto => urgent'[k] = urgent[k]
    BY <1>1, <2>2 DEF Undecided
  <2>4. (Undecided /\ Apart /\ Counted)'
    BY <1>1, <2>2, <2>3, CalmKeeps
  <2>5. Loaded'
    BY <1>1, <2>2, LoadedKeeps
  <2>6. QED BY <2>4, <2>5 DEF SendersInv
<1>3. CASE \E m \in Moderators : Patch(m)
  <2>1. PICK m \in Moderators : Patch(m)
    BY <1>3
  <2>2. /\ pc[m] = "apply" /\ request[m].action = "patch" /\ m \in Actors
        /\ urgent' = [urgent EXCEPT ![cur[m]] = ~request[m].urgent] /\ Done(m)
        /\ UNCHANGED <<status, notified, auto, sent, faults, todo>>
    BY <2>1 DEF Patch, Actors
  <2>3. cur[m] \notin auto
    BY <1>1, <2>2 DEF Loaded
  <2>4. \A k \in Cards : k \in auto => urgent'[k] = urgent[k]
    BY <1>1, <2>2, <2>3 DEF TypeOK
  <2>5. /\ pc'[m] = "idle" /\ \A a \in Actors : a # m => pc'[a] = pc[a] /\ cur'[a] = cur[a]
        /\ \A w \in Moderators : w # m => request'[w] = request[w]
    BY <1>1, <2>2 DEF Done, TypeOK
  <2>6. (Undecided /\ Apart /\ Counted)'
    BY <1>1, <2>2, <2>4, <2>5, CalmKeeps
  <2>7. Loaded'
    BY <1>1, <2>2, <2>5, LoadedKeeps DEF Actors
  <2>8. QED BY <2>6, <2>7 DEF SendersInv
<1>4. CASE DigestEnd
  <2>1. /\ pc[Digest] = "next" /\ pc' = [pc EXCEPT ![Digest] = "idle"]
        /\ UNCHANGED <<status, urgent, notified, auto, sent, faults, cur, todo, request>>
    BY <1>4 DEF DigestEnd, rowVars
  <2>2. pc'[Digest] = "idle" /\ \A a \in Actors : a # Digest => pc'[a] = pc[a]
    BY <1>1, <2>1 DEF TypeOK, Actors
  <2>3. (Undecided /\ Apart /\ Counted)'
    BY <1>1, <2>1, <2>2, CalmKeeps
  <2>4. Loaded'
    BY <1>1, <2>1, <2>2, LoadedKeeps DEF Actors
  <2>5. QED BY <2>3, <2>4 DEF SendersInv
<1>5. CASE \E a \in Actors : Mark(a)
  <2>1. PICK a \in Actors : Mark(a)
    BY <1>5
  <2>2. /\ pc[a] = "mark" /\ notified' = [notified EXCEPT ![cur[a]] = TRUE] /\ Done(a)
        /\ UNCHANGED <<status, urgent, auto, sent, faults, todo>> /\ cur[a] \in Cards
    BY <1>1, <2>1 DEF Mark, TypeOK
  <2>3. /\ notified'[cur[a]] /\ \A n \in Cards : notified[n] => notified'[n]
    BY <1>1, <2>2 DEF TypeOK
  <2>4. /\ pc'[a] \in {"idle", "next"}
        /\ \A b \in Actors : b # a => pc'[b] = pc[b] /\ cur'[b] = cur[b]
        /\ \A w \in Moderators : w # a => request'[w] = request[w]
    BY <1>1, <2>2 DEF Done, TypeOK
  <2>5. (Undecided /\ Apart /\ Counted)'
    BY <1>1, <2>2, <2>3, <2>4, CalmKeeps
  <2>6. Loaded'
    BY <1>1, <2>2, <2>4, LoadedKeeps DEF Actors
  <2>7. QED BY <2>5, <2>6 DEF SendersInv
<1>6. CASE \E a \in Actors : Crash(a)
  <2>1. PICK a \in Actors : Crash(a)
    BY <1>6
  <2>2. /\ faults' = faults + 1 /\ todo' \subseteq todo
        /\ UNCHANGED <<status, urgent, notified, auto, sent>>
    BY <2>1 DEF Crash, rowVars
  <2>3. /\ pc'[a] = "idle"
        /\ \A b \in Actors : b # a => pc'[b] = pc[b] /\ cur'[b] = cur[b]
        /\ \A w \in Moderators : w # a => request'[w] = request[w]
    BY <1>1, <2>1 DEF Crash, TypeOK
  <2>4. (Undecided /\ Apart /\ Counted)'
    BY <1>1, <2>2, <2>3, CalmKeeps
  <2>5. Loaded'
    BY <1>1, <2>2, <2>3, LoadedKeeps DEF Actors
  <2>6. QED BY <2>4, <2>5 DEF SendersInv
<1>7. CASE UNCHANGED vars
  <2>1. UNCHANGED <<status, urgent, notified, auto, sent, faults, pc, cur, todo, request>>
    BY <1>7 DEF vars
  <2>2. (Undecided /\ Apart /\ Counted)'
    BY <1>1, <2>1, CalmKeeps
  <2>3. Loaded'
    BY <1>1, <2>1, LoadedKeeps
  <2>4. QED BY <2>2, <2>3 DEF SendersInv
<1>8. QED BY <1>2, <1>3, <1>4, <1>5, <1>6, <1>7

LEMMA SendersStep == DeliveryInv /\ SendersInv /\ [Next]_vars => SendersInv'
<1> SUFFICES ASSUME DeliveryInv, SendersInv, [Next]_vars PROVE SendersInv'
  OBVIOUS
<1>1. CASE \E n \in Cards, u \in BOOLEAN : PublishCard(n, u)
  BY <1>1, PublishKeeps
<1>2. CASE \E m \in Moderators, n \in Cards, action \in Actions : Open(m, n, action)
  BY <1>2, OpenKeeps
<1>3. CASE \E m \in Moderators : Apply(m)
  BY <1>3, ApplyKeeps
<1>4. CASE DigestStart
  BY <1>4, DigestStartKeeps
<1>5. CASE DigestNext
  BY <1>5, DigestNextKeeps
<1>6. CASE \E a \in Actors : PostOk(a)
  BY <1>6, PostOkKeeps
<1>7. CASE \E a \in Actors : PostFail(a)
  BY <1>7, PostFailKeeps
<1>8. CASE \/ \E n \in Cards : (\E u \in BOOLEAN : HoldCard(n, u)) \/ Age(n)
           \/ \E m \in Moderators : Patch(m)
           \/ DigestEnd
           \/ \E a \in Actors : Mark(a) \/ Crash(a)
           \/ UNCHANGED vars
  BY <1>8, CalmSteps
<1>9. QED BY <1>1, <1>2, <1>3, <1>4, <1>5, <1>6, <1>7, <1>8 DEF Next
-----------------------------------------------------------------------------
\* Whatever races, failures and late senders there are, a card that the pipeline
\* held for review never reaches the channel before a moderator approves it.
THEOREM ReleasedOnly == Spec => []NoticeNeedsRelease
<1>1. DeliveryInv => NoticeNeedsRelease
  BY DEF DeliveryInv
<1>2. QED BY DeliveryInit, DeliveryStep, <1>1, PTL DEF Spec

\* A card that carries the mark has been announced.
THEOREM MarkIsEarned == Spec => []MarkedMeansSent
<1>1. DeliveryInv => MarkedMeansSent
  BY DEF DeliveryInv
<1>2. QED BY DeliveryInit, DeliveryStep, <1>1, PTL DEF Spec

\* telegram_notified_at does its work: with one moderator at a time, the senders
\* announce no card twice between them unless a request failed or one died.
THEOREM DuplicatesNeedFaults == ASSUME OneModerator PROVE Spec => []DuplicateNeedsFault
<1>1. SendersInv => DuplicateNeedsFault
  BY DEF SendersInv, Counted, DuplicateNeedsFault
<1>2. QED BY DeliveryInit, DeliveryStep, SendersInit, SendersStep, <1>1, PTL DEF Spec

\* Every second notice for a card that the pipeline published is paid for with a
\* failed request or a sender that died.
PublishedSentOnce == \A n \in auto : sent[n] <= 1 + faults

\* For the cards the pipeline published, telegram_notified_at does its work
\* however many moderators approve, reject and edit at the same time.
THEOREM AutomaticSentOnce == Spec => []PublishedSentOnce
<1>1. DeliveryInv /\ SendersInv => PublishedSentOnce
  BY DEF DeliveryInv, TypeOK, SendersInv, Counted, PublishedSentOnce
<1>2. QED BY DeliveryInit, DeliveryStep, SendersInit, SendersStep, <1>1, PTL DEF Spec
=============================================================================
