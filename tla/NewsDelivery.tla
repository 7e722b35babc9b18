---------------------------- MODULE NewsDelivery ----------------------------
(***************************************************************************)
(* What happens to a card after the pipeline has made it: moderators       *)
(* approve, reject and edit it, and three senders announce it on Telegram: *)
(* the pipeline's urgent notice (inline or in a thread of its own), the    *)
(* digest job, and the request that approves a held card.  They share the  *)
(* row of processed_news and its column telegram_notified_at.              *)
(*                                                                         *)
(* One step is one transaction, or one HTTP request to Telegram.  The job  *)
(* lock (JobLock, AdvisoryLock) leaves one digest at a time.               *)
(***************************************************************************)
EXTENDS Naturals, FiniteSets

CONSTANTS
  Cards,         \* cards by number, a later one is newer
  Moderators,    \* moderation requests that may run at the same time
  Digest,        \* the digest job
  None,
  Important,     \* cards the digest may carry: importance score, source
  ClusterOf(_),  \* the cluster of a card
  Limit,         \* telegram_digest_max_per_slot
  MaxPosts,      \* HTTP requests of one notice before its sender gives up
  MaxFaults      \* bound: failed requests and killed actors, in total

ASSUME CardsAssumption == Cards \subseteq Nat /\ Important \subseteq Cards
ASSUME BoundsAssumption ==
  Limit \in Nat \ {0} /\ MaxPosts \in Nat \ {0} /\ MaxFaults \in Nat

\* A card that is urgent at once has a sender of its own, named like the card.
Actors == Cards \cup Moderators \cup {Digest}

VARIABLES
  \* processed_news and moderation_events
  status,     \* publication_status, or "absent"
  urgent,     \* is_urgent
  notified,   \* telegram_notified_at is set
  aged,       \* older than telegram_digest_max_age_hours
  approved,   \* an "approve" event exists
  audit,      \* the last approve or reject event
  \* outside
  auto,       \* history: published by the pipeline itself
  sent,       \* history: messages about the card in the channel
  faults,     \* history: failures so far
  \* senders and moderators
  pc, cur,    \* stage and card of each actor
  tries,      \* requests that have failed for the notice in hand
  todo,       \* candidates of the digest not yet taken up
  request     \* action of a moderator, and the row as its session loaded it

rowVars == <<status, urgent, notified, aged, approved, audit, auto>>
actorVars == <<pc, cur, tries, todo, request>>
vars == <<status, urgent, notified, aged, approved, audit, auto, sent, faults,
          pc, cur, tries, todo, request>>

Statuses == {"absent", "needs_review", "published", "filtered_out"}
Actions == {"approve", "reject", "patch"}
Requests == [action : Actions, status : Statuses, urgent : BOOLEAN]

ASSUME ActorsAssumption ==
  /\ Cards \cap Moderators = {}
  /\ Digest \notin Cards \cup Moderators
  /\ None \notin Cards \cup Requests

TypeOK ==
  /\ status \in [Cards -> Statuses]
  /\ urgent \in [Cards -> BOOLEAN]
  /\ notified \in [Cards -> BOOLEAN]
  /\ aged \in SUBSET Cards
  /\ approved \in SUBSET Cards
  /\ audit \in [Cards -> {"none", "approve", "reject"}]
  /\ auto \in SUBSET Cards
  /\ sent \in [Cards -> Nat]
  /\ faults \in 0 .. MaxFaults
  /\ pc \in [Actors -> {"idle", "apply", "next", "send", "mark"}]
  /\ cur \in [Actors -> Cards \cup {None}]
  /\ tries \in [Actors -> 0 .. MaxPosts - 1]
  /\ todo \in SUBSET Cards
  /\ request \in [Moderators -> Requests \cup {None}]
  \* an actor has a card, and a moderator a request, exactly while it works
  /\ \A a \in Actors : cur[a] = None <=> pc[a] \in {"idle", "next"}
  /\ \A m \in Moderators : request[m] = None <=> pc[m] = "idle"
  /\ \A a \in Actors : pc[a] = "next" => a = Digest
  /\ \A a \in Actors : pc[a] = "apply" => a \in Moderators

Init ==
  /\ status = [n \in Cards |-> "absent"]
  /\ urgent = [n \in Cards |-> FALSE]
  /\ notified = [n \in Cards |-> FALSE]
  /\ aged = {}
  /\ approved = {}
  /\ audit = [n \in Cards |-> "none"]
  /\ auto = {}
  /\ sent = [n \in Cards |-> 0]
  /\ faults = 0
  /\ pc = [a \in Actors |-> "idle"]
  /\ cur = [a \in Actors |-> None]
  /\ tries = [a \in Actors |-> 0]
  /\ todo = {}
  /\ request = [m \in Moderators |-> None]
-----------------------------------------------------------------------------
\* Actor a starts to announce card n.
StartSending(a, n) ==
  /\ pc' = [pc EXCEPT ![a] = "send"]
  /\ cur' = [cur EXCEPT ![a] = n]

\* Actor a is done with its card.  The digest goes on with its list.
Done(a) ==
  /\ pc' = [pc EXCEPT ![a] = IF a = Digest THEN "next" ELSE "idle"]
  /\ cur' = [cur EXCEPT ![a] = None]
  /\ tries' = [tries EXCEPT ![a] = 0]
  /\ request' = IF a \in Moderators THEN [request EXCEPT ![a] = None] ELSE request

\* The pipeline commits the card it has decided to publish, and announces it
\* at once if it is urgent.
PublishCard(n, isUrgent) ==
  /\ status[n] = "absent"
  /\ status' = [status EXCEPT ![n] = "published"]
  /\ urgent' = [urgent EXCEPT ![n] = isUrgent]
  /\ auto' = auto \cup {n}
  /\ IF isUrgent THEN StartSending(n, n) ELSE UNCHANGED <<pc, cur>>
  /\ UNCHANGED <<notified, aged, approved, audit, sent, faults, tries, todo, request>>

\* The pipeline commits a card for the moderation queue.
HoldCard(n, isUrgent) ==
  /\ status[n] = "absent"
  /\ status' = [status EXCEPT ![n] = "needs_review"]
  /\ urgent' = [urgent EXCEPT ![n] = isUrgent]
  /\ UNCHANGED <<notified, aged, approved, audit, auto, sent, faults, actorVars>>

Age(n) ==
  /\ status[n] # "absent"
  /\ n \notin aged
  /\ aged' = aged \cup {n}
  /\ UNCHANGED <<status, urgent, notified, approved, audit, auto, sent, faults, actorVars>>

\* A moderator's request loads the row and keeps it in its session.  Editing is
\* refused outside the moderation queue.
Open(m, n, action) ==
  /\ pc[m] = "idle"
  /\ status[n] # "absent"
  /\ action = "patch" => status[n] = "needs_review"
  /\ pc' = [pc EXCEPT ![m] = "apply"]
  /\ cur' = [cur EXCEPT ![m] = n]
  /\ request' = [request EXCEPT ![m] =
       [action |-> action, status |-> status[n], urgent |-> urgent[n]]]
  /\ UNCHANGED <<rowVars, sent, faults, tries, todo>>

Target(action) == IF action = "approve" THEN "published" ELSE "filtered_out"

\* apply_moderation.  The session still has the row it loaded, so a status
\* equal to the loaded one is not written; the event always is.  An approval
\* out of the queue, as loaded, is announced.
Apply(m) ==
  LET n == cur[m]  req == request[m]
  IN  /\ pc[m] = "apply"
      /\ req.action \in {"approve", "reject"}
      /\ status' = IF req.status = Target(req.action) THEN status
                   ELSE [status EXCEPT ![n] = Target(req.action)]
      /\ audit' = [audit EXCEPT ![n] = req.action]
      /\ approved' = IF req.action = "approve" THEN approved \cup {n} ELSE approved
      /\ IF req.action = "approve" /\ req.status = "needs_review"
         THEN StartSending(m, n) /\ UNCHANGED <<tries, request>>
         ELSE Done(m)
      /\ UNCHANGED <<urgent, notified, aged, auto, sent, faults, todo>>

\* update_processed_metadata changes a field of the loaded row, here is_urgent.
Patch(m) ==
  /\ pc[m] = "apply"
  /\ request[m].action = "patch"
  /\ urgent' = [urgent EXCEPT ![cur[m]] = ~request[m].urgent]
  /\ Done(m)
  /\ UNCHANGED <<status, notified, aged, approved, audit, auto, sent, faults, todo>>

\* Mutant: cards held for review are candidates as well.
Eligible_AnyStatus(n) ==
  /\ status[n] # "absent"
  /\ n \in Important \ (approved \cup aged)
  /\ ~urgent[n]
  /\ ~notified[n]

\* Mutant: cards already announced are candidates again.
Eligible_Again(n) ==
  /\ status[n] = "published"
  /\ n \in Important \ (approved \cup aged)
  /\ ~urgent[n]

\* The WHERE clause of list_telegram_digest_candidates.
Eligible(n) ==
  /\ status[n] = "published"
  /\ n \in Important \ (approved \cup aged)
  /\ ~urgent[n]
  /\ ~notified[n]

\* Mutant: a cluster that has had its message is left out for good.
Candidates_OncePerCluster ==
  LET rows == {n \in Cards : Eligible(n)}
      heads == {n \in rows : \A k \in Cards :
                  ClusterOf(k) = ClusterOf(n) => ~notified[k] /\ (k \in rows => k <= n)}
  IN  {n \in heads : Cardinality({k \in heads : k > n}) < Limit}

\* The newest eligible card of each cluster, and of those the newest Limit.
Candidates ==
  LET rows == {n \in Cards : Eligible(n)}
      heads == {n \in rows : \A k \in rows : ClusterOf(k) = ClusterOf(n) => k <= n}
  IN  {n \in heads : Cardinality({k \in heads : k > n}) < Limit}

\* A slot of the digest with something to send.
DigestStart ==
  /\ pc[Digest] = "idle"
  /\ Candidates # {}
  /\ todo' = Candidates
  /\ pc' = [pc EXCEPT ![Digest] = "next"]
  /\ UNCHANGED <<rowVars, sent, faults, cur, tries, request>>

\* The newest card left on the list is announced, whatever has happened to it
\* since the list was read.
DigestNext ==
  /\ pc[Digest] = "next"
  /\ \E n \in todo :
       /\ \A k \in todo : k <= n
       /\ todo' = todo \ {n}
       /\ StartSending(Digest, n)
  /\ UNCHANGED <<rowVars, sent, faults, tries, request>>

DigestEnd ==
  /\ pc[Digest] = "next"
  /\ todo = {}
  /\ pc' = [pc EXCEPT ![Digest] = "idle"]
  /\ UNCHANGED <<rowVars, sent, faults, cur, tries, todo, request>>

\* Telegram accepts the message and says so.
PostOk(a) ==
  /\ pc[a] = "send"
  /\ sent' = [sent EXCEPT ![cur[a]] = @ + 1]
  /\ pc' = [pc EXCEPT ![a] = "mark"]
  /\ UNCHANGED <<rowVars, faults, cur, tries, todo, request>>

\* Mutant: the sender's result is not looked at.
PostFail_MarkAnyway(a) ==
  /\ pc[a] = "send"
  /\ faults < MaxFaults
  /\ faults' = faults + 1
  /\ \E delivered \in {0, 1} : sent' = [sent EXCEPT ![cur[a]] = @ + delivered]
  /\ pc' = [pc EXCEPT ![a] = "mark"]
  /\ UNCHANGED <<rowVars, todo, cur, tries, request>>

\* The request fails: it was refused, or the answer came too late although the
\* message is in the channel.  The sender tries again (sendMessage after a
\* failed sendPhoto, then the next attempt) or gives the card up unmarked.
PostFail(a) ==
  /\ pc[a] = "send"
  /\ faults < MaxFaults
  /\ faults' = faults + 1
  /\ \E delivered \in {0, 1} : sent' = [sent EXCEPT ![cur[a]] = @ + delivered]
  /\ IF tries[a] + 1 < MaxPosts
     THEN tries' = [tries EXCEPT ![a] = @ + 1] /\ UNCHANGED <<pc, cur, request>>
     ELSE Done(a)
  /\ UNCHANGED <<rowVars, todo>>

\* mark_telegram_notified.
Mark(a) ==
  /\ pc[a] = "mark"
  /\ notified' = [notified EXCEPT ![cur[a]] = TRUE]
  /\ Done(a)
  /\ UNCHANGED <<status, urgent, aged, approved, audit, auto, sent, faults, todo>>

\* The process or thread of an actor is killed, or the database fails it.
Crash(a) ==
  /\ pc[a] # "idle"
  /\ faults < MaxFaults
  /\ faults' = faults + 1
  /\ pc' = [pc EXCEPT ![a] = "idle"]
  /\ cur' = [cur EXCEPT ![a] = None]
  /\ tries' = [tries EXCEPT ![a] = 0]
  /\ todo' = IF a = Digest THEN {} ELSE todo
  /\ request' = IF a \in Moderators THEN [request EXCEPT ![a] = None] ELSE request
  /\ UNCHANGED <<rowVars, sent>>

DigestJob ==
  DigestStart \/ DigestNext \/ DigestEnd
  \/ PostOk(Digest) \/ PostFail(Digest) \/ Mark(Digest)

Next ==
  \/ \E n \in Cards : (\E u \in BOOLEAN : PublishCard(n, u) \/ HoldCard(n, u)) \/ Age(n)
  \/ \E m \in Moderators :
       \/ \E n \in Cards, action \in Actions : Open(m, n, action)
       \/ Apply(m) \/ Patch(m)
  \/ DigestStart \/ DigestNext \/ DigestEnd
  \/ \E a \in Actors : PostOk(a) \/ PostFail(a) \/ Mark(a) \/ Crash(a)

Spec == Init /\ [][Next]_vars

\* The digest is a cron job: slot after slot it runs to its end.  Nothing makes
\* moderators or the pipeline act.
FairSpec == Spec /\ WF_vars(DigestJob)
-----------------------------------------------------------------------------
\* Nothing about a card reaches the channel unless the pipeline published it
\* or a moderator approved it, however late a sender comes.
NoticeNeedsRelease ==
  \A n \in Cards : sent[n] > 0 => n \in auto \cup approved

\* The mark is never set without a message, so no card is left out silently.
MarkedMeansSent ==
  \A n \in Cards : notified[n] => sent[n] > 0

\* 20260430_02_telegram_notified_at.py:1: the three senders never announce a
\* card twice between them, unless a request failed or a sender died.
DuplicateNeedsFault ==
  \A n \in Cards : sent[n] <= 1 + faults

\* A published card the digest may carry is announced in the end, unless it
\* gets too old or a moderator decides otherwise.
DigestReaches ==
  \A n \in Cards :
    Eligible(n) ~> notified[n] \/ n \in aged \cup approved \/ status[n] = "filtered_out"
=============================================================================
