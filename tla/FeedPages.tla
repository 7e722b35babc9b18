----------------------------- MODULE FeedPages -----------------------------
(***************************************************************************)
(* The feed of one reader: the server lists published cards page by page   *)
(* behind a cursor, useInfiniteFeed keeps the pages of the open tab, and   *)
(* useUsefulSavedFeed the cards the reader has marked.  Moderators and the *)
(* pipeline change the cards meanwhile, and answers arrive in any order.   *)
(***************************************************************************)
EXTENDS Naturals, Sequences, FiniteSets, SequencesExt

CONSTANTS
  Cards,            \* ids of processed_news, a set of numbers
  Card(_),          \* [life, when, tag, score, verified, source] of a card
  FirstStatus(_),   \* publication_status of a card to begin with
  Tabs,             \* the tabs the reader opens, of "life" "today" "mine" "top" "saved"
  FirstTab,         \* the topic that is open to begin with
  Interests,        \* the sets of cover tags the reader may choose
  AllowUnverified,  \* rss_allow_unverified_catalog_sources
  Limit,            \* PAGE_SIZE
  TopLimit,         \* the length of the Top-5
  Today,            \* the day it is to begin with
  None,
  MaxRequests,      \* bound: requests for pages on their way at the same time
  MaxMoves,         \* bound: tabs opened, sign-ins and sign-outs, together
  MaxEvents         \* bound: decisions of moderators, changes of interests or of the day,
                    \* cards marked or unmarked, and requests that fail, together

ASSUME NamesAssumption ==
  /\ Cards \subseteq Nat /\ None \notin Cards
  /\ Tabs \subseteq {"life", "today", "mine", "top", "saved"}
  /\ FirstTab \in Tabs \ {"mine", "saved"}

\* Rows have a time and a score; ties are allowed.
ASSUME CardsAssumption ==
  /\ IsFiniteSet(Cards)
  /\ \A c \in Cards :
       /\ Card(c).when \in Nat /\ Card(c).score \in Nat
       /\ FirstStatus(c) \in {"none", "needs_review", "published", "filtered_out"}

\* No key of OFFICIAL_DATA_SOURCE_KEYS is one of the catalogue of feeds.
ASSUME SourcesAssumption ==
  \A c \in Cards : ~(Card(c).source.official /\ Card(c).source.catalog)
ASSUME BoundsAssumption ==
  Limit \in Nat \ {0} /\ \A n \in {TopLimit, Today, MaxRequests, MaxMoves, MaxEvents} : n \in Nat

VARIABLES
  status, approved,    \* publication_status; whether an "approve" event exists
  interests,           \* user_feed_preference of the reader
  today,
  signedIn, tab,
  items, next,         \* items and nextCursor of useInfiniteFeed
  loading, loadingMore,
  seen,                \* loadingMore as the last render saw it
  reqs,                \* requests for pages, by slot
  marked,              \* the useful marks of the device
  archive,             \* items of useUsefulSavedFeed
  loads,               \* the marks that its loads in flight have read
  bounds,              \* moves and events left
  \* history
  loaded,              \* the list of the open tab has its first page
  there,               \* cards that have been in that list on the server ever since
  cut,                 \* a page of it was refused, its anchor being withdrawn
  changed,             \* the interests have changed under it
  twice                \* the end of the list was reported again before the next render

server == <<status, approved, interests, today>>
list == <<items, next, loading, loadingMore, seen>>
saved == <<marked, archive, loads>>
vars == <<server, signedIn, tab, list, reqs, saved, bounds, loaded, there, cut, changed, twice>>

Slots == 1 .. MaxRequests
Page == [items : Seq(Cards), next : Cards \cup {None}]
Request == [kind : {"first", "more"}, tab : Tabs, cursor : Cards \cup {None},
            latest : BOOLEAN, page : Page \cup {None}]
Budget == [moves |-> MaxMoves, events |-> MaxEvents]
Spend(what) == bounds[what] > 0 /\ bounds' = [bounds EXCEPT ![what] = @ - 1]
-----------------------------------------------------------------------------
(* Which cards the public sees: the rule in SQL, for lists ...             *)

AllowedRss(s) == s.catalog /\ s.listed /\ ~s.pending /\ (s.cleared \/ AllowUnverified)

AllowedInSql(c) ==
  LET s == Card(c).source IN
  \/ s.official /\ Card(c).verified
  \/ AllowedRss(s) /\ (AllowUnverified \/ Card(c).verified)
  \/ ~s.catalog /\ Card(c).verified

InFeed(c) ==
  /\ status[c] = "published"
  /\ AllowedInSql(c) \/ (c \in approved /\ ~Card(c).source.pending)

\* ... and in Python, for one card.  Mutant: an approval opens any source.
Allowed(c) ==
  LET s == Card(c).source IN
  IF s.official THEN Card(c).verified
  ELSE IF s.catalog THEN ~s.pending /\ AllowedRss(s) /\ (Card(c).verified \/ AllowUnverified)
  ELSE Card(c).verified

Visible_AnyApproval(c) == status[c] = "published" /\ (c \in approved \/ Allowed(c))
Visible(c) ==
  status[c] = "published" /\ ((~Card(c).source.pending /\ c \in approved) \/ Allowed(c))
-----------------------------------------------------------------------------
(* list_published: newest first, the reader's interests before the rest.   *)

InTab(c, t) == CASE t = "life"  -> Card(c).life
                 [] t = "today" -> Card(c).life /\ Card(c).when >= today
                 [] t = "top"   -> Card(c).when >= today
                 [] OTHER       -> TRUE

Rank(c, t) == IF t = "mine" /\ interests # {} /\ Card(c).tag \notin interests THEN 1 ELSE 0
Newer(c, d) == Card(c).when > Card(d).when \/ (Card(c).when = Card(d).when /\ c > d)

\* Mutant: the time alone decides, so cards of one instant hide behind the cursor.
Before_TimeOnly(c, d, t) ==
  Rank(c, t) < Rank(d, t) \/ (Rank(c, t) = Rank(d, t) /\ Card(c).when > Card(d).when)
Before(c, d, t) == Rank(c, t) < Rank(d, t) \/ (Rank(c, t) = Rank(d, t) /\ Newer(c, d))

Listed(t) == {c \in Cards : InFeed(c) /\ InTab(c, t)}
Nothing == [items |-> << >>, next |-> None]

\* What comes before what in the feed ...
FeedOrder(t) ==
  {p \in Cards \X Cards :
     Rank(p[1], t) < Rank(p[2], t) \/ (Rank(p[1], t) = Rank(p[2], t) /\ Newer(p[1], p[2]))}

\* ... and in the Top-5.
Score(c) == Card(c).score
TopOrder ==
  {p \in Cards \X Cards :
     Score(p[1]) > Score(p[2]) \/ (Score(p[1]) = Score(p[2]) /\ p[1] > p[2])}

\* The cards of a set in such an order.
Ordered(set, order) ==
  [n \in 1 .. Cardinality(set) |->
     CHOOSE c \in set : Cardinality({d \in set : <<d, c>> \in order}) = n - 1]

ListPublished(t, cursor) ==
  LET after == {c \in Listed(t) : cursor = None \/ Before(cursor, c, t)}
      rows  == Ordered(after, FeedOrder(t))
      more  == Len(rows) > Limit
  IN  IF cursor # None /\ ~(Visible(cursor) /\ InTab(cursor, t)) THEN Nothing
      ELSE [items |-> IF more THEN SubSeq(rows, 1, Limit) ELSE rows,
            next  |-> IF more THEN rows[Limit] ELSE None]

TopToday ==
  LET rows == Ordered(Listed("top"), TopOrder)
  IN  [items |-> SubSeq(rows, 1, IF Len(rows) < TopLimit THEN Len(rows) ELSE TopLimit), next |-> None]
-----------------------------------------------------------------------------
Init ==
  /\ status = [c \in Cards |-> FirstStatus(c)] /\ approved = {}
  /\ interests \in Interests /\ today = Today
  /\ signedIn = TRUE /\ tab = FirstTab
  /\ items = << >> /\ next = None /\ loading = TRUE /\ loadingMore = FALSE /\ seen = FALSE
  /\ reqs = [s \in Slots |-> IF s = 1 THEN [kind |-> "first", tab |-> FirstTab, cursor |-> None,
                                            latest |-> TRUE, page |-> None] ELSE None]
  /\ marked = {} /\ archive = {} /\ loads = {}
  /\ bounds = Budget
  /\ loaded = FALSE /\ there = {} /\ cut = FALSE /\ changed = FALSE /\ twice = FALSE

\* Cards leave `there` with whatever takes them off the list on the server.
Watch == there' = {c \in there : InFeed(c)' /\ InTab(c, tab)'}
-----------------------------------------------------------------------------
(* The server.                                                             *)

\* The pipeline saves a card; its age on the source's clock may be any.
Publish(c) ==
  /\ status[c] = "none"
  /\ status' = [status EXCEPT ![c] = "published"]
  /\ UNCHANGED <<approved, interests, today, signedIn, tab, list, reqs, saved, bounds, loaded,
                 there, cut, changed, twice>>

\* moderate_news, on a card in whatever status.
Moderate(c, to) ==
  /\ status[c] \notin {"none", to} /\ Spend("events")
  /\ status' = [status EXCEPT ![c] = to]
  /\ approved' = IF to = "published" THEN approved \cup {c} ELSE approved
  /\ UNCHANGED <<interests, today, signedIn, tab, list, reqs, saved, loaded, cut, changed, twice>>
  /\ Watch

\* put_feed_preferences, from another page or device.
Choose(set) ==
  /\ signedIn /\ set # interests /\ Spend("events")
  /\ interests' = set /\ changed' = TRUE
  /\ UNCHANGED <<status, approved, today, signedIn, tab, list, reqs, saved, loaded, there, cut, twice>>

Midnight ==
  /\ today = Today /\ today' = today + 1 /\ Spend("events")
  /\ UNCHANGED <<status, approved, interests, signedIn, tab, list, reqs, saved, loaded, cut,
                 changed, twice>>
  /\ Watch

\* list_news and list_top_news_today.
Serve(s) ==
  /\ reqs[s] # None /\ reqs[s].page = None
  /\ LET r == reqs[s]
         current == r.kind = "first" /\ r.latest IN
     /\ reqs' = [reqs EXCEPT ![s].page = IF r.tab = "top" THEN TopToday
                                         ELSE ListPublished(r.tab, r.cursor)]
     /\ there' = IF current THEN Listed(r.tab) ELSE there
     /\ cut' = (cut \/ (r.cursor # None /\ r.latest /\ ~Visible(r.cursor)))
     /\ changed' = IF current THEN FALSE ELSE changed
  /\ UNCHANGED <<server, signedIn, tab, list, saved, bounds, loaded, twice>>
-----------------------------------------------------------------------------
(* useInfiniteFeed.  A request is `latest` while its number is the one the *)
(* hook remembers: fetchGenRef for first pages, loadMoreSeqRef for others. *)
(* What a retired one brings no longer matters, only that it comes.        *)

Retired(kinds) == [s \in Slots |-> IF reqs[s] # None /\ reqs[s].kind \in kinds
                                   THEN [reqs[s] EXCEPT !.latest = FALSE, !.page = Nothing] ELSE reqs[s]]
Free == {s \in Slots : reqs[s] = None}
Send(kind, t, cursor, base) ==
  /\ Free # {}
  /\ LET s == CHOOSE f \in Free : \A g \in Free : f <= g IN
     reqs' = [base EXCEPT ![s] = [kind |-> kind, tab |-> t, cursor |-> cursor,
                                  latest |-> TRUE, page |-> None]]

\* useUsefulSavedFeed.load of the marks in `ids`.
LoadArchive(ids) ==
  /\ IF ids = {} THEN archive' = {} /\ UNCHANGED loads
     ELSE loads' = loads \cup {ids} /\ UNCHANGED archive

\* The effects of the page when the tab, or who reads it, has changed.  The saved tab
\* parks the list; every other tab starts it anew and retires the requests before it.
\* Mutant: an answer to loadMore survives.
Open_KeepMore(t) ==
  /\ items' = << >> /\ next' = None /\ loading' = (t # "saved") /\ seen' = loadingMore
  /\ loaded' = FALSE /\ there' = {} /\ cut' = FALSE /\ changed' = FALSE
  /\ IF t = "saved" THEN UNCHANGED reqs ELSE Send("first", t, None, Retired({"first"}))
  /\ IF t = "saved" THEN LoadArchive(marked) ELSE archive' = {} /\ UNCHANGED loads
  /\ tab' = t /\ UNCHANGED <<loadingMore, marked>>
Open(t) ==
  /\ items' = << >> /\ next' = None /\ loading' = (t # "saved") /\ seen' = loadingMore
  /\ loaded' = FALSE /\ there' = {} /\ cut' = FALSE /\ changed' = FALSE
  /\ IF t = "saved" THEN UNCHANGED reqs ELSE Send("first", t, None, Retired({"first", "more"}))
  /\ IF t = "saved" THEN LoadArchive(marked) ELSE archive' = {} /\ UNCHANGED loads
  /\ tab' = t /\ UNCHANGED <<loadingMore, marked>>

Switch(t) ==
  /\ t # tab /\ (t = "mine" => signedIn) /\ Spend("moves") /\ Open(t)
  /\ UNCHANGED <<server, signedIn, twice>>

\* loadAuthorized comes or goes; without it the personal feed gives way to a topic.
SignInOrOut ==
  /\ tab # "saved" /\ Spend("moves") /\ signedIn' = ~signedIn
  /\ Open(IF signedIn /\ tab = "mine" THEN FirstTab ELSE tab)
  /\ UNCHANGED <<server, twice>>

\* The end of the list comes into view.  A second call may precede the render that
\* the first one asks for.
LoadMore ==
  /\ tab \notin {"saved", "top"} /\ next # None /\ ~seen
  /\ Send("more", tab, next, Retired({"more"}))
  /\ loadingMore' = TRUE /\ twice' = (twice \/ loadingMore)
  /\ UNCHANGED <<server, signedIn, tab, items, next, loading, seen, saved, bounds, loaded, there,
                 cut, changed>>

Render ==
  /\ seen # loadingMore /\ seen' = loadingMore
  /\ UNCHANGED <<server, signedIn, tab, items, next, loading, loadingMore, reqs, saved, bounds,
                 loaded, there, cut, changed, twice>>

\* What both endings of a request do; React has rendered since it was sent.
\* Mutant: a superseded loadMore does not take back loadingMore.
Settle_LatestOnly(s) ==
  /\ reqs[s] # None /\ seen = loadingMore
  /\ reqs' = [reqs EXCEPT ![s] = None]
  /\ loading' = IF reqs[s].kind = "first" /\ reqs[s].latest THEN FALSE ELSE loading
  /\ loadingMore' = IF reqs[s].kind = "more" /\ reqs[s].latest THEN FALSE ELSE loadingMore
  /\ seen' = loadingMore'
Settle(s) ==
  /\ reqs[s] # None /\ seen = loadingMore
  /\ reqs' = [reqs EXCEPT ![s] = None]
  /\ loading' = IF reqs[s].kind = "first" /\ reqs[s].latest THEN FALSE ELSE loading
  /\ loadingMore' = IF reqs[s].kind = "more" THEN FALSE ELSE loadingMore
  /\ seen' = loadingMore'

Answer(s) ==
  /\ Settle(s) /\ reqs[s].page # None
  /\ LET r == reqs[s] IN
     /\ items' = IF ~r.latest THEN items
                 ELSE IF r.kind = "first" THEN r.page.items ELSE items \o r.page.items
     /\ next' = IF r.latest THEN r.page.next ELSE next
     /\ loaded' = (loaded \/ (r.latest /\ r.kind = "first"))
  /\ UNCHANGED <<server, signedIn, tab, saved, bounds, there, cut, changed, twice>>

Fail(s) ==
  /\ Settle(s) /\ Spend("events")
  /\ UNCHANGED <<server, signedIn, tab, items, next, saved, loaded, there, cut, changed, twice>>
-----------------------------------------------------------------------------
(* Marked cards leave the feed, and so do old ones.                        *)

Ttl(t) == IF t = "top" THEN 1 ELSE 3
Shown == {c \in ToSet(items) : c \notin marked /\ today <= Card(c).when + Ttl(tab)}

\* setStoredUseful; the saved tab listens to the change.
Mark(c) ==
  /\ c \in IF tab = "saved" THEN archive ELSE Shown
  /\ Spend("events")
  /\ marked' = IF c \in marked THEN marked \ {c} ELSE marked \cup {c}
  /\ IF tab = "saved" THEN LoadArchive(marked') ELSE UNCHANGED <<archive, loads>>
  /\ UNCHANGED <<server, signedIn, tab, list, reqs, loaded, there, cut, changed, twice>>

\* The answers of get_news for every mark; cards withdrawn since answer 404.  They are
\* shown even when the tab has been left, until it is opened again.
ArchiveLoaded(ids) ==
  /\ ids \in loads /\ loads' = loads \ {ids}
  /\ archive' = {c \in ids : Visible(c)}
  /\ UNCHANGED <<server, signedIn, tab, list, reqs, marked, bounds, loaded, there,
                 cut, changed, twice>>
-----------------------------------------------------------------------------
Next ==
  \/ \E c \in Cards : Publish(c) \/ Mark(c) \/ Moderate(c, "published") \/ Moderate(c, "filtered_out")
  \/ \E set \in Interests : Choose(set)
  \/ Midnight \/ SignInOrOut \/ LoadMore \/ Render
  \/ \E t \in Tabs : Switch(t)
  \/ \E s \in Slots : Serve(s) \/ Answer(s) \/ Fail(s)
  \/ \E ids \in SUBSET Cards : ArchiveLoaded(ids)

Spec == Init /\ [][Next]_vars

\* With no card to show, the end of the list is in view, and the observer is set up again
\* after every answer; requests are answered or fail.
Fairness ==
  /\ WF_vars(LoadMore /\ Shown = {} /\ ~loading) /\ WF_vars(Render)
  /\ \A s \in Slots : WF_vars(Serve(s)) /\ WF_vars(Answer(s) \/ Fail(s))

FairSpec == Spec /\ Fairness
-----------------------------------------------------------------------------
\* Types; the personal feed is open only to a reader who is signed in.
TypeOK ==
  /\ status \in [Cards -> {"none", "needs_review", "published", "filtered_out"}]
  /\ approved \subseteq Cards /\ interests \in Interests /\ today \in {Today, Today + 1}
  /\ signedIn \in BOOLEAN /\ tab \in Tabs /\ (tab = "mine" => signedIn)
  /\ items \in Seq(Cards) /\ next \in Cards \cup {None}
  /\ loading \in BOOLEAN /\ loadingMore \in BOOLEAN /\ seen \in BOOLEAN
  /\ reqs \in [Slots -> Request \cup {None}]
  /\ marked \subseteq Cards /\ archive \subseteq Cards /\ loads \subseteq SUBSET Cards
  /\ bounds \in [moves : 0 .. MaxMoves, events : 0 .. MaxEvents]
  /\ there \subseteq Cards
  /\ {loaded, cut, changed, twice} \subseteq BOOLEAN

\* No card is listed twice, unless the reader's interests changed between two pages of the
\* personal feed: the cursor then lies elsewhere in the new order.
NoRepeat == (tab # "saved" /\ ~(tab = "mine" /\ changed)) => IsInjective(items)

\* When the list has come to its end, it has every card that was in it on the server since
\* its first page, unless a page was refused because its anchor had been withdrawn (the
\* list then ends there for good) or the interests changed.
EndIsComplete ==
  (tab \notin {"saved", "top"} /\ loaded /\ next = None /\ ~cut /\ ~(tab = "mine" /\ changed))
    => there \subseteq ToSet(items)

\* The rule for lists and the rule for one card agree, whatever moderators decide: a card
\* of the feed can be opened, and is a valid cursor.
RulesAgree == \A c \in Cards : InFeed(c) <=> Visible(c)

\* While there are pages left, the reader does not face an empty list for ever: whatever
\* was in flight when a tab was opened, the hook gets round to showing the next page.  Two
\* calls of loadMore in one render spoil it for good: the answer to the first allows a
\* third call, which supersedes the second, whose answer allows a fourth, and so on.
EmptyListAdvances ==
  (tab # "saved" /\ ~loading /\ next # None /\ Shown = {} /\ ~twice)
    ~> (tab = "saved" \/ loading \/ next = None \/ Shown # {} \/ twice)
=============================================================================
