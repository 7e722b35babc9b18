-------------------------- MODULE FeedPagesProofs --------------------------
(***************************************************************************)
(* What holds of the feed for every number of cards, tabs, requests and    *)
(* decisions of moderators: no card is listed twice, a list that has come  *)
(* to its end misses nothing, and the rules in SQL and in Python agree.    *)
(* The argument: the cards of the open list are in the order of the        *)
(* server, every answer that may still be appended goes on where the list  *)
(* ends, and what the server had from the first page on lies before the    *)
(* cursor, in the list, or after it.                                       *)
(***************************************************************************)
EXTENDS FeedPages, SequenceTheorems, FiniteSetTheorems, WellFoundedInduction, TLAPS

Sorted(s, order) == \A i, j \in DOMAIN s : i < j => <<s[i], s[j]>> \in order
OrderOf(t) == IF t = "top" THEN TopOrder ELSE FeedOrder(t)

\* A strict total order of the cards.
IsOrder(order) ==
  /\ \A c \in Cards : <<c, c>> \notin order
  /\ \A c, d \in Cards : c # d => <<c, d>> \in order \/ <<d, c>> \in order
  /\ \A c, d, e \in Cards : <<c, d>> \in order /\ <<d, e>> \in order => <<c, e>> \in order

\* The order of a tab is one: reading, publication time and number decide between any two
\* cards.
LEMMA FeedIsOrder == \A t : IsOrder(FeedOrder(t))
<1> SUFFICES ASSUME NEW t PROVE IsOrder(FeedOrder(t))
  OBVIOUS
<1>1. \A c \in Cards : c \in Nat /\ Card(c).when \in Nat
  BY NamesAssumption, CardsAssumption
<1>2. \A c \in Cards : Rank(c, t) \in {0, 1}
  BY DEF Rank
<1>3. \A c, d \in Cards : <<c, d>> \in FeedOrder(t)
        <=> Rank(c, t) < Rank(d, t) \/ (Rank(c, t) = Rank(d, t) /\ Newer(c, d))
  BY DEF FeedOrder
<1>4. \A c, d \in Cards :
        Newer(c, d) <=> Card(c).when > Card(d).when \/ (Card(c).when = Card(d).when /\ c > d)
  BY DEF Newer
<1>5. QED BY <1>1, <1>2, <1>3, <1>4 DEF IsOrder

\* So is the order of today's list, by score and number.
LEMMA TopIsOrder == IsOrder(TopOrder)
<1>1. \A c \in Cards : c \in Nat /\ Score(c) \in Nat
  BY NamesAssumption, CardsAssumption DEF Score
<1>2. \A c, d \in Cards : <<c, d>> \in TopOrder
        <=> Score(c) > Score(d) \/ (Score(c) = Score(d) /\ c > d)
  BY DEF TopOrder
<1>3. QED BY <1>1, <1>2 DEF IsOrder

\* Ordered lists the cards of a set once each, in order.
LEMMA OrderedRows ==
  ASSUME NEW set \in SUBSET Cards, NEW order, IsOrder(order)
  PROVE  /\ Ordered(set, order) \in Seq(Cards)
         /\ Len(Ordered(set, order)) = Cardinality(set)
         /\ Len(Ordered(set, order)) \in Nat
         /\ ToSet(Ordered(set, order)) = set
         /\ Sorted(Ordered(set, order), order)
<1> DEFINE above(c) == {d \in set : <<d, c>> \in order}
           rank(c) == Cardinality(above(c))
           n == Cardinality(set)
           rows == Ordered(set, order)
<1>1. IsFiniteSet(set) /\ n \in Nat
  BY CardsAssumption, FS_Subset, FS_CardinalityType
<1>2. \A c \in set : IsFiniteSet(above(c)) /\ rank(c) \in Nat
  <2>1. \A c \in set : above(c) \subseteq set
    OBVIOUS
  <2>2. QED BY <1>1, <2>1, FS_Subset, FS_CardinalityType
<1>3. \A c, d \in set : <<c, d>> \in order => rank(c) < rank(d)
  <2> SUFFICES ASSUME NEW c \in set, NEW d \in set, <<c, d>> \in order PROVE rank(c) < rank(d)
    OBVIOUS
  <2>1. c \notin above(c) /\ above(c) \cup {c} \subseteq above(d)
    BY DEF IsOrder
  <2>2. Cardinality(above(c) \cup {c}) = rank(c) + 1
    <3>1. IsFiniteSet(above(c)) /\ c \notin above(c)
      BY <1>2, <2>1
    <3> HIDE DEF above
    <3>2. QED BY <3>1, FS_AddElement
  <2>3. Cardinality(above(c) \cup {c}) <= rank(d)
    <3>1. IsFiniteSet(above(d)) /\ above(c) \cup {c} \in SUBSET above(d)
      BY <1>2, <2>1
    <3> HIDE DEF above
    <3>2. QED BY <3>1, FS_Subset
  <2>4. rank(c) \in Nat /\ rank(d) \in Nat
    BY <1>2
  <2>5. QED BY <2>2, <2>3, <2>4
<1>4. \A c, d \in set : rank(c) = rank(d) => c = d
  <2> SUFFICES ASSUME NEW c \in set, NEW d \in set, rank(c) = rank(d), c # d PROVE FALSE
    OBVIOUS
  <2>1. <<c, d>> \in order \/ <<d, c>> \in order
    BY DEF IsOrder
  <2>2. rank(c) \in Nat /\ rank(d) \in Nat
    BY <1>2
  <2>3. rank(c) < rank(d) \/ rank(d) < rank(c)
    BY <1>3, <2>1
  <2> HIDE DEF rank
  <2>4. QED BY <2>2, <2>3
<1>5. \A c \in set : rank(c) \in 0 .. n - 1
  <2> SUFFICES ASSUME NEW c \in set PROVE rank(c) \in 0 .. n - 1
    OBVIOUS
  <2>1. c \notin above(c) /\ above(c) \cup {c} \in SUBSET set
    BY DEF IsOrder
  <2>2. IsFiniteSet(above(c)) /\ rank(c) \in Nat
    BY <1>2
  <2>3. Cardinality(above(c) \cup {c}) = rank(c) + 1
    <3> HIDE DEF above
    <3>1. QED BY <2>1, <2>2, FS_AddElement
  <2>4. Cardinality(above(c) \cup {c}) <= n
    <3> HIDE DEF above
    <3>1. QED BY <1>1, <2>1, FS_Subset
  <2>5. QED BY <1>1, <2>2, <2>3, <2>4
<1>6. \A k \in 0 .. n - 1 : \E c \in set : rank(c) = k
  <2> DEFINE f == [c \in set |-> rank(c)]
  <2>1. f \in [set -> 0 .. n - 1]
    BY <1>5
  <2>2. \A c, d \in set : f[c] = f[d] => c = d
    BY <1>4
  <2>3. f \in Injection(set, 0 .. n - 1)
    <3> HIDE DEF f
    <3>1. QED BY <2>1, <2>2 DEF Injection, IsInjective
  <2>4. IsFiniteSet(0 .. n - 1) /\ Cardinality(0 .. n - 1) = n
    BY <1>1, FS_Interval
  <2>5. f \in Surjection(set, 0 .. n - 1)
    <3> HIDE DEF f
    <3>1. QED BY <2>3, <2>4, FS_Injection
  <2>6. \A k \in 0 .. n - 1 : \E c \in set : f[c] = k
    <3> HIDE DEF f
    <3>1. QED BY <2>5 DEF Surjection
  <2>7. QED BY <2>6
<1> DEFINE at(k) == CHOOSE c \in set : rank(c) = k - 1
<1>7. \A k \in 1 .. n : at(k) \in set /\ rank(at(k)) = k - 1
  <2> SUFFICES ASSUME NEW k \in 1 .. n PROVE at(k) \in set /\ rank(at(k)) = k - 1
    OBVIOUS
  <2>1. \E c \in set : rank(c) = k - 1
    BY <1>1, <1>6
  <2> HIDE DEF rank
  <2>2. QED BY <2>1
<1>8. rows = [k \in 1 .. n |-> at(k)]
  BY DEF Ordered
<1> HIDE DEF at, rank, n, rows
<1>9. rows \in Seq(Cards) /\ Len(rows) = n /\ DOMAIN rows = 1 .. n
  <2>1. rows \in [1 .. n -> Cards]
    BY <1>7, <1>8
  <2>2. QED BY <1>1, <2>1, SeqDef, LenProperties
<1>10. \A k \in 1 .. n : rows[k] \in set /\ rank(rows[k]) = k - 1
  BY <1>7, <1>8
<1>11. ToSet(rows) = set
  <2>1. ASSUME NEW c \in set PROVE \E k \in DOMAIN rows : rows[k] = c
    <3>1. rank(c) + 1 \in 1 .. n
      BY <1>1, <1>5
    <3> DEFINE k == rank(c) + 1
    <3>2. rows[k] \in set /\ rank(rows[k]) = rank(c)
      BY <1>1, <1>5, <1>10, <3>1
    <3>3. rows[k] = c
      BY <1>4, <3>2
    <3>4. QED BY <1>9, <3>1, <3>3
  <2>2. QED BY <1>9, <1>10, <2>1 DEF ToSet
<1>12. Sorted(rows, order)
  <2> SUFFICES ASSUME NEW i \in 1 .. n, NEW j \in 1 .. n, i < j PROVE <<rows[i], rows[j]>> \in order
    BY <1>9 DEF Sorted
  <2>1. rank(rows[i]) < rank(rows[j]) /\ rows[i] \in set /\ rows[j] \in set
    BY <1>1, <1>10
  <2>2. rows[i] # rows[j] /\ ~(<<rows[j], rows[i]>> \in order)
    BY <1>3, <1>5, <2>1
  <2>3. QED BY <2>1, <2>2 DEF IsOrder
<1>13. QED BY <1>1, <1>9, <1>11, <1>12 DEF rows, n

-----------------------------------------------------------------------------
(* What a page promises.                                                   *)

\* The cursor of a page is its last card.
Ends(s, n, t) == n # None => t # "top" /\ s # << >> /\ n = s[Len(s)]

\* A card is among those found, or on a later page.
Reaches(found, n, c, order) == c \in found \/ (n # None /\ <<n, c>> \in order)

\* The cards of a page come after its anchor.
Follows(s, n, order) == n # None => \A i \in DOMAIN s : <<n, s[i]>> \in order

\* The topic of a tab, which cards do not change.
OnTopic(c, t) == t \in {"life", "today"} => Card(c).life
Topical(s, t) == \A i \in DOMAIN s : OnTopic(s[i], t)

\* The first rows of a sorted list are a sorted list.
LEMMA Prefix ==
  ASSUME NEW rows \in Seq(Cards), NEW m \in 0 .. Len(rows), NEW order, Sorted(rows, order)
  PROVE  /\ SubSeq(rows, 1, m) \in Seq(Cards) /\ Len(SubSeq(rows, 1, m)) = m
         /\ Sorted(SubSeq(rows, 1, m), order)
         /\ \A i \in 1 .. m : SubSeq(rows, 1, m)[i] = rows[i]
<1>1. Len(rows) \in Nat /\ DOMAIN rows = 1 .. Len(rows)
  BY LenProperties
<1>2. /\ SubSeq(rows, 1, m) \in Seq(Cards) /\ Len(SubSeq(rows, 1, m)) = m
      /\ \A i \in 1 .. m : SubSeq(rows, 1, m)[i] = rows[i]
  BY <1>1, SubSeqProperties
<1>3. DOMAIN SubSeq(rows, 1, m) = 1 .. m
  BY <1>2, LenProperties
<1>4. QED BY <1>1, <1>2, <1>3 DEF Sorted

\* A page of a list is sorted, on topic and beyond its cursor; its own cursor is its last card,
\* and while the card of the old cursor stands nothing between the page and that cursor is left out.
LEMMA Listing ==
  ASSUME NEW t, NEW cursor \in Cards \cup {None}
  PROVE  LET p == ListPublished(t, cursor) IN
         /\ p \in Page
         /\ Sorted(p.items, FeedOrder(t)) /\ Follows(p.items, cursor, FeedOrder(t)) /\ Topical(p.items, t)
         /\ p.next # None => p.items # << >> /\ p.next = p.items[Len(p.items)]
         /\ (cursor # None => Visible(cursor) /\ InTab(cursor, t)) =>
              \A c \in Listed(t) : (cursor # None => <<cursor, c>> \in FeedOrder(t))
                                     => Reaches(ToSet(p.items), p.next, c, FeedOrder(t))
<1> DEFINE after == {c \in Listed(t) : cursor = None \/ Before(cursor, c, t)}
           rows == Ordered(after, FeedOrder(t))
           more == Len(rows) > Limit
           p == ListPublished(t, cursor)
<1>1. after \in SUBSET Cards
  BY DEF Listed
<1>2. /\ rows \in Seq(Cards) /\ Len(rows) \in Nat /\ ToSet(rows) = after
      /\ Sorted(rows, FeedOrder(t)) /\ DOMAIN rows = 1 .. Len(rows)
  <2>1. IsOrder(FeedOrder(t))
    BY FeedIsOrder
  <2> HIDE DEF after
  <2>2. rows \in Seq(Cards) /\ Len(rows) \in Nat /\ ToSet(rows) = after /\ Sorted(rows, FeedOrder(t))
    BY <1>1, <2>1, OrderedRows
  <2>3. QED BY <2>2, LenProperties
<1>3. Limit \in Nat /\ Limit > 0
  BY BoundsAssumption
<1>4. \A c \in Listed(t) : cursor # None => (Before(cursor, c, t) <=> <<cursor, c>> \in FeedOrder(t))
  BY DEF Before, FeedOrder, Listed
<1>5. \A c \in Listed(t) : c \in Cards /\ OnTopic(c, t)
  BY DEF Listed, InTab, OnTopic
<1>6. \A i \in DOMAIN rows :
        /\ rows[i] \in Listed(t)
        /\ cursor # None => <<cursor, rows[i]>> \in FeedOrder(t)
  <2>1. \A i \in DOMAIN rows : rows[i] \in after
    BY <1>2 DEF ToSet
  <2>2. QED BY <1>4, <2>1
<1>7. CASE cursor # None /\ ~(Visible(cursor) /\ InTab(cursor, t))
  <2>1. p = Nothing
    BY <1>7 DEF ListPublished
  <2>2. << >> \in Seq(Cards) /\ DOMAIN << >> = {}
    BY EmptySeq
  <2>3. QED BY <1>7, <2>1, <2>2 DEF Nothing, Page, Sorted, Follows, Topical
<1>8. CASE ~(cursor # None /\ ~(Visible(cursor) /\ InTab(cursor, t)))
  <2>1. p = [items |-> IF more THEN SubSeq(rows, 1, Limit) ELSE rows,
             next  |-> IF more THEN rows[Limit] ELSE None]
    BY <1>8 DEF ListPublished
  <2> HIDE DEF after, rows, p
  <2>2. CASE ~more
    <3>1. p.items = rows /\ p.next = None /\ p \in Page
      BY <1>2, <2>1, <2>2 DEF Page
    <3>2. \A c \in Listed(t) : (cursor # None => <<cursor, c>> \in FeedOrder(t)) => c \in ToSet(rows)
      BY <1>2, <1>4 DEF after
    <3>3. QED BY <1>2, <1>5, <1>6, <3>1, <3>2 DEF Follows, Topical, Reaches, p
  <2>3. CASE more
    <3> DEFINE few == SubSeq(rows, 1, Limit)
    <3>1. /\ few \in Seq(Cards) /\ Len(few) = Limit /\ Sorted(few, FeedOrder(t))
          /\ \A i \in 1 .. Limit : few[i] = rows[i]
      BY <1>2, <1>3, <2>3, Prefix
    <3>2. DOMAIN few = 1 .. Limit
      BY <3>1, LenProperties
    <3>3. rows[Limit] \in Cards /\ rows[Limit] # None
      <4>1. Limit \in DOMAIN rows
        BY <1>2, <1>3, <2>3
      <4>2. QED BY <1>5, <1>6, <4>1, NamesAssumption
    <3>4. p.items = few /\ p.next = rows[Limit] /\ p \in Page
      BY <2>1, <2>3, <3>1, <3>3 DEF Page
    <3> HIDE DEF few
    <3>5. Follows(few, cursor, FeedOrder(t)) /\ Topical(few, t)
      <4>1. \A i \in DOMAIN few : i \in DOMAIN rows /\ few[i] = rows[i]
        BY <1>2, <1>3, <2>3, <3>1, <3>2
      <4>2. \A i \in DOMAIN few : OnTopic(few[i], t)
        BY <1>5, <1>6, <4>1
      <4>3. ASSUME cursor # None, NEW i \in DOMAIN few PROVE <<cursor, few[i]>> \in FeedOrder(t)
        BY <1>6, <4>1, <4>3
      <4>4. QED BY <4>2, <4>3 DEF Follows, Topical
    <3>6. few # << >> /\ rows[Limit] = few[Len(few)]
      BY <1>3, <3>1, <3>2
    <3>7. ASSUME NEW c \in Listed(t), cursor # None => <<cursor, c>> \in FeedOrder(t)
          PROVE  Reaches(ToSet(few), rows[Limit], c, FeedOrder(t))
      <4>1. c \in ToSet(rows)
        BY <1>2, <1>4, <3>7 DEF after
      <4>2. PICK i \in DOMAIN rows : rows[i] = c
        BY <4>1 DEF ToSet
      <4>3. CASE i <= Limit
        <5>1. i \in DOMAIN few /\ few[i] = c
          BY <1>2, <1>3, <3>1, <3>2, <4>2, <4>3
        <5>2. QED BY <5>1 DEF Reaches, ToSet
      <4>4. CASE Limit < i
        <5>1. <<rows[Limit], rows[i]>> \in FeedOrder(t)
          BY <1>2, <1>3, <2>3, <4>4 DEF Sorted
        <5>2. QED BY <3>3, <4>2, <5>1 DEF Reaches
      <4>5. QED BY <1>2, <1>3, <4>3, <4>4
    <3>8. QED BY <3>1, <3>4, <3>5, <3>6, <3>7 DEF p
  <2>4. QED BY <2>2, <2>3
<1>9. QED BY <1>7, <1>8

\* Today's list is one sorted page without a cursor.
LEMMA TopListing ==
  /\ TopToday \in Page /\ TopToday.next = None
  /\ Sorted(TopToday.items, TopOrder)
<1> DEFINE rows == Ordered(Listed("top"), TopOrder)
           m == IF Len(rows) < TopLimit THEN Len(rows) ELSE TopLimit
<1>1. rows \in Seq(Cards) /\ Len(rows) \in Nat /\ Sorted(rows, TopOrder)
  <2>1. Listed("top") \in SUBSET Cards
    BY DEF Listed
  <2>2. QED BY <2>1, TopIsOrder, OrderedRows
<1>2. m \in 0 .. Len(rows)
  BY <1>1, BoundsAssumption
<1>3. TopToday = [items |-> SubSeq(rows, 1, m), next |-> None]
  BY DEF TopToday
<1> HIDE DEF rows, m
<1>4. SubSeq(rows, 1, m) \in Seq(Cards) /\ Sorted(SubSeq(rows, 1, m), TopOrder)
  BY <1>1, <1>2, Prefix
<1>5. QED BY <1>3, <1>4 DEF Page

-----------------------------------------------------------------------------
(* Types.                                                                  *)

MaybeRequest == Request \cup {None}

\* A request whose answer no longer matters.
RetiredAs(new, old) ==
  new \in Request /\ ~new.latest /\ new.kind = old.kind

\* Requests that a newer one replaces keep their kind and their place.
LEMMA Retirement ==
  ASSUME reqs \in [Slots -> MaybeRequest], NEW kinds
  PROVE  /\ Retired(kinds) \in [Slots -> MaybeRequest]
         /\ \A s \in Slots : IF reqs[s] # None /\ reqs[s].kind \in kinds
                             THEN RetiredAs(Retired(kinds)[s], reqs[s])
                             ELSE Retired(kinds)[s] = reqs[s]
<1>1. Nothing \in Page
  <2>1. << >> \in Seq(Cards)
    BY EmptySeq
  <2>2. QED BY <2>1 DEF Nothing, Page
<1>2. ASSUME NEW s \in Slots, reqs[s] # None
      PROVE  RetiredAs([reqs[s] EXCEPT !.latest = FALSE, !.page = Nothing], reqs[s])
  <2>1. reqs[s] \in Request
    BY <1>2 DEF MaybeRequest
  <2>2. QED BY <1>1, <2>1 DEF Request, RetiredAs
<1>3. QED BY <1>2 DEF Retired, MaybeRequest, RetiredAs

\* A request takes one free slot, and the others stay as they are.
LEMMA Sending ==
  ASSUME NEW kind \in {"first", "more"}, NEW t \in Tabs, NEW cursor \in Cards \cup {None},
         NEW base \in [Slots -> MaybeRequest], Send(kind, t, cursor, base)
  PROVE  /\ reqs' \in [Slots -> MaybeRequest]
         /\ \E s \in Slots : reqs' = [base EXCEPT ![s] =
              [kind |-> kind, tab |-> t, cursor |-> cursor, latest |-> TRUE, page |-> None]]
<1> DEFINE sent == [kind |-> kind, tab |-> t, cursor |-> cursor, latest |-> TRUE, page |-> None]
<1>1. sent \in Request
  BY DEF Request
<1>2. Free # {} /\ Free \in SUBSET Nat /\ Free \subseteq Slots
  BY DEF Send, Free, Slots
<1>3. \E s \in Free : \A q \in Free : s <= q
  <2>1. PICK s \in Free : \A q \in Free : ~(<<q, s>> \in OpToRel(<, Nat))
    BY <1>2, NatLessThanWellFounded, WFMin
  <2>2. OpToRel(<, Nat) = {r \in Nat \X Nat : r[1] < r[2]}
    BY DEF OpToRel
  <2>3. \A q \in Free : q < s => <<q, s>> \in {r \in Nat \X Nat : r[1] < r[2]}
    BY <1>2
  <2>4. \A q \in Free : ~(q < s)
    BY <2>1, <2>2, <2>3
  <2>5. QED BY <1>2, <2>4
<1> DEFINE s == CHOOSE f \in Free : \A g \in Free : f <= g
<1>4. s \in Slots
  BY <1>2, <1>3
<1>5. reqs' = [base EXCEPT ![s] = sent]
  BY DEF Send
<1> HIDE DEF s, sent
<1>6. QED BY <1>1, <1>4, <1>5 DEF MaybeRequest, sent

\* The first state is well-typed.
LEMMA TypeInit == Init => TypeOK
<1> SUFFICES ASSUME Init PROVE TypeOK
  OBVIOUS
<1>1. status \in [Cards -> {"none", "needs_review", "published", "filtered_out"}]
  BY CardsAssumption DEF Init
<1>2. << >> \in Seq(Cards)
  BY EmptySeq
<1>3. reqs \in [Slots -> Request \cup {None}]
  BY NamesAssumption DEF Init, Request
<1>4. bounds \in [moves : 0 .. MaxMoves, events : 0 .. MaxEvents]
  BY BoundsAssumption DEF Init, Budget
<1>5. tab \in Tabs /\ (tab = "mine" => signedIn)
  BY NamesAssumption DEF Init
<1>6. QED BY <1>1, <1>2, <1>3, <1>4, <1>5 DEF Init, TypeOK

\* A bounded event keeps the bounds.
LEMMA Spending ==
  ASSUME TypeOK, NEW what \in {"moves", "events"}, Spend(what)
  PROVE  bounds' \in [moves : 0 .. MaxMoves, events : 0 .. MaxEvents]
BY BoundsAssumption DEF TypeOK, Spend

\* Opening a tab keeps the types.
LEMMA Opening ==
  ASSUME TypeOK, NEW t \in Tabs, Open(t)
  PROVE  /\ items' \in Seq(Cards) /\ next' \in Cards \cup {None} /\ tab' \in Tabs
         /\ loading' \in BOOLEAN /\ loadingMore' \in BOOLEAN /\ seen' \in BOOLEAN
         /\ reqs' \in [Slots -> MaybeRequest]
         /\ marked' \subseteq Cards /\ archive' \subseteq Cards /\ loads' \subseteq SUBSET Cards
         /\ there' \subseteq Cards /\ loaded' \in BOOLEAN /\ cut' \in BOOLEAN /\ changed' \in BOOLEAN
<1>1. << >> \in Seq(Cards)
  BY EmptySeq
<1>2. reqs' \in [Slots -> MaybeRequest]
  <2>1. reqs \in [Slots -> MaybeRequest]
    BY DEF TypeOK, MaybeRequest
  <2>2. CASE t = "saved"
    BY <2>1, <2>2 DEF Open
  <2>3. CASE t # "saved"
    <3>1. Retired({"first", "more"}) \in [Slots -> MaybeRequest]
      BY <2>1, Retirement
    <3>2. Send("first", t, None, Retired({"first", "more"}))
      BY <2>3 DEF Open
    <3>3. QED BY <3>1, <3>2, Sending
  <2>4. QED BY <2>2, <2>3
<1>3. archive' \subseteq Cards /\ loads' \subseteq SUBSET Cards /\ marked' \subseteq Cards
  BY DEF Open, TypeOK, LoadArchive
<1>4. QED BY <1>1, <1>2, <1>3 DEF Open, TypeOK

\* The types that a step leaves alone.
UserTyped ==
  /\ marked \subseteq Cards /\ archive \subseteq Cards /\ loads \subseteq SUBSET Cards
  /\ bounds \in [moves : 0 .. MaxMoves, events : 0 .. MaxEvents]

ServerTyped ==
  /\ status \in [Cards -> {"none", "needs_review", "published", "filtered_out"}]
  /\ approved \subseteq Cards /\ interests \in Interests /\ today \in {Today, Today + 1}

ListTyped ==
  /\ signedIn \in BOOLEAN /\ tab \in Tabs /\ (tab = "mine" => signedIn)
  /\ items \in Seq(Cards) /\ next \in Cards \cup {None}
  /\ loading \in BOOLEAN /\ loadingMore \in BOOLEAN /\ seen \in BOOLEAN
  /\ there \subseteq Cards
  /\ loaded \in BOOLEAN /\ cut \in BOOLEAN /\ changed \in BOOLEAN /\ twice \in BOOLEAN

\* The types, part by part.
LEMMA TypeParts ==
  TypeOK <=> ServerTyped /\ ListTyped /\ UserTyped /\ reqs \in [Slots -> MaybeRequest]
BY DEF TypeOK, ServerTyped, ListTyped, UserTyped, MaybeRequest

\* No step breaks the types.
LEMMA TypeStep == TypeOK /\ [Next]_vars => TypeOK'
<1> SUFFICES ASSUME TypeOK, [Next]_vars PROVE TypeOK'
  OBVIOUS
<1>1. ServerTyped /\ ListTyped /\ UserTyped /\ reqs \in [Slots -> MaybeRequest]
  BY TypeParts
<1> SUFFICES ServerTyped' /\ ListTyped' /\ UserTyped' /\ reqs' \in [Slots -> MaybeRequest]
  BY DEF TypeOK, ServerTyped, ListTyped, UserTyped, MaybeRequest
<1> USE DEF server, list, saved
<1>2. ASSUME NEW c \in Cards, Publish(c)
      PROVE  ServerTyped' /\ ListTyped' /\ UserTyped' /\ reqs' \in [Slots -> MaybeRequest]
  BY <1>1, <1>2 DEF Publish, ServerTyped, ListTyped, UserTyped
<1>3. ASSUME NEW c \in Cards, Mark(c)
      PROVE  ServerTyped' /\ ListTyped' /\ UserTyped' /\ reqs' \in [Slots -> MaybeRequest]
  <2>1. bounds' \in [moves : 0 .. MaxMoves, events : 0 .. MaxEvents]
    BY <1>3, Spending DEF Mark
  <2>2. marked' \subseteq Cards /\ archive' \subseteq Cards /\ loads' \subseteq SUBSET Cards
    BY <1>1, <1>3 DEF Mark, LoadArchive, UserTyped
  <2>3. QED BY <1>1, <1>3, <2>1, <2>2 DEF Mark, ServerTyped, ListTyped, UserTyped
<1>4. ASSUME NEW c \in Cards, NEW to \in {"published", "filtered_out"}, Moderate(c, to)
      PROVE  ServerTyped' /\ ListTyped' /\ UserTyped' /\ reqs' \in [Slots -> MaybeRequest]
  <2>1. bounds' \in [moves : 0 .. MaxMoves, events : 0 .. MaxEvents]
    BY <1>4, Spending DEF Moderate
  <2>2. there' \subseteq Cards
    BY <1>1, <1>4 DEF Moderate, Watch, ListTyped
  <2>3. QED BY <1>1, <1>4, <2>1, <2>2 DEF Moderate, ServerTyped, ListTyped, UserTyped
<1>5. ASSUME NEW set \in Interests, Choose(set)
      PROVE  ServerTyped' /\ ListTyped' /\ UserTyped' /\ reqs' \in [Slots -> MaybeRequest]
  <2>1. bounds' \in [moves : 0 .. MaxMoves, events : 0 .. MaxEvents]
    BY <1>5, Spending DEF Choose
  <2>2. QED BY <1>1, <1>5, <2>1 DEF Choose, ServerTyped, ListTyped, UserTyped
<1>6. ASSUME Midnight
      PROVE  ServerTyped' /\ ListTyped' /\ UserTyped' /\ reqs' \in [Slots -> MaybeRequest]
  <2>1. bounds' \in [moves : 0 .. MaxMoves, events : 0 .. MaxEvents]
    BY <1>6, Spending DEF Midnight
  <2>2. there' \subseteq Cards
    BY <1>1, <1>6 DEF Midnight, Watch, ListTyped
  <2>3. QED BY <1>1, <1>6, <2>1, <2>2 DEF Midnight, ServerTyped, ListTyped, UserTyped
<1>7. ASSUME SignInOrOut
      PROVE  ServerTyped' /\ ListTyped' /\ UserTyped' /\ reqs' \in [Slots -> MaybeRequest]
  <2> DEFINE t == IF signedIn /\ tab = "mine" THEN FirstTab ELSE tab
  <2>1. t \in Tabs /\ Open(t) /\ (t = "mine" => ~signedIn)
    BY <1>1, <1>7, NamesAssumption DEF SignInOrOut, ListTyped
  <2>2. bounds' \in [moves : 0 .. MaxMoves, events : 0 .. MaxEvents]
    BY <1>7, Spending DEF SignInOrOut
  <2>3. tab' = t
    BY <2>1 DEF Open
  <2> HIDE DEF t
  <2>4. signedIn' \in BOOLEAN /\ (tab' = "mine" => signedIn') /\ twice' \in BOOLEAN /\ ServerTyped'
    BY <1>1, <1>7, <2>1, <2>3 DEF SignInOrOut, ListTyped, ServerTyped
  <2>5. QED BY <2>1, <2>2, <2>4, Opening DEF ListTyped, UserTyped
<1>8. ASSUME LoadMore
      PROVE  ServerTyped' /\ ListTyped' /\ UserTyped' /\ reqs' \in [Slots -> MaybeRequest]
  <2>1. Retired({"more"}) \in [Slots -> MaybeRequest]
    BY <1>1, Retirement
  <2>2. reqs' \in [Slots -> MaybeRequest]
    BY <1>1, <1>8, <2>1, Sending DEF LoadMore, ListTyped
  <2>3. twice' \in BOOLEAN
    BY <1>1, <1>8 DEF LoadMore, ListTyped
  <2>4. QED BY <1>1, <1>8, <2>2, <2>3 DEF LoadMore, ServerTyped, ListTyped, UserTyped
<1>9. ASSUME Render
      PROVE  ServerTyped' /\ ListTyped' /\ UserTyped' /\ reqs' \in [Slots -> MaybeRequest]
  BY <1>1, <1>9 DEF Render, ServerTyped, ListTyped, UserTyped
<1>10. ASSUME NEW t \in Tabs, Switch(t)
      PROVE  ServerTyped' /\ ListTyped' /\ UserTyped' /\ reqs' \in [Slots -> MaybeRequest]
  <2>1. Open(t) /\ (t = "mine" => signedIn)
    BY <1>10 DEF Switch
  <2>2. bounds' \in [moves : 0 .. MaxMoves, events : 0 .. MaxEvents]
    BY <1>10, Spending DEF Switch
  <2>3. signedIn' \in BOOLEAN /\ (tab' = "mine" => signedIn') /\ twice' \in BOOLEAN /\ ServerTyped'
    BY <1>1, <1>10, <2>1 DEF Switch, Open, ListTyped, ServerTyped
  <2>4. QED BY <2>1, <2>2, <2>3, Opening DEF ListTyped, UserTyped
<1>11. ASSUME NEW s \in Slots, Serve(s)
       PROVE  ServerTyped' /\ ListTyped' /\ UserTyped' /\ reqs' \in [Slots -> MaybeRequest]
  <2> DEFINE page == IF reqs[s].tab = "top" THEN TopToday ELSE ListPublished(reqs[s].tab, reqs[s].cursor)
  <2>1. reqs[s] \in Request
    BY <1>1, <1>11 DEF Serve, MaybeRequest
  <2>2. page \in Page
    BY <2>1, Listing, TopListing DEF Request
  <2>3. reqs' = [reqs EXCEPT ![s].page = page]
    BY <1>11 DEF Serve
  <2> HIDE DEF page
  <2>4. reqs' \in [Slots -> MaybeRequest]
    <3>1. [reqs[s] EXCEPT !.page = page] \in Request
      BY <2>1, <2>2 DEF Request
    <3>2. QED BY <1>1, <2>3, <3>1 DEF MaybeRequest
  <2>5. there' \subseteq Cards /\ cut' \in BOOLEAN /\ changed' \in BOOLEAN
    BY <1>1, <1>11 DEF Serve, ListTyped, Listed
  <2>6. QED BY <1>1, <1>11, <2>4, <2>5 DEF Serve, ServerTyped, ListTyped, UserTyped
<1>12. ASSUME NEW s \in Slots, Settle(s)
       PROVE  /\ reqs' \in [Slots -> MaybeRequest]
              /\ loading' \in BOOLEAN /\ loadingMore' \in BOOLEAN /\ seen' \in BOOLEAN
  BY <1>1, <1>12 DEF Settle, ListTyped, MaybeRequest
<1>13. ASSUME NEW s \in Slots, Answer(s)
       PROVE  ServerTyped' /\ ListTyped' /\ UserTyped' /\ reqs' \in [Slots -> MaybeRequest]
  <2>1. Settle(s) /\ reqs[s] \in Request /\ reqs[s].page \in Page
    BY <1>1, <1>13 DEF Answer, Settle, MaybeRequest, Request
  <2>2. reqs[s].page.items \in Seq(Cards) /\ reqs[s].page.next \in Cards \cup {None}
    BY <2>1 DEF Page
  <2>3. items \o reqs[s].page.items \in Seq(Cards)
    BY <1>1, <2>2, ConcatProperties DEF ListTyped
  <2>4. items' \in Seq(Cards) /\ next' \in Cards \cup {None} /\ loaded' \in BOOLEAN
    BY <1>1, <1>13, <2>2, <2>3 DEF Answer, ListTyped
  <2>5. QED BY <1>1, <1>12, <1>13, <2>1, <2>4 DEF Answer, ServerTyped, ListTyped, UserTyped
<1>14. ASSUME NEW s \in Slots, Fail(s)
       PROVE  ServerTyped' /\ ListTyped' /\ UserTyped' /\ reqs' \in [Slots -> MaybeRequest]
  <2>1. bounds' \in [moves : 0 .. MaxMoves, events : 0 .. MaxEvents]
    BY <1>14, Spending DEF Fail
  <2>2. QED BY <1>1, <1>12, <1>14, <2>1 DEF Fail, ServerTyped, ListTyped, UserTyped
<1>15. ASSUME NEW ids \in SUBSET Cards, ArchiveLoaded(ids)
       PROVE  ServerTyped' /\ ListTyped' /\ UserTyped' /\ reqs' \in [Slots -> MaybeRequest]
  BY <1>1, <1>15 DEF ArchiveLoaded, ServerTyped, ListTyped, UserTyped
<1>16. CASE UNCHANGED vars
  BY <1>1, <1>16 DEF vars, ServerTyped, ListTyped, UserTyped
<1>17. QED BY <1>2, <1>3, <1>4, <1>5, <1>6, <1>7, <1>8, <1>9, <1>10, <1>11, <1>13, <1>14, <1>15, <1>16 DEF Next

\* The rows, the list and the requests for pages are of their types.
THEOREM TypeCorrect == Spec => []TypeOK
BY TypeInit, TypeStep, PTL DEF Spec

-----------------------------------------------------------------------------
(* The inductive invariant.                                                *)

IsLatest(s) == reqs[s] # None /\ reqs[s].latest
Served(s) == IsLatest(s) /\ reqs[s].page # None

\* At most one request of each kind matters, and none for more beside one for a
\* first page, which finds an empty list.
OneOfAKind ==
  \A s, q \in Slots : IsLatest(s) /\ IsLatest(q) =>
    /\ reqs[s].kind = reqs[q].kind => s = q
    /\ reqs[s].kind = "first" => reqs[q].kind # "more"

Starting ==
  \A s \in Slots : IsLatest(s) /\ reqs[s].kind = "first" =>
    items = << >> /\ next = None /\ ~loaded /\ reqs[s].cursor = None

\* Requests that matter are for the open tab, those for more from its cursor on.
Following ==
  tab # "saved" =>
    /\ next # None => loaded
    /\ \A s \in Slots : IsLatest(s) =>
         /\ reqs[s].tab = tab
         /\ reqs[s].kind = "more" => tab # "top" /\ next # None /\ reqs[s].cursor = next

\* The list as the answer to a request will leave it.
Grown(s) ==
  IF reqs[s].kind = "first" THEN reqs[s].page.items ELSE items \o reqs[s].page.items

\* The list shows one order of the cards: the interests have not changed under it.
OneOrder == tab # "saved" /\ ~(tab = "mine" /\ changed)

InLine(cards, n, order, t) == Sorted(cards, order) /\ Ends(cards, n, t) /\ Topical(cards, t)

\* The list is in order, and stays so with every page that has been served for it.
Ordering ==
  OneOrder =>
    /\ InLine(items, next, OrderOf(tab), tab)
    /\ \A s \in Slots : Served(s) => InLine(Grown(s), reqs[s].page.next, OrderOf(tab), tab)

Covers(cards, n, set, order) == \A c \in set : Reaches(ToSet(cards), n, c, order)

\* What has been on the server since the first page is in the list or beyond its
\* cursor, and stays so with every page that has been served for it.
Completeness ==
  (OneOrder /\ tab # "top" /\ ~cut) =>
    /\ there \subseteq Listed(tab)
    /\ loaded => Covers(items, next, there, OrderOf(tab))
    /\ \A s \in Slots : Served(s) => Covers(Grown(s), reqs[s].page.next, there, OrderOf(tab))

\* The inductive invariant, beside the types.
Paging == OneOfAKind /\ Starting /\ Following /\ Ordering /\ Completeness

\* The empty list is in order.
LEMMA EmptyInLine == \A order, t : InLine(<< >>, None, order, t)
<1>1. DOMAIN << >> = {}
  OBVIOUS
<1>2. QED BY <1>1 DEF InLine, Sorted, Ends, Topical

\* The order of a list depends on the interests in the personal feed only.
LEMMA SameOrder ==
  ASSUME tab' = tab, tab # "mine" \/ interests' = interests
  PROVE  OrderOf(tab)' = OrderOf(tab)
<1>1. \A c \in Cards : Rank(c, tab)' = Rank(c, tab)
  BY DEF Rank
<1>2. \A p \in Cards \X Cards : p[1] \in Cards /\ p[2] \in Cards
  OBVIOUS
<1>3. FeedOrder(tab)' = FeedOrder(tab)
  BY <1>1, <1>2 DEF FeedOrder, Newer
<1>4. TopOrder' = TopOrder
  BY DEF TopOrder, Score
<1>5. QED BY <1>3, <1>4 DEF OrderOf

\* Steps that leave the list and the requests alone; what is on the server since the
\* first page shrinks with the server's list.
LEMMA QuietStep ==
  ASSUME Paging, UNCHANGED <<items, next, reqs, tab, loaded, cut>>,
         OneOrder' => OneOrder /\ OrderOf(tab)' = OrderOf(tab),
         there' \subseteq there, there \subseteq Listed(tab) => there' \subseteq Listed(tab)'
  PROVE  Paging'
<1>1. \A s \in Slots : (IsLatest(s)' <=> IsLatest(s)) /\ (Served(s)' <=> Served(s)) /\ Grown(s)' = Grown(s)
  BY DEF IsLatest, Served, Grown
<1>2. OneOfAKind' /\ Starting'
  BY <1>1 DEF Paging, OneOfAKind, Starting
<1>3. Following'
  BY <1>1 DEF Paging, Following
<1>4. Ordering'
  BY <1>1 DEF Paging, Ordering
<1>5. Completeness'
  <2> SUFFICES ASSUME OneOrder', tab # "top", ~cut
               PROVE  /\ there' \subseteq Listed(tab)'
                      /\ loaded => Covers(items, next, there', OrderOf(tab))
                      /\ \A s \in Slots : Served(s)
                           => Covers(Grown(s), reqs[s].page.next, there', OrderOf(tab))
    BY <1>1 DEF Completeness
  <2>1. /\ there \subseteq Listed(tab)
        /\ loaded => Covers(items, next, there, OrderOf(tab))
        /\ \A s \in Slots : Served(s) => Covers(Grown(s), reqs[s].page.next, there, OrderOf(tab))
    BY DEF Paging, Completeness
  <2>2. \A cards, n, order : Covers(cards, n, there, order) => Covers(cards, n, there', order)
    BY DEF Covers
  <2>3. QED BY <2>1, <2>2
<1>6. QED BY <1>2, <1>3, <1>4, <1>5 DEF Paging

\* Cards keep their place while neither they nor the day change.
LEMMA SameList ==
  ASSUME UNCHANGED <<status, approved, today, tab>>
  PROVE  Listed(tab)' = Listed(tab)
BY DEF Listed, InFeed, InTab

\* A new card comes into its list and goes out of none.
LEMMA PublishKeeps ==
  ASSUME TypeOK, Paging, NEW c \in Cards, Publish(c)
  PROVE  Paging'
<1>1. /\ UNCHANGED <<items, next, reqs, tab, loaded, cut, there, changed, interests, approved, today>>
      /\ status[c] = "none" /\ status' = [status EXCEPT ![c] = "published"]
  BY DEF Publish, list
<1>2. \A d \in Cards : status[d] = "published" => status'[d] = "published"
  BY <1>1 DEF TypeOK
<1>3. Listed(tab) \subseteq Listed(tab)'
  BY <1>1, <1>2 DEF Listed, InFeed, InTab
<1>4. OneOrder' => OneOrder /\ OrderOf(tab)' = OrderOf(tab)
  BY <1>1, SameOrder DEF OneOrder
<1>5. QED BY <1>1, <1>3, <1>4, QuietStep

\* A decision, or midnight, takes cards out of the list and out of what is watched alike.
LEMMA WatchKeeps ==
  ASSUME Paging, UNCHANGED <<interests, items, next, reqs, tab, loaded, cut, changed>>, Watch
  PROVE  Paging'
<1>1. there' = {c \in there : InFeed(c)' /\ InTab(c, tab)'}
  BY DEF Watch
<1>2. Listed(tab)' = {c \in Cards : InFeed(c)' /\ InTab(c, tab)'}
  BY DEF Listed
<1>3. there' \subseteq there /\ (there \subseteq Listed(tab) => there' \subseteq Listed(tab)')
  <2>1. there' \subseteq there
    BY <1>1
  <2>2. Listed(tab) \subseteq Cards
    BY DEF Listed
  <2>3. ASSUME there \subseteq Listed(tab) PROVE there' \subseteq Listed(tab)'
    BY <1>1, <1>2, <2>2, <2>3
  <2>4. QED BY <2>1, <2>3
<1>4. OneOrder' => OneOrder /\ OrderOf(tab)' = OrderOf(tab)
  BY SameOrder DEF OneOrder
<1>5. QED BY <1>3, <1>4, QuietStep

\* Neither list nor requests change.
LEMMA ReaderKeeps ==
  ASSUME Paging,
         UNCHANGED <<status, approved, interests, today, items, next, reqs, tab, loaded, cut, changed, there>>
  PROVE  Paging'
<1>1. Listed(tab)' = Listed(tab)
  BY SameList
<1>2. OneOrder' => OneOrder /\ OrderOf(tab)' = OrderOf(tab)
  BY SameOrder DEF OneOrder
<1>3. QED BY <1>1, <1>2, QuietStep

\* The personal feed has another order, from which nothing is promised until it is opened again.
LEMMA ChooseKeeps ==
  ASSUME Paging, NEW set, Choose(set)
  PROVE  Paging'
<1>1. /\ UNCHANGED <<status, approved, today, items, next, reqs, tab, loaded, cut, there>>
      /\ changed' = TRUE
  BY DEF Choose, list
<1>2. Listed(tab)' = Listed(tab)
  BY <1>1, SameList
<1>3. OneOrder' => OneOrder /\ OrderOf(tab)' = OrderOf(tab)
  BY <1>1, SameOrder DEF OneOrder
<1>4. QED BY <1>1, <1>2, <1>3, QuietStep

\* A tab starts with an empty list, and what was on its way no longer matters.
LEMMA OpenKeeps ==
  ASSUME TypeOK, Paging, NEW t \in Tabs, Open(t)
  PROVE  Paging'
<1>1. items' = << >> /\ next' = None /\ loaded' = FALSE /\ there' = {} /\ tab' = t
  BY DEF Open
<1>2. CASE t = "saved"
  <2>1. reqs' = reqs
    BY <1>2 DEF Open
  <2>2. \A s \in Slots : IsLatest(s)' <=> IsLatest(s)
    BY <2>1 DEF IsLatest
  <2>3. OneOfAKind' /\ Starting'
    BY <1>1, <2>1, <2>2 DEF Paging, OneOfAKind, Starting
  <2>4. Following' /\ Ordering' /\ Completeness'
    BY <1>1, <1>2 DEF Following, Ordering, Completeness, OneOrder
  <2>5. QED BY <2>3, <2>4 DEF Paging
<1>3. CASE t # "saved"
  <2> DEFINE sent == [kind |-> "first", tab |-> t, cursor |-> None, latest |-> TRUE, page |-> None]
  <2>1. reqs \in [Slots -> MaybeRequest]
    BY DEF TypeOK, MaybeRequest
  <2>2. /\ Retired({"first", "more"}) \in [Slots -> MaybeRequest]
        /\ \A s \in Slots : IF reqs[s] # None /\ reqs[s].kind \in {"first", "more"}
                            THEN RetiredAs(Retired({"first", "more"})[s], reqs[s])
                            ELSE Retired({"first", "more"})[s] = reqs[s]
    BY <2>1, Retirement
  <2>3. Send("first", t, None, Retired({"first", "more"}))
    BY <1>3 DEF Open
  <2>4. PICK n \in Slots : reqs' = [Retired({"first", "more"}) EXCEPT ![n] = sent]
    BY <2>2, <2>3, Sending
  <2>5. \A s \in Slots : reqs[s] # None => reqs[s].kind \in {"first", "more"}
    BY <2>1 DEF MaybeRequest, Request
  <2>6. \A s \in Slots : IsLatest(s)' => s = n /\ reqs'[s] = sent
    BY <2>2, <2>4, <2>5 DEF IsLatest, RetiredAs
  <2> HIDE DEF sent
  <2>7. sent.kind = "first" /\ sent.tab = t /\ sent.cursor = None /\ sent.page = None
    BY DEF sent
  <2>8. \A s \in Slots : ~Served(s)'
    BY <2>6, <2>7 DEF Served, IsLatest
  <2>9. OneOfAKind'
    BY <2>6, <2>7 DEF OneOfAKind
  <2>10. Starting'
    BY <1>1, <2>6, <2>7 DEF Starting
  <2>11. Following'
    BY <1>1, <2>6, <2>7 DEF Following
  <2>12. Ordering'
    BY <1>1, <2>8, EmptyInLine DEF Ordering
  <2>13. Completeness'
    BY <1>1, <2>8 DEF Completeness
  <2>14. QED BY <2>9, <2>10, <2>11, <2>12, <2>13 DEF Paging
<1>4. QED BY <1>2, <1>3

\* A request for more is the only one that matters, and goes on from the cursor.
LEMMA LoadMoreKeeps ==
  ASSUME TypeOK, Paging, LoadMore
  PROVE  Paging'
<1> DEFINE sent == [kind |-> "more", tab |-> tab, cursor |-> next, latest |-> TRUE, page |-> None]
<1>1. /\ UNCHANGED <<status, approved, interests, today, items, next, tab, loaded, cut, changed, there>>
      /\ tab \notin {"saved", "top"} /\ next # None
  BY DEF LoadMore, server
<1>2. reqs \in [Slots -> MaybeRequest] /\ tab \in Tabs /\ next \in Cards \cup {None}
  BY DEF TypeOK, MaybeRequest
<1>3. /\ Retired({"more"}) \in [Slots -> MaybeRequest]
      /\ \A s \in Slots : IF reqs[s] # None /\ reqs[s].kind \in {"more"}
                          THEN RetiredAs(Retired({"more"})[s], reqs[s])
                          ELSE Retired({"more"})[s] = reqs[s]
  BY <1>2, Retirement
<1>4. PICK n \in Slots : reqs' = [Retired({"more"}) EXCEPT ![n] = sent]
  BY <1>2, <1>3, Sending DEF LoadMore
<1>5. \A s \in Slots : IsLatest(s) => reqs[s].kind = "more"
  <2>1. \A s \in Slots : reqs[s] # None => reqs[s].kind \in {"first", "more"}
    BY <1>2 DEF MaybeRequest, Request
  <2>2. QED BY <1>1, <2>1 DEF IsLatest, Paging, Starting
<1>6. \A s \in Slots : IsLatest(s)' => s = n /\ reqs'[s] = sent
  BY <1>3, <1>4, <1>5 DEF IsLatest, RetiredAs
<1> HIDE DEF sent
<1>7. sent.kind = "more" /\ sent.tab = tab /\ sent.cursor = next /\ sent.page = None
  BY DEF sent
<1>8. \A s \in Slots : ~Served(s)'
  BY <1>6, <1>7 DEF Served, IsLatest
<1>9. OneOfAKind'
  BY <1>6, <1>7 DEF OneOfAKind
<1>10. Starting'
  BY <1>6, <1>7 DEF Starting
<1>11. Following'
  BY <1>1, <1>6, <1>7 DEF Following, Paging
<1>12. OrderOf(tab)' = OrderOf(tab) /\ Listed(tab)' = Listed(tab)
  BY <1>1, SameOrder, SameList
<1>13. Ordering'
  BY <1>1, <1>8, <1>12 DEF Ordering, OneOrder, Paging
<1>14. Completeness'
  BY <1>1, <1>8, <1>12 DEF Completeness, OneOrder, Paging
<1>15. QED BY <1>9, <1>10, <1>11, <1>13, <1>14 DEF Paging

\* An answer to the request that matters becomes the list; any other is dropped.
LEMMA SettleKeeps ==
  ASSUME TypeOK, Paging, NEW s \in Slots, Settle(s),
         UNCHANGED <<status, approved, interests, today, tab, cut, changed, there>>,
         \/ UNCHANGED <<items, next, loaded>>
         \/ /\ Served(s) /\ items' = Grown(s) /\ next' = reqs[s].page.next
            /\ loaded' = (loaded \/ reqs[s].kind = "first")
  PROVE  Paging'
<1>1. reqs \in [Slots -> MaybeRequest] /\ reqs' = [reqs EXCEPT ![s] = None] /\ reqs[s] # None
  BY DEF Settle, TypeOK, MaybeRequest
<1>2. \A q \in Slots : IsLatest(q)' => q # s /\ IsLatest(q) /\ reqs'[q] = reqs[q]
  BY <1>1 DEF IsLatest
<1>3. OrderOf(tab)' = OrderOf(tab) /\ Listed(tab)' = Listed(tab)
  BY SameOrder, SameList
<1>4. OneOfAKind'
  BY <1>2 DEF OneOfAKind, Paging
<1>5. CASE UNCHANGED <<items, next, loaded>>
  <2>1. Starting' /\ Following'
    BY <1>2, <1>5 DEF Paging, Starting, Following
  <2>2. \A q \in Slots : Served(q)' => Served(q) /\ reqs'[q] = reqs[q] /\ Grown(q)' = Grown(q)
    BY <1>2, <1>5 DEF Served, Grown, IsLatest
  <2>3. Ordering'
    BY <1>3, <1>5, <2>2 DEF Ordering, OneOrder, Paging
  <2>4. Completeness'
    BY <1>3, <1>5, <2>2 DEF Completeness, OneOrder, Paging
  <2>5. QED BY <1>4, <2>1, <2>3, <2>4 DEF Paging
<1>6. CASE /\ Served(s) /\ items' = Grown(s) /\ next' = reqs[s].page.next
           /\ loaded' = (loaded \/ reqs[s].kind = "first")
  <2>1. \A q \in Slots : reqs[q] # None => reqs[q].kind \in {"first", "more"}
    BY <1>1 DEF MaybeRequest, Request
  <2>2. \A q \in Slots : ~IsLatest(q)'
    <3>1. IsLatest(s)
      BY <1>6 DEF Served
    <3>2. \A q \in Slots : IsLatest(q) => q = s
      BY <2>1, <3>1 DEF OneOfAKind, Paging, IsLatest
    <3>3. QED BY <1>2, <3>2
  <2>3. Starting'
    BY <2>2 DEF Starting
  <2>4. Following'
    <3>1. ASSUME tab # "saved", next' # None PROVE loaded'
      BY <1>6, <2>1, <3>1 DEF Following, Paging, Served, IsLatest
    <3>2. QED BY <2>2, <3>1 DEF Following
  <2>5. Ordering'
    BY <1>3, <1>6, <2>2 DEF Ordering, OneOrder, Paging, Served
  <2>6. Completeness'
    BY <1>3, <1>6, <2>2 DEF Completeness, OneOrder, Paging, Served
  <2>7. QED BY <1>4, <2>3, <2>4, <2>5, <2>6 DEF Paging
<1>7. QED BY <1>5, <1>6

-----------------------------------------------------------------------------
(* A page that goes on where the list ends.                                *)

\* A sorted page beyond the last card of a sorted list prolongs it.
LEMMA Joining ==
  ASSUME NEW a \in Seq(Cards), NEW b \in Seq(Cards), NEW n \in Cards, NEW t, t # "top",
         InLine(a, n, FeedOrder(t), t), Sorted(b, FeedOrder(t)), Topical(b, t),
         Follows(b, n, FeedOrder(t))
  PROVE  /\ Sorted(a \o b, FeedOrder(t)) /\ Topical(a \o b, t)
         /\ ToSet(a \o b) = ToSet(a) \cup ToSet(b)
         /\ b # << >> => (a \o b) # << >> /\ (a \o b)[Len(a \o b)] = b[Len(b)]
<1> DEFINE order == FeedOrder(t)
           la == Len(a)
           lb == Len(b)
           ab == a \o b
<1>1. /\ la \in Nat /\ lb \in Nat /\ DOMAIN a = 1 .. la /\ DOMAIN b = 1 .. lb
      /\ \A i \in 1 .. la : a[i] \in Cards
      /\ \A i \in 1 .. lb : b[i] \in Cards
  BY LenProperties, ElementOfSeq
<1>2. /\ ab \in Seq(Cards) /\ Len(ab) = la + lb /\ DOMAIN ab = 1 .. la + lb
      /\ \A i \in 1 .. la + lb : ab[i] = IF i <= la THEN a[i] ELSE b[i - la]
  <2>1. ab \in Seq(Cards) /\ Len(ab) = la + lb
    BY ConcatProperties
  <2>2. DOMAIN ab = 1 .. la + lb
    BY <2>1, LenProperties
  <2>3. \A i \in 1 .. la + lb : ab[i] = IF i <= la THEN a[i] ELSE b[i - la]
    BY ConcatProperties
  <2>4. QED BY <2>1, <2>2, <2>3
<1>3. n = a[la] /\ la \in 1 .. la
  <2>1. n # None /\ a # << >> /\ n = a[la]
    BY NamesAssumption DEF InLine, Ends
  <2>2. la # 0
    BY <2>1, EmptySeq
  <2>3. QED BY <1>1, <2>1, <2>2
<1>4. IsOrder(order)
  BY FeedIsOrder
<1> HIDE DEF ab, la, lb, order
<1>5. Sorted(a, order) /\ Sorted(b, order) /\ \A i \in 1 .. lb : <<n, b[i]>> \in order
  BY <1>1, NamesAssumption DEF InLine, Follows, order
<1>6. \A i \in 1 .. la : i = la \/ <<a[i], n>> \in order
  BY <1>1, <1>3, <1>5 DEF Sorted
<1>7. \A i \in 1 .. la, j \in 1 .. lb : <<a[i], b[j]>> \in order
  BY <1>1, <1>3, <1>4, <1>5, <1>6 DEF IsOrder
<1>8. Sorted(ab, order)
  <2> SUFFICES ASSUME NEW i \in 1 .. la + lb, NEW j \in 1 .. la + lb, i < j
               PROVE  <<ab[i], ab[j]>> \in order
    BY <1>2 DEF Sorted
  <2>1. CASE j <= la
    <3>1. i \in DOMAIN a /\ j \in DOMAIN a /\ ab[i] = a[i] /\ ab[j] = a[j]
      BY <1>1, <1>2, <2>1
    <3>2. QED BY <1>5, <3>1 DEF Sorted
  <2>2. CASE i <= la /\ ~(j <= la)
    <3>1. i \in 1 .. la /\ j - la \in 1 .. lb /\ ab[i] = a[i] /\ ab[j] = b[j - la]
      BY <1>1, <1>2, <2>2
    <3>2. QED BY <1>7, <3>1
  <2>3. CASE ~(i <= la)
    <3>1. /\ i - la \in DOMAIN b /\ j - la \in DOMAIN b /\ i - la < j - la
          /\ ab[i] = b[i - la] /\ ab[j] = b[j - la]
      BY <1>1, <1>2, <2>3
    <3>2. QED BY <1>5, <3>1 DEF Sorted
  <2>4. QED BY <1>1, <2>1, <2>2, <2>3
<1>9. ToSet(ab) = ToSet(a) \cup ToSet(b)
  <2>1. ASSUME NEW i \in 1 .. la PROVE i \in DOMAIN ab /\ ab[i] = a[i]
    BY <1>1, <1>2
  <2>2. ASSUME NEW i \in 1 .. lb PROVE la + i \in DOMAIN ab /\ ab[la + i] = b[i]
    <3>1. la + i \in 1 .. la + lb /\ ~(la + i <= la) /\ (la + i) - la = i
      BY <1>1
    <3>2. QED BY <1>2, <3>1
  <2>3. ASSUME NEW k \in DOMAIN ab PROVE ab[k] \in ToSet(a) \cup ToSet(b)
    <3>1. CASE k <= la
      <4>1. k \in DOMAIN a /\ ab[k] = a[k]
        BY <1>1, <1>2, <3>1
      <4>2. QED BY <4>1 DEF ToSet
    <3>2. CASE ~(k <= la)
      <4>1. k - la \in DOMAIN b /\ ab[k] = b[k - la]
        BY <1>1, <1>2, <3>2
      <4>2. QED BY <4>1 DEF ToSet
    <3>3. QED BY <3>1, <3>2
  <2>4. ToSet(ab) \subseteq ToSet(a) \cup ToSet(b)
    BY <2>3 DEF ToSet
  <2>5. ToSet(a) \subseteq ToSet(ab)
    BY <1>1, <2>1 DEF ToSet
  <2>6. ToSet(b) \subseteq ToSet(ab)
    BY <1>1, <2>2 DEF ToSet
  <2>7. QED BY <2>4, <2>5, <2>6
<1>10. Topical(ab, t)
  <2>1. \A i \in DOMAIN a : OnTopic(a[i], t)
    BY DEF InLine, Topical
  <2>2. \A i \in DOMAIN b : OnTopic(b[i], t)
    BY DEF Topical
  <2>3. ASSUME NEW k \in DOMAIN ab PROVE OnTopic(ab[k], t)
    <3>1. CASE k <= la
      <4>1. k \in DOMAIN a /\ ab[k] = a[k]
        BY <1>1, <1>2, <3>1
      <4>2. QED BY <2>1, <4>1
    <3>2. CASE ~(k <= la)
      <4>1. k - la \in DOMAIN b /\ ab[k] = b[k - la]
        BY <1>1, <1>2, <3>2
      <4>2. QED BY <2>2, <4>1
    <3>3. QED BY <3>1, <3>2
  <2>4. QED BY <2>3 DEF Topical
<1>11. ASSUME b # << >> PROVE ab # << >> /\ ab[Len(ab)] = b[lb]
  <2>1. lb # 0
    BY <1>11, EmptySeq DEF lb
  <2>2. la + lb \in 1 .. la + lb /\ ~(la + lb <= la) /\ (la + lb) - la = lb
    BY <1>1, <2>1
  <2>3. ab[la + lb] = b[lb]
    BY <1>2, <2>2
  <2>4. ab # << >>
    BY <1>2, <2>2
  <2>5. QED BY <1>2, <2>3, <2>4
<1>12. QED BY <1>8, <1>9, <1>10, <1>11 DEF ab, lb, order

\* A card that was in the list's reach stays in reach with the next page, also when
\* midnight has taken the anchor off the tab: what came after it has gone as well.
LEMMA Reached ==
  ASSUME TypeOK, NEW t \in Tabs, t \notin {"top", "saved"}, NEW n \in Cards, NEW a \in Seq(Cards),
         Visible(n), OnTopic(n, t), NEW c \in Listed(t), Reaches(ToSet(a), n, c, FeedOrder(t)),
         NEW p, p = ListPublished(t, n)
  PROVE  Reaches(ToSet(a) \cup ToSet(p.items), p.next, c, FeedOrder(t))
<1>1. CASE c \in ToSet(a)
  BY <1>1 DEF Reaches
<1>2. CASE <<n, c>> \in FeedOrder(t) /\ InTab(n, t)
  <2>1. Reaches(ToSet(p.items), p.next, c, FeedOrder(t))
    BY <1>2, Listing
  <2>2. QED BY <2>1 DEF Reaches
<1>3. CASE <<n, c>> \in FeedOrder(t) /\ ~InTab(n, t)
  <2>1. t = "today" /\ ~(Card(n).when >= today)
    BY <1>3, NamesAssumption DEF InTab, OnTopic
  <2>2. Rank(n, t) = 0 /\ Rank(c, t) = 0
    BY <2>1 DEF Rank
  <2>3. Newer(n, c)
    BY <1>3, <2>2 DEF FeedOrder
  <2>4. Card(c).when >= today /\ c \in Cards
    BY <2>1 DEF Listed, InTab
  <2>5. Card(n).when \in Nat /\ Card(c).when \in Nat /\ today \in Nat
    BY <2>4, CardsAssumption, BoundsAssumption DEF TypeOK
  <2>6. QED BY <2>1, <2>3, <2>4, <2>5 DEF Newer
<1>4. QED BY <1>1, <1>2, <1>3 DEF Reaches

-----------------------------------------------------------------------------
(* The server answers.                                                     *)

\* The server answers a request by the state it has at that moment.
LEMMA ServeKeeps ==
  ASSUME TypeOK, Paging, NEW s \in Slots, Serve(s)
  PROVE  Paging'
<1> DEFINE r == reqs[s]
           page == IF r.tab = "top" THEN TopToday ELSE ListPublished(r.tab, r.cursor)
<1>1. /\ UNCHANGED <<status, approved, interests, today, items, next, tab, loaded>>
      /\ reqs[s] # None
      /\ there' = IF r.kind = "first" /\ r.latest THEN Listed(r.tab) ELSE there
      /\ cut' = (cut \/ (r.cursor # None /\ r.latest /\ ~Visible(r.cursor)))
      /\ changed' = IF r.kind = "first" /\ r.latest THEN FALSE ELSE changed
  BY DEF Serve, server, list
<1>2. reqs \in [Slots -> MaybeRequest] /\ items \in Seq(Cards) /\ next \in Cards \cup {None}
  BY DEF TypeOK, MaybeRequest
<1>3. /\ r \in Request /\ r.kind \in {"first", "more"} /\ r.latest \in BOOLEAN
      /\ r.tab \in Tabs /\ r.cursor \in Cards \cup {None}
  BY <1>1, <1>2 DEF MaybeRequest, Request
<1>4. reqs' = [reqs EXCEPT ![s].page = page]
  BY DEF Serve
<1>5. page \in Page
  BY <1>3, Listing, TopListing
<1>6. \A q \in Slots : q # s => reqs'[q] = reqs[q]
  BY <1>2, <1>4
<1>7. /\ reqs'[s].kind = r.kind /\ reqs'[s].latest = r.latest /\ reqs'[s].tab = r.tab
      /\ reqs'[s].cursor = r.cursor /\ reqs'[s].page = page
  <2>1. reqs'[s] = [r EXCEPT !.page = page]
    BY <1>2, <1>4
  <2> HIDE DEF page, r
  <2>2. QED BY <1>3, <2>1 DEF Request
<1> HIDE DEF page
<1>8. \A q \in Slots : IsLatest(q)' => IsLatest(q)
  BY <1>1, <1>6, <1>7 DEF IsLatest
<1>9. \A q \in Slots : IsLatest(q)' =>
        reqs'[q].kind = reqs[q].kind /\ reqs'[q].tab = reqs[q].tab /\ reqs'[q].cursor = reqs[q].cursor
  BY <1>6, <1>7
<1>10. OneOfAKind'
  BY <1>8, <1>9 DEF OneOfAKind, Paging
<1>11. Starting'
  BY <1>1, <1>8, <1>9 DEF Starting, Paging
<1>12. Following'
  BY <1>1, <1>8, <1>9 DEF Following, Paging
<1>13. OrderOf(tab)' = OrderOf(tab) /\ Listed(tab)' = Listed(tab)
  BY <1>1, SameOrder, SameList
<1>14. CASE ~r.latest
  <2>1. there' = there /\ cut' = cut /\ changed' = changed
    <3>1. there' = there /\ changed' = changed
      BY <1>1, <1>14
    <3>2. cut' = cut
      BY <1>1, <1>14 DEF TypeOK
    <3>3. QED BY <3>1, <3>2
  <2>2. \A q \in Slots : Served(q)' => Served(q) /\ reqs'[q] = reqs[q] /\ Grown(q)' = Grown(q)
    BY <1>1, <1>6, <1>7, <1>14 DEF Served, IsLatest, Grown
  <2>3. items' = items /\ next' = next /\ tab' = tab /\ loaded' = loaded
    BY <1>1
  <2>4. OneOrder' => OneOrder
    BY <2>1, <2>3 DEF OneOrder
  <2>5. Ordering'
    BY <1>13, <2>2, <2>3, <2>4 DEF Ordering, Paging
  <2>6. Completeness'
    BY <1>13, <2>1, <2>2, <2>3, <2>4 DEF Completeness, Paging
  <2>7. QED BY <1>10, <1>11, <1>12, <2>5, <2>6 DEF Paging
<1>15. CASE r.latest
  <2>1. IsLatest(s)
    BY <1>1, <1>15 DEF IsLatest
  <2>2. \A q \in Slots : Served(q)' => q = s
    <3>1. \A q \in Slots : IsLatest(q) => reqs[q].kind \in {"first", "more"}
      BY <1>2 DEF IsLatest, MaybeRequest, Request
    <3>2. \A q \in Slots : IsLatest(q) => q = s
      BY <1>3, <2>1, <3>1 DEF OneOfAKind, Paging
    <3>3. QED BY <1>8, <3>2 DEF Served
  <2>3. ASSUME tab # "saved" PROVE r.tab = tab
    BY <2>1, <2>3 DEF Following, Paging
  <2>4. CASE r.kind = "first"
    <3>1. items = << >> /\ next = None /\ ~loaded /\ r.cursor = None
      BY <2>1, <2>4 DEF Starting, Paging
    <3>2. there' = Listed(r.tab) /\ cut' = cut
      <4>1. there' = Listed(r.tab)
        BY <1>1, <1>15, <2>4
      <4>2. cut' = cut
        BY <1>1, <3>1 DEF TypeOK
      <4>3. QED BY <4>1, <4>2
    <3>3. Grown(s)' = page.items
      BY <1>7, <2>4 DEF Grown
    <3>4. ASSUME tab # "saved"
          PROVE  InLine(page.items, page.next, OrderOf(tab), tab)
      <4>1. CASE tab = "top"
        <5>1. page = TopToday
          BY <2>3, <3>4, <4>1 DEF page
        <5>2. QED BY <4>1, <5>1, TopListing DEF InLine, OrderOf, Ends, Topical, OnTopic
      <4>2. CASE tab # "top"
        <5>1. page = ListPublished(tab, None)
          BY <2>3, <3>1, <3>4, <4>2 DEF page
        <5>2. /\ Sorted(page.items, FeedOrder(tab)) /\ Topical(page.items, tab)
              /\ page.next # None => page.items # << >> /\ page.next = page.items[Len(page.items)]
          BY <5>1, Listing
        <5>3. QED BY <4>2, <5>2 DEF InLine, OrderOf, Ends
      <4>3. QED BY <4>1, <4>2
    <3>5. ASSUME tab \notin {"saved", "top"}
          PROVE  Covers(page.items, page.next, Listed(tab), OrderOf(tab))
      <4>1. page = ListPublished(tab, None)
        BY <2>3, <3>1, <3>5 DEF page
      <4>2. \A c \in Listed(tab) : Reaches(ToSet(page.items), page.next, c, FeedOrder(tab))
        BY <4>1, Listing
      <4>3. QED BY <3>5, <4>2 DEF Covers, OrderOf
    <3>6. Ordering'
      BY <1>1, <1>7, <1>13, <2>2, <3>1, <3>3, <3>4, EmptyInLine DEF Ordering, OneOrder
    <3>7. Completeness'
      <4> SUFFICES ASSUME tab \notin {"saved", "top"}
                   PROVE  /\ there' \subseteq Listed(tab)'
                          /\ Covers(page.items, page.next, there', OrderOf(tab))
        BY <1>1, <1>7, <1>13, <2>2, <3>1, <3>3 DEF Completeness, OneOrder
      <4>1. QED BY <1>13, <2>3, <3>2, <3>5
    <3>8. QED BY <1>10, <1>11, <1>12, <3>6, <3>7 DEF Paging
  <2>5. CASE r.kind = "more"
    <3>1. there' = there /\ changed' = changed
      BY <1>1, <2>5
    <3>2. Grown(s)' = items \o page.items
      BY <1>1, <1>7, <2>5 DEF Grown
    <3>3. ASSUME OneOrder
          PROVE  /\ tab # "top" /\ next # None /\ r.cursor = next /\ next \in Cards
                 /\ page = ListPublished(tab, next) /\ OrderOf(tab) = FeedOrder(tab)
                 /\ InLine(items, next, FeedOrder(tab), tab)
      <4>1. tab # "top" /\ next # None /\ r.cursor = next /\ r.tab = tab
        BY <2>1, <2>3, <2>5, <3>3 DEF Following, Paging, OneOrder
      <4>2. page = ListPublished(tab, next)
        BY <4>1 DEF page
      <4>3. OrderOf(tab) = FeedOrder(tab)
        BY <4>1 DEF OrderOf
      <4>4. InLine(items, next, FeedOrder(tab), tab)
        BY <3>3, <4>3 DEF Ordering, Paging
      <4>5. QED BY <1>2, <4>1, <4>2, <4>3, <4>4
    <3>4. page.items \in Seq(Cards)
      BY <1>5 DEF Page
    <3>5. ASSUME OneOrder
          PROVE  /\ InLine(items \o page.items, page.next, OrderOf(tab), tab)
                 /\ ToSet(items \o page.items) = ToSet(items) \cup ToSet(page.items)
      <4>1. /\ Sorted(page.items, FeedOrder(tab)) /\ Follows(page.items, next, FeedOrder(tab))
            /\ Topical(page.items, tab)
            /\ page.next # None => page.items # << >> /\ page.next = page.items[Len(page.items)]
        BY <3>3, <3>5, Listing
      <4> DEFINE joined == items \o page.items
      <4>2. /\ Sorted(joined, FeedOrder(tab)) /\ Topical(joined, tab)
            /\ ToSet(joined) = ToSet(items) \cup ToSet(page.items)
            /\ page.items # << >> => joined # << >> /\ joined[Len(joined)] = page.items[Len(page.items)]
        BY <1>2, <3>3, <3>4, <3>5, <4>1, Joining
      <4> HIDE DEF joined
      <4>3. InLine(joined, page.next, FeedOrder(tab), tab)
        BY <3>3, <3>5, <4>1, <4>2 DEF InLine, Ends
      <4>4. QED BY <3>3, <3>5, <4>2, <4>3 DEF joined
    <3>6. items' = items /\ next' = next /\ tab' = tab /\ loaded' = loaded
      BY <1>1
    <3>7. OneOrder' => OneOrder
      BY <3>1, <3>6 DEF OneOrder
    <3>8. Ordering'
      BY <1>7, <1>13, <2>2, <3>2, <3>5, <3>6, <3>7 DEF Ordering, Paging
    <3>9. ASSUME OneOrder, tab # "top", ~cut'
          PROVE  /\ there \subseteq Listed(tab) /\ (loaded => Covers(items, next, there, OrderOf(tab)))
                 /\ Covers(items \o page.items, page.next, there, OrderOf(tab))
      <4>1. ~cut /\ Visible(next)
        BY <1>1, <1>15, <3>3, <3>9 DEF TypeOK
      <4>2. there \subseteq Listed(tab) /\ (loaded => Covers(items, next, there, OrderOf(tab)))
        BY <3>9, <4>1 DEF Completeness, Paging
      <4>3. loaded
        BY <3>3, <3>9 DEF Following, Paging, OneOrder
      <4>4. OnTopic(next, tab)
        <5>1. items # << >> /\ next = items[Len(items)] /\ Topical(items, tab)
          BY <3>3, <3>9 DEF InLine, Ends
        <5>2. Len(items) \in DOMAIN items
          BY <1>2, <5>1, LenProperties, EmptySeq
        <5>3. QED BY <5>1, <5>2 DEF Topical
      <4>5. tab \in Tabs /\ tab \notin {"top", "saved"}
        BY <3>9 DEF TypeOK, OneOrder
      <4>6. ASSUME NEW c \in there
            PROVE  Reaches(ToSet(items) \cup ToSet(page.items), page.next, c, FeedOrder(tab))
        <5>1. c \in Listed(tab) /\ Reaches(ToSet(items), next, c, FeedOrder(tab))
          BY <3>3, <3>9, <4>2, <4>3 DEF Covers
        <5>2. next \in Cards /\ page = ListPublished(tab, next)
          BY <3>3, <3>9
        <5>3. QED BY <1>2, <4>1, <4>4, <4>5, <5>1, <5>2, Reached
      <4>7. QED BY <3>3, <3>5, <3>9, <4>2, <4>6 DEF Covers
    <3>10. Completeness'
      BY <1>7, <1>13, <2>2, <3>1, <3>2, <3>9, <3>6, <3>7 DEF Completeness, Paging
    <3>11. QED BY <1>10, <1>11, <1>12, <3>8, <3>10 DEF Paging
  <2>6. QED BY <1>3, <2>4, <2>5
<1>16. QED BY <1>3, <1>14, <1>15

-----------------------------------------------------------------------------
(* The theorems.                                                           *)

\* At first there is one request, for the first page of the first tab.
LEMMA PagingInit == Init => Paging
<1> SUFFICES ASSUME Init PROVE Paging
  OBVIOUS
<1>1. /\ items = << >> /\ next = None /\ loaded = FALSE /\ there = {} /\ tab = FirstTab
      /\ reqs = [s \in Slots |-> IF s = 1 THEN [kind |-> "first", tab |-> FirstTab, cursor |-> None,
                                               latest |-> TRUE, page |-> None] ELSE None]
  BY DEF Init
<1>2. \A s \in Slots : IsLatest(s) =>
        /\ s = 1 /\ reqs[s].kind = "first" /\ reqs[s].tab = FirstTab
        /\ reqs[s].cursor = None /\ reqs[s].page = None
  BY <1>1 DEF IsLatest
<1>3. OneOfAKind /\ Starting /\ Following
  BY <1>1, <1>2 DEF OneOfAKind, Starting, Following
<1>4. \A s \in Slots : ~Served(s)
  BY <1>2 DEF Served
<1>5. Ordering
  BY <1>1, <1>4, EmptyInLine DEF Ordering
<1>6. Completeness
  BY <1>1, <1>4 DEF Completeness
<1>7. QED BY <1>3, <1>5, <1>6 DEF Paging

\* Every step keeps the list, the requests and what is watched together.
LEMMA PagingStep == TypeOK /\ Paging /\ [Next]_vars => Paging'
<1> SUFFICES ASSUME TypeOK, Paging, [Next]_vars PROVE Paging'
  OBVIOUS
<1>1. ASSUME NEW c \in Cards, Publish(c) PROVE Paging'
  BY <1>1, PublishKeeps
<1>2. ASSUME NEW c \in Cards, Mark(c) PROVE Paging'
  BY <1>2, ReaderKeeps DEF Mark, server, list
<1>3. ASSUME NEW c \in Cards, NEW to \in {"published", "filtered_out"}, Moderate(c, to) PROVE Paging'
  BY <1>3, WatchKeeps DEF Moderate, list
<1>4. ASSUME NEW set \in Interests, Choose(set) PROVE Paging'
  BY <1>4, ChooseKeeps
<1>5. ASSUME Midnight PROVE Paging'
  BY <1>5, WatchKeeps DEF Midnight, list
<1>6. ASSUME SignInOrOut PROVE Paging'
  <2> DEFINE t == IF signedIn /\ tab = "mine" THEN FirstTab ELSE tab
  <2>1. t \in Tabs /\ Open(t)
    BY <1>6, NamesAssumption DEF SignInOrOut, TypeOK
  <2> HIDE DEF t
  <2>2. QED BY <2>1, OpenKeeps
<1>7. ASSUME LoadMore PROVE Paging'
  BY <1>7, LoadMoreKeeps
<1>8. ASSUME Render PROVE Paging'
  BY <1>8, ReaderKeeps DEF Render, server
<1>9. ASSUME NEW t \in Tabs, Switch(t) PROVE Paging'
  BY <1>9, OpenKeeps DEF Switch
<1>10. ASSUME NEW s \in Slots, Serve(s) PROVE Paging'
  BY <1>10, ServeKeeps
<1>11. ASSUME NEW s \in Slots, Answer(s) PROVE Paging'
  <2>1. /\ Settle(s) /\ UNCHANGED <<status, approved, interests, today, tab, cut, changed, there>>
        /\ reqs[s] # None /\ reqs[s].page # None
    BY <1>11 DEF Answer, Settle, server
  <2>2. reqs[s] \in Request /\ loaded \in BOOLEAN
    BY <2>1 DEF TypeOK
  <2>3. CASE ~reqs[s].latest
    <3>1. UNCHANGED <<items, next, loaded>>
      BY <1>11, <2>2, <2>3 DEF Answer
    <3>2. QED BY <2>1, <3>1, SettleKeeps
  <2>4. CASE reqs[s].latest
    <3>1. items' = Grown(s) /\ next' = reqs[s].page.next
      BY <1>11, <2>4 DEF Answer, Grown
    <3>2. loaded' = (loaded \/ reqs[s].kind = "first")
      BY <1>11, <2>4 DEF Answer
    <3>3. Served(s)
      BY <2>1, <2>4 DEF Served, IsLatest
    <3>4. QED BY <2>1, <3>1, <3>2, <3>3, SettleKeeps
  <2>5. QED BY <2>3, <2>4
<1>12. ASSUME NEW s \in Slots, Fail(s) PROVE Paging'
  BY <1>12, SettleKeeps DEF Fail, server
<1>13. ASSUME NEW ids \in SUBSET Cards, ArchiveLoaded(ids) PROVE Paging'
  BY <1>13, ReaderKeeps DEF ArchiveLoaded, server, list
<1>14. CASE UNCHANGED vars
  BY <1>14, ReaderKeeps DEF vars, server, list
<1>15. QED BY <1>1, <1>2, <1>3, <1>4, <1>5, <1>6, <1>7, <1>8, <1>9, <1>10, <1>11, <1>12, <1>13, <1>14 DEF Next

\* So they are together in every reachable state.
LEMMA PagingAlways == Spec => [](TypeOK /\ Paging)
<1>1. Init => TypeOK /\ Paging
  BY TypeInit, PagingInit
<1>2. TypeOK /\ Paging /\ [Next]_vars => TypeOK' /\ Paging'
  BY TypeStep, PagingStep
<1>3. QED BY <1>1, <1>2, PTL DEF Spec

\* However pages, tabs and requests that went wrong follow each other while cards come and
\* go, no card is listed twice, unless the interests changed between two pages of the
\* personal feed (useInfiniteFeed, list_published).
THEOREM FeedNeverRepeats == Spec => []NoRepeat
<1>1. TypeOK /\ Paging => NoRepeat
  <2> SUFFICES ASSUME TypeOK, Paging, tab # "saved", ~(tab = "mine" /\ changed) PROVE IsInjective(items)
    BY DEF NoRepeat
  <2>1. Sorted(items, OrderOf(tab))
    BY DEF Paging, Ordering, OneOrder, InLine
  <2>2. IsOrder(OrderOf(tab))
    BY FeedIsOrder, TopIsOrder DEF OrderOf
  <2>3. DOMAIN items = 1 .. Len(items) /\ Len(items) \in Nat /\ \A i \in DOMAIN items : items[i] \in Cards
    BY LenProperties, ElementOfSeq DEF TypeOK
  <2>4. ASSUME NEW i \in DOMAIN items, NEW j \in DOMAIN items, items[i] = items[j], i # j PROVE FALSE
    <3>1. i < j \/ j < i
      BY <2>3, <2>4
    <3>2. <<items[i], items[i]>> \in OrderOf(tab)
      BY <2>1, <2>4, <3>1 DEF Sorted
    <3>3. QED BY <2>2, <2>3, <3>2 DEF IsOrder
  <2>5. QED BY <2>4 DEF IsInjective
<1>2. QED BY <1>1, PagingAlways, PTL

\* A list that has come to its end has every card that was in it on the server since its
\* first page, unless its anchor was withdrawn or the interests changed.
THEOREM EndMissesNothing == Spec => []EndIsComplete
<1>1. TypeOK /\ Paging => EndIsComplete
  <2> SUFFICES ASSUME Paging, tab \notin {"saved", "top"}, loaded, next = None, ~cut,
                      ~(tab = "mine" /\ changed)
               PROVE  there \subseteq ToSet(items)
    BY DEF EndIsComplete
  <2>1. Covers(items, next, there, OrderOf(tab))
    BY DEF Paging, Completeness, OneOrder
  <2>2. QED BY <2>1 DEF Covers, Reaches
<1>2. QED BY <1>1, PagingAlways, PTL

\* publication_allowed_sql_filter with the moderators' approvals lets the same cards through
\* as is_processed_visible_in_feed, for every catalogue without official sources.
THEOREM SqlAndPythonAgree == Spec => []RulesAgree
<1>1. RulesAgree
  <2> SUFFICES ASSUME NEW c \in Cards PROVE InFeed(c) <=> Visible(c)
    BY DEF RulesAgree
  <2>1. ~(Card(c).source.official /\ Card(c).source.catalog)
    BY SourcesAssumption
  <2>2. AllowedInSql(c) <=> Allowed(c)
    BY <2>1 DEF AllowedInSql, Allowed, AllowedRss
  <2>3. QED BY <2>2 DEF InFeed, Visible
<1>2. QED BY <1>1, PTL
=============================================================================
