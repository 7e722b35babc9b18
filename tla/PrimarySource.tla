---------------------------- MODULE PrimarySource ----------------------------
(***************************************************************************)
(* How an entry of a publisher's feed gets the source its card may cite: a *)
(* link of its own text (extract_primary_source), or else a press release  *)
(* about the same event (OfficialPressCatalog, find_official_release).     *)
(*                                                                         *)
(* A text is the set of its distinctive words; a link is its URL and the   *)
(* kind of its host (the feed's own, a network's, a medium's, an official   *)
(* one or another); URLs are numbers, in their order as strings.           *)
(***************************************************************************)
EXTENDS Integers, FiniteSets, Sequences

CONSTANTS
  Prefixes,     \* the pairs <<short, long>> of words, one the start of the
                \* other, the short one of five letters or more
  Authorities,  \* words that name an authority, in the order of the table
  Feeds,        \* press feeds in their order: [name, mixed, releases]
  MinShared,    \* official_press_min_shared_tokens
  MinCoverage,  \* official_press_min_title_coverage, in percent
  MaxAge,       \* official_press_max_age_hours
  None

\* config.py keeps the thresholds in bounds.
ASSUME MatchAssumption == MinShared \in Nat \ {0}
\* A feed is read once, up to a limit, and of its entries with one URL only the
\* first is kept (load).
ASSUME FeedsAssumption ==
  /\ Len(Feeds) \in Nat /\ DOMAIN Feeds = 1 .. Len(Feeds)
  /\ \A i \in DOMAIN Feeds :
       /\ IsFiniteSet(Feeds[i].releases)
       /\ \A r \in Feeds[i].releases :
            /\ IsFiniteSet(r.words) /\ r.url \in Int
            /\ \A s \in Feeds[i].releases : s.url = r.url => s = r

\* extract_primary_source, for the links in their order: anchors first, then
\* bare URLs.  An official host wins; of other hosts there must be one only.
OfLinks(links) ==
  LET of(kind) == {i \in DOMAIN links : links[i].kind = kind}
      first(I) == links[CHOOSE i \in I : \A j \in I : i <= j]
      source(x) == [url |-> x.url, name |-> x.name]
  IN IF of("official") # {} THEN source(first(of("official")))
     ELSE IF Cardinality({links[i].url : i \in of("other")}) = 1
          THEN source(first(of("other")))
     ELSE None

-----------------------------------------------------------------------------
\* _tokens_overlap and _shared_token_count
Overlap(v, w) == v = w \/ <<v, w>> \in Prefixes \/ <<w, v>> \in Prefixes
Shared(query, words) == Cardinality({w \in words : \E v \in query : Overlap(v, w)})

\* institution_label: the first phrase of the table that the text contains.
Label(words) ==
  LET named == {i \in DOMAIN Authorities : Authorities[i] \in words}
  IN IF named = {} THEN None
     ELSE Authorities[CHOOSE i \in named : \A j \in named : i <= j]

\* release_from_entry: a mixed feed carries companies too, and an entry of it
\* counts only if it names an authority, who is then its source.
Named(feed, r) ==
  [url |-> r.url, words |-> r.words, time |-> r.time, event |-> r.event,
   name |-> IF feed.mixed THEN Label(r.words \cup r.lead) ELSE feed.name]

Entries(feed) == {x \in {Named(feed, r) : r \in feed.releases} : x.name # None}

\* OfficialPressCatalog.load: a feed that fails is left out, and of the copies
\* with one URL the first feed's is kept.
Catalog(up) ==
  UNION {{x \in Entries(Feeds[i]) :
            \A j \in up : j < i => \A y \in Entries(Feeds[j]) : y.url # x.url} :
         i \in up}
-----------------------------------------------------------------------------
\* The releases that are recent enough and share enough with the text.
Matches(query, time, releases) ==
  {r \in releases :
     /\ r.time - time <= MaxAge /\ time - r.time <= MaxAge
     /\ Shared(query, r.words) >= MinShared
     /\ 100 * Shared(query, r.words) >= MinCoverage * Cardinality(r.words)}

\* The share of the title's words that the text has too, as a pair of numbers.
Hits(query, r) == Shared(query, r.words)
Size(r) == Cardinality(r.words)

\* r is ranked before s: more of its title, then more words, then the URL.
Before(query, r, s) ==
  LET a == Hits(query, r) * Size(s)   b == Hits(query, s) * Size(r)
  IN \/ a > b
     \/ a = b /\ Hits(query, r) > Hits(query, s)
     \/ a = b /\ Hits(query, r) = Hits(query, s) /\ r.url < s.url

\* s comes within 15 percent of the best one, b.
Close(query, b, s) ==
  100 * (Hits(query, b) * Size(s) - Hits(query, s) * Size(b)) < 15 * Size(b) * Size(s)

\* _is_same_release: copies of one release, even under different URLs.
SameRelease(r, s) ==
  LET smaller == IF Size(r) <= Size(s) THEN Size(r) ELSE Size(s)
  IN smaller > 0 /\ 10 * Shared(r.words, s.words) >= 8 * smaller

\* Mutant: the best match is taken although another event matches as well.
Find_Best(query, time, releases) ==
  LET found == Matches(query, time, releases)
  IN IF Cardinality(query) >= MinShared /\ found # {}
     THEN CHOOSE r \in found : \A s \in found \ {r} : Before(query, r, s)
     ELSE None

\* find_official_release
Find(query, time, releases) ==
  LET found == Matches(query, time, releases)
      best == CHOOSE r \in found : \A s \in found \ {r} : Before(query, r, s)
  IN IF /\ Cardinality(query) >= MinShared
        /\ found # {}
        /\ \A s \in found : Close(query, best, s) => SameRelease(best, s)
     THEN best ELSE None
=============================================================================
