----------------------------- MODULE ModelAnswer -----------------------------
(***************************************************************************)
(* What becomes of the text a language model returns: parse_llm_news_json  *)
(* and LLMNewsOutput decide whether it is a card at all, and the publisher *)
(* text guard whether it repeats the feed's text.                          *)
(*                                                                         *)
(* A field is the class of its text: "" for blank, "token" for a null      *)
(* placeholder such as "None", "text" for the rest.                        *)
(***************************************************************************)
EXTENDS Integers, FiniteSets

CONSTANTS
  OverlapWords, OverlapChars,       \* publisher_text_overlap_min_words, _chars
  SimilarChars, SimilarPercent      \* publisher_text_similarity_min_chars, _threshold

ASSUME OverlapAssumption == OverlapWords \in Nat /\ OverlapChars \in Nat

Texts == {"", "token", "text"}
NoRun == [pair |-> 0, at |-> 0, words |-> 0, chars |-> 0]

\* _coerce_story_kind: a genre left out counts as a report, and a word outside
\* the table fails validation.
Genre(a) == IF a.genre = "missing" THEN "report" ELSE a.genre
Genres == {"report", "match_color", "personal_story"}
DeniedGenres == {"match_color", "personal_story"}

\* _normalize_impact_in_dict: three angles, one paragraph, or nothing at all.
ImpactFits(a) ==
  \/ a.impact = "multi" /\ a.angles = "text" /\ a.unified = ""
  \/ a.impact = "single" /\ a.unified = "text" /\ a.angles = ""
  \/ a.impact = "none" /\ a.unified = "" /\ a.angles = ""

\* parse_llm_news_json: an object whose core strings say something, with the
\* scores in their ranges.
Valid(a) ==
  /\ a.json = "object"
  /\ a.core = "text"
  /\ Genre(a) \in Genres
  /\ ImpactFits(a)
  /\ a.confidence \in 0..100 /\ a.importance \in 1..10

\* has_concrete_statistic: a percentage, a decimal, or a whole number that is
\* neither a day nor a year.
Concrete(a) ==
  \E n \in a.numbers : n.exact \/ (n.value > 31 /\ n.value \notin 1900..2100)
-----------------------------------------------------------------------------
\* a.runs: the common runs of the text and the feed's, [pair, at, words, chars]:
\* the pair of segments that share it and where it starts in the feed's.
\* find_longest_match reports one of a pair: most words, and of those the first.
Reported(a) ==
  {m \in a.runs : \A n \in a.runs :
     n.pair = m.pair => n.words < m.words \/ (n.words = m.words /\ m.at <= n.at)}

\* Of what is reported, detect_publisher_text_overlap keeps the run with most
\* words, and of those the one with most letters.
Longest(a) ==
  CHOOSE m \in Reported(a) \cup {NoRun} :
    \A n \in Reported(a) : \/ n.words < m.words
                           \/ n.words = m.words /\ n.chars <= m.chars

\* Mutant: only near-copies of a whole segment are found.
Suspicious_RatioOnly(a) ==
  Longest(a).chars >= SimilarChars /\ a.ratio >= SimilarPercent

\* A long run, or a shorter one in a segment that is much alike.
Suspicious(a) ==
  \/ Longest(a).words >= OverlapWords /\ Longest(a).chars >= OverlapChars
  \/ Longest(a).chars >= SimilarChars /\ a.ratio >= SimilarPercent

\* What the guard is there to stop: a run that is long in words and in letters.
Copies(a) == {m \in a.runs : m.words >= OverlapWords /\ m.chars >= OverlapChars}

\* The copies that escape it: behind a run of fewer letters that has more words,
\* or as many and stands before it in the same pair.
Hidden(a, m) ==
  \E n \in a.runs :
    /\ n.chars < OverlapChars
    /\ \/ n.words > m.words
       \/ n.words = m.words /\ n.pair = m.pair /\ n.at < m.at
=============================================================================
