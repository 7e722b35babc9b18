------------------------------ MODULE CardPolicy ------------------------------
(***************************************************************************)
(* The rules that turn one entry of a feed into a card: which source it    *)
(* may come from, what it may cite, what the language model is told and    *)
(* what is made of its answer, whether the card goes out by itself or to a *)
(* moderator, and whom its readers see as its source.  The entry passes    *)
(* through several pipeline runs if it is dropped and taken up again; the  *)
(* settings change between them.  NewsPipeline has the interleaving of     *)
(* runs and entries; here they are one after the other.                    *)
(***************************************************************************)
EXTENDS PrimarySource, ModelAnswer

CONSTANTS
  Publishers,   \* sources of PUBLISHER_EDITORIAL_SOURCE_KEYS
  Official,     \* sources of OFFICIAL_DATA_SOURCE_KEYS
  Catalogued,   \* sources of DEFAULT_RSS_SOURCES
  Eurostat,     \* the official source whose cards need a figure
  \* classes of words
  Strong, Incident, Venue, Signal,   \* of breaking news
  Weak, Noisy,                       \* of urgent news, if confirmed
  Negation,     \* [words of Strong -> the word that takes them back]
  Deny,         \* keywords the relevance filter rejects
  Sensitive,    \* violence and threats to public safety
  ReviewWords,  \* moderation_extra_review_keywords
  \* what may come
  Samples,      \* entries: [source, title, summary, links, time, near, far]
  Configs,      \* settings: [enabled, unverified, pending, verified, licensed]
  Answers,      \* texts of the language model
  \* limits, the scores in percent
  MinRelevance,      \* semantic_relevance_min_score
  AutoRelevance,     \* auto_publish_min_relevance
  AutoConfidence,    \* auto_publish_threshold
  ReviewDuplicates,  \* auto_publish_review_on_duplicate_cluster
  Retries,           \* openai_request_retries
  MaxChanges,        \* bound on changes of the settings
  Nobody, Publisher, Placeholder

ASSUME RetriesAssumption == Retries \in Nat
ASSUME ChangesAssumption == MaxChanges \in Nat
ASSUME SourcesAssumption == Official \cap Publishers = {}
\* The links of an entry are a list, the similarities are percentages.
ASSUME SamplesAssumption ==
  \A e \in Samples : /\ Len(e.links) \in Nat /\ DOMAIN e.links = 1 .. Len(e.links)
                     /\ e.near \in Nat /\ e.far \in Nat
\* 34 and 50 unless they are set to something else; a denied topic scores 10.
ASSUME LimitsAssumption ==
  /\ MinRelevance \in Nat /\ AutoRelevance \in Nat
  /\ MinRelevance <= AutoRelevance /\ 10 < AutoRelevance
\* A pair of segments has one run of a length at a place.
ASSUME AnswersAssumption ==
  \A a \in Answers :
    /\ IsFiniteSet(a.runs)
    /\ \A m \in a.runs : m.at \in Nat /\ m.words \in Nat /\ m.chars \in Nat
    /\ \A m, n \in a.runs :
         m.pair = n.pair /\ m.at = n.at /\ m.words = n.words => m = n
ASSUME NamesAssumption == Nobody # Publisher /\ Placeholder \notin Answers

VARIABLES
  entry,     \* the entry of the feed
  settings,  \* the settings the process has started with
  changes,   \* how often they have changed
  row,       \* its row in raw_news_items, or None
  aged,      \* whether the row is older than the 48 hours of the requeue rules
  stage,     \* the run: "idle", "ask" (the model) or "judge" (its answer)
  pass,      \* the first question or the one for a repair
  tries,     \* requests made for it
  told,      \* the source the model has been told to cite
  output,    \* the answer, or Placeholder
  card,      \* its row in processed_news, or None
  notices    \* sources that Telegram notices have named

work == <<stage, pass, tries, told, output>>
world == <<entry, settings, changes>>
vars == <<world, row, aged, work, card, notices>>

WordsOf(e) == e.title \cup e.summary
Text == WordsOf(entry)
IsPublisher == entry.source \in Publishers
-----------------------------------------------------------------------------
(* The rules.                                                              *)

\* enabled_rss_sources
Readable(source, s) ==
  /\ source \in s.enabled \ s.pending
  /\ source \in s.verified \/ s.unverified

\* is_source_allowed_for_publication, for a row with or without rights.
Allowed(source, rights, s) ==
  \/ source \notin Catalogued /\ rights
  \/ /\ source \in Catalogued /\ Readable(source, s)
     /\ (rights \/ s.unverified)

\* is_breaking_news
Breaking ==
  \/ \E w \in Text \cap Strong : ~(w \in DOMAIN Negation /\ Negation[w] \in Text)
  \/ Text \cap Incident # {}
  \/ Text \cap Venue # {} /\ Text \cap Signal # {}

\* ev_is_urgent_news
Urgent(importance, fresh) ==
  \/ Breaking
  \/ /\ entry.title \cap Weak # {}
     /\ \/ entry.summary \cap Weak # {}
        \/ importance >= 8
        \/ fresh /\ importance >= 7
  \/ /\ entry.title \cap Noisy # {}
     /\ (importance >= 8 \/ Text \cap Weak # {})

\* RelevanceFilterService.evaluate: near and far are the similarities to the
\* closest anchor of daily life and to the closest off-topic one.
OwnRelevance ==
  IF Breaking THEN [relevant |-> TRUE, score |-> 90]
  ELSE IF Text \cap Deny # {} THEN [relevant |-> FALSE, score |-> 10]
  ELSE [relevant |-> entry.far <= entry.near /\ entry.near >= MinRelevance,
        score |-> entry.near]

Relevance(bypass) ==
  IF entry.source \in Official \/ (bypass /\ settings.unverified /\ IsPublisher)
  THEN [relevant |-> TRUE, score |-> 100]
  ELSE OwnRelevance

\* resolve_news_origin_mode, for a row.
Mode(r, primary) ==
  IF r.rights /\ r.licence THEN "licensed"
  ELSE IF ~IsPublisher THEN "none"
  ELSE IF primary # None THEN "primary" ELSE "missing"

\* publisher_editorial_instructions: the source the text is to name.
Instructed(r) ==
  IF Mode(r, r.primary) = "primary" THEN r.primary
  ELSE IF Mode(r, r.primary) = "missing" THEN Nobody ELSE Publisher

\* Mutant: a publisher is named when its entry has no other source.
Cited_Anyone(r) ==
  IF Mode(r, r.primary) = "primary" THEN r.primary ELSE Publisher

\* public_source_fields: the source that readers see.
Cited(r) ==
  IF Mode(r, r.primary) = "primary" THEN r.primary
  ELSE IF Mode(r, r.primary) = "missing" THEN Nobody ELSE Publisher
-----------------------------------------------------------------------------
\* The source an entry comes with: a link of its own, or for a publisher the
\* press release that matches, of the feeds that answer.
SourceOf(e, up) ==
  LET release == Find(WordsOf(e), e.time, Catalog(up))
  IN IF OfLinks(e.links) # None THEN OfLinks(e.links)
     ELSE IF e.source \in Publishers /\ release # None
          THEN [url |-> release.url, name |-> release.name]
     ELSE None

Statuses == {"ingested", "filtered", "clustered", "processed"}
Reasons == {"", "source_not_enabled", "not_relevant", "relevant", "fallback", "story_kind"}
Output == Answers \cup {Placeholder}
Feed == DOMAIN Feeds
Sources == {SourceOf(e, up) : e \in Samples, up \in SUBSET Feed}
Rows == [status : Statuses, reason : Reasons, press : SUBSET Feed,
         primary : Sources,
         rights : BOOLEAN, licence : BOOLEAN]
Citations == Sources \cup {Nobody, Publisher}
Cards == [status : {"published", "review", "filtered"}, text : Output,
          rights : BOOLEAN, licence : BOOLEAN, urgent : BOOLEAN, auto : BOOLEAN,
          told : Citations, edited : BOOLEAN, approved : BOOLEAN]

ASSUME NothingAssumption == None \notin Rows \cup Cards

TypeOK ==
  /\ entry \in Samples /\ settings \in Configs
  /\ changes \in 0..MaxChanges
  /\ row \in Rows \cup {None}
  /\ aged \in BOOLEAN
  /\ stage \in {"idle", "ask", "judge"} /\ pass \in {"first", "repair"}
  /\ tries \in 0..Retries
  /\ told \in Citations /\ output \in Output
  /\ card \in Cards \cup {None}
  /\ notices \subseteq Citations
  \* a run works on a row, and a row with a card is not taken up again
  /\ stage # "idle" => row # None /\ row.status = "clustered"
  /\ card # None <=> row # None /\ row.status = "processed"

Init ==
  /\ entry \in Samples
  /\ settings \in Configs
  /\ changes = 0
  /\ row = None
  /\ aged = FALSE
  /\ stage = "idle" /\ pass = "first" /\ tries = 0
  /\ told = Nobody /\ output = Placeholder
  /\ card = None
  /\ notices = {}

\* RSSIngestionService.run and the dataset services: create_raw_item.
Ingest(up) ==
  /\ row = None
  /\ entry.source \in Catalogued => Readable(entry.source, settings)
  /\ row' = [status |-> "ingested", reason |-> "",
             primary |-> SourceOf(entry, up), press |-> up,
             rights |-> entry.source \in settings.verified,
             licence |-> entry.source \in settings.licensed]
  /\ UNCHANGED <<world, aged, work, card, notices>>

\* Mutant: rows of any age are requeued.
Requeued_AnyAge ==
  /\ row.status = "filtered"
  /\ \/ Breaking /\ Allowed(entry.source, row.rights, settings)
     \/ row.reason # "fallback" /\ entry.source \in Official
     \/ /\ row.reason # "fallback" /\ settings.unverified
        /\ IsPublisher /\ entry.source \notin settings.pending

\* requeue_filtered_breaking_news, _official_data and _publisher_sources
Requeued ==
  /\ row.status = "filtered" /\ ~aged
  /\ \/ Breaking /\ Allowed(entry.source, row.rights, settings)
     \/ row.reason # "fallback" /\ entry.source \in Official
     \/ /\ row.reason # "fallback" /\ settings.unverified
        /\ IsPublisher /\ entry.source \notin settings.pending

Put(status, reason) == row' = [row EXCEPT !.status = status, !.reason = reason]

\* A run first takes back what the rules requeue.
Requeue ==
  /\ stage = "idle" /\ row # None
  /\ Requeued
  /\ Put("ingested", "")
  /\ UNCHANGED <<world, aged, work, card, notices>>

\* It works through the entries that nothing was decided about.
Picked == stage = "idle" /\ row # None /\ row.status = "ingested"

RejectSource ==
  /\ Picked
  /\ ~Allowed(entry.source, row.rights, settings)
  /\ Put("filtered", "source_not_enabled")
  /\ UNCHANGED <<world, aged, work, card, notices>>

RejectTopic ==
  /\ Picked
  /\ Allowed(entry.source, row.rights, settings)
  /\ ~Relevance(TRUE).relevant
  /\ Put("filtered", "not_relevant")
  /\ UNCHANGED <<world, aged, work, card, notices>>

\* The model is asked, with the editorial rules for the entry's source.
TakeUp ==
  /\ Picked
  /\ Allowed(entry.source, row.rights, settings)
  /\ Relevance(TRUE).relevant
  /\ Put("clustered", "relevant")
  /\ stage' = "ask" /\ pass' = "first" /\ tries' = 0
  /\ told' = Instructed(row)
  /\ UNCHANGED <<world, aged, output, card, notices>>

\* OpenAILLMProvider._chat: 429 and the like are retried.
Retry ==
  /\ stage = "ask"
  /\ tries < Retries
  /\ tries' = tries + 1
  /\ UNCHANGED <<world, row, aged, stage, pass, told, output, card, notices>>

Conclude(a) == stage' = "judge" /\ output' = a /\ UNCHANGED <<pass, tries, told>>

\* Any other failure, in either pass, and a status that has been retried.
Fail ==
  /\ stage = "ask"
  /\ Conclude(Placeholder)
  /\ UNCHANGED <<world, row, aged, card, notices>>

\* _process_news_inner: one repair of an answer that is not valid.
Answer(a) ==
  /\ stage = "ask"
  /\ \/ Valid(a) /\ Conclude(a)
     \/ ~Valid(a) /\ pass = "repair" /\ Conclude(Placeholder)
     \/ /\ ~Valid(a) /\ pass = "first"
        /\ pass' = "repair" /\ tries' = 0
        /\ UNCHANGED <<stage, told, output>>
  /\ UNCHANGED <<world, row, aged, card, notices>>

\* guard_llm_output
Guarded ==
  IF output # Placeholder /\ Suspicious(output) THEN Placeholder ELSE output

Done == stage' = "idle" /\ UNCHANGED <<pass, tries, told, output>>

DropFallback ==
  /\ stage = "judge"
  /\ Guarded = Placeholder
  /\ Put("filtered", "fallback")
  /\ Done
  /\ UNCHANGED <<world, aged, card, notices>>

DropGenre ==
  /\ stage = "judge"
  /\ Guarded # Placeholder /\ Genre(Guarded) \in DeniedGenres
  /\ Put("filtered", "story_kind")
  /\ Done
  /\ UNCHANGED <<world, aged, card, notices>>

\* Mutant: the score of the bypass is used.
Score_Bypass == Relevance(TRUE).score

\* The bypass for publishers lets every entry be drafted; without another
\* source its card is judged by the relevance of its own.
Score == Relevance(~(IsPublisher /\ row.primary = None)).score

\* PublicationService.decide_status, and the figure a Eurostat card must have.
Publishable(a, new) ==
  /\ Mode(row, row.primary) # "none"
  /\ Mode(row, row.primary) = "missing" => Text \cap Sensitive = {}
  /\ Text \cap ReviewWords = {}
  /\ Score >= AutoRelevance
  /\ new \/ ~ReviewDuplicates
  /\ a.confidence >= AutoConfidence
  /\ entry.source = Eurostat => Concrete(a)

Notified(source) == notices' \in {notices, notices \cup {source}}

\* The card, and the notice of an urgent one; new tells whether its story is,
\* fresh whether the entry is dated within the hours of urgent news.
MakeCard(new, fresh) ==
  LET out == Publishable(Guarded, new)
      urgent == Urgent(Guarded.importance, fresh)
  IN /\ stage = "judge"
     /\ Guarded # Placeholder /\ Genre(Guarded) \notin DeniedGenres
     /\ card' = [status |-> IF out THEN "published" ELSE "review",
                 text |-> Guarded, rights |-> row.rights, licence |-> row.licence,
                 urgent |-> urgent,
                 auto |-> out, told |-> told, edited |-> FALSE, approved |-> FALSE]
     /\ IF out /\ urgent
        THEN Notified(IF IsPublisher THEN Cited(row) ELSE Publisher)
        ELSE UNCHANGED notices
     /\ Put("processed", "relevant")
     /\ Done
     /\ UNCHANGED <<world, aged>>
-----------------------------------------------------------------------------
\* attribution_from_processed: rights and licence of the card, the primary
\* source of its entry.
Seen == Cited([rights |-> card.rights, licence |-> card.licence,
               primary |-> row.primary])

\* POST /moderation/{id}/action and PATCH /moderation/{id}/metadata
Approve ==
  /\ card # None
  /\ card' = [card EXCEPT !.status = "published", !.approved = TRUE]
  /\ IF card.status = "review" THEN Notified(Seen) ELSE UNCHANGED notices
  /\ UNCHANGED <<world, row, aged, work>>

Reject ==
  /\ card # None
  /\ card' = [card EXCEPT !.status = "filtered"]
  /\ UNCHANGED <<world, row, aged, work, notices>>

Edit(a) ==
  /\ card # None /\ card.status = "review"
  /\ card' = [card EXCEPT !.text = a, !.edited = TRUE]
  /\ UNCHANGED <<world, row, aged, work, notices>>

\* scripts/audit_published_text_overlap.py --apply
Quarantine ==
  /\ card # None /\ card.status = "published"
  /\ card.text # Placeholder /\ Suspicious(card.text)
  /\ card' = [card EXCEPT !.status = "review", !.text = Placeholder,
                          !.edited = FALSE, !.approved = FALSE]
  /\ UNCHANGED <<world, row, aged, work, notices>>

\* scripts/unpublish_disabled_rss_sources.py --apply
Disabled(rights) == ~Allowed(entry.source, rights, settings)

Unpublish ==
  /\ card # None /\ card.status = "published" /\ Disabled(card.rights)
  /\ card' = [card EXCEPT !.status = "filtered"]
  /\ UNCHANGED <<world, row, aged, work, notices>>

DropBacklog ==
  /\ row # None /\ row.status = "ingested" /\ Disabled(row.rights)
  /\ Put("filtered", "source_not_enabled")
  /\ UNCHANGED <<world, aged, work, card, notices>>

\* The process starts again with other settings; a run that is under way ends.
Reconfigure(s) ==
  /\ changes < MaxChanges
  /\ settings' = s /\ changes' = changes + 1
  /\ stage' = "idle"
  /\ UNCHANGED <<entry, row, aged, pass, tries, told, output, card, notices>>

Age ==
  /\ row # None /\ ~aged
  /\ aged' = TRUE
  /\ UNCHANGED <<world, row, work, card, notices>>

Pipeline ==
  \/ \E up \in SUBSET Feed : Ingest(up)
  \/ Requeue \/ RejectSource \/ RejectTopic \/ TakeUp
  \/ Retry \/ Fail \/ \E a \in Answers : Answer(a)
  \/ DropFallback \/ DropGenre
  \/ \E new, fresh \in BOOLEAN : MakeCard(new, fresh)

Next ==
  \/ Pipeline
  \/ Approve \/ Reject \/ \E a \in Answers : Edit(a)
  \/ Quarantine \/ Unpublish \/ DropBacklog
  \/ \E s \in Configs : Reconfigure(s)
  \/ Age

Spec == Init /\ [][Next]_vars
\* The scheduler runs the pipeline every hour, and time passes.
FairSpec == Spec /\ WF_vars(Pipeline) /\ WF_vars(Age)
-----------------------------------------------------------------------------
\* The gap of the gate on relevance: evaluate rejects an entry closer to an
\* off-topic anchor than to one of daily life and still scores it by the latter,
\* and decide_status asks for the score only.
ScoredOffTopic ==
  /\ ~Breaking /\ Text \cap Deny = {}
  /\ entry.near < entry.far /\ AutoRelevance <= entry.near

\* A card goes out without a moderator only if its source may be cited, or if
\* a primary source is cited in its place, or, with neither, if it reports no
\* violence and evaluate finds it relevant by itself, not by the publishers'
\* bypass, with a score that is high enough; or else in the gap above.
PublishedOnItsMerits ==
  card # None /\ card.auto =>
    \/ row.rights /\ row.licence
    \/ IsPublisher /\ row.primary # None
    \/ /\ IsPublisher
       /\ Text \cap Sensitive = {}
       /\ \/ OwnRelevance.relevant /\ OwnRelevance.score >= AutoRelevance
          \/ ScoredOffTopic

\* The text was written for the source its readers see, and so were the
\* notices: the three places that work out the source of a card agree.
OneVoice == card # None => \A source \in notices \cup {Seen} : source = card.told

\* Releases with nearly the same title are about one event: _is_same_release
\* takes them for copies of one release.
TitlesTell ==
  \A up \in SUBSET Feed : \A r, s \in Catalog(up) :
    SameRelease(r, s) => r.event = s.event

\* An entry is given a primary source only when that is clear: no page of the
\* publisher, of another medium or a network, an official link, or the only
\* link there is, and no release while one about another event matches as well.
Clear(source) ==
  \/ \E i \in DOMAIN entry.links :
       /\ entry.links[i].url = source.url
       /\ \/ entry.links[i].kind = "official"
          \/ /\ entry.links[i].kind = "other"
             /\ \A j \in DOMAIN entry.links :
                  entry.links[j].kind \in {"official", "other"}
                    => entry.links[j].url = source.url
  \/ \E r \in Catalog(row.press) :
       /\ r.url = source.url /\ r.name = source.name
       /\ ~\E s \in Matches(Text, entry.time, Catalog(row.press)) :
            s.event # r.event /\ Hits(Text, s) * Size(r) >= Hits(Text, r) * Size(s)

PrimaryIsClear == row # None /\ row.primary # None => Clear(row.primary)

\* What a card says is a valid report that does not copy the feed, or a text a
\* moderator wrote, or the placeholder, which is public only if approved.  The
\* copies that are known to pass are those that are Hidden.
CardIsOwnWork ==
  card # None =>
    IF card.text = Placeholder THEN card.status = "published" => card.approved
    ELSE \/ card.edited
         \/ /\ Valid(card.text) /\ Genre(card.text) = "report"
            /\ \A m \in Copies(card.text) : Hidden(card.text, m)

\* An entry is not taken up for ever: it ends as a card, dropped, or where a
\* restart has cut its run off.
EventuallySettled ==
  <>[](stage = "idle" /\ (row # None => row.status # "ingested"))
=============================================================================
