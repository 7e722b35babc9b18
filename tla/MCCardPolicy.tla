----------------------------- MODULE MCCardPolicy -----------------------------
(***************************************************************************)
(* Entries, press releases and answers for TLC: one for each turn the      *)
(* rules of CardPolicy may take.                                           *)
(***************************************************************************)
EXTENDS CardPolicy

SomePublishers == {"spiegel", "bild"}
SomeOfficial == {"eurostat"}
SomeCatalogued == {"spiegel", "bild", "destatis"}

StrongWords == {"explosion"}
IncidentWords == {"amok"}
VenueWords == {"schule"}
SignalWords == {"polizei", "messer"}
WeakWords == {"polizei", "streik", "unfall"}
NoisyWords == {"jetzt"}
NegatedWords == [explosion |-> "keine explosion"]
DenyWords == {"bundesliga", "unfall"}
SensitiveWords == {"messer", "explosion", "amok"}
FlaggedWords == {"wahl"}
WordPrefixes == {<<"brand", "brandursache">>}
AuthorityWords == <<"polizei", "gericht">>

\* Two fires, two copies of the release about one of them, and a company's.
Fire(url, words) ==
  [url |-> url, words |-> words, lead |-> {"polizei"}, time |-> 10, event |-> "koeln"]
OtherFire ==
  [url |-> 3, words |-> {"brandursache", "halle", "bonn"}, lead |-> {}, time |-> 12,
   event |-> "bonn"]
Advert ==
  [url |-> 4, words |-> {"miete", "halle", "rente"}, lead |-> {}, time |-> 10,
   event |-> "advert"]
OldRuling ==
  [url |-> 5, words |-> {"miete", "rente", "gericht"}, lead |-> {}, time |-> 90,
   event |-> "ruling"]

PressFeeds ==
  <<[name |-> "Polizei", mixed |-> FALSE,
     releases |-> {Fire(1, {"brand", "halle", "koeln"}), OtherFire}],
    [name |-> "Behörde", mixed |-> TRUE,
     releases |-> {Fire(2, {"brand", "halle", "koeln", "nacht"}), Advert, OldRuling}]>>

Link(kind, url) == [kind |-> kind, url |-> url, name |-> kind]

Sample(source, title, summary, links, near, far) ==
  [source |-> source, title |-> title, summary |-> summary, links |-> links,
   time |-> 20, near |-> near, far |-> far]

SomeSamples ==
  {Sample("spiegel", {"miete", "rente", "halle"}, {}, <<>>, 60, 20),
   Sample("spiegel", {"rente", "wahl"}, {}, <<>>, 60, 20),
   Sample("spiegel", {"rente"}, {}, <<>>, 40, 20),
   Sample("spiegel", {"rente", "theater"}, {}, <<>>, 60, 70),
   \* a knife attack, without a link and with one
   Sample("spiegel", {"messer", "schule"}, {"polizei"}, <<>>, 20, 20),
   Sample("spiegel", {"messer", "schule"}, {"polizei"},
          <<Link("own", 11), Link("social", 12), Link("other", 13), Link("other", 13)>>, 20, 20),
   \* links that leave it open which one is the source
   Sample("bild", {"rente"}, {}, <<Link("media", 14), Link("other", 13), Link("other", 15)>>, 60, 20),
   Sample("bild", {"rente"}, {}, <<Link("other", 13), Link("official", 16)>>, 60, 20),
   \* a fire that one release, and one that two releases are about
   Sample("bild", {"brand", "halle", "koeln"}, {"polizei"}, <<>>, 20, 30),
   Sample("bild", {"brand", "halle", "koeln"}, {"bonn"}, <<>>, 20, 30),
   \* urgent or not
   Sample("bild", {"jetzt", "rente"}, {"streik"}, <<Link("official", 16)>>, 60, 20),
   Sample("bild", {"streik"}, {"rente"}, <<Link("official", 16)>>, 60, 20),
   Sample("destatis", {"explosion", "rente"}, {"keine explosion"}, <<>>, 60, 20),
   Sample("destatis", {"amok"}, {}, <<>>, 20, 60),
   \* other sources
   Sample("destatis", {"rente"}, {}, <<Link("other", 13)>>, 60, 20),
   Sample("destatis", {"unfall"}, {}, <<>>, 60, 20),
   Sample("eurostat", {"rente"}, {}, <<>>, 20, 60),
   Sample("blog", {"rente"}, {}, <<>>, 60, 20)}

Config(enabled, unverified, pending) ==
  [enabled |-> enabled, unverified |-> unverified, pending |-> pending,
   verified |-> {"destatis", "eurostat", "blog"}, licensed |-> {"destatis", "eurostat"}]

SomeConfigs ==
  {Config({"spiegel", "bild", "destatis"}, TRUE, {}),
   Config({"spiegel", "destatis"}, TRUE, {"bild"}),
   Config({"spiegel", "bild"}, FALSE, {})}

Run(pair, at, words, chars) ==
  [pair |-> pair, at |-> at, words |-> words, chars |-> chars]

Good ==
  [json |-> "object", core |-> "text", genre |-> "missing", impact |-> "single",
   unified |-> "text", angles |-> "", numbers |-> {[value |-> 104, exact |-> FALSE]},
   confidence |-> 90, importance |-> 8, runs |-> {Run(1, 5, 3, 20)}, ratio |-> 20]

SomeAnswers ==
  {Good,
   [Good EXCEPT !.importance = 7, !.genre = "report", !.numbers = {[value |-> 2024, exact |-> FALSE]}],
   [Good EXCEPT !.importance = 3, !.confidence = 70],
   [Good EXCEPT !.genre = "match_color"],
   [Good EXCEPT !.json = "text"],
   [Good EXCEPT !.core = "token"],
   [Good EXCEPT !.impact = "multi"],
   \* a copied run; one behind shorter words of another pair; two as long in
   \* different pairs, and in one; a near-copy
   [Good EXCEPT !.runs = {Run(1, 0, 9, 70)}],
   [Good EXCEPT !.runs = {Run(1, 0, 9, 70), Run(2, 20, 10, 45)}],
   [Good EXCEPT !.runs = {Run(1, 0, 9, 45), Run(2, 20, 9, 70)}],
   [Good EXCEPT !.runs = {Run(1, 0, 9, 45), Run(1, 20, 9, 70)}],
   [Good EXCEPT !.runs = {Run(1, 0, 6, 45)}, !.ratio = 80]}

\* The sample of releases meets the premise of the proof of PrimaryIsClear.
ASSUME SampleTitlesTell == TitlesTell
=============================================================================
