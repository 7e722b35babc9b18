--------------------------- MODULE CardPolicyProofs ---------------------------
(***************************************************************************)
(* Proofs about CardPolicy for any entries, settings and answers.          *)
(* PublishedOnItsMerits and OneVoice speak of a card after it was made, so *)
(* the invariant below adds what a run carries from the question it asks   *)
(* the model to the card: the row does not change its source, and the      *)
(* instruction was for it.  CardIsOwnWork needs what a run knows of the    *)
(* answer it judges, and PrimaryIsClear that a row keeps the source it came *)
(* with, and that the matcher's ranking has a best match: the lemmas on     *)
(* finite orders and cross products at the end are for that.               *)
(***************************************************************************)
EXTENDS CardPolicy, FiniteSetTheorems, TLAPS

\* What entitles the entry to a card that goes out by itself.
Merits ==
  \/ row.rights /\ row.licence
  \/ IsPublisher /\ row.primary # None
  \/ /\ IsPublisher
     /\ Text \cap Sensitive = {}
     /\ \/ OwnRelevance.relevant /\ OwnRelevance.score >= AutoRelevance
        \/ ScoredOffTopic

Faithful ==
  /\ stage # "idle" => told = Instructed(row)
  /\ card = None => notices = {}
  /\ card # None =>
       /\ card.rights = row.rights /\ card.licence = row.licence
       /\ card.told = Instructed(row)
       /\ notices \subseteq {card.told}
       /\ card.auto => Merits

IInv == TypeOK /\ Faithful

USE DEF Statuses, Reasons, Output, Citations

\* The readers' source of a row is the one the model is told to cite.
LEMMA SameSource == ASSUME NEW r PROVE Cited(r) = Instructed(r)
  BY DEF Cited, Instructed

LEMMA InstructedType ==
  ASSUME NEW r \in Rows PROVE Instructed(r) \in Citations
  BY DEF Instructed, Rows

\* A step that leaves the entry and the columns alone leaves the source alone.
LEMMA PutKeeps ==
  ASSUME row \in Rows, NEW s \in Statuses, NEW why \in Reasons, Put(s, why),
         UNCHANGED entry
  PROVE /\ row' \in Rows
        /\ row'.status = s
        /\ row'.rights = row.rights /\ row'.licence = row.licence
        /\ row'.primary = row.primary
        /\ Instructed(row)' = Instructed(row)
        /\ Merits' <=> Merits
<1>1. /\ row' \in Rows /\ row'.status = s
      /\ row'.rights = row.rights /\ row'.licence = row.licence
      /\ row'.primary = row.primary
  BY DEF Put, Rows
<1>2. Instructed(row)' = Instructed(row)
  BY <1>1 DEF Instructed, Mode, IsPublisher
<1>3. Merits' <=> Merits
  BY <1>1 DEF Merits, IsPublisher, Text, WordsOf, OwnRelevance, ScoredOffTopic, Breaking
<1>. QED  BY <1>1, <1>2, <1>3

\* The same for a step that does not touch the row.
LEMMA RowKeeps ==
  ASSUME UNCHANGED <<entry, row>>
  PROVE Instructed(row)' = Instructed(row) /\ (Merits' <=> Merits)
<1>1. Instructed(row)' = Instructed(row)
  BY DEF Instructed, Mode, IsPublisher
<1>2. Merits' <=> Merits
  BY DEF Merits, IsPublisher, Text, WordsOf, OwnRelevance, ScoredOffTopic, Breaking
<1>. QED  BY <1>1, <1>2

LEMMA Initially == Init => IInv
<1>. SUFFICES ASSUME Init PROVE IInv
  OBVIOUS
<1>1. changes \in 0..MaxChanges /\ tries \in 0..Retries
  BY RetriesAssumption, ChangesAssumption DEF Init
<1>2. Nobody \in Citations /\ Placeholder \in Output
  OBVIOUS
<1>3. TypeOK
  BY <1>1, <1>2 DEF Init, TypeOK
<1>4. Faithful
  BY DEF Init, Faithful
<1>. QED  BY <1>3, <1>4 DEF IInv

LEMMA IsBoolean == ASSUME NEW x, NEW S PROVE (x \in S) \in BOOLEAN
<1>1. CASE x \in S
  BY <1>1
<1>2. CASE x \notin S
  BY <1>2
<1>. QED  BY <1>1, <1>2

\* Each step preserves the invariant: those of a run first.
LEMMA IngestStep ==
  ASSUME IInv, NEW up \in SUBSET Feed, Ingest(up) PROVE IInv'
<1>1. row' \in Rows
  <2> DEFINE rights == entry.source \in settings.verified
             licence == entry.source \in settings.licensed
             primary == SourceOf(entry, up)
  <2>1. primary \in Sources
    BY DEF IInv, TypeOK, Sources
  <2>2. rights \in BOOLEAN
    BY IsBoolean
  <2>3. licence \in BOOLEAN
    BY IsBoolean
  <2>4. row' = [status |-> "ingested", reason |-> "", primary |-> primary,
                press |-> up, rights |-> rights, licence |-> licence]
    BY DEF Ingest
  <2> HIDE DEF rights, licence, primary
  <2>. QED  BY <2>1, <2>2, <2>3, <2>4 DEF Rows
<1>2. card = None /\ stage = "idle" /\ row'.status = "ingested"
  BY DEF Ingest, IInv, TypeOK
<1>3. TypeOK'
  BY <1>1, <1>2, NothingAssumption DEF Ingest, IInv, TypeOK, world, work
<1>4. Faithful'
  BY <1>2 DEF Ingest, IInv, Faithful, world, work
<1>. QED  BY <1>3, <1>4 DEF IInv

\* A picked row has no card yet.
LEMMA PickedRow ==
  ASSUME IInv, Picked
  PROVE row \in Rows /\ card = None /\ stage = "idle" /\ notices = {}
  BY DEF IInv, TypeOK, Faithful, Picked

LEMMA RejectStep ==
  ASSUME IInv, RejectSource \/ RejectTopic PROVE IInv'
<1>1. /\ row \in Rows /\ card = None /\ stage = "idle" /\ notices = {}
      /\ row' \in Rows /\ row'.status = "filtered"
  BY PickedRow, PutKeeps DEF RejectSource, RejectTopic, world
<1>2. UNCHANGED <<world, aged, work, card, notices>>
  BY DEF RejectSource, RejectTopic
<1>3. TypeOK'
  BY <1>1, <1>2 DEF IInv, TypeOK, world, work
<1>4. Faithful'
  BY <1>1, <1>2 DEF Faithful, work
<1>. QED  BY <1>3, <1>4 DEF IInv

LEMMA TakeUpStep == ASSUME IInv, TakeUp PROVE IInv'
<1>1. /\ row \in Rows /\ card = None /\ notices = {}
      /\ row' \in Rows /\ row'.status = "clustered"
      /\ Instructed(row)' = Instructed(row)
  BY PickedRow, PutKeeps DEF TakeUp, world
<1>2. told' = Instructed(row)'
  BY <1>1 DEF TakeUp
<1>3. TypeOK'
  BY <1>1, InstructedType, RetriesAssumption, NothingAssumption
  DEF IInv, TypeOK, TakeUp, world
<1>4. Faithful'
  BY <1>1, <1>2 DEF Faithful, TakeUp
<1>. QED  BY <1>3, <1>4 DEF IInv

LEMMA AskStep ==
  ASSUME IInv, Retry \/ Fail \/ \E a \in Answers : Answer(a) PROVE IInv'
<1>1. /\ UNCHANGED <<world, row, aged, card, notices, told>>
      /\ stage = "ask" /\ stage' \in {"ask", "judge"}
  BY DEF Retry, Fail, Answer, Conclude
<1>2. pass' \in {"first", "repair"} /\ tries' \in 0..Retries /\ output' \in Output
  BY RetriesAssumption DEF IInv, TypeOK, Retry, Fail, Answer, Conclude
<1>3. TypeOK'
  BY <1>1, <1>2 DEF IInv, TypeOK, world
<1>4. (Instructed(row))' = Instructed(row) /\ (Merits' <=> Merits)
  BY <1>1, RowKeeps DEF world
<1>5. Faithful'
  BY <1>1, <1>4 DEF IInv, Faithful
<1>. QED  BY <1>3, <1>5 DEF IInv

LEMMA DropStep ==
  ASSUME IInv, DropFallback \/ DropGenre PROVE IInv'
<1>1. row \in Rows /\ card = None /\ notices = {}
  BY DEF IInv, TypeOK, Faithful, DropFallback, DropGenre
<1>2. PICK why \in Reasons : Put("filtered", why)
  BY DEF DropFallback, DropGenre
<1>3. UNCHANGED <<world, aged, card, notices>> /\ Done
  BY DEF DropFallback, DropGenre
<1>4. row' \in Rows /\ row'.status = "filtered"
  BY <1>1, <1>2, <1>3, PutKeeps DEF world
<1>5. TypeOK'
  BY <1>1, <1>3, <1>4 DEF IInv, TypeOK, world, Done
<1>6. Faithful'
  BY <1>1, <1>3 DEF Faithful, Done
<1>. QED  BY <1>5, <1>6 DEF IInv

\* The gap is the only way for a score to be high enough without relevance: a
\* denied topic scores less, and so does what is far from every topic.
LEMMA ScoreTells ==
  ASSUME entry \in Samples, OwnRelevance.score >= AutoRelevance
  PROVE  OwnRelevance.relevant \/ ScoredOffTopic
<1>1. /\ entry.near \in Nat /\ entry.far \in Nat
      /\ MinRelevance \in Nat /\ AutoRelevance \in Nat
      /\ MinRelevance <= AutoRelevance /\ 10 < AutoRelevance
  BY SamplesAssumption, LimitsAssumption
<1>2. CASE Breaking
  BY <1>2 DEF OwnRelevance
<1>3. CASE ~Breaking /\ Text \cap Deny # {}
  BY <1>1, <1>3 DEF OwnRelevance
<1>4. CASE ~Breaking /\ Text \cap Deny = {}
  <2>1. /\ OwnRelevance.relevant <=> entry.far <= entry.near /\ entry.near >= MinRelevance
        /\ OwnRelevance.score = entry.near
    BY <1>4 DEF OwnRelevance
  <2>2. CASE entry.far <= entry.near
    BY <1>1, <2>1, <2>2
  <2>3. CASE entry.near < entry.far
    BY <1>1, <1>4, <2>1, <2>3 DEF ScoredOffTopic
  <2>. QED  BY <1>1, <2>2, <2>3
<1>. QED  BY <1>2, <1>3, <1>4

\* The decision is taken with the columns the card copies.
LEMMA CardHasMerits ==
  ASSUME entry \in Samples, row \in Rows, NEW a, NEW new, Publishable(a, new)
  PROVE  Merits
<1>1. CASE Mode(row, row.primary) = "licensed"
  BY <1>1 DEF Mode, Merits
<1>2. CASE Mode(row, row.primary) = "primary"
  BY <1>2 DEF Mode, Merits
<1>3. CASE Mode(row, row.primary) = "missing"
  <2>1. IsPublisher /\ row.primary = None /\ Text \cap Sensitive = {}
    BY <1>3 DEF Mode, Publishable
  <2>2. entry.source \notin Official
    BY <2>1, SourcesAssumption DEF IsPublisher
  <2>3. Score = OwnRelevance.score
    BY <2>1, <2>2 DEF Score, Relevance
  <2>4. OwnRelevance.score >= AutoRelevance
    BY <2>3 DEF Publishable
  <2>. QED  BY <2>1, <2>4, ScoreTells DEF Merits
<1>. QED  BY <1>1, <1>2, <1>3 DEF Mode, Publishable

LEMMA CardStep ==
  ASSUME IInv, NEW new \in BOOLEAN, NEW fresh \in BOOLEAN, MakeCard(new, fresh)
  PROVE IInv'
<1> DEFINE out == Publishable(Guarded, new)
           urgent == Urgent(Guarded.importance, fresh)
<1>1. /\ row \in Rows /\ card = None /\ notices = {} /\ entry \in Samples
      /\ told = Instructed(row) /\ told \in Citations
  BY DEF IInv, TypeOK, Faithful, MakeCard
<1>2. /\ Put("processed", "relevant") /\ Done
      /\ UNCHANGED <<world, aged>>
  BY DEF MakeCard
<1>3. /\ row' \in Rows /\ row'.status = "processed"
      /\ row'.rights = row.rights /\ row'.licence = row.licence
      /\ Instructed(row)' = Instructed(row) /\ (Merits' <=> Merits)
  BY <1>1, <1>2, PutKeeps DEF world
<1>4. card' = [status |-> IF out THEN "published" ELSE "review",
               text |-> Guarded, rights |-> row.rights, licence |-> row.licence,
               urgent |-> urgent, auto |-> out, told |-> told,
               edited |-> FALSE, approved |-> FALSE]
  BY DEF MakeCard
<1>5. Guarded \in Output
  BY DEF Guarded, IInv, TypeOK
<1>6. out \in BOOLEAN
  BY Zenon DEF Publishable
<1>7. urgent \in BOOLEAN
  BY Zenon DEF Urgent
<1>8. card' \in Cards
  <2> HIDE DEF out, urgent
  <2>. QED  BY <1>1, <1>4, <1>5, <1>6, <1>7 DEF Cards, Rows
<1>9. notices' \subseteq {told}
  BY <1>1, SameSource DEF MakeCard, Notified, Instructed, Mode
<1>10. TypeOK'
  BY <1>1, <1>2, <1>3, <1>8, <1>9, NothingAssumption DEF IInv, TypeOK, Done, world
<1>11. card'.auto => Merits
  BY <1>1, <1>4, CardHasMerits
<1>12. Faithful'
  <2> HIDE DEF out, urgent
  <2>1. /\ card'.rights = row.rights /\ card'.licence = row.licence
        /\ card'.told = told
    BY <1>4
  <2>. QED  BY <2>1, <1>1, <1>2, <1>3, <1>8, <1>9, <1>11, NothingAssumption DEF Faithful, Done
<1>. QED  BY <1>10, <1>12 DEF IInv

\* The moderators, the scripts, a restart and time.
LEMMA CardKept ==
  ASSUME IInv, card # None, UNCHANGED <<world, row, aged, work>>,
         card' \in Cards,
         card'.rights = card.rights, card'.licence = card.licence,
         card'.told = card.told, card'.auto = card.auto,
         notices' \subseteq {card.told}
  PROVE IInv'
<1>1. /\ row \in Rows /\ row.status = "processed" /\ card \in Cards
      /\ card.told \in Citations
  BY DEF IInv, TypeOK, Cards
<1>2. (Instructed(row))' = Instructed(row) /\ (Merits' <=> Merits)
  BY RowKeeps DEF world
<1>3. card' # None
  BY NothingAssumption
<1>4. TypeOK'
  BY <1>1, <1>3 DEF IInv, TypeOK, world, work
<1>5. Faithful'
  BY <1>2, <1>3 DEF IInv, Faithful, work
<1>. QED  BY <1>4, <1>5 DEF IInv

\* The card keeps the columns of its row, so its readers see the same source.
LEMMA SeenIsTold == ASSUME IInv, card # None PROVE Seen = card.told
<1> DEFINE copy == [rights |-> card.rights, licence |-> card.licence,
                    primary |-> row.primary]
<1>1. /\ copy.rights = row.rights /\ copy.licence = row.licence
      /\ copy.primary = row.primary /\ card.told = Instructed(row)
  BY DEF IInv, Faithful
<1>2. Instructed(copy) = Instructed(row)
  <2> HIDE DEF copy
  <2>. QED  BY <1>1 DEF Instructed, Mode
<1>. QED  BY <1>1, <1>2, SameSource DEF Seen

LEMMA ModerationStep ==
  ASSUME IInv, \/ Approve \/ Reject \/ \E a \in Answers : Edit(a)
               \/ Quarantine \/ Unpublish
  PROVE IInv'
<1>1. card # None /\ UNCHANGED <<world, row, aged, work>>
  BY DEF Approve, Reject, Edit, Quarantine, Unpublish
<1>2. card \in Cards /\ notices \subseteq {card.told}
  BY <1>1 DEF IInv, TypeOK, Faithful
<1>3. Placeholder \in Output /\ Answers \subseteq Output
  OBVIOUS
<1>4. /\ card' \in Cards
      /\ card'.rights = card.rights /\ card'.licence = card.licence
      /\ card'.told = card.told /\ card'.auto = card.auto
  <2>1. CASE Approve
    BY <1>2, <2>1 DEF Approve, Cards
  <2>2. CASE Reject
    BY <1>2, <2>2 DEF Reject, Cards
  <2>3. CASE \E a \in Answers : Edit(a)
    BY <1>2, <1>3, <2>3 DEF Edit, Cards
  <2>4. CASE Quarantine
    BY <1>2, <1>3, <2>4 DEF Quarantine, Cards
  <2>5. CASE Unpublish
    BY <1>2, <2>5 DEF Unpublish, Cards
  <2>. QED  BY <2>1, <2>2, <2>3, <2>4, <2>5
<1>5. notices' \subseteq {card.told}
  BY <1>1, <1>2, SeenIsTold
  DEF Approve, Reject, Edit, Quarantine, Unpublish, Notified
<1>. QED  BY <1>1, <1>4, <1>5, CardKept

LEMMA BacklogStep == ASSUME IInv, Requeue \/ DropBacklog PROVE IInv'
<1>1. row \in Rows /\ card = None /\ stage = "idle" /\ notices = {}
  BY DEF IInv, TypeOK, Faithful, Requeue, Requeued, DropBacklog
<1>2. UNCHANGED <<world, aged, work, card, notices>>
  BY DEF Requeue, DropBacklog
<1>3. row' \in Rows /\ row'.status \in {"ingested", "filtered"}
  BY <1>1, <1>2, PutKeeps DEF Requeue, DropBacklog, world
<1>4. TypeOK'
  BY <1>1, <1>2, <1>3 DEF IInv, TypeOK, world, work
<1>5. Faithful'
  BY <1>1, <1>2 DEF Faithful, work
<1>. QED  BY <1>4, <1>5 DEF IInv

LEMMA WorldStep ==
  ASSUME IInv, (\E s \in Configs : Reconfigure(s)) \/ Age \/ UNCHANGED vars
  PROVE IInv'
<1>1. UNCHANGED <<entry, row, card, notices>> /\ UNCHANGED <<pass, tries, told, output>>
  BY DEF Reconfigure, Age, vars, world, work
<1>2. stage' \in {stage, "idle"} /\ settings' \in Configs /\ aged' \in BOOLEAN
  BY DEF Reconfigure, Age, vars, world, work, IInv, TypeOK
<1>3. changes' \in 0..MaxChanges
  BY ChangesAssumption DEF Reconfigure, Age, vars, world, IInv, TypeOK
<1>4. (Instructed(row))' = Instructed(row) /\ (Merits' <=> Merits)
  BY <1>1, RowKeeps
<1>5. TypeOK'
  BY <1>1, <1>2, <1>3 DEF IInv, TypeOK
<1>6. Faithful'
  BY <1>1, <1>2, <1>4 DEF IInv, Faithful
<1>. QED  BY <1>5, <1>6 DEF IInv

LEMMA Inductive == IInv /\ [Next]_vars => IInv'
<1>. SUFFICES ASSUME IInv, [Next]_vars PROVE IInv'
  OBVIOUS
<1>1. CASE \E up \in SUBSET Feed : Ingest(up)
  BY <1>1, IngestStep
<1>2. CASE RejectSource \/ RejectTopic
  BY <1>2, RejectStep
<1>3. CASE TakeUp
  BY <1>3, TakeUpStep
<1>4. CASE Retry \/ Fail \/ \E a \in Answers : Answer(a)
  BY <1>4, AskStep
<1>5. CASE DropFallback \/ DropGenre
  BY <1>5, DropStep
<1>6. CASE \E new, fresh \in BOOLEAN : MakeCard(new, fresh)
  BY <1>6, CardStep
<1>7. CASE \/ Approve \/ Reject \/ \E a \in Answers : Edit(a)
           \/ Quarantine \/ Unpublish
  BY <1>7, ModerationStep
<1>8. CASE Requeue \/ DropBacklog
  BY <1>8, BacklogStep
<1>9. CASE (\E s \in Configs : Reconfigure(s)) \/ Age \/ UNCHANGED vars
  BY <1>9, WorldStep
<1>. QED
  BY <1>1, <1>2, <1>3, <1>4, <1>5, <1>6, <1>7, <1>8, <1>9 DEF Next, Pipeline
-----------------------------------------------------------------------------
\* A finite set has an element that nothing in it comes before.
LEMMA Least ==
  ASSUME NEW F, IsFiniteSet(F), F # {}, NEW R,
         \A x \in F : <<x, x>> \notin R,
         \A x, y, z \in F : <<x, y>> \in R /\ <<y, z>> \in R => <<x, z>> \in R
  PROVE  \E x \in F : \A y \in F : <<y, x>> \notin R
<1> DEFINE Under(x) == {y \in F : <<y, x>> \in R}
<1> DEFINE T == {Under(x) : x \in F}
<1>1. IsWellFoundedOn(StrictSubsetOrdering(F), FiniteSubsetsOf(F))
  BY FS_StrictSubsetOrderingWellFounded
<1>2. T \subseteq FiniteSubsetsOf(F) /\ T # {}
  <2>1. \A x \in F : Under(x) \in SUBSET F
    OBVIOUS
  <2>2. \A x \in F : IsFiniteSet(Under(x))
    BY <2>1, FS_Subset
  <2>3. \A x \in F : Under(x) \in FiniteSubsetsOf(F)
    BY <2>1, <2>2 DEF FiniteSubsetsOf
  <2> HIDE DEF Under
  <2>4. QED BY <2>3
<1>3. PICK U \in T : \A V \in T : <<V, U>> \notin StrictSubsetOrdering(F)
  <2> HIDE DEF T
  <2>1. QED BY <1>1, <1>2, WFMin
<1>4. PICK x \in F : U = Under(x)
  BY <1>3
<1>5. ASSUME NEW y \in F, <<y, x>> \in R PROVE FALSE
  <2>1. Under(y) \subseteq Under(x) /\ y \in Under(x) /\ y \notin Under(y)
    BY <1>5
  <2>2. Under(y) \in T /\ Under(y) \subseteq F /\ Under(x) \subseteq F
    OBVIOUS
  <2>3. <<Under(y), Under(x)>> \in StrictSubsetOrdering(F)
    BY <2>1, <2>2 DEF StrictSubsetOrdering
  <2>4. QED BY <1>3, <1>4, <2>2, <2>3
<1>6. QED BY <1>5

\* The values of a function on a finite set.
LEMMA FiniteImage ==
  ASSUME NEW f, IsFiniteSet(DOMAIN f) PROVE IsFiniteSet({f[x] : x \in DOMAIN f})
<1> DEFINE T == {f[x] : x \in DOMAIN f}
           g == [x \in DOMAIN f |-> f[x]]
<1>1. g \in [DOMAIN f -> T] /\ \A t \in T : \E x \in DOMAIN f : g[x] = t
  OBVIOUS
<1>2. g \in Surjection(DOMAIN f, T)
  <2> HIDE DEF g, T
  <2>1. QED BY <1>1 DEF Surjection
<1>3. QED
  <2> HIDE DEF g, T
  <2>1. IsFiniteSet(T)
    BY <1>2, FS_Surjection
  <2>2. QED BY <2>1 DEF T

\* Products of natural numbers keep their order.
LEMMA Times ==
  ASSUME NEW k \in Nat, NEW a \in Int, NEW b \in Int
  PROVE  /\ a <= b => k * a <= k * b
         /\ k > 0 => (a <= b <=> k * a <= k * b) /\ (a < b <=> k * a < k * b)
OBVIOUS

\* Shares are compared by their cross products: a of p, b of q, c of r.
LEMMA Shares ==
  ASSUME NEW a \in Nat, NEW b \in Nat, NEW c \in Nat,
         NEW p \in Nat \ {0}, NEW q \in Nat \ {0}, NEW r \in Nat \ {0},
         a * q >= b * p, b * r >= c * q
  PROVE  /\ a * r >= c * p
         /\ a * q > b * p \/ b * r > c * q => a * r > c * p
<1> DEFINE x == a * q  y == b * p  z == b * r  w == c * q  u == a * r  v == c * p
<1>1. x \in Int /\ y \in Int /\ z \in Int /\ w \in Int /\ u \in Int /\ v \in Int
  OBVIOUS
<1>2. r * x = q * u /\ r * y = p * z /\ p * w = q * v
  OBVIOUS
<1>3. r * y <= r * x /\ p * w <= p * z /\ (y < x => r * y < r * x) /\ (w < z => p * w < p * z)
  <2> HIDE DEF x, y, z, w, u, v
  <2>1. y <= x /\ w <= z
    BY DEF x, y, z, w
  <2>2. QED BY <1>1, <2>1, Times
<1>4. q * v <= q * u /\ (y < x \/ w < z => q * v < q * u)
  <2> HIDE DEF x, y, z, w, u, v
  <2>1. r * x \in Int /\ p * z \in Int /\ q * v \in Int
    BY <1>1
  <2>2. QED BY <1>1, <1>2, <1>3, <2>1
<1>5. v <= u /\ (y < x \/ w < z => v < u)
  <2> HIDE DEF x, y, z, w, u, v
  <2>1. QED BY <1>1, <1>4, Times
<1>6. QED BY <1>5
-----------------------------------------------------------------------------
\* A set that is not empty has a first index.
LEMMA FirstIndex ==
  ASSUME NEW n \in Nat, NEW I \in SUBSET (1 .. n), I # {}
  PROVE  \E i \in I : \A j \in I : i <= j
<1> DEFINE R == {p \in I \X I : p[1] < p[2]}
<1>1. IsFiniteSet(I)
  <2>1. IsFiniteSet(1 .. n)
    BY FS_Interval
  <2>2. QED BY <2>1, FS_Subset
<1>2. PICK i \in I : \A j \in I : <<j, i>> \notin R
  <2>1. \A x \in I : <<x, x>> \notin R
    OBVIOUS
  <2>2. \A x, y, z \in I : <<x, y>> \in R /\ <<y, z>> \in R => <<x, z>> \in R
    OBVIOUS
  <2> HIDE DEF R
  <2>3. QED BY <1>1, <2>1, <2>2, Least
<1>3. ASSUME NEW j \in I PROVE i <= j
  <2>1. <<j, i>> \in I \X I /\ <<j, i>> \notin R /\ i \in Int /\ j \in Int
    <3> HIDE DEF R
    <3>1. QED BY <1>2
  <2>2. ~(j < i)
    BY <2>1
  <2>3. QED BY <2>1, <2>2
<1>4. QED BY <1>3

\* extract_primary_source finds an official page, or the one other page there is.
LEMMA LinkIsClear ==
  ASSUME NEW links, Len(links) \in Nat, DOMAIN links = 1 .. Len(links), OfLinks(links) # None
  PROVE  \E i \in DOMAIN links :
           /\ links[i].url = OfLinks(links).url
           /\ \/ links[i].kind = "official"
              \/ /\ links[i].kind = "other"
                 /\ \A j \in DOMAIN links :
                      links[j].kind \in {"official", "other"}
                        => links[j].url = OfLinks(links).url
<1> DEFINE of(kind) == {i \in DOMAIN links : links[i].kind = kind}
           first(I) == CHOOSE i \in I : \A j \in I : i <= j
           urls == {links[i].url : i \in of("other")}
<1>1. \A kind : of(kind) # {} => first(of(kind)) \in of(kind)
  <2> TAKE kind
  <2>1. of(kind) \in SUBSET (1 .. Len(links))
    OBVIOUS
  <2> HIDE DEF of
  <2>2. QED BY <2>1, FirstIndex
<1>2. OfLinks(links) =
        IF of("official") # {}
        THEN [url |-> links[first(of("official"))].url, name |-> links[first(of("official"))].name]
        ELSE IF Cardinality(urls) = 1
        THEN [url |-> links[first(of("other"))].url, name |-> links[first(of("other"))].name]
        ELSE None
  BY DEF OfLinks
<1>3. CASE of("official") # {}
  <2>1. /\ first(of("official")) \in of("official")
        /\ OfLinks(links).url = links[first(of("official"))].url
    <3> HIDE DEF of, first, urls
    <3>1. QED BY <1>1, <1>2, <1>3
  <2> HIDE DEF first
  <2>2. QED BY <2>1
<1>4. CASE of("official") = {}
  <2>1. Cardinality(urls) = 1 /\ OfLinks(links).url = links[first(of("other"))].url
    <3> HIDE DEF of, first, urls
    <3>1. QED BY <1>2, <1>4
  <2>2. IsFiniteSet(urls)
    <3>1. IsFiniteSet(1 .. Len(links)) /\ of("other") \in SUBSET (1 .. Len(links))
      BY FS_Interval
    <3>2. IsFiniteSet(of("other"))
      BY <3>1, FS_Subset
    <3> DEFINE url == [i \in of("other") |-> links[i].url]
    <3>3. DOMAIN url = of("other") /\ urls = {url[i] : i \in DOMAIN url}
      OBVIOUS
    <3> HIDE DEF of, url, urls
    <3>4. QED BY <3>2, <3>3, FiniteImage
  <2>3. PICK u : urls = {u}
    <3> HIDE DEF urls
    <3>1. QED BY <2>1, <2>2, FS_Singleton
  <2>4. of("other") # {}
    BY <2>3
  <2>5. first(of("other")) \in of("other")
    <3> HIDE DEF first, of
    <3>1. QED BY <1>1, <2>4
  <2> HIDE DEF first
  <2>6. OfLinks(links).url = u /\ \A i \in of("other") : links[i].url = u
    BY <2>1, <2>3, <2>5
  <2>7. QED BY <1>4, <2>5, <2>6
<1>5. QED BY <1>3, <1>4
-----------------------------------------------------------------------------
\* What a release of the catalogue is.
Release(r) == IsFiniteSet(r.words) /\ r.url \in Int

\* OfficialPressCatalog.load: no URL comes twice.
LEMMA CatalogIsClean ==
  ASSUME NEW up \in SUBSET DOMAIN Feeds
  PROVE  /\ \A r \in Catalog(up) : Release(r)
         /\ \A r, s \in Catalog(up) : r.url = s.url => r = s
<1>1. ASSUME NEW r \in Catalog(up)
      PROVE  \E i \in up : /\ \E x \in Feeds[i].releases : r = Named(Feeds[i], x)
                           /\ \A j \in up : j < i => \A y \in Entries(Feeds[j]) : y.url # r.url
                           /\ r \in Entries(Feeds[i])
  BY DEF Catalog, Entries
<1>2. ASSUME NEW i \in up, NEW x \in Feeds[i].releases
      PROVE  /\ Named(Feeds[i], x).url = x.url /\ Named(Feeds[i], x).words = x.words
             /\ IsFiniteSet(x.words) /\ x.url \in Int
  BY FeedsAssumption DEF Named
<1>3. ASSUME NEW r \in Catalog(up) PROVE Release(r)
  BY <1>1, <1>2 DEF Release
<1>4. ASSUME NEW r \in Catalog(up), NEW s \in Catalog(up), r.url = s.url PROVE r = s
  <2>1. PICK i \in up : /\ \E x \in Feeds[i].releases : r = Named(Feeds[i], x)
                        /\ \A j \in up : j < i => \A y \in Entries(Feeds[j]) : y.url # r.url
                        /\ r \in Entries(Feeds[i])
    BY <1>1
  <2>2. PICK k \in up : /\ \E x \in Feeds[k].releases : s = Named(Feeds[k], x)
                        /\ \A j \in up : j < k => \A y \in Entries(Feeds[j]) : y.url # s.url
                        /\ s \in Entries(Feeds[k])
    BY <1>1
  <2>3. i = k
    BY <1>4, <2>1, <2>2, FeedsAssumption
  <2>4. PICK x \in Feeds[i].releases : r = Named(Feeds[i], x)
    BY <2>1
  <2>5. PICK y \in Feeds[i].releases : s = Named(Feeds[i], y)
    BY <2>2, <2>3
  <2>6. x = y
    BY <1>2, <1>4, <2>4, <2>5, FeedsAssumption
  <2>7. QED BY <2>4, <2>5, <2>6
<1>5. QED BY <1>3, <1>4

\* The catalogue is finite.
LEMMA CatalogIsFinite ==
  ASSUME NEW up \in SUBSET DOMAIN Feeds PROVE IsFiniteSet(Catalog(up))
<1> DEFINE all == [i \in up |-> Entries(Feeds[i])]
           sets == {all[i] : i \in DOMAIN all}
<1>1. ASSUME NEW i \in up PROVE IsFiniteSet(Entries(Feeds[i]))
  <2> DEFINE named == [r \in Feeds[i].releases |-> Named(Feeds[i], r)]
  <2>1. IsFiniteSet(Feeds[i].releases)
    BY FeedsAssumption
  <2>2. DOMAIN named = Feeds[i].releases
    OBVIOUS
  <2>3. IsFiniteSet({named[r] : r \in DOMAIN named})
    <3> HIDE DEF named
    <3>1. QED BY <2>1, <2>2, FiniteImage
  <2>4. Entries(Feeds[i]) \in SUBSET {named[r] : r \in DOMAIN named}
    BY DEF Entries
  <2> HIDE DEF named
  <2>5. QED BY <2>3, <2>4, FS_Subset
<1>2. IsFiniteSet(sets) /\ \A T \in sets : IsFiniteSet(T)
  <2>1. IsFiniteSet(1 .. Len(Feeds)) /\ up \in SUBSET (1 .. Len(Feeds))
    BY FeedsAssumption, FS_Interval
  <2>2. IsFiniteSet(up) /\ DOMAIN all = up
    BY <2>1, FS_Subset
  <2>3. \A T \in sets : IsFiniteSet(T)
    BY <1>1
  <2> HIDE DEF all
  <2>4. QED BY <2>2, <2>3, FiniteImage
<1>3. Catalog(up) \in SUBSET UNION sets
  BY DEF Catalog
<1>4. IsFiniteSet(UNION sets)
  <2> HIDE DEF sets
  <2>1. QED BY <1>2, FS_UNION
<1>5. QED
  <2> HIDE DEF sets
  <2>1. QED BY <1>3, <1>4, FS_Subset

\* A text shares no more of a release's words than it has, and a match at least one.
LEMMA Ratio ==
  ASSUME NEW query, NEW r, Release(r)
  PROVE  /\ Hits(query, r) \in Nat /\ Size(r) \in Nat
         /\ Hits(query, r) >= MinShared => Size(r) \in Nat \ {0}
<1> DEFINE shared == {w \in r.words : \E v \in query : Overlap(v, w)}
<1>1. IsFiniteSet(r.words) /\ shared \in SUBSET r.words
  BY DEF Release
<1>2. Cardinality(r.words) \in Nat
  BY <1>1, FS_CardinalityType
<1>3. IsFiniteSet(shared) /\ Cardinality(shared) <= Cardinality(r.words)
  <2> HIDE DEF shared
  <2>1. QED BY <1>1, FS_Subset
<1>4. Cardinality(shared) \in Nat
  <2> HIDE DEF shared
  <2>1. QED BY <1>3, FS_CardinalityType
<1>5. Hits(query, r) = Cardinality(shared) /\ Size(r) = Cardinality(r.words)
  BY DEF Hits, Shared, Size
<1>6. QED
  <2> HIDE DEF shared
  <2>1. QED BY <1>2, <1>3, <1>4, <1>5, MatchAssumption

\* Before is a strict order of the releases that match, and total.
LEMMA Ranking ==
  ASSUME NEW query, NEW F,
         \A r \in F : Release(r) /\ Hits(query, r) \in Nat /\ Size(r) \in Nat \ {0},
         \A r, s \in F : r.url = s.url => r = s
  PROVE  /\ \A r \in F : ~Before(query, r, r)
         /\ \A r, s, t \in F : Before(query, r, s) /\ Before(query, s, t) => Before(query, r, t)
         /\ \A r, s \in F : r # s => Before(query, r, s) \/ Before(query, s, r)
<1>1. ASSUME NEW r \in F PROVE ~Before(query, r, r)
  BY DEF Before, Release
<1>2. ASSUME NEW r \in F, NEW s \in F, NEW t \in F,
             Before(query, r, s), Before(query, s, t)
      PROVE  Before(query, r, t)
  <2> DEFINE a == Hits(query, r)  b == Hits(query, s)  c == Hits(query, t)
             p == Size(r)  q == Size(s)  u == Size(t)
  <2>1. /\ a \in Nat /\ b \in Nat /\ c \in Nat
        /\ p \in Nat \ {0} /\ q \in Nat \ {0} /\ u \in Nat \ {0}
        /\ r.url \in Int /\ s.url \in Int /\ t.url \in Int
    BY DEF Release
  <2>2. /\ a * q > b * p \/ (a * q = b * p /\ (a > b \/ (a = b /\ r.url < s.url)))
        /\ b * u > c * q \/ (b * u = c * q /\ (b > c \/ (b = c /\ s.url < t.url)))
    BY <1>2 DEF Before
  <2>3. a * u > c * p \/ (a * u = c * p /\ (a > c \/ (a = c /\ r.url < t.url)))
    <3> HIDE DEF a, b, c, p, q, u
    <3>1. a * q \in Int /\ b * p \in Int /\ b * u \in Int /\ c * q \in Int
          /\ a * u \in Int /\ c * p \in Int
      BY <2>1
    <3>2. a * q >= b * p /\ b * u >= c * q
      BY <2>2, <3>1
    <3>3. /\ a * u >= c * p
          /\ a * q > b * p \/ b * u > c * q => a * u > c * p
      BY <2>1, <3>2, Shares
    <3>4. CASE a * q > b * p \/ b * u > c * q
      BY <3>3, <3>4
    <3>5. CASE ~(a * q > b * p \/ b * u > c * q)
      <4>1. (a > b \/ (a = b /\ r.url < s.url)) /\ (b > c \/ (b = c /\ s.url < t.url))
        BY <2>2, <3>5
      <4>2. a > c \/ (a = c /\ r.url < t.url)
        BY <2>1, <4>1
      <4>3. a * u > c * p \/ a * u = c * p
        BY <3>1, <3>3
      <4>4. QED BY <4>2, <4>3
    <3>6. QED BY <3>4, <3>5
  <2>4. QED BY <2>3 DEF Before
<1>3. ASSUME NEW r \in F, NEW s \in F, r # s
      PROVE  Before(query, r, s) \/ Before(query, s, r)
  <2>1. r.url \in Int /\ s.url \in Int /\ r.url # s.url
    BY <1>3 DEF Release
  <2>2. Hits(query, r) * Size(s) \in Int /\ Hits(query, s) * Size(r) \in Int
    OBVIOUS
  <2>3. QED BY <2>1, <2>2 DEF Before
<1>4. QED BY <1>1, <1>2, <1>3

\* find_official_release ranks what it finds: there is a best match, and a match
\* as good as that one is a copy of the same release.
LEMMA FindIsClear ==
  ASSUME NEW query, NEW time, NEW up \in SUBSET DOMAIN Feeds,
         Find(query, time, Catalog(up)) # None
  PROVE  LET best == Find(query, time, Catalog(up))
         IN /\ best \in Catalog(up)
            /\ \A s \in Matches(query, time, Catalog(up)) :
                 Hits(query, s) * Size(best) >= Hits(query, best) * Size(s)
                   => SameRelease(best, s)
<1> DEFINE found == Matches(query, time, Catalog(up))
           best == CHOOSE r \in found : \A s \in found \ {r} : Before(query, r, s)
           R == {p \in found \X found : Before(query, p[1], p[2])}
<1>1. found \in SUBSET Catalog(up)
  BY DEF Matches
<1>2. IsFiniteSet(found)
  <2> HIDE DEF found
  <2>1. QED BY <1>1, CatalogIsFinite, FS_Subset
<1>3. /\ \A r \in found : Release(r) /\ Hits(query, r) \in Nat /\ Size(r) \in Nat \ {0}
      /\ \A r, s \in found : r.url = s.url => r = s
  <2>1. \A r \in found : Release(r) /\ Hits(query, r) >= MinShared
    BY <1>1, CatalogIsClean DEF Matches, Hits
  <2>2. \A r, s \in found : r.url = s.url => r = s
    BY <1>1, CatalogIsClean
  <2> HIDE DEF found
  <2>3. QED BY <2>1, <2>2, Ratio
<1>4. /\ \A r \in found : ~Before(query, r, r)
      /\ \A r, s, t \in found : Before(query, r, s) /\ Before(query, s, t) => Before(query, r, t)
      /\ \A r, s \in found : r # s => Before(query, r, s) \/ Before(query, s, r)
  <2> HIDE DEF found
  <2>1. QED BY <1>3, Ranking
<1>5. /\ found # {}
      /\ \A s \in found : Close(query, best, s) => SameRelease(best, s)
      /\ Find(query, time, Catalog(up)) = best
  BY DEF Find
<1>6. \E r \in found : \A s \in found \ {r} : Before(query, r, s)
  <2> HIDE DEF found
  <2>1. \A x \in found : <<x, x>> \notin R
    BY <1>4
  <2>2. \A x, y, z \in found : <<x, y>> \in R /\ <<y, z>> \in R => <<x, z>> \in R
    BY <1>4
  <2>3. PICK x \in found : \A y \in found : <<y, x>> \notin R
    <3> HIDE DEF R
    <3>1. QED BY <1>2, <1>5, <2>1, <2>2, Least
  <2>4. \A y \in found : ~Before(query, y, x)
    BY <2>3
  <2>5. QED BY <1>4, <2>4
<1>7. best \in found /\ \A s \in found \ {best} : Before(query, best, s)
  <2> HIDE DEF found
  <2>1. QED BY <1>6
<1>8. ASSUME NEW s \in found, Hits(query, s) * Size(best) >= Hits(query, best) * Size(s)
      PROVE  SameRelease(best, s)
  <2> HIDE DEF found, best
  <2> DEFINE a == Hits(query, best)  b == Hits(query, s)  p == Size(best)  q == Size(s)
  <2>1. a \in Nat /\ b \in Nat /\ p \in Nat \ {0} /\ q \in Nat \ {0}
    BY <1>3, <1>7
  <2>2. a * q - b * p <= 0 /\ a * q - b * p \in Int
    <3> HIDE DEF a, b, p, q
    <3>1. a * q \in Int /\ b * p \in Int
      BY <2>1
    <3>2. b * p >= a * q
      BY <1>8 DEF a, b, p, q
    <3>3. QED BY <3>1, <3>2
  <2>3. 15 * p * q > 0
    <3> HIDE DEF a, b, p, q
    <3>1. p * q > 0 /\ p * q \in Int
      <4>1. p * 0 < p * q /\ p * 0 = 0
        BY <2>1, Times
      <4>2. QED BY <2>1, <4>1
    <3>2. 15 * p * q = 15 * (p * q)
      BY <2>1
    <3>3. QED BY <3>1, <3>2
  <2>4. 100 * (a * q - b * p) < 15 * p * q
    <3> HIDE DEF a, b, p, q
    <3> DEFINE d == a * q - b * p  e == 15 * p * q
    <3>1. d \in Int /\ d <= 0 /\ e \in Int /\ e > 0
      BY <2>1, <2>2, <2>3
    <3>2. 100 * d < e
      <4> HIDE DEF d, e
      <4>1. QED BY <3>1
    <3>3. QED BY <3>2
  <2>5. Close(query, best, s)
    BY <2>4 DEF Close
  <2>6. QED BY <1>5, <2>5 DEF best
<1>9. QED
  <2> HIDE DEF found, best
  <2>1. best \in Catalog(up)
    BY <1>1, <1>7
  <2>2. QED BY <1>5, <1>8, <2>1 DEF found
-----------------------------------------------------------------------------
\* A row keeps the source it came with, whatever becomes of its status.
Origins == row # None => row.primary = SourceOf(entry, row.press)

LEMMA RowMoves ==
  ASSUME IInv, [Next]_vars
  PROVE  /\ entry' = entry
         /\ row = None => row' = None \/ \E up \in SUBSET Feed : Ingest(up)
         /\ row # None => /\ row' # None
                          /\ row'.primary = row.primary /\ row'.press = row.press
<1>1. CASE \E up \in SUBSET Feed : Ingest(up)
  BY <1>1 DEF Ingest, world
<1>2. CASE \/ Requeue \/ RejectSource \/ RejectTopic \/ TakeUp \/ DropFallback \/ DropGenre
           \/ DropBacklog \/ \E new, fresh \in BOOLEAN : MakeCard(new, fresh)
  <2>1. row \in Rows /\ entry' = entry /\ \E s \in Statuses, why \in Reasons : Put(s, why)
    BY <1>2 DEF IInv, TypeOK, Requeue, RejectSource, RejectTopic, TakeUp, DropFallback,
                DropGenre, DropBacklog, MakeCard, Picked, world
  <2>2. row' \in Rows /\ row'.primary = row.primary /\ row'.press = row.press
    BY <2>1 DEF Put, Rows
  <2>. QED  BY <2>1, <2>2, NothingAssumption
<1>3. CASE \/ Retry \/ Fail \/ (\E a \in Answers : Answer(a))
           \/ Approve \/ Reject \/ (\E a \in Answers : Edit(a)) \/ Quarantine \/ Unpublish
           \/ (\E s \in Configs : Reconfigure(s)) \/ Age \/ UNCHANGED vars
  BY <1>3 DEF Retry, Fail, Answer, Approve, Reject, Edit, Quarantine, Unpublish,
              Reconfigure, Age, vars, world
<1>. QED  BY <1>1, <1>2, <1>3 DEF Next, Pipeline

LEMMA OriginsKept == IInv /\ Origins /\ [Next]_vars => Origins'
<1>. SUFFICES ASSUME IInv, Origins, [Next]_vars PROVE Origins'
  OBVIOUS
<1>1. CASE row # None
  BY <1>1, RowMoves DEF Origins
<1>2. CASE row = None /\ row' = None
  BY <1>2 DEF Origins
<1>3. CASE \E up \in SUBSET Feed : Ingest(up)
  <2>1. PICK up \in SUBSET Feed : Ingest(up)
    BY <1>3
  <2>2. row'.primary = SourceOf(entry, up) /\ row'.press = up /\ entry' = entry
    BY <2>1 DEF Ingest, world
  <2>. QED  BY <2>2 DEF Origins
<1>. QED  BY <1>1, <1>2, <1>3, RowMoves

LEMMA SourceIsClear ==
  ASSUME TitlesTell, IInv, Origins PROVE PrimaryIsClear
<1>. SUFFICES ASSUME row # None, row.primary # None PROVE Clear(row.primary)
  BY DEF PrimaryIsClear
<1>1. row.press \in SUBSET Feed /\ row.primary = SourceOf(entry, row.press) /\ entry \in Samples
  BY DEF IInv, TypeOK, Origins, Rows
<1> DEFINE links == entry.links
           releases == Catalog(row.press)
           best == Find(Text, entry.time, releases)
<1>2. CASE OfLinks(links) # None
  <2>1. row.primary = OfLinks(links)
    BY <1>1, <1>2 DEF SourceOf
  <2>2. Len(links) \in Nat /\ DOMAIN links = 1 .. Len(links)
    BY <1>1, SamplesAssumption
  <2>3. \E i \in DOMAIN links :
          /\ links[i].url = row.primary.url
          /\ \/ links[i].kind = "official"
             \/ /\ links[i].kind = "other"
                /\ \A j \in DOMAIN links :
                     links[j].kind \in {"official", "other"} => links[j].url = row.primary.url
    <3> HIDE DEF links
    <3>. QED  BY <1>2, <2>1, <2>2, LinkIsClear
  <2>. QED  BY <2>3 DEF Clear
<1>3. CASE OfLinks(links) = None
  <2>1. best # None /\ row.primary = [url |-> best.url, name |-> best.name]
    BY <1>1, <1>3 DEF SourceOf, Text
  <2>2. /\ best \in releases
        /\ \A s \in Matches(Text, entry.time, releases) :
             Hits(Text, s) * Size(best) >= Hits(Text, best) * Size(s) => SameRelease(best, s)
    BY <1>1, <2>1, FindIsClear DEF Feed
  <2>3. \A s \in Matches(Text, entry.time, releases) :
          Hits(Text, s) * Size(best) >= Hits(Text, best) * Size(s) => s.event = best.event
    <3>1. \A s \in Matches(Text, entry.time, releases) : s \in releases
      BY DEF Matches
    <3> HIDE DEF best
    <3>. QED  BY <1>1, <2>2, <3>1 DEF TitlesTell
  <2>4. best.url = row.primary.url /\ best.name = row.primary.name
    <3> HIDE DEF best
    <3>. QED  BY <2>1
  <2> HIDE DEF best
  <2>. QED  BY <2>2, <2>3, <2>4 DEF Clear
<1>. QED  BY <1>2, <1>3
-----------------------------------------------------------------------------
\* find_longest_match: of the runs of a pair one is reported, that none is
\* longer than.
LEMMA ReportedRun ==
  ASSUME NEW a \in Answers, NEW c \in a.runs
  PROVE  \E r \in Reported(a) :
           /\ r.pair = c.pair
           /\ c.words < r.words \/ (c.words = r.words /\ r.at <= c.at)
<1> DEFINE F == {n \in a.runs : n.pair = c.pair}
           Sooner(m, n) == n.words < m.words \/ (n.words = m.words /\ m.at < n.at)
           R == {p \in F \X F : Sooner(p[1], p[2])}
<1>1. IsFiniteSet(F) /\ F # {}
  <2>1. IsFiniteSet(a.runs) /\ F \in SUBSET a.runs /\ c \in F
    BY AnswersAssumption
  <2> HIDE DEF F
  <2>. QED  BY <2>1, FS_Subset
<1>2. \A m \in F : m.words \in Nat /\ m.at \in Nat
  BY AnswersAssumption
<1>3. /\ \A x \in F : <<x, x>> \notin R
      /\ \A x, y, z \in F : <<x, y>> \in R /\ <<y, z>> \in R => <<x, z>> \in R
  <2> HIDE DEF F
  <2>. QED  BY <1>2
<1>4. PICK r \in F : \A n \in F : <<n, r>> \notin R
  <2> HIDE DEF F, R
  <2>. QED  BY <1>1, <1>3, Least
<1>5. \A n \in F : n.words < r.words \/ (n.words = r.words /\ r.at <= n.at)
  <2>1. \A n \in F : ~Sooner(n, r)
    BY <1>4
  <2> HIDE DEF F
  <2>. QED  BY <1>2, <2>1
<1>6. r \in Reported(a)
  BY <1>5 DEF Reported
<1>. QED  BY <1>5, <1>6

\* detect_publisher_text_overlap: of what is reported one run is the longest.
LEMMA LongestRun ==
  ASSUME NEW a \in Answers
  PROVE  /\ Longest(a) \in Reported(a) \cup {NoRun}
         /\ \A n \in Reported(a) :
              \/ n.words < Longest(a).words
              \/ n.words = Longest(a).words /\ n.chars <= Longest(a).chars
<1> DEFINE F == Reported(a) \cup {NoRun}
           Longer(m, n) == n.words < m.words \/ (n.words = m.words /\ n.chars < m.chars)
           R == {p \in F \X F : Longer(p[1], p[2])}
<1>1. IsFiniteSet(F) /\ F # {}
  <2>1. Reported(a) \in SUBSET a.runs /\ IsFiniteSet(a.runs)
    BY AnswersAssumption DEF Reported
  <2>2. IsFiniteSet(Reported(a))
    BY <2>1, FS_Subset
  <2>. QED  BY <2>2, FS_AddElement
<1>2. \A m \in F : m.words \in Nat /\ m.chars \in Nat
  BY AnswersAssumption DEF Reported, NoRun
<1>3. /\ \A x \in F : <<x, x>> \notin R
      /\ \A x, y, z \in F : <<x, y>> \in R /\ <<y, z>> \in R => <<x, z>> \in R
  <2> HIDE DEF F
  <2>. QED  BY <1>2
<1>4. PICK m \in F : \A n \in F : <<n, m>> \notin R
  <2> HIDE DEF F, R
  <2>. QED  BY <1>1, <1>3, Least
<1>5. \A n \in F : n.words < m.words \/ (n.words = m.words /\ n.chars <= m.chars)
  <2>1. \A n \in F : ~Longer(n, m)
    BY <1>4
  <2> HIDE DEF F
  <2>. QED  BY <1>2, <2>1
<1>. QED  BY <1>5 DEF Longest

\* publisher_text_guard: a copied run goes unnoticed only behind the run that
\* the guard goes by, or behind the one that is reported of its own pair.
LEMMA CopyIsHidden ==
  ASSUME NEW a \in Answers, ~Suspicious(a), NEW c \in Copies(a)
  PROVE  Hidden(a, c)
<1> DEFINE m == Longest(a)
<1>1. c \in a.runs /\ c.words >= OverlapWords /\ c.chars >= OverlapChars
  BY DEF Copies
<1>2. PICK r \in Reported(a) :
        /\ r.pair = c.pair
        /\ c.words < r.words \/ (c.words = r.words /\ r.at <= c.at)
  BY <1>1, ReportedRun
<1>3. /\ m \in Reported(a) \cup {NoRun}
      /\ \A n \in Reported(a) : n.words < m.words \/ (n.words = m.words /\ n.chars <= m.chars)
  BY LongestRun
<1>4. r \in a.runs /\ Reported(a) \subseteq a.runs
  BY DEF Reported
<1>5. \A n \in a.runs : n.at \in Nat /\ n.words \in Nat /\ n.chars \in Nat
  BY AnswersAssumption
<1>6. m.words \in Nat /\ m.chars \in Nat
  <2> HIDE DEF m
  <2>. QED  BY <1>3, <1>4, <1>5 DEF NoRun
<1>7. ~(m.words >= OverlapWords /\ m.chars >= OverlapChars)
  BY DEF Suspicious
<1> HIDE DEF m
<1>8. r.words <= m.words /\ c.words <= m.words
  BY <1>1, <1>2, <1>3, <1>4, <1>5, <1>6
<1>9. m.chars < OverlapChars
  BY <1>1, <1>5, <1>6, <1>7, <1>8, OverlapAssumption
<1>10. CASE c.words < m.words
  <2>1. m # NoRun
    BY <1>1, <1>5, <1>10 DEF NoRun
  <2>. QED  BY <1>3, <1>4, <1>9, <1>10, <2>1 DEF Hidden
<1>11. CASE c.words = m.words
  <2>1. r.words = c.words /\ r.at <= c.at /\ r.chars <= m.chars
    BY <1>1, <1>2, <1>3, <1>4, <1>5, <1>6, <1>8, <1>11
  <2>2. r.chars < OverlapChars
    BY <1>4, <1>5, <1>6, <1>9, <2>1, OverlapAssumption
  <2>3. r.at # c.at
    <3>1. r.at = c.at => r = c
      BY <1>1, <1>2, <1>4, <2>1, AnswersAssumption
    <3>. QED  BY <1>1, <1>5, <2>2, <3>1, OverlapAssumption
  <2>4. r.at < c.at
    BY <1>1, <1>4, <1>5, <2>1, <2>3
  <2>. QED  BY <1>2, <1>4, <2>1, <2>2, <2>4 DEF Hidden
<1>. QED  BY <1>1, <1>5, <1>6, <1>8, <1>10, <1>11

\* An answer that is judged has passed the parser, or is the placeholder.
Judged == stage = "judge" => output = Placeholder \/ Valid(output)

OwnWork == Judged /\ CardIsOwnWork

LEMMA JudgedKept == IInv /\ Judged /\ [Next]_vars => Judged'
<1>. SUFFICES ASSUME IInv, Judged, [Next]_vars, stage' = "judge"
              PROVE  output' = Placeholder \/ Valid(output)'
  BY DEF Judged
<1>1. CASE Fail
  BY <1>1 DEF Fail, Conclude
<1>2. CASE \E a \in Answers : Answer(a)
  <2>1. PICK a \in Answers : Answer(a)
    BY <1>2
  <2>2. CASE Valid(a) /\ Conclude(a)
    BY <2>2 DEF Conclude, Valid, Genre, ImpactFits
  <2>3. CASE Conclude(Placeholder)
    BY <2>3 DEF Conclude
  <2>4. CASE stage' = stage
    BY <2>1, <2>4 DEF Answer
  <2>. QED  BY <2>1, <2>2, <2>3, <2>4 DEF Answer
<1>3. CASE UNCHANGED <<stage, output>>
  BY <1>3 DEF Judged, Valid, Genre, ImpactFits
<1>4. CASE stage' # "judge"
  BY <1>4
<1>. QED
  BY <1>1, <1>2, <1>3, <1>4
  DEF Next, Pipeline, Ingest, Requeue, RejectSource, RejectTopic, TakeUp, Retry, DropFallback,
      DropGenre, MakeCard, Done, Approve, Reject, Edit, Quarantine, Unpublish, DropBacklog,
      Reconfigure, Age, work, vars
\* MakeCard: what the guard lets through is a card of its own.
LEMMA MadeCard ==
  ASSUME IInv, OwnWork, NEW new \in BOOLEAN, NEW fresh \in BOOLEAN, MakeCard(new, fresh)
  PROVE  CardIsOwnWork'
<1>1. output \in Answers /\ Guarded = output /\ ~Suspicious(output)
  BY DEF MakeCard, Guarded, IInv, TypeOK
<1>2. Valid(output) /\ Genre(output) = "report"
  <2>1. output # Placeholder
    BY <1>1, NamesAssumption
  <2>2. Valid(output)
    BY <2>1 DEF MakeCard, OwnWork, Judged
  <2>. QED  BY <1>1, <2>2 DEF MakeCard, Valid, Genres, DeniedGenres
<1>3. \A m \in Copies(output) : Hidden(output, m)
  BY <1>1, CopyIsHidden
<1>4. card'.text = output /\ output # Placeholder
  BY <1>1, NamesAssumption DEF MakeCard
<1>. QED
  BY <1>2, <1>3, <1>4 DEF CardIsOwnWork, Valid, Genre, ImpactFits, Copies, Hidden

\* Whoever changes a card leaves its text, writes another or takes it back.
LEMMA ChangedCard ==
  ASSUME IInv, OwnWork,
         \/ Approve \/ Reject \/ \E a \in Answers : Edit(a)
         \/ Quarantine \/ Unpublish
  PROVE  CardIsOwnWork'
<1>1. card # None /\ card \in Cards
  BY DEF IInv, TypeOK, Approve, Reject, Edit, Quarantine, Unpublish
<1>2. card' # None
  <2>1. UNCHANGED row /\ IInv'
    BY ModerationStep DEF Approve, Reject, Edit, Quarantine, Unpublish
  <2>. QED  BY <1>1, <2>1 DEF IInv, TypeOK
<1>3. CASE Approve
  <2>1. card'.text = card.text /\ card'.edited = card.edited /\ card'.approved = TRUE
    BY <1>1, <1>3 DEF Approve, Cards
  <2>. QED  BY <1>1, <2>1
       DEF OwnWork, CardIsOwnWork, Valid, Genre, ImpactFits, Copies, Hidden
<1>4. CASE Reject \/ Unpublish
  <2>1. card'.text = card.text /\ card'.edited = card.edited /\ card'.status = "filtered"
    BY <1>1, <1>4 DEF Reject, Unpublish, Cards
  <2>. QED  BY <1>1, <2>1
       DEF OwnWork, CardIsOwnWork, Valid, Genre, ImpactFits, Copies, Hidden
<1>5. CASE \E a \in Answers : Edit(a)
  <2>1. PICK a \in Answers : card' = [card EXCEPT !.text = a, !.edited = TRUE]
    BY <1>5 DEF Edit
  <2>2. card'.text = a /\ card'.edited = TRUE
    BY <1>1, <2>1 DEF Cards
  <2>. QED  BY <2>2, NamesAssumption DEF CardIsOwnWork
<1>6. CASE Quarantine
  <2>1. card'.text = Placeholder /\ card'.status = "review"
    BY <1>1, <1>6 DEF Quarantine, Cards
  <2>. QED  BY <2>1 DEF CardIsOwnWork
<1>. QED  BY <1>3, <1>4, <1>5, <1>6

LEMMA OwnWorkKept == IInv /\ OwnWork /\ [Next]_vars => OwnWork'
<1>. SUFFICES ASSUME IInv, OwnWork, [Next]_vars PROVE CardIsOwnWork'
  BY JudgedKept DEF OwnWork
<1>1. CASE \E new, fresh \in BOOLEAN : MakeCard(new, fresh)
  BY <1>1, MadeCard
<1>2. CASE \/ Approve \/ Reject \/ \E a \in Answers : Edit(a)
           \/ Quarantine \/ Unpublish
  BY <1>2, ChangedCard
<1>3. CASE UNCHANGED card
  BY <1>3 DEF OwnWork, CardIsOwnWork, Valid, Genre, ImpactFits, Copies, Hidden
<1>. QED
  BY <1>1, <1>2, <1>3
  DEF Next, Pipeline, Ingest, Requeue, RejectSource, RejectTopic, TakeUp, Retry, Fail, Answer,
      DropFallback, DropGenre, DropBacklog, Reconfigure, Age, vars

LEMMA MoreInitially == Init => Origins /\ OwnWork
  BY DEF Init, Origins, OwnWork, Judged, CardIsOwnWork
-----------------------------------------------------------------------------
\* Every variable keeps its type, and a row has a card just when it is
\* processed, whatever the feeds, the settings and the model do.
THEOREM TypeCorrect == Spec => []TypeOK
<1>1. IInv => TypeOK
  BY DEF IInv
<1>. QED  BY Initially, Inductive, <1>1, PTL DEF Spec

\* No card goes out by itself without rights, a primary source, or relevance of
\* its own, but for the entries of ScoredOffTopic: decide_status and the score it
\* is given, and what may change later.
THEOREM MeritsHold == Spec => []PublishedOnItsMerits
<1>1. IInv => PublishedOnItsMerits
  BY DEF IInv, Faithful, Merits, PublishedOnItsMerits
<1>. QED  BY Initially, Inductive, <1>1, PTL DEF Spec

\* The instruction, the notices and the readers' page name one source.
THEOREM VoicesAgree == Spec => []OneVoice
<1>1. IInv => OneVoice
  BY SeenIsTold DEF IInv, Faithful, OneVoice
<1>. QED  BY Initially, Inductive, <1>1, PTL DEF Spec

\* A card quotes a primary source only where that is clear: extract_primary_source
\* takes no page of a publisher, and find_official_release no release while one
\* about another event matches as well, given that titles tell events apart.
THEOREM PrimarySourceIsClear == ASSUME TitlesTell PROVE Spec => []PrimaryIsClear
<1>1. IInv /\ Origins => PrimaryIsClear
  BY SourceIsClear
<1>. QED  BY Initially, Inductive, MoreInitially, OriginsKept, <1>1, PTL DEF Spec

\* What a card says has passed the parser and the guard, or a moderator wrote
\* it, and a placeholder is public only by approval: no run, restart, script or
\* moderator in any order gets another text onto a card.
THEOREM OwnWorkHolds == Spec => []CardIsOwnWork
<1>1. OwnWork => CardIsOwnWork
  BY DEF OwnWork
<1>. QED  BY Initially, Inductive, MoreInitially, OwnWorkKept, <1>1, PTL DEF Spec
=============================================================================
