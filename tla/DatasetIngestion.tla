-------------------------- MODULE DatasetIngestion --------------------------
(***************************************************************************)
(* Ingestion of official data: GENESIS tables, Eurostat series and the     *)
(* files of the GovData and data.europa.eu catalogues.  A run visits the   *)
(* configured datasets one after the other; what it fetches becomes a raw  *)
(* news item unless the dataset is known to be unchanged.  The publishers  *)
(* go on revising their data, and the run of the scheduler may overlap one *)
(* started through the API.                                                *)
(*                                                                         *)
(* A revision is <<"upd", NoData, stamp>>, the update stamp of a table, or *)
(* <<"hash", data, stamp>>, the hash of what was fetched; 0 is no stamp.   *)
(***************************************************************************)
EXTENDS Naturals, Sequences, FiniteSets

CONSTANTS
  DataRuns,    \* pipeline runs
  Tables,      \* GENESIS tables
  Series,      \* Eurostat series
  Packages,    \* entries of the two catalogues
  Portal,      \* those of data.europa.eu
  FilesOf(_),  \* the files of an entry, as it lists them
  Tabular(_),  \* a file is text, and no service that answers anew every time
  Path(_),     \* place of the path of a file: CSV first, then newer names
  Visits,      \* the datasets in the order a run visits them
  MaxFiles,    \* files taken of one entry of data.europa.eu
  Data,        \* what a dataset may say
  Refused,     \* data that makes a row the database refuses
  Unreadable,  \* a body over the size limit, or an HTML page
  Raises,      \* a URL at which the client raises what the run does not catch
  Unparsable,  \* a URL that urlparse refuses while the files are picked
  NoData,
  Texts,       \* bound: licence texts, as the markers they contain; {}: no licence
  FirstBodies(_), FirstLicences(_), FirstTerms(_),  \* what they may have to begin with
  NextBodies(_),  \* bound: what a document may be revised to
  MaxChanges,  \* bound: revisions by the publishers
  MaxFaults    \* bound: failed requests and runs that die, together

FilesIn(p) == {FilesOf(p)[i] : i \in DOMAIN FilesOf(p)}
Files == UNION {FilesIn(p) : p \in Packages}
Docs == Tables \cup Series \cup Files
Bodies == Data \cup {Unreadable, Raises, Unparsable}
\* A restriction is respelt when no marker of it matches, as in "CC BY NC 4.0".
Words == {"open", "restricted", "respelt", "other"}
Stamp == 0 .. MaxChanges + 1

ASSUME SizeAssumption == MaxFiles \in Nat /\ MaxChanges \in Nat /\ MaxFaults \in Nat
ASSUME NamesAssumption ==
  /\ NoData \notin Docs /\ NoData \notin Data /\ Refused \subseteq Data
  /\ Data \cap {Unreadable, Raises, Unparsable} = {}
  /\ Unreadable \notin {Raises, Unparsable} /\ Raises # Unparsable
  /\ Texts \subseteq SUBSET Words
  /\ Tables \cap Series = {} /\ (Tables \cup Series) \cap (Files \cup Packages) = {}
ASSUME BodiesAssumption == \A x \in Docs : NextBodies(x) \subseteq Bodies
ASSUME VisitsAssumption ==
  /\ Visits \in Seq(Tables \cup Series \cup Packages)
  /\ \A p \in Packages : FilesOf(p) \in Seq(Files) /\ \A f \in FilesIn(p) : Path(f) \in Nat

\* A file is named by its entry and its own id.
ASSUME FilesAssumption == \A p, q \in Packages : p # q => FilesIn(p) \cap FilesIn(q) = {}

VARIABLES
  world,    \* what the publisher of a document has: its body and its stamp
  licence,  \* the licence text of a file
  terms,    \* the licence text of a catalogue entry
  items,    \* raw_news_items of each document, oldest first
  run,      \* where each run is
  changes,  \* revisions by the publishers so far
  faults,   \* failed requests and dead runs so far
  had       \* history: the licence texts that have covered each file

worldVars == <<world, licence, terms, changes, had>>
dataVars == <<world, licence, terms, items, run, changes, faults, had>>

Revisions == {<<"upd", NoData, s>> : s \in Stamp} \cup {<<"hash", c, s>> : c \in Data, s \in Stamp}
RawItems == [guid : Revisions, rev : Revisions, rights : BOOLEAN, data : Data, blind : BOOLEAN]
\* What a run is doing: where it is, the documents of this dataset that are left, those of
\* them that may be cited, and what it has fetched of the first.
Idle == [stage |-> "idle"]
Opened == [stage : {"body"}, at : 1 .. Len(Visits), docs : SUBSET Docs, stamp : Stamp,
           rights : SUBSET Docs]
Fetched == [stage : {"check"}, at : 1 .. Len(Visits), docs : SUBSET Docs, stamp : Stamp,
            rights : SUBSET Docs, data : Data, hash : Revisions, guid : Revisions]
Fresh == [stage : {"create"}, at : 1 .. Len(Visits), docs : SUBSET Docs, stamp : Stamp,
          rights : SUBSET Docs, data : Data, hash : Revisions, guid : Revisions, seen : Nat]
RunStates == {Idle} \cup [stage : {"visit"}, at : 1 .. Len(Visits) + 1] \cup Opened \cup Fetched \cup Fresh

\* Types; a run that is at a dataset has documents of it left.
DataTypeOK ==
  /\ world \in [Docs -> [body : Bodies, stamp : Stamp]]
  /\ licence \in [Files -> Texts]
  /\ terms \in [Packages -> Texts]
  /\ items \in [Docs -> Seq(RawItems)]
  /\ run \in [DataRuns -> RunStates]
  /\ \A r \in DataRuns : run[r].stage \in {"body", "check", "create"} => run[r].docs # {}
  /\ changes \in 0 .. MaxChanges
  /\ faults \in 0 .. MaxFaults
  /\ had \in [Files -> SUBSET Texts]

\* The licence text that covers a file: its own, or that of its entry.
PackageOf(f) == CHOOSE p \in Packages : \E i \in DOMAIN FilesOf(p) : FilesOf(p)[i] = f
Covering(f) == IF licence[f] # {} THEN licence[f] ELSE terms[PackageOf(f)]

DataInit ==
  /\ world \in {w \in [Docs -> [body : Bodies, stamp : {1}]] :
                  \A x \in Docs : w[x].body \in FirstBodies(x)}
  /\ licence \in {l \in [Files -> Texts] :
                    \A f \in Files : l[f] \in FirstLicences(f)}
  /\ terms \in {l \in [Packages -> Texts] : \A p \in Packages : l[p] \in FirstTerms(p)}
  /\ items = [x \in Docs |-> << >>]
  /\ run = [r \in DataRuns |-> Idle]
  /\ changes = 0
  /\ faults = 0
  /\ had = [f \in Files |-> {Covering(f)}]
-----------------------------------------------------------------------------
\* Mutant: an open licence is recognised before its restriction.
Classify_OpenFirst(text) ==
  IF "open" \in text THEN "allowed"
  ELSE IF "restricted" \in text THEN "blocked" ELSE "unknown"

\* classify_license: any restriction blocks, also that of a licence whose name
\* contains an open one; what is not recognised is unknown, and a respelt
\* restriction is not recognised.
Classify(text) ==
  IF "restricted" \in text THEN "blocked"
  ELSE IF "open" \in text THEN "allowed" ELSE "unknown"

\* _classify_resource_license and classify_distribution_license: the licence of
\* the file, and only when it names none that of the entry.
Verdict(f) == Classify(Covering(f))

\* The order of select_stable_distributions for data.europa.eu, of the listing for GovData.
Listed(f) == CHOOSE i \in DOMAIN FilesOf(PackageOf(f)) : FilesOf(PackageOf(f))[i] = f
Key(f) == IF PackageOf(f) \in Portal THEN Path(f) ELSE 0
Sooner(f, g) == Key(f) < Key(g) \/ (Key(f) = Key(g) /\ Listed(f) < Listed(g))
First(docs) == CHOOSE f \in docs : \A g \in docs \ {f} : Sooner(f, g)

\* The files of an entry that are looked at: of GovData every table, of
\* data.europa.eu the first few.
Readable(p) == {f \in FilesIn(p) : Tabular(f)}
Selected(p) ==
  {f \in Readable(p) : p \in Portal => Cardinality({g \in Readable(p) : Sooner(g, f)}) < MaxFiles}

\* The files of an entry that urlparse refuses, and what they keep from being read:
\* data.europa.eu's selection looks at every file first, GovData's loop at each in turn.
Malformed(p) == {f \in FilesIn(p) : world[f].body = Unparsable}
CutOff(f) == \E g \in Malformed(PackageOf(f)) : PackageOf(f) \in Portal \/ Listed(g) <= Listed(f)

\* The files that are fetched: those whose licence does not forbid it.
Chosen(p) == {f \in Selected(p) : Verdict(f) # "blocked" /\ ~CutOff(f)}

\* genesis_payload_revision strips what changes on every fetch;
\* eurostat_payload_revision keeps the stamp; a file is hashed as it is.
Hash(x, body, stamp, noise) == <<"hash", body, IF x \in Series THEN stamp ELSE 0>>

\* genesis_item_revision: the update stamp when the metadata has one.
Guid(x, stamp, hash) ==
  IF x \in Tables /\ stamp # 0 THEN <<"upd", NoData, stamp>> ELSE hash

HasRawItem(x, guid) == \E i \in DOMAIN items[x] : items[x][i].guid = guid
Latest(x) == items[x][Len(items[x])]

\* Mutant: only the revision of the item itself is looked up.
Known_GuidOnly(x, guid, hash) == HasRawItem(x, guid)

\* _should_skip_genesis_item, and has_raw_item of the others.
Known(x, guid, hash) ==
  \/ HasRawItem(x, guid)
  \/ /\ x \in Tables
     /\ \/ HasRawItem(x, hash)
        \/ items[x] # << >> /\ {Latest(x).guid, Latest(x).rev} \cap {guid, hash} # {}
-----------------------------------------------------------------------------
Fault == faults < MaxFaults /\ faults' = faults + 1

Visiting(n) == [stage |-> "visit", at |-> n]
Fetching(n, docs, stamp, rights) ==
  [stage |-> "body", at |-> n, docs |-> docs, stamp |-> stamp, rights |-> rights]

At(r, stage) == run[r].stage = stage
Doc(r) == First(run[r].docs)

\* The run goes on to its next document, or to the next dataset.
NextDoc(r) ==
  run' = [run EXCEPT ![r] =
    IF @.docs = {Doc(r)} THEN Visiting(@.at + 1)
    ELSE Fetching(@.at, @.docs \ {Doc(r)}, @.stamp, @.rights)]

\* A pipeline run starts with the first dataset ...
Start(r) ==
  /\ At(r, "idle")
  /\ run' = [run EXCEPT ![r] = Visiting(1)]
  /\ UNCHANGED <<worldVars, items, faults>>

\* ... and is done after the last.
FinishRun(r) ==
  /\ At(r, "visit")
  /\ run[r].at > Len(Visits)
  /\ run' = [run EXCEPT ![r] = Idle]
  /\ UNCHANGED <<worldVars, items, faults>>

Target(r) == Visits[run[r].at]
AtDataset(r, kind) == At(r, "visit") /\ run[r].at <= Len(Visits) /\ Target(r) \in kind
Open(r, n, docs, stamp, rights) ==
  run' = [run EXCEPT ![r] = Fetching(n, docs, stamp, rights)]

\* The metadata of a table is asked for its update stamp.
TableMeta(r) ==
  /\ AtDataset(r, Tables)
  /\ Open(r, run[r].at, {Target(r)}, world[Target(r)].stamp, {Target(r)})
  /\ UNCHANGED <<worldVars, items, faults>>

\* Without metadata the hash of the table has to do.
TableMetaDown(r) ==
  /\ AtDataset(r, Tables)
  /\ Fault
  /\ Open(r, run[r].at, {Target(r)}, 0, {Target(r)})
  /\ UNCHANGED <<worldVars, items>>

VisitSeries(r) ==
  /\ AtDataset(r, Series)
  /\ Open(r, run[r].at, {Target(r)}, 0, {Target(r)})
  /\ UNCHANGED <<worldVars, items, faults>>

\* package_show names the files and their licences; an entry without a file
\* to take is passed over.  The exception of urlparse is not caught: the run
\* takes no dataset after this one.
VisitPackage(r) ==
  /\ AtDataset(r, Packages)
  /\ LET docs == Chosen(Target(r))
         last == IF Malformed(Target(r)) # {} THEN Len(Visits) ELSE run[r].at
     IN  IF docs = {} THEN run' = [run EXCEPT ![r] = Visiting(last + 1)]
         ELSE Open(r, last, docs, 0, {f \in Files : Verdict(f) = "allowed"})
  /\ UNCHANGED <<worldVars, items, faults>>

PackageDown(r) ==
  /\ AtDataset(r, Packages)
  /\ Fault
  /\ run' = [run EXCEPT ![r] = Visiting(@.at + 1)]
  /\ UNCHANGED <<worldVars, items>>

\* The document is fetched, as it is at that moment.
Fetch(r) ==
  /\ At(r, "body")
  /\ world[Doc(r)].body \in Data
  /\ \E noise \in {0, 1} :
       LET now == world[Doc(r)]
           hash == Hash(Doc(r), now.body, now.stamp, noise)
       IN  run' = [run EXCEPT ![r] =
             [stage |-> "check", at |-> @.at, docs |-> @.docs, stamp |-> @.stamp,
              rights |-> @.rights, data |-> now.body, hash |-> hash,
              guid |-> Guid(Doc(r), @.stamp, hash)]]
  /\ UNCHANGED <<worldVars, items, faults>>

\* Mutant: the run ends with the first document it cannot read.
Unread_Return(r) ==
  /\ At(r, "body")
  /\ \/ world[Doc(r)].body = Unreadable /\ UNCHANGED faults
     \/ Fault
  /\ run' = [run EXCEPT ![r] = Idle]
  /\ UNCHANGED <<worldVars, items>>

\* A body that is too large or no data, or a failed request: the run counts it
\* and goes on.  Only ResponseTooLargeError, HTTPError and ValueError are caught.
Unread(r) ==
  /\ At(r, "body")
  /\ \/ world[Doc(r)].body = Unreadable /\ UNCHANGED faults
     \/ Fault
  /\ NextDoc(r)
  /\ UNCHANGED <<worldVars, items>>

\* What else the client raises (httpx.InvalidURL) ends the whole run: nothing
\* between the service and PipelineService.run catches it.
Uncaught(r) ==
  /\ At(r, "body")
  /\ world[Doc(r)].body \in {Raises, Unparsable}
  /\ run' = [run EXCEPT ![r] = Idle]
  /\ UNCHANGED <<worldVars, items, faults>>

\* The items of the dataset are looked at ...
Check(r) ==
  /\ At(r, "check")
  /\ IF Known(Doc(r), run[r].guid, run[r].hash) THEN NextDoc(r)
     ELSE run' = [run EXCEPT ![r] =
            [stage |-> "create", at |-> @.at, docs |-> @.docs, stamp |-> @.stamp,
             rights |-> @.rights, data |-> @.data, hash |-> @.hash, guid |-> @.guid,
             seen |-> Len(items[Doc(r)])]]
  /\ UNCHANGED <<worldVars, items, faults>>

\* ... and a new one is committed,
Create(r) ==
  /\ At(r, "create")
  /\ run[r].data \notin Refused
  /\ ~HasRawItem(Doc(r), run[r].guid)
  /\ items' = [items EXCEPT ![Doc(r)] = Append(@,
       [guid |-> run[r].guid, rev |-> run[r].hash, rights |-> Doc(r) \in run[r].rights,
        data |-> run[r].data, blind |-> Len(@) # run[r].seen])]
  /\ NextDoc(r)
  /\ UNCHANGED <<worldVars, faults>>

\* unless another run has just inserted it, when the unique key of source and
\* guid fails the commit, or the row itself is refused (a NUL character, a text
\* longer than its column): the exception ends the whole run.
Conflict(r) ==
  /\ At(r, "create")
  /\ HasRawItem(Doc(r), run[r].guid) \/ run[r].data \in Refused
  /\ run' = [run EXCEPT ![r] = Idle]
  /\ UNCHANGED <<worldVars, items, faults>>

Die(r) ==
  /\ ~At(r, "idle")
  /\ Fault
  /\ run' = [run EXCEPT ![r] = Idle]
  /\ UNCHANGED <<worldVars, items>>
-----------------------------------------------------------------------------
Change == changes < MaxChanges /\ changes' = changes + 1

\* A publisher revises a document that is read at all: a table or series gets
\* a new stamp, also when its figures stay as they are.
Publish(x) ==
  /\ Change
  /\ \E body \in NextBodies(x) :
       world' = [world EXCEPT ![x] = [body |-> body, stamp |-> @.stamp + 1]]
  /\ UNCHANGED <<licence, terms, items, run, faults, had>>

\* A file is put under another licence, or under that of its entry.
Relicense(f) ==
  /\ Change
  /\ \E l \in Texts : licence' = [licence EXCEPT ![f] = l]
  /\ UNCHANGED <<world, terms, items, run, faults>>
  /\ had' = [had EXCEPT ![f] = @ \cup {Covering(f)'}]

Step(r) ==
  \/ Start(r) \/ FinishRun(r)
  \/ TableMeta(r) \/ VisitSeries(r) \/ VisitPackage(r)
  \/ Fetch(r) \/ Unread(r) \/ Uncaught(r) \/ Check(r) \/ Create(r) \/ Conflict(r)

DataNext ==
  \/ \E r \in DataRuns : Step(r) \/ TableMetaDown(r) \/ PackageDown(r) \/ Die(r)
  \/ \E x \in Docs : (x \in Files => Tabular(x)) /\ Publish(x)
  \/ \E f \in Files : Tabular(f) /\ Relicense(f)

DataSpec == DataInit /\ [][DataNext]_dataVars

\* The scheduler starts a run again and again, and a run that is not killed
\* goes on.
DataFairSpec == DataSpec /\ \A r \in DataRuns : WF_dataVars(Step(r))
-----------------------------------------------------------------------------
\* official_data_ingestion.py: a table or a file whose figures have not changed
\* is not told twice in a row, whatever its stamp, and whether its metadata
\* could be read; only a run that did not see the item another run inserted
\* meanwhile may repeat it.
NoEcho ==
  \A x \in Docs \ Series : \A i \in 2 .. Len(items[x]) :
    items[x][i].data = items[x][i - 1].data => items[x][i].blind

\* govdata_ingestion.py, data_europa_ingestion.py: a file becomes news only
\* when some licence it has had does not forbid it in words the gate knows, and
\* it may be cited only when one allowed it: the licence of its entry never
\* overrules its own.  A respelt restriction passes the gate, as an open licence.
LicenceGate ==
  \A f \in Files : \A i \in DOMAIN items[f] :
    /\ \E text \in had[f] : "restricted" \notin text
    /\ items[f][i].rights => \E text \in had[f] : "open" \in text /\ "restricted" \notin text

\* y is read no later than x, of the datasets in the order of a run.
Dataset(x) == IF x \in Files THEN PackageOf(x) ELSE x
NotAfter(y, x) ==
  \E i, j \in DOMAIN Visits :
    /\ Visits[i] = Dataset(y) /\ Visits[j] = Dataset(x)
    /\ i < j \/ (i = j /\ (y = x \/ Sooner(y, x)))

\* The documents at which every run ends that comes to them, and x behind one:
\* a URL that raises, a row that is refused, or a file that cuts off the rest.
Fatal(y) ==
  /\ world[y].body \in {Raises} \cup Refused
  /\ y \in Files => y \in Chosen(PackageOf(y))
CutOffDataset(x) ==
  \/ x \in Files /\ CutOff(x)
  \/ \E p \in Packages : /\ Malformed(p) # {} /\ p # Dataset(x)
                         /\ \E i, j \in DOMAIN Visits : Visits[i] = p /\ Visits[j] = Dataset(x) /\ i < j
Barred(x) == CutOffDataset(x) \/ \E y \in Docs : Fatal(y) /\ NotAfter(y, x)

\* Every revision that stays reaches the database, although requests fail, runs
\* die or end each other with conflicts, and documents before it cannot be read.
\* The known gap: while a document no later than it ends every run that comes
\* to it, it may wait; when that document is mended, it arrives.
Wanted(x) ==
  /\ world[x].body \in Data
  /\ x \in Files => "restricted" \notin Covering(x) /\ x \in Selected(PackageOf(x))
  /\ ~Barred(x)
Arrived(x) == \E i \in DOMAIN items[x] : items[x][i].data = world[x].body
RevisionArrives == \A x \in Docs : []<>(Wanted(x) => Arrived(x))
=============================================================================
