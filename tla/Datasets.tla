------------------------------ MODULE Datasets ------------------------------
(***************************************************************************)
(* The way of a dataset from a pinned snapshot to the run that is recorded *)
(* against it: `evalctl dataset materialize` (evaldatasets/materialize.py) *)
(* turns a snapshot into a pack directory, `evalctl run` loads and         *)
(* validates a pack (datasets/loader.py, validator.py) and registers       *)
(* dataset, template and model in one transaction (services/evaluation.py, *)
(* repositories).  Any number of both run at once, operators replace the   *)
(* snapshot and its pin and edit packs by hand, and commands may die.      *)
(*                                                                         *)
(* A step is one access to the file system or one statement of the store.  *)
(***************************************************************************)
EXTENDS PackPolicy

CONSTANTS
    Materializers, Evaluators,
    Outputs,          \* directories a pack may live in
    InFixtures,       \* those below a fixtures/ directory
    Snapshots,        \* contents of the source file: sequences of items
    Pins,             \* contents of the pin beside it: [revision, digest, url]
    JobsOf,           \* [Materializers -> SUBSET jobs]: what a command may be asked
    HandManifests,    \* manifest.yaml and cases.jsonl of packs written by hand,
    HandCases,        \* without schema_version
    InitialShelves,   \* packs there may be at first: [Outputs -> packs]
    Requests,         \* what `evalctl run` may be asked: pack, template, final flag
    MaxEdits,         \* bound: replaced snapshots, pins and edited packs
    MaxDeaths,        \* bound: commands that die
    ModelIdentity, Capabilities, Nothing

Tables == {"datasets", "templates", "models"}
HandMade == [manifest: HandManifests, cases: HandCases, torn: {FALSE}]

ASSUME DatasetsAssumption ==
    /\ Nothing \notin Snapshots
    /\ \A m \in Materializers : \A j \in JobsOf[m] :
        /\ j.adapter \in Adapters /\ j.out \in Outputs /\ j.seed \in Seeds
        /\ j.size \in Nat /\ j.tier \in Tiers
    /\ \A h \in HandManifests : h.schema = NoValue
    /\ InitialShelves \subseteq [Outputs -> HandMade \cup {Nothing}]
    /\ \A s \in Seeds : \A i, j \in DOMAIN Rank[s] : Rank[s][i] = Rank[s][j] => i = j
    /\ \A q \in Requests : q.out \in Outputs /\ q.final \in BOOLEAN

\* A snapshot is a finite file, and every id in it has its place in the order
\* of every sample that is asked for.
ASSUME SamplesAssumption ==
    /\ NoValue \notin Snapshots /\ \A p \in Pins : p.revision # NoValue
    /\ \A s \in Snapshots : s \in Seq({s[i] : i \in DOMAIN s})
    /\ \A m \in Materializers : \A j \in JobsOf[m], s \in Snapshots : \A i \in DOMAIN s :
        LET id == IdOf(Adapter(j.adapter).parser, i, s[i])
        IN  id # NoId =>
                id # NoValue /\ id \in DOMAIN Rank[j.seed] /\ Rank[j.seed][id] \in Int

VARIABLES
    \* the file system
    source,      \* the snapshot
    pin,         \* <snapshot>.pin.yaml: the revision and digest it states
    shelf,       \* [Outputs -> packs]: what a reader finds there
    temps,       \* staging directories, by the command that made them
    \* materialize_dataset
    mpc, job,
    pinned,      \* revision, digest and address the pack will state
    chosen,      \* the cases it will hold
    torn,        \* the snapshot was replaced between its digest and its cases
    \* EvaluationService.run, up to the run it records
    epc, asked,
    pack,        \* what was loaded so far
    at,          \* the table its transaction has reached
    own,         \* the rows its transaction inserted
    tables,      \* committed rows: [Tables -> SUBSET rows]
    runs,        \* committed runs
    \* bounds
    edits, deaths

files == <<source, pin, shelf, temps>>
maker == <<mpc, job, pinned, chosen, torn>>
taker == <<epc, asked, pack, at, own>>
database == <<tables, runs>>
bounds == <<edits, deaths>>
vars == <<files, maker, taker, database, bounds>>

Init ==
    /\ source \in Snapshots
    /\ pin \in Pins
    /\ shelf \in InitialShelves
    /\ temps = [m \in Materializers |-> {}]
    /\ mpc = [m \in Materializers |-> "idle"]
    /\ job = [m \in Materializers |-> Nothing]
    /\ pinned = [m \in Materializers |-> Nothing]
    /\ chosen = [m \in Materializers |-> {}]
    /\ torn = [m \in Materializers |-> FALSE]
    /\ epc = [e \in Evaluators |-> "idle"]
    /\ pack = [e \in Evaluators |-> Nothing]
    /\ asked = [e \in Evaluators |-> Nothing]
    /\ at = [e \in Evaluators |-> "datasets"]
    /\ own = [e \in Evaluators |-> {}]
    /\ tables = [t \in Tables |-> {}]
    /\ runs = {}
    /\ edits = 0 /\ deaths = 0

-----------------------------------------------------------------------------
(* materialize_dataset.                                                    *)

MGoto(m, place) == mpc' = [mpc EXCEPT ![m] = place]

\* Raising, or returning, leaves no staging directory (the finally clause).
Op_MEnds(m) == MGoto(m, "done") /\ UNCHANGED temps
MEnds(m) ==
    /\ MGoto(m, "done")
    /\ temps' = [temps EXCEPT ![m] = {}]

Refuse(m) ==
    /\ MEnds(m)
    /\ UNCHANGED <<source, pin, shelf, job, pinned, chosen, torn, taker, database, bounds>>

\* Everything that is decided before the snapshot is opened.
Admissible(j) ==
    /\ shelf[j.out] = Nothing
    /\ WithinTier(j.tier, j.size)
    /\ MayWrite(j.adapter, j.out \in InFixtures)

StartJob(m, j) ==
    /\ mpc[m] = "idle"
    /\ job' = [job EXCEPT ![m] = j]
    /\ MGoto(m, IF Admissible(j) THEN "digest" ELSE "done")
    /\ UNCHANGED <<files, pinned, chosen, torn, taker, database, bounds>>

\* _load_external_pin: the pin states a revision and an address, those of the
\* adapter where it has its own.
PinFits(spec) ==
    /\ pin.revision \notin Blank /\ pin.url \notin Relative
    /\ spec.revision # "operator-pinned" => pin.revision = spec.revision
    /\ spec.url # NoValue => pin.url = spec.url

\* _source_pin: the digest of the bytes, and for an external source the pin
\* that has to agree with it.
TakeDigest(m) ==
    LET spec == Adapter(job[m].adapter)
        stated == IF spec.external_pin THEN pin ELSE spec
    IN  /\ mpc[m] = "digest"
        /\ spec.external_pin => PinFits(spec) /\ pin.digest = source
        /\ pinned' = [pinned EXCEPT ![m] = [revision |-> stated.revision,
                                                   digest |-> source, url |-> stated.url]]
        /\ torn' = [torn EXCEPT ![m] = FALSE]
        /\ MGoto(m, "select")
        /\ UNCHANGED <<files, job, chosen, taker, database, bounds>>

PinRefused(m) ==
    LET spec == Adapter(job[m].adapter)
    IN  /\ mpc[m] = "digest"
        /\ spec.external_pin /\ ~(PinFits(spec) /\ pin.digest = source)
        /\ Refuse(m)

\* The cases a snapshot gives a job, and those it gives this one now.
Drawn(j, revision, items) ==
    WithProvenance(Sample(Adapter(j.adapter).parser, items, j.seed, j.size),
                   j.adapter, revision)
Fresh(m) ==
    Drawn(job[m], pinned[m].revision, source)

CanSelect(m) == Selectable(Adapter(job[m].adapter).parser, source, job[m].size)

\* _select_cases opens the snapshot a second time.
SelectCases(m) ==
    /\ mpc[m] = "select"
    /\ CanSelect(m)
    /\ chosen' = [chosen EXCEPT ![m] = Fresh(m)]
    /\ MGoto(m, IF job[m].recheck THEN "recheck" ELSE "stage")
    /\ UNCHANGED <<files, job, pinned, torn, taker, database, bounds>>

SelectRefused(m) == mpc[m] = "select" /\ ~CanSelect(m) /\ Refuse(m)

\* --check-deterministic opens it a third time.
Recheck(m) ==
    /\ mpc[m] = "recheck"
    /\ CanSelect(m) /\ Fresh(m) = chosen[m]
    /\ MGoto(m, "stage")
    /\ UNCHANGED <<files, job, pinned, chosen, torn, taker, database, bounds>>

RecheckRefused(m) ==
    /\ mpc[m] = "recheck"
    /\ ~(CanSelect(m) /\ Fresh(m) = chosen[m])
    /\ Refuse(m)

\* _write_bundle: two files in a directory of its own beside the output.
Stage(m, file) ==
    /\ \/ mpc[m] = "stage" /\ file = "cases.jsonl"
       \/ mpc[m] = "stage_manifest" /\ file = "manifest.yaml"
    /\ temps' = [temps EXCEPT ![m] = @ \cup {file}]
    /\ MGoto(m, IF mpc[m] = "stage" THEN "stage_manifest" ELSE "publish")
    /\ UNCHANGED <<source, pin, shelf, job, pinned, chosen, torn, taker, database, bounds>>

Product(m) ==
    [manifest |-> ManifestOf(job[m], pinned[m], chosen[m]), cases |-> chosen[m],
     torn |-> torn[m]]

Passes(m) ==
    /\ \A c \in chosen[m] : CaseParses(c.case)
    /\ Valid(Product(m).manifest, chosen[m], job[m].out \in InFixtures,
             job[m].tier = "release")

\* The staged pack is loaded and validated, and one rename makes it the
\* output.  A rename onto a directory with files in it fails.
Op_Publish(m) ==
    /\ mpc[m] = "publish"
    /\ Passes(m)
    /\ shelf' = [shelf EXCEPT ![job[m].out] = Product(m)]
    /\ MEnds(m)
    /\ UNCHANGED <<source, pin, job, pinned, chosen, torn, taker, database, bounds>>
Publish(m) ==
    /\ mpc[m] = "publish"
    /\ Passes(m)
    /\ shelf[job[m].out] = Nothing
    /\ shelf' = [shelf EXCEPT ![job[m].out] = Product(m)]
    /\ MEnds(m)
    /\ UNCHANGED <<source, pin, job, pinned, chosen, torn, taker, database, bounds>>

PublishRefused(m) ==
    /\ mpc[m] = "publish"
    /\ ~Passes(m) \/ shelf[job[m].out] # Nothing
    /\ Refuse(m)

\* Any access to the file system may fail; the command reports it and ends.
MakerFault(m) ==
    /\ mpc[m] \notin {"idle", "done"}
    /\ deaths < MaxDeaths
    /\ deaths' = deaths + 1
    /\ MEnds(m)
    /\ UNCHANGED <<source, pin, shelf, job, pinned, chosen, torn, taker, database, edits>>

\* A command that is killed leaves what it staged.
MakerDies(m) ==
    /\ mpc[m] \notin {"idle", "done", "dead"}
    /\ deaths < MaxDeaths
    /\ deaths' = deaths + 1
    /\ MGoto(m, "dead")
    /\ UNCHANGED <<files, job, pinned, chosen, torn, taker, database, edits>>

-----------------------------------------------------------------------------
(* Operators.                                                              *)

Edit == edits < MaxEdits /\ edits' = edits + 1

ReplaceSnapshot(s) ==
    /\ s # source
    /\ Edit
    /\ source' = s
    /\ torn' = [m \in Materializers |-> torn[m] \/ mpc[m] = "select"]
    /\ UNCHANGED <<pin, shelf, temps, mpc, job, pinned, chosen, taker, database, deaths>>

ReplacePin(p) ==
    /\ p # pin
    /\ Edit
    /\ pin' = p
    /\ UNCHANGED <<source, shelf, temps, maker, taker, database, deaths>>

\* Packs are edited in place, file by file.
EditPack(o, p) ==
    /\ shelf[o] # Nothing
    /\ Edit
    /\ \E q \in {[shelf[o] EXCEPT !.manifest = p.manifest],
                 [shelf[o] EXCEPT !.cases = p.cases, !.torn = TRUE]} :
            q # shelf[o] /\ shelf' = [shelf EXCEPT ![o] = q]
    /\ UNCHANGED <<source, pin, temps, maker, taker, database, deaths>>

-----------------------------------------------------------------------------
(* EvaluationService.run, as far as the run it records.                    *)

EGoto(e, place) == epc' = [epc EXCEPT ![e] = place]

StartRun(e, q) ==
    /\ epc[e] = "idle"
    /\ asked' = [asked EXCEPT ![e] = q]
    /\ EGoto(e, "manifest")
    /\ UNCHANGED <<files, maker, pack, at, own, database, bounds>>

\* load_dataset reads the manifest, then the cases.
LoadManifest(e) ==
    LET found == shelf[asked[e].out]
        parses == found # Nothing /\ ManifestParses(found.manifest.keys, found.manifest.schema)
    IN  /\ epc[e] = "manifest"
        /\ EGoto(e, IF parses THEN "cases" ELSE "done")
        /\ pack' = IF parses
                   THEN [pack EXCEPT ![e] = [manifest |-> found.manifest, cases |-> {}]]
                   ELSE pack
        /\ UNCHANGED <<files, maker, asked, at, own, database, bounds>>

\* No await separates reading the cases from validate_dataset.
LoadCases(e) ==
    LET cases == shelf[asked[e].out].cases
        valid == /\ \A c \in cases : CaseParses(c.case)
                 /\ Valid(pack[e].manifest, cases, asked[e].out \in InFixtures, asked[e].final)
    IN  /\ epc[e] = "cases"
        /\ pack' = [pack EXCEPT ![e].cases = cases]
        /\ EGoto(e, IF valid THEN "select" ELSE "done")
        /\ UNCHANGED <<files, maker, asked, at, own, database, bounds>>

\* The rows the three upserts are to find or to insert.  A template carries
\* the name and the version of the dataset; the model is the same for all.
RowFor(e, t) ==
    LET m == pack[e].manifest
    IN  CASE t = "datasets" -> [key |-> <<m.name, m.version>>, content |-> pack[e].cases]
          [] t = "templates" ->
                [key |-> <<m.name, asked[e].template, m.version>>, content |-> asked[e].body]
          [] OTHER -> [key |-> ModelIdentity, content |-> Capabilities]

After == [datasets |-> "templates", templates |-> "models", models |-> "models"]
Advance(e) ==
    /\ EGoto(e, IF at[e] = "models" THEN "commit" ELSE "select")
    /\ at' = [at EXCEPT ![e] = After[at[e]]]

\* An exception rolls the transaction back.
Op_Rollback(e) == EGoto(e, "done") /\ UNCHANGED <<at, own>>
Rollback(e) ==
    /\ EGoto(e, "done")
    /\ own' = [own EXCEPT ![e] = {}]
    /\ UNCHANGED at

Named(t, key) == {r \in tables[t] : r.key = key}

\* SELECT: a row of this name settles it, one way or the other.  What a model
\* can do is not compared.
Op_Conflicts(t, row) ==
    t = "datasets" /\ \E r \in Named(t, row.key) : r.content # row.content
Conflicts(t, row) ==
    t # "models" /\ \E r \in Named(t, row.key) : r.content # row.content

SelectConflict(e) ==
    /\ epc[e] = "select"
    /\ Conflicts(at[e], RowFor(e, at[e]))
    /\ Rollback(e)
    /\ UNCHANGED <<files, maker, asked, pack, database, bounds>>

SelectFound(e) ==
    /\ epc[e] = "select"
    /\ ~Conflicts(at[e], RowFor(e, at[e]))
    /\ Named(at[e], RowFor(e, at[e]).key) # {}
    /\ Advance(e)
    /\ UNCHANGED <<files, maker, asked, pack, own, database, bounds>>

SelectNothing(e) ==
    /\ epc[e] = "select"
    /\ Named(at[e], RowFor(e, at[e]).key) = {}
    /\ EGoto(e, "insert")
    /\ UNCHANGED <<files, maker, asked, pack, at, own, database, bounds>>

\* INSERT waits for whoever holds the name in an open transaction, and fails
\* on the unique constraint if that one commits.
Insert(e) ==
    LET row == RowFor(e, at[e])
    IN  /\ epc[e] = "insert"
        /\ \A f \in Evaluators \ {e} : \A r \in own[f] :
            ~(r.table = at[e] /\ r.row.key = row.key)
        /\ Named(at[e], row.key) = {}
        /\ own' = [own EXCEPT ![e] = @ \cup {[table |-> at[e], row |-> row]}]
        /\ Advance(e)
        /\ UNCHANGED <<files, maker, asked, pack, database, bounds>>

InsertRefused(e) ==
    /\ epc[e] = "insert"
    /\ Named(at[e], RowFor(e, at[e]).key) # {}
    /\ Rollback(e)
    /\ UNCHANGED <<files, maker, asked, pack, database, bounds>>

Commit(e) ==
    /\ epc[e] = "commit"
    /\ tables' = [t \in Tables |->
                    tables[t] \cup {r.row : r \in {x \in own[e] : x.table = t}}]
    /\ own' = [own EXCEPT ![e] = {}]
    /\ EGoto(e, "record")
    /\ UNCHANGED <<files, maker, asked, pack, at, runs, bounds>>

\* Executor.create_run, in a transaction of its own.
RecordRun(e) ==
    /\ epc[e] = "record"
    /\ runs' = runs \cup {[by |-> e, dataset |-> RowFor(e, "datasets"),
                            template |-> RowFor(e, "templates"),
                            model |-> RowFor(e, "models"),
                            stated |-> pack[e].manifest.content]}
    /\ EGoto(e, "done")
    /\ UNCHANGED <<files, maker, asked, pack, at, own, tables, bounds>>

\* A statement fails, or the process dies: the database rolls back.
TakerFails(e) ==
    /\ epc[e] \notin {"idle", "done"}
    /\ deaths < MaxDeaths
    /\ deaths' = deaths + 1
    /\ Rollback(e)
    /\ UNCHANGED <<files, maker, asked, pack, database, edits>>

-----------------------------------------------------------------------------
MakerStep(m) ==
    \/ TakeDigest(m) \/ PinRefused(m)
    \/ SelectCases(m) \/ SelectRefused(m)
    \/ Recheck(m) \/ RecheckRefused(m)
    \/ \E f \in {"cases.jsonl", "manifest.yaml"} : Stage(m, f)
    \/ Publish(m) \/ PublishRefused(m)

TakerStep(e) ==
    \/ LoadManifest(e) \/ LoadCases(e)
    \/ SelectConflict(e) \/ SelectFound(e) \/ SelectNothing(e)
    \/ Insert(e) \/ InsertRefused(e)
    \/ Commit(e) \/ RecordRun(e)

Operator ==
    \/ \E s \in Snapshots : ReplaceSnapshot(s)
    \/ \E p \in Pins : ReplacePin(p)
    \/ \E o \in Outputs, p \in HandMade : EditPack(o, p)

Next ==
    \/ \E m \in Materializers : \E j \in JobsOf[m] : StartJob(m, j)
    \/ \E m \in Materializers : MakerStep(m) \/ MakerFault(m) \/ MakerDies(m)
    \/ \E e \in Evaluators, q \in Requests : StartRun(e, q)
    \/ \E e \in Evaluators : TakerStep(e) \/ TakerFails(e)
    \/ Operator

Spec == Init /\ [][Next]_vars

\* A command that was started goes on; the store serves whoever does not wait
\* for a lock.
FairSpec ==
    /\ Spec
    /\ \A m \in Materializers : WF_vars(MakerStep(m))
    /\ \A e \in Evaluators : WF_vars(TakerStep(e))

-----------------------------------------------------------------------------
(* Properties.                                                             *)

MakerPlaces == {"idle", "digest", "select", "recheck", "stage", "stage_manifest",
                "publish", "done", "dead"}
TakerPlaces == {"idle", "manifest", "cases", "select", "insert", "commit", "record", "done"}
Over(f, S) == f = [x \in S |-> f[x]]

TypeInvariant ==
    /\ mpc \in [Materializers -> MakerPlaces] /\ epc \in [Evaluators -> TakerPlaces]
    /\ at \in [Evaluators -> Tables]
    /\ torn \in [Materializers -> BOOLEAN]
    /\ temps \in [Materializers -> SUBSET {"cases.jsonl", "manifest.yaml"}]
    /\ Over(job, Materializers) /\ Over(pinned, Materializers) /\ Over(chosen, Materializers)
    /\ Over(asked, Evaluators) /\ Over(pack, Evaluators) /\ Over(own, Evaluators)
    /\ Over(shelf, Outputs) /\ Over(tables, Tables) /\ edits \in Nat
    /\ \A o \in Outputs : shelf[o] # Nothing =>
        shelf[o] = [manifest |-> shelf[o].manifest, cases |-> shelf[o].cases,
                    torn |-> shelf[o].torn]
    /\ \A e \in Evaluators :
        /\ epc[e] \in {"idle", "manifest", "cases"} => at[e] = "datasets"
        /\ epc[e] = "cases" =>
            pack[e] = [manifest |-> pack[e].manifest, cases |-> pack[e].cases]

\* What a command has staged, and that it is gone when the command ends.
StagedAsPlaced ==
    \A m \in Materializers :
        /\ mpc[m] = "stage_manifest" => temps[m] = {"cases.jsonl"}
        /\ mpc[m] = "publish" => temps[m] = {"cases.jsonl", "manifest.yaml"}
        /\ mpc[m] \notin {"stage_manifest", "publish", "dead"} => temps[m] = {}

\* The cases of a version, if they were drawn from the snapshot it names.
CasesOfVersion(v) == Drawn(v, v.revision, v.digest)

Materialized(o) == shelf[o] # Nothing /\ shelf[o].manifest.schema # NoValue /\ ~shelf[o].torn

DrawnAsPinned ==
    /\ \A m \in Materializers : ~torn[m] =>
        /\ mpc[m] = "select" => pinned[m].digest = source
        /\ mpc[m] \in {"recheck", "stage", "stage_manifest", "publish"} =>
            chosen[m] = Drawn(job[m], pinned[m].revision, pinned[m].digest)
    /\ \A o \in Outputs : Materialized(o) =>
        shelf[o].cases = CasesOfVersion(shelf[o].manifest.version)

\* A transaction holds the rows it inserted, each under a name nobody else has.
Preceding == [datasets |-> {}, templates |-> {"datasets"}, models |-> {"datasets", "templates"}]
Passed(e) == IF epc[e] \in {"commit", "record"} THEN Tables ELSE Preceding[at[e]]
OwnRowsOk(e) ==
    \A r \in own[e] :
        /\ epc[e] \in {"select", "insert", "commit"}
        /\ r.table \in Passed(e) /\ r.row = RowFor(e, r.table)
        /\ Named(r.table, r.row.key) = {}
Apart(e, f) ==
    \A r \in own[e], s \in own[f] : r.table = s.table => r.row.key # s.row.key
TablesOk ==
    \A t \in Tables : \A r \in tables[t] :
        /\ r = [key |-> r.key, content |-> r.content]
        /\ t = "models" => r.content = Capabilities
        /\ \A s \in tables[t] : r.key = s.key => r = s
RowsAreNamedOnce ==
    /\ TablesOk
    /\ \A e \in Evaluators : OwnRowsOk(e) /\ \A f \in Evaluators \ {e} : Apart(e, f)

\* What a command has passed it found or inserted, and a run is of what its
\* command found or inserted.
Registered(e) ==
    epc[e] \in {"select", "insert", "commit", "record"} =>
        /\ pack[e].manifest.content # NoValue => pack[e].manifest.content = pack[e].cases
        /\ \A t \in Passed(e) :
            \/ RowFor(e, t) \in tables[t]
            \/ [table |-> t, row |-> RowFor(e, t)] \in own[e]
RunsOk ==
    \A r \in runs :
        /\ r.dataset \in tables["datasets"] /\ r.template \in tables["templates"]
        /\ r.model \in tables["models"]
        /\ r.stated # NoValue => r.stated = r.dataset.content
InputsAreRegistered == RunsOk /\ \A e \in Evaluators : Registered(e)

\* The inductive invariant: what is staged, drawn, inserted and found is what
\* the place of each command says (_write_bundle, materialize_dataset,
\* EvaluationService.run).
InductiveInvariant ==
    /\ TypeInvariant
    /\ StagedAsPlaced
    /\ DrawnAsPinned
    /\ RowsAreNamedOnce
    /\ InputsAreRegistered

Entry(t, row) == [name |-> <<t, row.key>>, content |-> row.content]

\* Abstractly the identity tables are a catalog that only grows and gives a
\* name to one content, whichever transactions find nothing and insert at the
\* same time, and a run refers to what its command registered or found
\* (upsert_dataset, upsert_prompt_template, upsert_model_version, create_run).
Catalog == INSTANCE IdentityCatalog WITH
    catalog <- UNION {{Entry(t, row) : row \in tables[t]} : t \in Tables},
    recorded <- {{Entry("datasets", r.dataset), Entry("templates", r.template),
                  Entry("models", r.model)} : r \in runs}
CatalogSpec == Catalog!Spec

\* A run is recorded against the very cases its manifest vouches for, although
\* manifest and cases are read one after the other while packs are published
\* and edited (validate_dataset).
RunsKeepTheirInputs ==
    \A r \in runs : r.stated # NoValue => r.dataset.content = r.stated

\* Whatever commands race for a directory, a pack that is there stays as it is
\* until someone edits it: a reader never meets half of one and half of another
\* (_write_bundle).
PublishedStays ==
    [][edits' = edits => \A o \in Outputs : shelf[o] # Nothing => shelf'[o] = shelf[o]]_vars

\* Two packs of one name and version hold the same cases, whoever made them
\* and when, unless the snapshot was replaced between the reading of its
\* digest and the reading of its cases, or the pack was edited
\* (materialization_version).
VersionNamesCases ==
    \A o, p \in Outputs :
        /\ Materialized(o) /\ Materialized(p)
        /\ shelf[o].manifest.version = shelf[p].manifest.version
        => shelf[o].cases = shelf[p].cases

\* What a command has drawn is refused by the validator, which is another
\* program with rules of its own, for nothing but what its records lack: a
\* field, an answer, a metric, or an id with more than white space in it, which
\* the sampler takes and the validator does not.  The size, the ids being one
\* each, the lengths, the license, the split, the revision, the address and
\* the digest are right, also when the snapshot or its pin was replaced on the
\* way (_load_external_pin, _sample, _enforce_license and
\* _validate_requested_size against validate_dataset).
Complete(c, metrics) ==
    /\ CaseParses(c)
    /\ c.id \notin Blank
    /\ Required(c.task) \subseteq c.fields
    /\ FitMetric(c.task, metrics)
RefusedForRecordsAlone ==
    \A m \in Materializers :
        /\ mpc[m] \in {"recheck", "stage", "stage_manifest", "publish"}
        /\ \A c \in chosen[m] : Complete(c.case, Adapter(job[m].adapter).metrics)
        => Passes(m)

\* Every command ends: transactions that want each other's names take the
\* tables in one order and give the names back when they end.
CommandsEnd ==
    /\ \A m \in Materializers : mpc[m] = "digest" ~> mpc[m] \in {"done", "dead"}
    /\ \A e \in Evaluators : epc[e] = "manifest" ~> epc[e] = "done"
=============================================================================
