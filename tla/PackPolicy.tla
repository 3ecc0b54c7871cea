----------------------------- MODULE PackPolicy -----------------------------
(***************************************************************************)
(* What decides whether a dataset pack may be written and whether it may   *)
(* be used: the offline adapters (packages/evaldatasets), the loader and   *)
(* the validator (src/evalharness/datasets).  No state: Datasets.tla runs  *)
(* these over files and tables.                                            *)
(*                                                                         *)
(* A source file is a sequence of items.  Of an item only what the parsers *)
(* and the validator tell apart is kept: its shape, whether its answer is  *)
(* given (and the slices the manifest asks for), whether its fields have   *)
(* the types of a case, whether a text exceeds the published bounds.  The  *)
(* digest of a file is the file itself, the hash of the cases is the set   *)
(* of the cases.                                                           *)
(***************************************************************************)
EXTENDS Integers, FiniteSets, Sequences

CONSTANTS
    Seeds,
    Rank,        \* [Seeds -> [ids -> Nat]]: sha256 of "seed:id" orders the sample
    SizeBounds,  \* TIER_SIZE_BOUNDS: [Tiers -> [min, max]], max 0 if unbounded
    Carded,      \* adapters with a complete card in docs/datasets.md
    Blank,       \* strings that are not empty and that strip() empties
    Relative,    \* addresses without "://"
    NoId, NoValue

Tiers == {"smoke", "ci", "nightly", "release"}
AllowedLicenses ==
    {"CC0-1.0", "MIT", "Apache-2.0", "BSD-2-Clause", "BSD-3-Clause",
     "CC-BY-4.0", "CC-BY-SA-4.0"}
AttributionLicenses == {"CC-BY-4.0", "CC-BY-SA-4.0"}

\* The metrics that fit a task, and the fields a case of it has to fill in.
\* Any metric fits a task that TASK_METRICS does not name.
TaskMetrics ==
    [qa_short |-> {"squad_f1", "exact_match", "numeric_assertion"},
     classification |-> {"classification"},
     extraction |-> {"json_validity", "json_field_f1"},
     summarization |-> {"rouge_l", "chrf_pp", "meteor"},
     retrieval |-> {"retrieval_ndcg_10", "retrieval_precision_at_k",
                    "retrieval_mrr", "retrieval_map"}]
FitMetric(task, metrics) ==
    task \in DOMAIN TaskMetrics => metrics \cap TaskMetrics[task] # {}
TaskFields ==
    [qa_short |-> {"reference_answer"}, classification |-> {"expected_label"},
     extraction |-> {"expected_json"}, summarization |-> {"reference_answer"},
     retrieval |-> {"qrels"}, rag |-> {"reference_answer", "qrels"},
     tool_use |-> {"expected_json"}, generation |-> {}, agent_trajectory |-> {},
     safety |-> {}, pairwise |-> {}]
Required(task) == IF task \in DOMAIN TaskFields THEN TaskFields[task] ELSE {}

-----------------------------------------------------------------------------
(* The adapters.                                                           *)

External ==
    [squad_v1_1 |-> [parser |-> "squad", metrics |-> {"squad_f1", "exact_match"}],
     ag_news |-> [parser |-> "ag_news", metrics |-> {"classification"}],
     pubmedqa |-> [parser |-> "pubmedqa", metrics |-> {"classification"}],
     financial_phrasebank |-> [parser |-> "phrasebank", metrics |-> {"classification"}],
     finqa |-> [parser |-> "finqa", metrics |-> {"numeric_assertion"}],
     cnn_dailymail |-> [parser |-> "summaries", metrics |-> {"rouge_l", "chrf_pp"}],
     xsum |-> [parser |-> "summaries", metrics |-> {"rouge_l", "chrf_pp"}],
     scifact_prejoined |-> [parser |-> "synthetic", metrics |-> {"retrieval_ndcg_10"}],
     docred_prejoined |->
        [parser |-> "synthetic", metrics |-> {"json_validity", "json_field_f1"}]]

Synthetic ==
    [synthetic_qa |-> {"squad_f1", "exact_match"},
     synthetic_news |-> {"classification"},
     synthetic_healthcare |-> {"classification"},
     synthetic_finance |-> {"numeric_assertion"},
     synthetic_summarization |-> {"rouge_l", "chrf_pp"},
     synthetic_extraction |-> {"json_validity", "json_field_f1"},
     synthetic_retrieval |-> {"retrieval_ndcg_10"},
     synthetic_math |-> {"numeric_assertion"}]

Adapters == DOMAIN External \cup DOMAIN Synthetic

SquadUrl == "https://rajpurkar.github.io"
RepoUrl == "repo://tools/datasets/sources"
ScrubProcedure == "docs/datasets.md#privacy-and-pii"

ASSUME StringsAssumption ==
    /\ Blank \cap (Adapters \cup {"synthetic-v1", ScrubProcedure}) = {}
    /\ RepoUrl \notin Relative
    /\ NoValue \notin Adapters \cup {"0.1", "synthetic-v1", ScrubProcedure}

\* Only SQuAD pins its revision and its address; the other external sources
\* take what the operator's pin says.  Text of external sources stays out of
\* the repository, and only what the repository made up counts as scrubbed.
Adapter(a) ==
    IF a \in DOMAIN External
    THEN [parser |-> External[a].parser, metrics |-> External[a].metrics,
          license |-> IF a = "financial_phrasebank" THEN "CC-BY-NC-SA-3.0" ELSE "unknown",
          redistributable |-> FALSE, attributed |-> FALSE, scrubbed |-> FALSE,
          external_pin |-> TRUE,
          revision |-> IF a = "squad_v1_1" THEN "dev-v1.1" ELSE "operator-pinned",
          url |-> IF a = "squad_v1_1" THEN SquadUrl ELSE NoValue]
    ELSE [parser |-> "synthetic", metrics |-> Synthetic[a], license |-> "CC0-1.0",
          redistributable |-> TRUE, attributed |-> TRUE, scrubbed |-> TRUE,
          external_pin |-> FALSE, revision |-> "synthetic-v1", url |-> RepoUrl]

Shapes == {"record", "blank", "foreign", "partial"}

\* What a parser does with an item: "foreign" is one of another type than the
\* parser expects or without anything to ask, "partial" one without a key.
SquadFate(shape) ==
    CASE shape = "record" -> "keep" [] shape = "partial" -> "raise" [] OTHER -> "skip"
AgNewsFate(shape) == IF shape = "record" THEN "keep" ELSE "raise"
PubmedqaFate(shape) == IF shape \in {"record", "partial"} THEN "keep" ELSE "skip"
PhrasebankFate(shape) ==
    CASE shape = "blank" -> "skip" [] shape = "record" -> "keep" [] OTHER -> "raise"
FinqaFate(shape) == IF shape \in {"record", "partial"} THEN "keep" ELSE "skip"
JsonLineFate(shape) ==
    CASE shape = "blank" -> "skip" [] shape = "foreign" -> "raise" [] OTHER -> "keep"

Fate(parser, shape) ==
    CASE parser = "squad" -> SquadFate(shape)
      [] parser = "ag_news" -> AgNewsFate(shape)
      [] parser = "pubmedqa" -> PubmedqaFate(shape)
      [] parser = "phrasebank" -> PhrasebankFate(shape)
      [] parser = "finqa" -> FinqaFate(shape)
      [] OTHER -> JsonLineFate(shape)

\* Where the id of a case comes from: its place in the file, the item's own
\* id, or the place for want of one.  A synthetic record has its own or none.
IdOf(parser, i, item) ==
    CASE parser \in {"ag_news", "phrasebank"} -> i
      [] parser \in {"finqa", "summaries"} /\ item.id = NoId -> i
      [] OTHER -> item.id

TaskOf(parser, item) ==
    CASE parser \in {"squad", "finqa"} -> "qa_short"
      [] parser = "summaries" -> "summarization"
      [] parser = "synthetic" -> item.task
      [] OTHER -> "classification"

\* A partial item leaves its answer empty, where the parser has a default.  The
\* parsers give every field its type; a synthetic record is taken as it is.
CaseOf(parser, i, item) ==
    [id |-> IdOf(parser, i, item), task |-> TaskOf(parser, item), long |-> item.long,
     typed |-> parser = "synthetic" => item.typed,
     fields |-> IF item.answered /\ item.shape = "record"
                THEN Required(TaskOf(parser, item)) ELSE {},
     text |-> item.text]

\* fits_field_bounds: over-long records leave the pool before sampling.
Publishable(parser, items) ==
    {i \in DOMAIN items : Fate(parser, items[i].shape) = "keep" /\ ~items[i].long}

Selectable(parser, items, size) ==
    LET pool == Publishable(parser, items)
        id(i) == IdOf(parser, i, items[i])
    IN  /\ \A i \in DOMAIN items : Fate(parser, items[i].shape) # "raise"
        /\ Cardinality(pool) >= size
        /\ \A i \in pool : id(i) # NoId
        /\ \A i, j \in pool : id(i) = id(j) => i = j

\* The records of the first ranks; they are stored in the order of their ids.
RankIn(parser, items, seed, i) == Rank[seed][IdOf(parser, i, items[i])]
Ahead(parser, items, seed, i) ==
    {j \in Publishable(parser, items) :
        RankIn(parser, items, seed, j) < RankIn(parser, items, seed, i)}
Op_First(parser, items, seed, size) ==
    {i \in Publishable(parser, items) : Cardinality(Ahead(parser, items, seed, i)) <= size}
First(parser, items, seed, size) ==
    {i \in Publishable(parser, items) : Cardinality(Ahead(parser, items, seed, i)) < size}
Sample(parser, items, seed, size) ==
    {CaseOf(parser, i, items[i]) : i \in First(parser, items, seed, size)}

\* _case_with_provenance: every case says where it comes from.  The source id
\* and the adapter's version go with its name.
WithProvenance(cases, a, revision) ==
    {[case |-> c, adapter |-> a, record |-> c.id, revision |-> revision] : c \in cases}

-----------------------------------------------------------------------------
(* The manifest and the gate.                                              *)

LegacyKeys ==
    {"name", "version", "split", "license", "pii_scrubbed", "created_at", "slices",
     "content_sha256"}
VersionedKeys ==
    LegacyKeys \cup {"schema_version", "tier", "source", "adapter", "task_metrics",
                     "contamination_risk", "pii_scrub_procedure"}
Optional == {"content_sha256"}

\* _parse_manifest: a manifest without schema_version may carry unknown keys,
\* one with it may not, and neither may lack a required one.
ManifestParses(keys, schema) ==
    IF schema = NoValue
    THEN LegacyKeys \ Optional \subseteq keys
    ELSE /\ schema = "0.1"
         /\ keys \subseteq VersionedKeys
         /\ VersionedKeys \ Optional \subseteq keys

\* _parse_case.
CaseParses(c) == c.id # NoId /\ c.typed /\ c.task \in DOMAIN TaskFields

WithinTier(tier, size) ==
    /\ size >= SizeBounds[tier].min
    /\ SizeBounds[tier].max # 0 => size <= SizeBounds[tier].max

\* _validate_license_policy: text under fixtures/ ships with the repository,
\* whatever its manifest claims.
LicenseAllows(m, inFixtures) ==
    inFixtures \/ m.redistributable =>
        /\ m.license \in AllowedLicenses
        /\ m.license \in AttributionLicenses => m.attributed

\* A string that is there and has more than white space in it.
Stated(v) == v # NoValue /\ v \notin Blank

\* _validate_versioned_manifest.  NoValue is a digest that is no sha256.
VersionedOk(m, cases) ==
    m.schema # NoValue =>
        /\ m.digest # NoValue
        /\ m.url \notin Relative
        /\ m.scrubbed => Stated(m.procedure)
        /\ WithinTier(m.tier, Cardinality(cases))
        /\ m.sample_size = Cardinality(cases)
        /\ m.tier = "release" <=> m.split = "holdout"

\* The loop of validate_dataset over the cases, and _validate_case_contract.
CasesOk(m, cases) ==
    \A c \in cases :
        /\ ~c.case.long
        /\ Required(c.case.task) \subseteq c.case.fields
        /\ \A d \in cases : d.case.id = c.case.id => d = c
        /\ m.schema # NoValue =>
            /\ Stated(c.adapter) /\ Stated(c.record) /\ Stated(c.revision)
            /\ FitMetric(c.case.task, m.metrics)

\* validate_dataset: the cases have to be those the manifest was written for,
\* when it says which they were.
Op_Valid(m, cases, inFixtures, allowHoldout) ==
    /\ LicenseAllows(m, inFixtures)
    /\ VersionedOk(m, cases)
    /\ m.split = "holdout" => allowHoldout
    /\ CasesOk(m, cases)
Valid(m, cases, inFixtures, allowHoldout) ==
    /\ LicenseAllows(m, inFixtures)
    /\ VersionedOk(m, cases)
    /\ m.split = "holdout" => allowHoldout
    /\ CasesOk(m, cases)
    /\ m.content # NoValue => m.content = cases

\* _enforce_license: what may be written where.
MayWrite(a, inFixtures) ==
    LET spec == Adapter(a)
    IN  /\ spec.redistributable /\ spec.license \in AttributionLicenses => spec.attributed
        /\ inFixtures =>
            /\ spec.redistributable /\ spec.license \in AllowedLicenses
            /\ a \in Carded

\* materialization_version: everything the bytes of the cases depend on.
Op_VersionOf(job, pinned) ==
    [adapter |-> job.adapter, seed |-> 0, size |-> job.size, tier |-> job.tier,
     revision |-> pinned.revision, digest |-> pinned.digest]
VersionOf(job, pinned) ==
    [adapter |-> job.adapter, seed |-> job.seed, size |-> job.size, tier |-> job.tier,
     revision |-> pinned.revision, digest |-> pinned.digest]

ManifestOf(job, pinned, cases) ==
    LET spec == Adapter(job.adapter)
    IN  [name |-> job.adapter, version |-> VersionOf(job, pinned), schema |-> "0.1",
         keys |-> VersionedKeys, split |-> IF job.tier = "release" THEN "holdout" ELSE "dev",
         license |-> spec.license, tier |-> job.tier, sample_size |-> job.size,
         digest |-> pinned.digest, url |-> pinned.url,
         redistributable |-> spec.redistributable, attributed |-> spec.attributed,
         scrubbed |-> spec.scrubbed, procedure |-> ScrubProcedure,
         metrics |-> spec.metrics, content |-> cases]
=============================================================================
