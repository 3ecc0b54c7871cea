---------------------------- MODULE SuitePolicy ----------------------------
(***************************************************************************)
(* What `evalctl suite build` accepts and what it shows of it              *)
(* (suite/loader.py, models.py, builder.py, render.py): a manifest of run  *)
(* reports, comparisons, calibrations, judgments and RAG evidence becomes  *)
(* one report.  No state: Publication.tla runs this over files.            *)
(*                                                                         *)
(* A loaded suite has a sequence of contents for every section of its      *)
(* manifest, in the manifest's order.  Rows that are only listed for       *)
(* reading (operations, coverage, quality) keep who they are about and     *)
(* what they say; labels are numbered in their order, and what is sorted   *)
(* by name is a set.                                                       *)
(***************************************************************************)
EXTENDS GatePolicy, SequencesExt

CONSTANTS
    PerMember,   \* EXAMPLE_LIMIT_PER_MEMBER
    InTotal      \* EXAMPLE_LIMIT_TOTAL

Sections == {"members", "compares", "calibrations", "judges", "rags"}
Given(declared, default) == IF declared # NoValue THEN declared ELSE default

PathsOf(manifest, section) ==
    IF section = "members" THEN [i \in DOMAIN manifest.members |-> manifest.members[i].path]
    ELSE manifest[section]

\* SuiteManifest, _artifact_path.
SuiteManifestLoads(manifest, inside) ==
    /\ manifest.members # <<>> /\ manifest.primary # <<>>
    /\ \A s \in Sections :
        /\ IsInjective(PathsOf(manifest, s))
        /\ ToSet(PathsOf(manifest, s)) \subseteq inside
    /\ \A i, j \in DOMAIN manifest.primary :
        manifest.primary[i].dataset = manifest.primary[j].dataset => i = j

\* What a declaration says of a run goes before what its report says.
Dataset(suite, i) ==
    Given(suite.manifest.members[i].dataset, suite.members[i].dataset)
Task(suite, i) ==
    LET examples == suite.members[i].examples
    IN  Given(suite.manifest.members[i].task,
              IF examples = <<>> THEN "unspecified" ELSE examples[1].task)
Domain(suite, i) == Given(suite.manifest.members[i].domain, "unspecified")

Primary(suite, i) ==
    LET k == CHOOSE k \in DOMAIN suite.manifest.primary :
                suite.manifest.primary[k].dataset = Dataset(suite, i)
    IN  suite.manifest.primary[k].metric

\* load_suite, _validate_supplement, _validate_manifest_references.
Runs(suite) == {suite.members[i].run : i \in DOMAIN suite.members}
SuiteLoads(suite) ==
    /\ \A i \in DOMAIN suite.members : ~suite.members[i].raw
    /\ \A i, j \in DOMAIN suite.members : suite.members[i].run = suite.members[j].run => i = j
    /\ \A i \in DOMAIN suite.compares :
        {suite.compares[i].baseline, suite.compares[i].candidate} \subseteq Runs(suite)
    /\ {Dataset(suite, i) : i \in DOMAIN suite.members}
        = {suite.manifest.primary[k].dataset : k \in DOMAIN suite.manifest.primary}
    /\ \A i \in DOMAIN suite.members :
        Headlines(suite.members[i], Primary(suite, i)) # {}
    /\ \A i \in DOMAIN suite.calibrations : CalibrationLoads(suite.calibrations[i])
    /\ \A i \in DOMAIN suite.rags : ~suite.rags[i].gating

-----------------------------------------------------------------------------
(* assemble_suite.                                                         *)

\* _headline, _members and their exclusions.
HeadlineOf(suite, i) == Headline(suite.members[i], Primary(suite, i)).value
ExclusionReason(report) ==
    {reason \in {"status", "written", "coverage"} :
        CASE reason = "status" -> report.status # "completed"
          [] reason = "written" -> report.written # report.planned
          [] OTHER -> report.coverage < report.floor}
Exclusions(suite) ==
    {[run |-> suite.members[i].run, reason |-> ExclusionReason(suite.members[i])] :
        i \in {k \in DOMAIN suite.members : ~suite.members[k].publishable}}

\* _quality_tables: every overall aggregate under its domain and its task.
QualityTables(suite) ==
    LET overall(i) == {r \in ToSet(suite.members[i].aggregates) : r.slice = "overall"}
        rows(i, dimension, value) ==
            {[dimension |-> dimension, value |-> value, run |-> suite.members[i].run,
              metric |-> r.metric, score |-> r.value] : r \in overall(i)}
    IN  UNION {rows(i, "task", Task(suite, i)) \cup rows(i, "domain", Domain(suite, i)) :
                i \in DOMAIN suite.members}

\* _leaderboards: publishable runs of one dataset name, task and metric, the
\* best first.
BoardOf(suite, i) == <<Dataset(suite, i), Task(suite, i), Primary(suite, i)>>
Entry(suite, i) ==
    [run |-> suite.members[i].run, label |-> suite.manifest.members[i].label,
     role |-> suite.manifest.members[i].role, value |-> HeadlineOf(suite, i)]
Ranked(entries) ==
    SetToSortSeq(entries, LAMBDA e, f :
        e.value > f.value \/ (e.value = f.value /\ e.label < f.label))
Leaderboards(suite) ==
    LET shown == {i \in DOMAIN suite.members : suite.members[i].publishable}
    IN  [board \in {BoardOf(suite, i) : i \in shown} |->
            Ranked({Entry(suite, i) : i \in {k \in shown : BoardOf(suite, k) = board}})]

\* _slices: the primary metric in all its slices.
Slices(suite) ==
    UNION {{[run |-> suite.members[i].run, slice |-> row.slice, value |-> row.value] :
                row \in {r \in ToSet(suite.members[i].aggregates) :
                            r.metric = Primary(suite, i)}} : i \in DOMAIN suite.members}

\* _failure_gallery: a few failures of each run, in the order of cases and
\* repeats, and a few in all.
Failures(report) ==
    LET failed == SelectSeq(report.examples, LAMBDA e : e.failed \/ e.harness)
        inOrder == SortSeq(failed, LAMBDA e, f :
            e.case < f.case \/ (e.case = f.case /\ e.repeat < f.repeat))
        few == IF Len(inOrder) < PerMember THEN inOrder ELSE SubSeq(inOrder, 1, PerMember)
    IN  [i \in DOMAIN few |-> [run |-> report.run, example |-> few[i]]]
FailureGallery(suite) ==
    LET all == FlattenSeq([i \in DOMAIN suite.members |-> Failures(suite.members[i])])
    IN  IF Len(all) < InTotal THEN all ELSE SubSeq(all, 1, InTotal)

\* _suite_digest: the contents of every section, in no order, and the metrics
\* they are ranked by.
Copies(contents) ==
    [c \in ToSet(contents) |-> Cardinality({i \in DOMAIN contents : contents[i] = c})]
Op_SuiteDigest(suite) ==
    [contents |-> [section \in Sections \ {"calibrations"} |-> Copies(suite[section])],
     primary |-> ToSet(suite.manifest.primary)]
SuiteDigest(suite) ==
    [contents |-> [section \in Sections |-> Copies(suite[section])],
     primary |-> ToSet(suite.manifest.primary)]

\* _passing_calibrations, _judgment_is_bound: the gate bit only ever comes from
\* a calibration of the suite that is about this judgment.
Passing(suite) ==
    {suite.calibrations[i].digest : i \in {k \in DOMAIN suite.calibrations :
        suite.calibrations[k].body.gating}}
Op_IsBound(judgment, passing) ==
    judgment.gating /\ \E digest \in passing : digest = judgment.claimed
IsBound(judgment, passing) ==
    /\ judgment.gating
    /\ \E digest \in passing :
        digest = judgment.claimed /\ digest.judgment = Identity(judgment)

\* What is said of the judgments, the calibrations and the evidence.
JudgeSummaries(suite) ==
    [i \in DOMAIN suite.judges |->
        [of |-> suite.judges[i], gating |-> IsBound(suite.judges[i], Passing(suite))]]
CalibrationSummaries(suite) ==
    [i \in DOMAIN suite.calibrations |->
        [of |-> suite.calibrations[i].digest, gating |-> suite.calibrations[i].body.gating]]
RagSummaries(suite) ==
    [i \in DOMAIN suite.rags |-> [of |-> suite.rags[i].run, gating |-> FALSE]]

\* _members, _ops, the coverage matrix and the comparisons list what is loaded.
AssembleSuite(suite) ==
    [digest |-> SuiteDigest(suite),
     members |-> [i \in DOMAIN suite.members |->
        [run |-> suite.members[i].run, dataset |-> Dataset(suite, i),
         publishable |-> suite.members[i].publishable,
         coverage |-> suite.members[i].coverage, headline |-> HeadlineOf(suite, i)]],
     exclusions |-> Exclusions(suite), quality |-> QualityTables(suite),
     leaderboards |-> Leaderboards(suite), slices |-> Slices(suite),
     comparisons |-> suite.compares, gallery |-> FailureGallery(suite),
     calibrations |-> CalibrationSummaries(suite), judges |-> JudgeSummaries(suite),
     rags |-> RagSummaries(suite)]
=============================================================================
