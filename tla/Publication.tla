---------------------------- MODULE Publication ----------------------------
(***************************************************************************)
(* The way of a verdict from a judge or a run to what a release is decided *)
(* by: `evalctl judge run`, `judge validate`, `judge attach-calibration`,  *)
(* `runs compare`, `suite build` and `gates check` read files one after    *)
(* the other and write files the next one reads.  Any number of them run   *)
(* at once, operators replace inputs, repeat commands and edit artifacts   *)
(* by hand, and commands may die.                                          *)
(*                                                                         *)
(* A step is one access to one file.  A command that refuses its input     *)
(* writes nothing, so what it checks between two reads is checked when the *)
(* last is done.                                                           *)
(***************************************************************************)
EXTENDS SuitePolicy

CONSTANTS
    Commands,       \* processes
    TasksOf,        \* [Commands -> SUBSET tasks]: what a process may be started with
    Files, Inside,  \* paths; those below the manifests
    InitialDisks,   \* contents there may be at first: [Files -> contents]
    Versions,       \* [Files -> SUBSET contents]: what operators may put there
    MaxStarts, MaxEdits, MaxDeaths    \* bounds

\* No file; a file cut off by a writer that is not done.
Nothing == [kind |-> "nothing"]
Torn == [kind |-> "torn"]

Outputs == {"suite.json", "suite.html", ".suite.json.tmp", ".suite.html.tmp"}
Kinds == {"rubric", "work", "responses", "labels", "judgment", "calibration", "report",
          "verdicts", "compare", "rag", "suite", "gates", "page"}
IsA(k, kind) == k \notin {Nothing, Torn} /\ k.kind = kind

\* The fields of artifacts (StrictModel), the rows of labels, the number a
\* rubric asks for; a run has as many verdicts as there are angles for.
Fields(k, names) == k = [n \in names |-> k[n]]
WellMade(k) ==
    /\ IsA(k, "calibration") => Fields(k, {"kind", "body", "digest"})
    /\ IsA(k, "judgment") =>
        /\ Fields(k, {"kind", "body", "gating", "claimed"})
        /\ Fields(k.body, {"mode", "rubric", "families", "dumped", "items", "summary"})
        /\ k.gating \in BOOLEAN /\ k.body.dumped \in BOOLEAN
    /\ IsA(k, "labels") => k.rows \in Seq(ToSet(k.rows))
    /\ IsA(k, "rubric") => k.min_holdout \in Nat
    /\ IsA(k, "verdicts") =>
        IsFiniteSet(Keys(k)) /\ 1..Cardinality(Keys(k)) \subseteq DOMAIN Angle

\* What there is at first and what operators put in place has no digest that
\* lets gate.
Unremarkable(k) == WellMade(k) /\ (IsA(k, "calibration") => ~k.digest.gating)

ASSUME PublicationAssumption ==
    /\ Outputs \subseteq Files /\ Inside \subseteq Files \ Outputs
    /\ InitialDisks \subseteq [Files -> UNION {{d[f] : f \in Files} : d \in InitialDisks}]
    /\ \A d \in InitialDisks, f \in Files : Unremarkable(d[f])
    /\ \A f \in Files : \A k \in Versions[f] : Unremarkable(k)

\* Nobody but `suite build` puts anything at its outputs, and nothing was there.
ASSUME OutputsAssumption ==
    /\ \A f \in Outputs : Versions[f] = {}
    /\ \A d \in InitialDisks, f \in Outputs : d[f] = Nothing
    /\ \A c \in Commands : \A t \in TasksOf[c] :
        t.kind \in {"judge", "validate", "attach", "compare"} => t.out \notin Outputs

VARIABLES
    disk,       \* [Files -> contents]
    \* a command: where it is, what it was asked, what it has read, what it writes
    pc, task, seen, draft,
    \* history, which only properties read
    earned,     \* what validate_calibration let gate: the calibration and its inputs
    compared,   \* what compare_runs compared: two runs, the verdicts it took, the result
    attached,   \* what attach_calibration made, and of what
    pages,      \* suites that were assembled
    verdicts,   \* checks of gates: what was loaded, what came out
    builds,     \* how many suites were assembled
    alone,      \* no two builders ever were at it together
    \* bounds
    starts, edits, deaths

command == <<pc, task, seen, draft>>
history == <<earned, compared, attached, pages, verdicts, builds, alone>>
bounds == <<starts, edits, deaths>>
vars == <<disk, command, history, bounds>>

Init ==
    /\ disk \in InitialDisks
    /\ pc = [c \in Commands |-> "idle"]
    /\ task = [c \in Commands |-> Nothing]
    /\ seen = [c \in Commands |-> <<>>]
    /\ draft = [c \in Commands |-> Nothing]
    /\ earned = {} /\ compared = {} /\ attached = {} /\ pages = {} /\ verdicts = {} /\ builds = 0
    /\ alone = TRUE
    /\ starts = 0 /\ edits = 0 /\ deaths = 0

-----------------------------------------------------------------------------
(* Reading.                                                                *)

\* There is nothing at any other path.
Content(file) == IF file \in Files THEN disk[file] ELSE Nothing

Input(file, kind) == [file |-> file, kind |-> kind]
Inputs(paths, kind) == [i \in DOMAIN paths |-> Input(paths[i], kind)]

\* What each command reads, in order: run_judgment, validate_calibration,
\* attach_calibration, compare_runs.
FixedInputs(t) ==
    CASE t.kind = "judge" ->
            <<Input(t.rubric, "rubric"), Input(t.work, "work"),
              Input(t.responses, "responses")>>
      [] t.kind = "validate" ->
            <<Input(t.judgment, "judgment"), Input(t.holdout, "labels"),
              Input(t.rubric, "rubric")>>
            \o (IF t.dev = NoValue THEN <<>> ELSE <<Input(t.dev, "labels")>>)
      [] t.kind = "attach" ->
            <<Input(t.judgment, "judgment"), Input(t.calibration, "calibration")>>
      [] t.kind = "compare" ->
            <<Input(t.baseline, "verdicts"), Input(t.candidate, "verdicts")>>
      [] t.kind = "build" -> <<Input(t.manifest, "suite")>>
      [] t.kind = "check" -> <<Input(t.manifest, "gates")>>

\* load_suite and load_gates go by what their manifest declares.
SectionInputs(manifest) ==
    Inputs(PathsOf(manifest, "members"), "report")
    \o Inputs(manifest.compares, "compare")
    \o Inputs(manifest.calibrations, "calibration")
    \o Inputs(manifest.judges, "judgment")
    \o Inputs(manifest.rags, "rag")
BoundInput(t, manifest, artifact, kind) ==
    LET path == Bound(manifest, t.overrides, artifact)
    IN  IF path = NoValue THEN <<>> ELSE <<Input(path, kind)>>
DeclaredInputs(t, manifest) ==
    CASE t.kind = "build" -> SectionInputs(manifest)
      [] t.kind = "check" ->
            BoundInput(t, manifest, "run_report", "report")
            \o BoundInput(t, manifest, "compare", "compare")
            \o BoundInput(t, manifest, "calibration", "calibration")
      [] OTHER -> <<>>
Wanted(t, contents) ==
    FixedInputs(t) \o (IF contents = <<>> THEN <<>> ELSE DeclaredInputs(t, contents[1]))

Op_Accepts(t, input, content) ==
    content # Nothing /\ (content = Torn \/ content.kind = input.kind)

\* A file of another schema is refused, and so is a manifest that contradicts
\* itself or points elsewhere.
Accepts(t, input, content) ==
    /\ content \notin {Nothing, Torn}
    /\ content.kind = input.kind
    /\ input.kind = "suite" => SuiteManifestLoads(content, Inside)
    /\ input.kind = "gates" =>
        ManifestLoads(content) /\ Resolvable(content, t.overrides, Inside)

Start(c, t) ==
    /\ pc[c] = "idle" /\ starts < MaxStarts
    /\ pc' = [pc EXCEPT ![c] = "read"]
    /\ task' = [task EXCEPT ![c] = t]
    /\ starts' = starts + 1
    /\ UNCHANGED <<disk, seen, draft, history, edits, deaths>>

End(c) ==
    /\ pc' = [pc EXCEPT ![c] = "idle"]
    /\ task' = [task EXCEPT ![c] = Nothing]
    /\ seen' = [seen EXCEPT ![c] = <<>>]
    /\ draft' = [draft EXCEPT ![c] = Nothing]

Reading(c) == pc[c] = "read" /\ Len(seen[c]) < Len(Wanted(task[c], seen[c]))
NextInput(c) == Wanted(task[c], seen[c])[Len(seen[c]) + 1]

Read(c) ==
    /\ Reading(c)
    /\ Accepts(task[c], NextInput(c), Content(NextInput(c).file))
    /\ seen' = [seen EXCEPT ![c] = Append(@, Content(NextInput(c).file))]
    /\ UNCHANGED <<disk, pc, task, draft, history, bounds>>

RefuseInput(c) ==
    /\ Reading(c)
    /\ ~Accepts(task[c], NextInput(c), Content(NextInput(c).file))
    /\ End(c)
    /\ UNCHANGED <<disk, history, bounds>>

-----------------------------------------------------------------------------
(* Deciding.                                                               *)

HasRead(c, kind) ==
    pc[c] = "read" /\ task[c].kind = kind /\ Len(seen[c]) = Len(Wanted(task[c], seen[c]))

Writes(c, content, place) ==
    /\ draft' = [draft EXCEPT ![c] = content]
    /\ pc' = [pc EXCEPT ![c] = place]
    /\ UNCHANGED <<task, seen>>

RunJudgment(c) ==
    /\ HasRead(c, "judge")
    /\ CanJudge(seen[c][1], seen[c][2], seen[c][3], task[c].families)
    /\ Writes(c, Judged(seen[c][1], seen[c][2], seen[c][3], task[c].families), "write")
    /\ UNCHANGED <<disk, history, bounds>>

Dev(c) == IF Len(seen[c]) = 4 THEN seen[c][4] ELSE NoValue

ValidateCalibration(c) ==
    /\ HasRead(c, "validate")
    /\ CanCalibrate(seen[c][1], seen[c][2], Dev(c), seen[c][3])
    /\ LET calibration == CalibrationOf(seen[c][1], seen[c][2], Dev(c), seen[c][3])
       IN  /\ Writes(c, calibration, "write")
           /\ earned' = earned \cup
                {e \in {[calibration |-> calibration.body, judgment |-> seen[c][1],
                         holdout |-> seen[c][2], rubric |-> seen[c][3]]} :
                    calibration.body.gating}
    /\ UNCHANGED <<disk, compared, attached, pages, verdicts, builds, alone, bounds>>

AttachCalibration(c) ==
    /\ HasRead(c, "attach")
    /\ CanAttach(seen[c][1], seen[c][2])
    /\ Writes(c, Attached(seen[c][1], seen[c][2]), "write")
    /\ attached' = attached \cup
        {[of |-> seen[c][1], with |-> seen[c][2], made |-> Attached(seen[c][1], seen[c][2])]}
    /\ UNCHANGED <<disk, earned, compared, pages, verdicts, builds, alone, bounds>>

CompareRuns(c) ==
    /\ HasRead(c, "compare")
    /\ Comparable(seen[c][1], seen[c][2], task[c].compatible)
    /\ \E old \in PairedOutcomes(seen[c][1]), new \in PairedOutcomes(seen[c][2]) :
        /\ Stable(old, new) # {}
        /\ Writes(c, ComparisonOf(seen[c][1], old, seen[c][2], new), "write")
        /\ compared' = compared \cup
            {[baseline |-> seen[c][1], old |-> old, candidate |-> seen[c][2], new |-> new,
              result |-> ComparisonOf(seen[c][1], old, seen[c][2], new)]}
    /\ UNCHANGED <<disk, earned, attached, pages, verdicts, builds, alone, bounds>>

\* load_suite: the members are read first, in the order they are declared; the
\* rest stays at the place it was read.
LoadedSuite(contents) ==
    LET at(kind) == {i \in 2..Len(contents) : contents[i].kind = kind}
        section(kind) == [i \in at(kind) |-> contents[i]]
    IN  [manifest |-> contents[1],
         members |-> [i \in DOMAIN contents[1].members |-> contents[i + 1]],
         compares |-> section("compare"), calibrations |-> section("calibration"),
         judges |-> section("judgment"), rags |-> section("rag")]

Building == {"temp_first", "temp_second", "place_first", "place_second"}
BuildSuite(c) ==
    /\ HasRead(c, "build")
    /\ SuiteLoads(LoadedSuite(seen[c]))
    /\ LET page == AssembleSuite(LoadedSuite(seen[c]))
       IN  /\ Writes(c, [kind |-> "page", serial |-> builds, page |-> page], "temp_first")
           /\ pages' = pages \cup {page}
    /\ builds' = builds + 1
    /\ alone' = (alone /\ \A d \in Commands : pc[d] \notin Building)
    /\ UNCHANGED <<disk, earned, compared, attached, verdicts, bounds>>

\* load_gates, evaluate_gates.
KindOf == [run_report |-> "report", compare |-> "compare", calibration |-> "calibration"]
LoadedGates(contents) ==
    LET at(a) == {i \in 2..Len(contents) : contents[i].kind = KindOf[a]}
    IN  [a \in {b \in ArtifactNames : at(b) # {}} |-> contents[CHOOSE i \in at(a) : TRUE]]

GatesLoad(manifest, loaded) ==
    /\ \A i \in DOMAIN manifest.gates : Needs[manifest.gates[i].kind] \in DOMAIN loaded
    /\ "calibration" \in DOMAIN loaded => CalibrationLoads(loaded["calibration"])

CheckGates(c) ==
    /\ HasRead(c, "check")
    /\ LET loaded == LoadedGates(seen[c])
       IN  /\ GatesLoad(seen[c][1], loaded)
           /\ verdicts' = verdicts \cup
                {[gates |-> seen[c][1].gates, loaded |-> loaded,
                  result |-> Evaluation(seen[c][1], loaded)]}
    /\ End(c)
    /\ UNCHANGED <<disk, earned, compared, attached, pages, builds, alone, bounds>>

\* What was read does not go together.
RefuseAll(c) ==
    /\ pc[c] = "read" /\ Len(seen[c]) = Len(Wanted(task[c], seen[c]))
    /\ CASE task[c].kind = "judge" ->
                ~CanJudge(seen[c][1], seen[c][2], seen[c][3], task[c].families)
         [] task[c].kind = "validate" ->
                ~CanCalibrate(seen[c][1], seen[c][2], Dev(c), seen[c][3])
         [] task[c].kind = "attach" -> ~CanAttach(seen[c][1], seen[c][2])
         [] task[c].kind = "compare" ->
                \/ ~Comparable(seen[c][1], seen[c][2], task[c].compatible)
                \/ \E old \in PairedOutcomes(seen[c][1]), new \in PairedOutcomes(seen[c][2]) :
                    Stable(old, new) = {}
         [] task[c].kind = "build" -> ~SuiteLoads(LoadedSuite(seen[c]))
         [] OTHER -> ~GatesLoad(seen[c][1], LoadedGates(seen[c]))
    /\ End(c)
    /\ UNCHANGED <<disk, history, bounds>>

-----------------------------------------------------------------------------
(* Writing.                                                                *)

\* write_json: the file is cut off when it is opened.
OpenOut(c) ==
    /\ pc[c] = "write"
    /\ disk' = [disk EXCEPT ![task[c].out] = Torn]
    /\ pc' = [pc EXCEPT ![c] = "fill"]
    /\ UNCHANGED <<task, seen, draft, history, bounds>>

\* Two writers of one file may leave a mixture.
Fill(c) ==
    /\ pc[c] = "fill"
    /\ \E left \in {draft[c]} \cup
            (IF disk[task[c].out] \in {Torn, draft[c]} THEN {} ELSE {Torn}) :
        disk' = [disk EXCEPT ![task[c].out] = left]
    /\ End(c)
    /\ UNCHANGED <<history, bounds>>

\* write_suite_artifacts: both files beside their places, in this order, then
\* both moved.
Op_Contents == <<"suite.html", "suite.json">>
Contents == <<"suite.json", "suite.html">>
Temp == [n \in {"suite.json", "suite.html"} |->
            IF n = "suite.json" THEN ".suite.json.tmp" ELSE ".suite.html.tmp"]

WriteTemporary(c, here, name, next) ==
    /\ pc[c] = here
    /\ disk' = [disk EXCEPT ![Temp[name]] = draft[c]]
    /\ pc' = [pc EXCEPT ![c] = next]
    /\ UNCHANGED <<task, seen, draft, history, bounds>>

Temporaries(c) ==
    \/ WriteTemporary(c, "temp_first", Contents[1], "temp_second")
    \/ WriteTemporary(c, "temp_second", Contents[2], "place_first")

Placed(c, here, name) ==
    /\ pc[c] = here /\ disk[Temp[name]] # Nothing
    /\ disk' = [disk EXCEPT ![name] = disk[Temp[name]], ![Temp[name]] = Nothing]

PlaceFirst(c) ==
    /\ Placed(c, "place_first", Contents[1])
    /\ pc' = [pc EXCEPT ![c] = "place_second"]
    /\ UNCHANGED <<task, seen, draft, history, bounds>>

PlaceSecond(c) ==
    /\ Placed(c, "place_second", Contents[2])
    /\ End(c)
    /\ UNCHANGED <<history, bounds>>

\* Another builder moved the file of the same name: what is pending is removed.
PlaceFails(c) ==
    /\ \/ pc[c] = "place_first" /\ disk[Temp[Contents[1]]] = Nothing
       \/ pc[c] = "place_second" /\ disk[Temp[Contents[2]]] = Nothing
    /\ disk' = [disk EXCEPT ![Temp[Contents[1]]] = Nothing, ![Temp[Contents[2]]] = Nothing]
    /\ End(c)
    /\ UNCHANGED <<history, bounds>>

\* No space: what was written before is removed, what was being written stays.
WriteFails(c) ==
    /\ deaths < MaxDeaths
    /\ \/ /\ pc[c] = "temp_first"
          /\ disk' = [disk EXCEPT ![Temp[Contents[1]]] = Torn]
       \/ /\ pc[c] = "temp_second"
          /\ disk' = [disk EXCEPT ![Temp[Contents[1]]] = Nothing, ![Temp[Contents[2]]] = Torn]
    /\ End(c)
    /\ deaths' = deaths + 1
    /\ UNCHANGED <<history, starts, edits>>

Dies(c) ==
    /\ pc[c] \notin {"idle", "read"} /\ deaths < MaxDeaths
    /\ End(c)
    /\ deaths' = deaths + 1
    /\ UNCHANGED <<disk, history, starts, edits>>

-----------------------------------------------------------------------------
(* Operators.                                                              *)

Replace(f, k) ==
    /\ edits < MaxEdits /\ disk[f] # k
    /\ disk' = [disk EXCEPT ![f] = k]
    /\ edits' = edits + 1
    /\ UNCHANGED <<command, history, starts, deaths>>

\* An artifact edited by hand keeps the digest it states: a calibration is
\* told to let gate, a judgment is spelled another way or quotes a calibration.
Edited(k) ==
    CASE k.kind = "calibration" -> {[k EXCEPT !.body.gating = TRUE]}
      [] k.kind = "judgment" ->
            {[k EXCEPT !.body.dumped = FALSE]} \cup
            {[k EXCEPT !.gating = TRUE, !.claimed = disk[g].digest] :
                g \in {f \in Files : IsA(disk[f], "calibration")}}
      [] OTHER -> {}
Edit(f) ==
    /\ edits < MaxEdits /\ disk[f] \notin {Nothing, Torn}
    /\ \E k \in Edited(disk[f]) : disk' = [disk EXCEPT ![f] = k]
    /\ edits' = edits + 1
    /\ UNCHANGED <<command, history, starts, deaths>>

-----------------------------------------------------------------------------
Step(c) ==
    \/ Read(c) \/ RefuseInput(c) \/ RefuseAll(c)
    \/ RunJudgment(c) \/ ValidateCalibration(c) \/ AttachCalibration(c)
    \/ CompareRuns(c) \/ BuildSuite(c) \/ CheckGates(c)
    \/ OpenOut(c) \/ Fill(c)
    \/ Temporaries(c) \/ PlaceFirst(c) \/ PlaceSecond(c) \/ PlaceFails(c)

Next ==
    \/ \E c \in Commands : \E t \in TasksOf[c] : Start(c, t)
    \/ \E c \in Commands : Step(c) \/ WriteFails(c) \/ Dies(c)
    \/ \E f \in Files : \E k \in Versions[f] : Replace(f, k)
    \/ \E f \in Files : Edit(f)

Spec == Init /\ [][Next]_vars

-----------------------------------------------------------------------------
(* Properties.                                                             *)

Places == {"idle", "read", "write", "fill"} \cup Building

WasRead(s) == s \in Seq(ToSet(s)) /\ ToSet(s) \cap {Nothing, Torn} = {}
Held == {disk[f] : f \in Files} \cup {draft[c] : c \in Commands}
            \cup UNION {ToSet(seen[c]) : c \in Commands}

TypeInvariant ==
    /\ pc \in [Commands -> Places]
    /\ disk = [f \in Files |-> disk[f]]
    /\ seen = [c \in Commands |-> seen[c]] /\ draft = [c \in Commands |-> draft[c]]
    /\ \A c \in Commands : WasRead(seen[c])
    /\ \A k \in Held : WellMade(k)

\* A digest that lets gate was computed by validate_calibration, wherever it
\* is found.
Earned == {e.calibration : e \in earned}
DigestsAreGenuine ==
    \A k \in Held : IsA(k, "calibration") /\ k.digest.gating => k.digest \in Earned

\* The inductive invariant.
InductiveInvariant == TypeInvariant /\ DigestsAreGenuine

\* What lights a gate was earned: a judgment a suite shows as gating is the
\* very one some calibration was computed for and passed, and so is the
\* calibration behind a passing judge gate, however calibrations and judgments
\* are replaced, repeated and edited while they are read one after the other
\* (builder.py _judgment_is_bound, attach_calibration, _eval_calibrated_judge).
GatesAreEarned ==
    /\ \A page \in pages : \A i \in DOMAIN page.judges : page.judges[i].gating =>
        \E e \in Earned : e = page.judges[i].of.claimed /\ e.judgment = Identity(page.judges[i].of)
    /\ \A v \in verdicts : \A i \in DOMAIN v.gates :
        v.gates[i].kind = "calibrated_judge" /\ v.gates[i].name \notin v.result.failed
        => v.loaded["calibration"].body \in Earned

\* The labelled rows whose case has a verdict, and all that was said of those
\* cases, as the rubric's metric takes it.
Used(body, labels) ==
    {row \in ToSet(labels.rows) : \E k \in DOMAIN body.items :
        body.items[k].case = row.case /\ Verdict(body, k) # NoValue}
Opinions(body, labels, aspect) ==
    UNION {{row.value[aspect], Rated(body, row.case)[aspect]} : row \in Used(body, labels)}

\* No calibration lets gate on volume alone: as many different cases as its
\* rubric asks for were both judged and labelled, and of those cases human and
\* judge did not all say one and the same.  What is the same is what the metric
\* takes for it: to Cohen's kappa a label of 1.0 and a score of 1 are two things
\* (calibrate.py _index_items_by_case, load_labels, compute_agreement).
EvidenceIsDistinct ==
    \A e \in earned :
        LET body == e.judgment.body
        IN  /\ Cardinality({row.case : row \in Used(body, e.holdout)}) >= e.rubric.min_holdout
            /\ \E x, y \in Opinions(body, e.holdout, Aspect(e.rubric.metric, body.mode)) : x # y

\* What attach_calibration makes of a judgment the runner wrote is recognised
\* by every suite that loads the calibration it was made with
\* (judgment_identity_digest leaves out what attaching rewrites).
AttachedIsRecognised ==
    \A a \in attached : a.of.body.dumped => IsBound(a.made, {a.with.digest})

\* Suites of one digest say the same of what may gate and what is left out,
\* whenever and from whichever paths they were built (_suite_digest).
DigestNamesDecisions ==
    \A p, q \in pages : p.digest = q.digest =>
        /\ p.exclusions = q.exclusions
        /\ ToSet(p.comparisons) = ToSet(q.comparisons)
        /\ ToSet(p.judges) = ToSet(q.judges)

\* As long as no two builders work at once, the page in place is never newer
\* than the data in place, whichever builds died (write_suite_artifacts).
PagesFollowData ==
    alone /\ disk["suite.html"] \notin {Nothing, Torn} =>
        /\ disk["suite.json"] \notin {Nothing, Torn}
        /\ disk["suite.html"].serial <= disk["suite.json"].serial

\* What is at the outputs of a suite: pages, each of an assembly before, and as
\* long as builders work one by one, of the last one where they are at.
IsPage(k, before) == k.kind = "page" /\ k.serial \in Nat /\ k.serial < before
BuilderIsAt(c) ==
    /\ draft[c].serial = builds - 1
    /\ pc[c] \in {"temp_second", "place_first"} => disk[".suite.json.tmp"] = draft[c]
    /\ pc[c] \in {"place_first", "place_second"} => disk[".suite.html.tmp"] = draft[c]
    /\ pc[c] = "place_second" => disk["suite.json"] = draft[c]
BuildersInvariant ==
    /\ builds \in Nat /\ alone \in BOOLEAN
    /\ \A c \in Commands :
        /\ pc[c] # "idle" => task[c] \in TasksOf[c]
        /\ pc[c] \in {"write", "fill"} =>
            task[c].kind \in {"judge", "validate", "attach", "compare"}
        /\ pc[c] \in Building => IsPage(draft[c], builds)
    /\ \A f \in Outputs : disk[f] \in {Nothing, Torn} \/ IsPage(disk[f], builds)
    /\ alone =>
        /\ \A c, d \in Commands : pc[c] \in Building /\ pc[d] \in Building => c = d
        /\ \A c \in Commands : pc[c] \in Building => BuilderIsAt(c)
        /\ PagesFollowData

\* Which run is called the baseline does not matter: what is flaky, how much
\* evidence there is and whether the difference is significant is the same the
\* other way round, and a regression one way is an improvement the other
\* (compare_runs).
ComparisonIsSymmetric ==
    \A m \in compared :
        LET back == ComparisonOf(m.candidate, m.new, m.baseline, m.old)
        IN  /\ Stable(m.new, m.old) # {}
            /\ m.result.flaky = back.flaky /\ m.result.n = back.n
            /\ m.result.p = back.p /\ m.result.significant = back.significant
            /\ m.result.new - m.result.old = back.old - back.new
            /\ m.result.h = -back.h
=============================================================================
