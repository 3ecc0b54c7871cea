# A TLA+ model of evalharness

evalharness runs a dataset of cases through a language model, stores one
generation per (case, repeat), scores the stored generations and publishes a
report that gates and suites rely on. This directory holds TLA+ modules of the
parts whose correctness depends on order, concurrency, failure and time, TLC
configurations that check them on small instances, and proofs that TLAPS checks
for every value of the constants.

Paths below are relative to `src/src/evalharness/` unless they say otherwise.

## 1. The system and what makes it hard

| Component | State it keeps | Operations | Talks to | What makes it correct |
|---|---|---|---|---|
| Executor (`execution/executor.py`, `plan.py`, `shutdown.py`) | in memory: plan, bounded queue, workers, shutdown event, progress tally; in the database: `runs.status` | `create_run`, `validate_resume`, `execute_run`, drain, deadline, final status | case runner, run store, signals | completed means complete; a pass always ends; nothing is written after the pool is down |
| Case runner (`case_runner.py`, `cache.py`, `helpers.py`) | `generations`, `response_cache` | `run_one`: cache lookup, provider, cache store, persist, terminal failure | retry loop, run store | one row per key, never rewritten; cached rows agree with the cache |
| Retry loop (`attempts.py`, `providers/retry.py`) | attempt log, case deadline | `generate_with_retries` | managed provider | budget kept, outcome agrees with the log |
| Managed provider (`providers/runtime.py`) | breaker, two token buckets, semaphore | `generate`, `embed` | provider adapters | rates kept, permits never lost, an open breaker recovers, everyone is served |
| Scoring (`scoring/engine.py`, `repositories/scores.py`, `metric_aggregates.py`) | `scores`, `metric_aggregates` | `rescore_run` in one transaction | run store | no score lost to a transaction that rolls back; no aggregate counts more than the stored scores; no deadlock |
| Report (`reporting/`) | report files | `build_report`, `write_report` | run store | a report that says "completed" lists every generation, and its headline every verdict on them |
| Evidence calls (`providers/call_policy.py`, `judge/live.py`, `rag/live.py`) | queue, workers, results by index, one artifact file | `bounded_map`, `_call_with_policy`, `run_live_judgment`, `run_live_nli` | managed provider, judge, RAG | the artifact is whole or not written, whatever the order of the answers; no call left running after a failure |
| Judge, calibration (`judge/`, `artifacts/calibration.py`, `hashing.py`) | judgment, label and calibration files | `run_judgment`, `validate_calibration`, `attach_calibration` | suite, gates | a calibration vouches only for the judgment it measured, on as many different cases as its rubric asks for |
| Compare (`services/compare.py`, `statistics/`) | none of its own; reads `scores` | `compare_runs` | run store, suite, gates | the evidence does not depend on which run is called the baseline |
| Gates, suite (`gates/`, `suite/`) | `suite.json` and `suite.html` | `load_gates`, `evaluate_gates`, `load_suite`, `assemble_suite`, `write_suite_artifacts` | reports, compare, calibrations, judgments | only earned calibrations gate; a digest names the decisions; the page follows its data |
| Upserts (`repositories/datasets.py`, `prompt_templates.py`, `model_versions.py`) | identity rows | three selects and inserts in one transaction | run store | a name keeps what it was given to; runs refer to registered names only |
| Packs (`packages/evaldatasets`, `datasets/`) | a snapshot, its pin, staging and pack directories | `materialize_dataset`, `load_dataset`, `validate_dataset` | file system, evaluation service | a published pack stays; a version names its cases; a run has the cases its manifest vouches for |

The rest (metrics, statistics, charts, CLI, logging, adapters' HTTP) is pure
computation or I/O around these parts. `PROJECT.json` lists every component with
its state of modelling, and the hazards of the code with the line where each bites.

How the parts meet: the evaluation service validates the inputs, creates or
resumes a run and hands it to the executor. Workers take (case, repeat) items
from a bounded queue; each case asks the response cache, then calls the provider
through the retry loop and the managed provider, stores the answer in the cache
and commits one generation row. Scoring, reports and comparisons read only
what was committed. Packs, judgments, calibrations, comparisons, reports and suites are
files that one command writes and another reads, with nothing to keep the two apart but
digests. Within a process everything else is passed by call.

## 2. Modules

| Module | Models | Checked by | Proofs |
|---|---|---|---|
| `RunLedger.tla` | what a run promises to its readers: rows written once, of one set of inputs, "completed" only when complete | `core` (as `LedgerSpec`) | `ExecutorImplementsLedger` |
| `Executor.tla` | executor, case runner, store statements; any number of processes on one run | `MCExecutor.tla`, three configurations | `ExecutorProofs.tla` |
| `CaseAttempts.tla` | the attempts of one case against its budget | itself | `CaseAttemptsProofs.tla` |
| `ManagedProvider.tla` | concurrent callers of one managed provider | `MCManagedProvider.tla` | `ManagedProviderProofs.tla` |
| `Scoring.tla` | scoring transactions beside each other and beside the run, which is `RunLedger` | `MCScoring.tla`, two configurations | `ScoringProofs.tla` |
| `EvidenceCalls.tla` | a live judge or RAG command: its pool of provider calls, its artifact, its client | `MCEvidenceCalls.tla` | `EvidenceCallsProofs.tla` |
| `Reporting.tla` | `evalctl run` from execution to the report files; extends `Scoring` | `MCReporting.tla` | `ReportingProofs.tla` |
| `IdentityCatalog.tla` | what the identity tables promise to runs: a name keeps its content | `dataset_registry` (as `CatalogSpec`) | `TablesImplementCatalog` |
| `PackPolicy.tla` | adapters, loader, validator and license rules as operators | `MCDatasets.tla` | used by `DatasetsProofs.tla` |
| `Datasets.tla` | `dataset materialize` and the first half of `evalctl run`, over files and tables | `MCDatasets.tla`, two configurations | `DatasetsProofs.tla` |
| `JudgePolicy.tla` | runners, agreement, calibration and its binding as operators | `MCPublication.tla` | used by `PublicationProofs.tla` |
| `ComparePolicy.tla` | pairing, flaky cases, McNemar, Benjamini-Hochberg | `MCPublication.tla` | used by `PublicationProofs.tla` |
| `GatePolicy.tla`, `SuitePolicy.tla` | the gates; loading, assembling and digesting a suite | `MCPublication.tla` | used by `PublicationProofs.tla` |
| `Publication.tla` | the judge, compare, suite and gate commands over shared files | `MCPublication.tla` | `PublicationProofs.tla` |

### Conventions

A step is the code the event loop runs between two awaits, or one committed
transaction of the store. Acquiring an `asyncio.Lock` or `Semaphore` that is free
does not suspend in Python; the models allow a step in between, which only adds
interleavings. An operator named `Op_Something`, stated just before `Op`, is a
version of `Op` with a plausible bug; `PROJECT.json` says which property notices it.

### RunLedger and Executor

The rows of `generations`, the status and inputs of `runs`, and `response_cache`
are the variables the two modules share. `Executor.tla` adds, for every process,
the driver (`phase`: planning, running, draining, finalizing, recording), the
producer (`todo`, the item blocked in `queue.put`, the end markers still to put),
the bounded queue and the workers (`wpc`: where in `run_one` each one stands).

- `CreateRun`, `ResumeRun`, `StartPool`: `create_run` or `validate_resume`, then
  `build_run_plan`, which plans the keys without a row.
- `Produce`, `ProduceBlocked`, `StopProducing`, `ProducePill`: the producer of
  `_run_worker_pool`. The shutdown check comes before the put, so an item already
  blocked in `put` enters the queue after a shutdown; the worker's own check in
  `run_one` then refuses it.
- `TakePill`, `SkipCase`, `StartCase`, `CacheHit`, `CacheMiss`, `ProviderAnswers`,
  `ProviderFails`, `StoreResponse`, `Persist`: a worker and its case.
- `CaseRaises`, `TerminalRaises`, `WorkerDies`: a step that raises. A store
  operation may raise before its commit or after it. An exception in a case turns
  into a `harness_error` row; if saving that raises as well, the key stays without
  a row. A `BaseException` ends the worker.
- `PoolEnds`, `BeginDrain`, `DrainTimeout`, `RunDeadline`: the three ways out of
  `_drive_workers`. Cancelling the pool is one step, taken when the cancelled tasks have
  ended: `_cancel` awaits them, and closing a session waits for its statement.
- `Decide` and `RecordStatus` are two steps, since the code reads what is left in one
  session and commits the status in another. `RunRaises` and `Crash` end a pass
  anywhere.

The retry loop appears as the way it ends (answer, `harness_error`,
`harness_timeout`); the timers appear as steps that may come at any moment their
condition allows.

### CaseAttempts

`generate_with_retries` of one case. `elapsed` counts ticks since the case got its
deadline, `timer` what is left of the request timeout or of the backoff sleep, and
`late` the ticks in which a due timer did not run because the event loop was busy.
The order of the checks is the code's: after a timeout, retries or budget; after
another error, its class, then the budget, then the retries. Jitter is any value
in its window, and `Retry-After` any of a set of delays. `CircuitRejects` is a
`CircuitOpenError`, which `ManagedProvider.before_call` raises without an await.

### ManagedProvider

Callers go through `idle`, `requests`, `tokens`, `semaphore`, `calling`. Times are
kept as ages: since a bucket was updated, since the circuit opened, until a sleeping
caller looks again. An age stops counting where nothing can tell it apart (a bucket
of capacity C is full after C ticks; the recovery timeout is over), and `failures`
at the threshold. `Cancelled` is the caller's `wait_for` giving up, or its task
being cancelled, at any await: it returns a held permit, leaves the line, keeps
what the buckets granted, and does not touch the breaker, since `CancelledError` is
not an `Exception`. `Watch` begins an observed stretch of time at any moment, `LookAway`
ends it; they and `granted` exist only to state what a bucket grants in any such stretch.

### Scoring

A job is one call of `rescore_run`: one PostgreSQL transaction, READ COMMITTED. The
run it scores is an instance of `RunLedger` (`Open`, `Generate`, `Settle`), so what
scoring assumes of an execution is what `Executor` is proved to keep.

- `Load` is the statements up to `get_generations_for_run`: the generations are read
  once, and `todo` becomes what the job will write for them.
- `At` is the job's next statement. Generations come ordered by case and repeat, each
  with the metrics in the order of the caller's list, then the sorted aggregates:
  that is `Place`.
- `SaveScore` is `ON CONFLICT DO NOTHING`: it inserts and locks a row that is not
  there, passes over a committed one, and waits for the owner of an uncommitted one.
  `SaveAggregate` is `ON CONFLICT DO UPDATE` and locks the row in any case.
- `Commit` publishes the rows in `own`; `Abort` drops them, for whatever reason: a
  metric that does not support a case, a lost connection, a deadlock victim.

A score is stored with a value or as NULL: `scores` are the identities stored and `values`
those of them with a value. `Scorable` says when a metric can give one: there is an output
(or the metric counts a missing one as 0.0) and the case has something to compare it with
(`Excluded` are those that do not). Most metrics then give it always. METEOR and BERTScore
return None while their WordNet data or package is missing, under the same version and
configuration (`NeedsData`, `MayReturn`), so two jobs may compute different things for one
identity. `found` is what a job computed and will average; `SaveScore` computes the value
also when the row is there already, and stores it only when it is not. An aggregate is its `n`.

### Reporting

An evaluator is a process of `EvaluationService.run`. It starts or resumes the run,
writes rows, ends its pass with a status (`verdict`), scores as a job of `Scoring`,
and reports. The jobs that are no evaluators are `evalctl runs rescore`. `ReadRun`,
`ReadGenerations`, `ReadScores` and `ReadAggregates` are the statements of
`build_report` in order, each of which sees the latest commit; `page` is what they
read, and `files` the three files, which evaluators of one run share by name.
`EndRun` uses the ledger's promise that "completed" is recorded over a full run.

### EvidenceCalls

One live command. `main` is where `run_live_judgment` or `run_live_nli` stands;
`Command` is its task, which resolves the model as item 0 under the same call policy
as the workers. The queue is FIFO and its content is fixed (the items in order, then
the end markers), so it is two counters, `put` and `got`. `log` keeps how the calls of
each item ended and is read only by properties.

- `Answer`, `Malformed`, `TimesOut`, `ProviderRaises`, `Wake`: the ways through
  `_call_with_policy` and the parser of the response. A timeout is final here, unlike
  in the executor's retry loop.
- `MapFails` is the `gather` that raises; until the command runs again, the other
  workers go on, which is why it is a step of its own. `Unwind` is a task that meets
  its cancellation, `GiveUp` the second `gather`. `InterruptMap` and `InterruptResolve`
  are Ctrl-C; an interrupt while the client is being closed is left out.
- `FinishMap` checks the results, merges them and writes the file in one step, as
  there is no await in between. `KeyOf` says where an item is filed: by case and
  ordering for a judge, where duplicates are rejected, and by case, claim and document
  for RAG, where they are not; the last item of a key stays (`LastOf`).

### PackPolicy and Datasets

`PackPolicy` has no state: what each adapter does with an item (keep, skip, raise), the
sample of a seed, the keys a manifest may carry, and every rule of `validate_dataset` and
`_enforce_license`. Of an item it keeps only what these tell apart; the digest of a file
is the file, the hash of the cases is the set of the cases. A string is `NoValue`, one of
`Blank` (not empty, but emptied by `strip()`), or says something; an address is one of
`Relative` or has a scheme. That is what the validator asks of a manifest's digest, address
and scrub procedure (`VersionedOk`) and of a case's provenance (`CasesOk`, `Stated`), and
what the pin of a snapshot (`PinFits`), the adapter and `WithProvenance` put there.

In `Datasets` a step is one access to the file system or one statement of the store.

- A materializing command goes `digest`, `select`, perhaps `recheck`, `stage`,
  `stage_manifest`, `publish`. The snapshot is opened anew at each of the first three.
  `torn` records that it was replaced between digest and cases. `Publish` is the rename,
  which fails on a directory that is not empty; `MEnds` is the `finally` clause, and
  `MakerDies` a kill, after which the staging directory stays.
- An evaluator loads the manifest, then the cases with `validate_dataset`, then walks the
  three tables in one transaction: `SelectFound`, `SelectConflict` or `SelectNothing` and
  `Insert`. An insert waits for another transaction that holds the name and fails on the
  unique constraint if that one commits. `Commit`, then `RecordRun` in a transaction of
  its own.
- `ReplaceSnapshot`, `ReplacePin` and `EditPack` are operators at the file system.

### JudgePolicy, ComparePolicy, GatePolicy, SuitePolicy and Publication

The four policies have no state and stand for what the commands compute from what they
have read. Digests are the bodies they are of. Agreement, rates and p-values are exact
fractions where the code has floats; NaN, which a float may be, is left out. A rating is a
number and what it prints as, since Cohen's kappa compares texts (`str(value)`) and the
other metrics numbers, or texts if all of them are (`Aspect`): 1 and 1.0 are one number and
two texts. What is only listed for reading in a suite keeps who it is about and what it says.

In `Publication` every command is a process that reads its files one by one (`Read`,
`RefuseInput`), decides at once (`RunJudgment`, `ValidateCalibration`,
`AttachCalibration`, `CompareRuns`, `BuildSuite`, `CheckGates`, `RefuseAll`) and writes.
What a suite or gates command reads depends on its manifest (`DeclaredInputs`).
`OpenOut` and `Fill` are `write_json`, which cuts the file off first; `Temporaries`,
`PlaceFirst` and `PlaceSecond` are the two files of a suite, each beside its place and then
moved; `PlaceFails`, `WriteFails` and `Dies` are the ways out in between. `Replace` and
`Edit` are operators: an artifact edited by hand keeps the digest it states. They cannot
make a calibration with a genuine digest, which is what the hash is for
(`Unremarkable`). `earned`, `compared`, `attached`, `pages` and `verdicts` are history.

## 3. Runs

| Run | Instance | Shows |
|---|---|---|
| `core` | two processes with one worker each, one case x 2 repeats with one prompt, two texts, two sets of inputs, 2 passes, 2 faults, 1 death; processes, texts and inputs are interchangeable | the inductive invariant; completed means complete; the database takes only steps of `RunLedger` |
| `pool` | one process, one worker, 4 items, queue of 2, 2 passes, 2 faults, a death | a blocked producer with shutdown and faults: "cancelled" and "failed" are honest; a planned key without a row was lost to a death, to two operations that raised, or to the shutdown; every pass ends by the timers if the store serves the driver and cancelled tasks end, and its pool by itself when its cases end |
| `case_budget` | budget 6, request timeout 3, 2 retries, Retry-After 0, 3 or 9, 2 late ticks, up to 7 ticks used before | budget kept, outcome agrees with the log, every case ends |
| `provider_serving` | two callers, one permit, requests 2 + 1 per tick, tokens 3 + 2 per tick, estimates 3 and 4, window of 1 tick | the inductive invariant; rates kept; permits conserved; an open circuit admits calls again; everyone is served once no more arrive |
| `scoring_overlapping` | two jobs, two generations, two slices, three metrics: one counts a missing output, one has no label on the second case, one may lack its data | no score is lost; aggregates are backed, and exact while jobs do not overlap, for the metrics that need no data; no ring of waiting jobs; every job ends |
| `report_pipelines` | two evaluators, two generations, two configurations of one metric | a completed report file lists every generation; the headline of the evaluator that completed the run is complete |
| `evidence_calls` | two workers, three items of which two share a key, one retry, two labels, one error worth a retry and one not | the inductive invariant; the artifact is whole or not written; nothing runs after the client is closed; the command ends |
| `dataset_packs` | two materializing commands, one evaluator, two directories of which one is in the repository, three snapshots of two or three items, with one that is too long and one whose id is a space, three pins of which one is of another revision and one has no address, a pack written by hand, one edit, one death | the inductive invariant; runs have the cases their manifest vouches for; a version names its cases; a published pack stays; what was drawn is refused only for what its records lack |
| `dataset_registry` | one materializing command, two evaluators with equal and different templates, one edit, one death | the tables take only steps of `IdentityCatalog`; every command ends |
| `publication` | two command processes, four starts among judge, validate with and without dev labels, attach, compare, build and check, one edit, one death; three cases pointwise or pairwise, labels with a decimal for one whole number, two runs, a suite of all sections, a gate of each kind | the inductive invariant; gates are earned; calibrations rest on different cases of which not the same was said; what was attached is recognised; suites of one digest decide alike; pages follow their data; comparisons are symmetric |

Two runs end in a violation, each a disagreement between the code and a sentence
of the documentation (quoted in `PROJECT.json` under "findings"):

- `resume_repairs`: the guide says to resume after an outage to repair its
  `harness_error` rows; a resume plans only keys without a row, so those cases are
  never executed again.
- `scoring_overtaken`: an aggregate over more generations is to replace a stale one;
  the job that commits last wins, also when it read fewer.

More disagreements came up while modelling. No run is spent on them:

- The providers page says an open circuit classifies as retryable and makes the executor
  back off (docs/providers.md:62-64, docs/guide.md:1322). `CIRCUIT_OPEN` is not retryable
  (`execution/attempts.py:184`), so the case ends as `harness_error` at once:
  `CircuitRejects` of `CaseAttempts`.
- A call queued while the circuit was closed reaches the backend after it opened
  (docs/providers.md:62); `ManagedProvider` has it.
- Harness failures are to be outside the quality denominator (docs/reports.md:94); a
  metric that values a missing output as 0.0 (`scoring/metrics/lexical/assertions.py:20`)
  brings them in. The metrics of `Reporting` have no value on a missing output.
- The run deadline cancels the pool at once, where docs/dataplane.md:89 speaks of a drain.
- An evaluator whose own pass was cut short may report a run that another completed as
  publishable, without the other's scores (docs/reports.md:34).
- A run scored under two configurations of its primary metric has both verdicts in one
  pass rate (docs/schema.md:67), and a comparison uses whichever verdict of several
  versions its query returns last (`repositories/scores.py:88`).
- Two evaluators, or a crash, leave report files of two reports side by side
  (docs/reports.md:20). Two suite builders share the names of their temporary files and
  may publish a page and data of two suites, although `write_suite_artifacts` says
  "atomically" (`suite/builder.py:526`); `PagesFollowData` is therefore about builders that
  do not overlap.
- A snapshot replaced between the reading of its digest and of its cases makes a pack
  whose version does not name its cases (`materialize.py:396-397`): `torn` of `Datasets`.
- METEOR without its WordNet data scores NULL, and the advice is to install the data
  (docs/operations.md:189). A rescore then leaves the scores NULL, as `save_score` does
  nothing on a conflict (`repositories/scores.py:48`), while the aggregates it replaces
  count the values it computed: `NeedsData` of `Scoring`, which `AggregatesAreBacked` and
  `AggregatesMatchScores` leave out.
- A record whose id is white space is drawn (`materialize.py:234-236`) and its pack then
  refused for that id (`datasets/validator.py:161-176`): `Complete` of `Datasets` asks for
  more than the sampler does.
- Cohen's kappa compares what ratings print as (`judge/agreement.py:75-76`): a holdout that
  says 1.0 for every score of 1 has two categories and an agreement of 0.0, where the
  docstring means evidence of one category to give none. It passes a threshold of 0.0, and
  fails every other although nobody disagreed.
- A pack whose split, license or slices change under its name and version counts as the
  same dataset: `upsert_dataset` compares the hash of the cases alone.
- The gates do not check that comparison and calibration belong to the run of the report
  they are checked with; a suite digest leaves out what members are declared to be.

### Bounds, and why they are enough

`MaxPasses`, `MaxFaults`, `MaxDeaths`, `MaxLate`, `HeadStart` and `MaxWindow` are bounds of
the model; the code has none of them. Two passes are needed for a resume, or for two processes
at once, and the state a pass starts from is whatever the database holds, which one earlier
pass with a crash anywhere already makes arbitrary. Two faults let the terminal save fail
after its case failed. Two processes, with a worker each and one prompt, are what it takes to
race on the cache, on a row and on the status, and four items for a queue of two to have the
producer blocked while items and the end marker wait behind it. In `case_budget`, the head
start exceeds the budget, the longest Retry-After exceeds what is left, and the retries run
out before or after the budget does. In `provider_serving`, one estimate needs the whole
bucket and the other exceeds it, and threshold and recovery are the smallest values for which
a late success, a late failure and a partial recovery exist. Two scoring jobs are what it
takes for a conflicting insert whose owner aborts; three metrics, two generations and two
slices give values that one job finds and the other does not, and rows to take in different
orders. The two evaluators of `report_pipelines` may each be the one that completes the run,
and either may be cut short; two generations let one be written before and one after a
statement of the report. In `evidence_calls`, three items and two end markers pass through two
workers, so that one may fail, sleep or wait while the other is anywhere; a queue of four is
filled by the five entries. In `dataset_packs` the two commands may want one directory, and
one name and version for two directories; one edit is one replaced snapshot, pin or file of a
pack, at any moment; the third snapshot has a record without a name for the validator, and two
of the three pins are ones `PinFits` refuses. In `publication` nothing is attached at first;
four starts let two commands overlap before a third and a fourth, as in attaching while
another calibration is computed, and two builds after that; one of two files of holdout labels
repeats a case and the other has a decimal, one run has a case whose repeats disagree and a
verdict of a second version. `MaxStarts` and `MaxEdits` are bounds of the model as well.
`SYMMETRY` in `core` is sound: the specification names no process, text or inputs, and the run
has no liveness property. Every safety property of a passing run is proved for all values, so
the bounds limit only the liveness properties.

Deadlock is not checked in any run: every system modelled here is meant to stop
(the passes are used up, the case is done, nobody calls). That nothing stops
halfway is what `PassEnds`, `PoolFinishes`, `CaseEnds`, `EveryoneIsServed`,
`ScoringEnds` and `CommandEnds` say.

### Fairness, and why the code justifies it

- `pool`: `DrivenSpec` makes fair only what the event loop runs when it is ready and that
  waits for nothing else: the driver noticing that the pool is done or that a shutdown was
  requested (`LoopStep`). What each liveness property needs of others is its hypothesis.
  `PassEnds` assumes that the store serves the driver (`StoreServesDriver`: it reads the
  plan, rereads it and commits the status without a timeout, `executor.py:207, 226-235`), and
  that timers fire and the tasks they cancel end (`TimersFire`: `_cancel` awaits them without
  a timeout, `executor.py:355-357`, while they close their sessions). Nothing in the code
  bounds either: a pass whose store hangs there hangs as well. It assumes nothing of
  producer and workers, which is the point of the timers. `PoolFinishes` assumes that these
  go on (`CasesEnd`: provider and store answer, which the request timeout guarantees for the
  provider), and nothing of the timers. No signal or fault is fair.
- `case_budget`: the clock, due timers and the loop's own steps are fair; the
  provider's answer is not.
- `provider_serving`: the clock, the waiting steps and the backend's end (an answer or
  an exception, which the timeout around it guarantees) are fair; arrivals and
  cancellations are not. The semaphore is first come, first served; a bucket is not,
  which is why `EveryoneIsServed` starts when no more calls arrive.
- `scoring_overlapping`: the database serves a statement that is not waiting for a lock, and
  the code issues the next one; both are `JobStep`. Nothing obliges a job to start, or to
  abort, so a job must not need either to end.
- `dataset_registry`: a command that was started goes on, and the database serves an
  insert that waits for nobody. Nothing obliges anyone to start, edit or die.
- `evidence_calls`: every task that can run does, sleeps end, and a call ends (`wait_for`
  gives it a timeout). Interrupts are not fair.

## 4. What is proved

All theorems hold for every value of the constants under the named assumptions
(`ExecutorAssumption`, `CallsAssumption`, `MarkersAreNotData`, `NoRowIsNotARow`,
`CaseAssumption`, `ProviderAssumption`, `ScoringAssumption`, `ReportingAssumption`,
`DatasetsAssumption`, `SamplesAssumption`, `StringsAssumption`, `PublicationAssumption`,
`OutputsAssumption`, `AngleAssumption`), which TLC evaluates for the instances it checks. Four
theorems carry a hypothesis of their own (`OnlyOne`, `JobsAgree`), given below.

**Executor.** `InductiveInvariant` (checked by `core` first) is the conjunction of
`TypeOK`; `WorkersOk`, what a worker holds at each place of `run_one`; `InputsOk`,
every live process and every pending row carries the run's inputs; `CacheOk`, a
pending cached row agrees with the cache; and `VerdictsOk`, a "completed" verdict
still to be recorded stands over a full ledger. The last is what
`CompletedMeansComplete` needs to be inductive: the verdict is read in one
transaction and recorded in another, and stays true in between because rows are
never removed. One lemma per conjunct preserves it, with one step per action.
From it follow `CompletedRunsAreComplete`, `CachedRowsAreTrue`, `RowsOfOneRun`,
`GenerationsAreWrittenOnce` and `ExecutorImplementsLedger`: `StoreStep` shows
that each step leaves the store alone or has the effect of one ledger action, which
gives the step simulation.

`PoolInvariant` is the invariant of the worker pools. Its first half,
`MarkersOk`, counts the end markers that are still to be put, in the queue or taken: one
per worker, and in the queue after every key. So a worker returns only when nothing is left
for it, and while one of them lives either the queue has something for it or the producer
has room: nobody waits for everybody (`PoolsDoNotStall`). The second half follows each
planned key: in `todo`, blocked in `put`, in the queue, in a worker's hands, or stored. A key
leaves everyone's hands without a row only if its worker dies, or if its case raises and the
saving of that failure raises as well; `LossOk` counts a key at its first raise already
(`Saving`), which makes `2 * lost <= 2 * deaths + faults` inductive (`PlannedKeysAreWritten`).
`StartsAreAsked` says that `StartCase` is the only step into flight, and it is refused after
a shutdown (`ShutdownStartsNothing`).

`UnfinishedRunsAreHonest` and `CompletedRunsStay` assume `OnlyOne`, that there is one
process: with two the first is false of the code, since the other may write the last row or
record "completed" between the verdict and its recording. `OneExecutorInvariant` says that an
unfavourable verdict still to be recorded stands over a missing row or a lost worker, and
that beside a completed run nothing is planned, queued or in flight that could reopen it.

**CaseAttempts.** The strengthening ties the length of the log to the attempt
number and keeps `elapsed + timer` within `Budget + late` while a timer runs. That
is why `CaseKeepsItsBudget` holds: both the request timeout and the delay are clamped
to what remains. `RetriesAreJustified` and `OutcomeIsExplained` follow from the
same invariant.

**ManagedProvider.** `LineIsExact` says that a caller stands in line exactly once
while it waits for a permit; without it `AcquirePermit` could hand a permit to a
call that has one, and `PermitsNeverLeak` would not be inductive. `PlaceLeaves`
proves that leaving from any place keeps the line exact. `WindowIsWithinRate`
strengthens `RateKept` by what the bucket could grant now; `TickLevel` shows that a
tick adds at most the rate to it, even though ages stop counting.
`BreakerAgrees` needs nothing but the breaker's own steps.

**Scoring.** `StatementsOk` says of every open transaction that each of its statements is
still to be issued, or its row is in `own`, or it is committed, and that the rows it holds
come before those it has still to write. With "no row has two owners" the first half makes
`NoScoreIsLost` inductive: a conflicting insert is passed over only when the row is committed.
`AggregatesHaveScores` needs it as well, with `ScoresHaveRows` (only generations that exist
are scored, and they stay): at a commit, the generations an aggregate counts all have their
score. `ValuesOk` says the same of values: what has one is scored, and of a metric that needs
no data (`Settled`) a stored score and a computed one have a value exactly when the generation
is `Scorable`. The other metrics keep the weaker bound, by scores. The second half of
`StatementsOk` gives `NoDeadlock`: in any set of jobs that wait for one another, the job whose
statement is furthest on in the common order waits for a row its owner took, so the owner is
further on still. It assumes `JobsAgree`, that the jobs list their metrics in one order.
`ScoringOneByOneIsExact` rests on `Undisturbed`, which holds while one job at a time is open,
however the run grows: every stored score is of a generation the open job has read, every
aggregate of what it read is done or still to be written, and the committed aggregates match
the committed values, of the metrics that need no data. An aggregate its commit does not
replace is of a slice and metric it adds no score to.

**Reporting.** `PagesOk` says, for every stage of a report, what its page so far implies:
a status "completed" once read means a full run from then on, so the generations read
after it are all of them. `CompletedReportsAreFull` depends on that order of the
statements. For `HeadlinesAreComplete`, an evaluator that completed the run loaded all
generations, and by `NoScoreIsLost` their scores were committed before it began to read.
The proofs reuse `ScoringProofs` for every step that is a step of `Scoring`.

**EvidenceCalls.** `WorkInv` says where each item is: not yet taken, with exactly one
worker, or answered, with its result at its index. A worker that returned saw an end
marker, and those come after every item, so when all have returned none holds an item
and every result is there (`NoItemLeftBehindHolds`): the check for an incomplete result
is never needed. `LogInv` ties the length of an item's log to the attempt of the task
that is at it, for which no two tasks may be at one item. `ArtifactIsWholeHolds` uses
`LastStays`: the key of a last item stands for that item.

**Datasets.** `DrawnAsPinned` says that what a command has chosen is what the snapshot of its
digest gives it, unless it is torn, and that a materialized pack on the shelf is what its
version says: the version holds everything the cases depend on, from which `VersionsNameCases`
follows. `RowsAreNamedOnce` gives every uncommitted row a name that no table and no other
transaction has, and `InputsAreRegistered` follows a command's rows from `own` into the
tables; with both, each step of the database is `Register`, `Record` or nothing
(`TablesImplementCatalog`). `RunsKeepInputs` needs no order of reading: the manifest kept in
memory and the cases kept in memory were compared with each other. `DrawnPacksFit` needs
`WellChosen` in addition: a command that goes on was admitted, and what it has drawn was drawn
from a snapshot that had enough to draw from, perhaps not the one in place now; `PinnedInFull`
adds that the pin it found states a revision and an address that a manifest may have.
`FirstOfMany` counts the sample: the number of things before each thing is a bijection from n
things that rank apart to 0 .. n - 1, so exactly `size` of them have fewer than `size` before
them. Ids that are unique among the publishable records make the cases of the sample as many
as its records (`DrawnFits`); `LicenseFits` goes through the adapters. `SamplesAssumption`
says that a snapshot is a finite sequence, that a pin states a revision and that every id has
a rank, `StringsAssumption` that the adapters' own names and texts are not blank.

**Publication.** `DigestsAreGenuine` ranges over everything that is held anywhere, on disk,
in what a command has read and in what it is about to write: a calibration whose digest lets
gate was computed by `validate_calibration`, whatever its body was edited to.
`NothingElseGates` follows, because a judgment is shown as gating only if such a digest
names its identity, and a gate accepts a calibration only if its body is its digest.
`AttachingIsRecognised` holds since the identity of a judgment leaves out what attaching
rewrites, and the digest attached is that of the calibration in hand.

The other theorems about publications follow from what a command had read when it decided:
`ReadsInOrder` (`FilesAreOfTheirKind`) says that `judge validate` and `runs compare` hold
files of the kinds they read, in that order. `DigestsDecide`: the body of a suite holds what
each decision was taken from, so equal digests mean equal decisions. `EitherRunIsTheBaseline`:
what is flaky and what is stable, the two discordant counts and the correction are symmetric,
and the difference and its sign turn; `AngleAssumption` says that the tabulated angles are
numbers. `VolumeIsNotEnough`: labels are paired with verdicts one per case, so there are no
more pairs than different cases (`PairedAreDifferent`), and labels and verdicts of those pairs
that are all alike, in the aspect the metric compares, agree on nothing (`AlikeDoNotAgree`).
`Used` are the pairs and `Opinions` what was said of them. `BuildersInvariant` says what each
temporary and each output of a suite holds at every place of its builder, while builders work
one by one; since data is moved before its page, the page in place is never newer than the
data (`PagesStayBehindData`). `OutputsAssumption` says that nobody but `suite build` puts
anything at its outputs.

Model-checked only, since liveness under fairness is beyond TLAPS: `PassEnds`,
`PoolFinishes`, `CaseEnds`, `BreakerRecovers`, `EveryoneIsServed`, `ScoringEnds`,
`CommandEnd` and `CommandsEnd`. Some theorems (`TypeCorrect`, `RowsOfOneRun`,
`CachedRowsAreTrue`, `GenerationsAreWrittenOnce`, `PoolInvariantHolds`, `PoolsDoNotStall`,
`ShutdownStartsNothing`, `CompletedRunsStay`, `OneExecutorInvariant`, `CaseInvariant`,
`RetriesAreJustified`, `BreakerAgrees`, `ScoringInvariant`, `PipelineIsInvariant`,
`RetriesAreEarnedHolds`, `NoItemLeftBehindHolds`, `FilesAreOfTheirKind`,
`BuildersInvariantHolds`) state properties
that no run lists: the proof covers every instance.

## 5. Plan

The modules were built in this order: `RunLedger`, `Executor`, `CaseAttempts`,
`ManagedProvider`, `Scoring`, `Reporting`, `EvidenceCalls`, then `Datasets` with its
policies and catalog, then `Publication` with its policies. What would add most next:

1. The retry loop composed with the managed provider (many cases, one breaker), to state
   what a storm costs a run; the evidence calls likewise.
2. That the run of `Reporting`, which takes the ledger's steps, is refined by `Executor`.
3. The matrix of runs, a loop over evaluation with a summary of its own.
4. The rest of a report: the mean headline, latency, cost and examples.
5. Claims, citations and faithfulness of RAG answers as operators checked against a
   reference definition.

## 6. Not modelled

- Metrics, intervals, bootstrap and charts: floating-point functions of their inputs,
  beyond what TLC can enumerate usefully.
- The texts of packs, judgments and pages: YAML, JSON, Markdown and HTML syntax, the parsing
  of a judge's answer, and the order of rows that are sorted for reading only.
- The matrix of runs (`matrix/`), a sequential loop over `EvaluationService.run`.
- HTTP, payload shapes, prompt rendering, hashing, logging, command line: I/O and
  formatting. A prompt is a member of a set, as the cache key tells prompts apart.
- `delete_cache`, which only `scripts/run_poc.py` uses: the cache of the model grows.
- Two processes resuming one run: the model allows it and shows what remains true. The
  guide warns of a duplicate key (docs/guide.md:1345); `save_generation` does nothing on
  a conflict instead, and a late "cancelled" may overwrite "completed".
- The headline of a continuous metric (the first overall aggregate under its name), and
  the report's latency, cost, histogram and examples: single passes over the page.
- A metric named twice in a list, which would be aggregated twice: the lists are sets.
- A negative `max_retries`, which settings accept and no configuration has.
