--------------------------- MODULE DatasetsProofs ---------------------------
(***************************************************************************)
(* Proofs about Datasets.tla, for any commands, packs and snapshots.       *)
(***************************************************************************)
EXTENDS Datasets, FiniteSetTheorems, TLAPS

USE DatasetsAssumption

LEMMA InitInvariant == Init => InductiveInvariant
<1> SUFFICES ASSUME Init PROVE InductiveInvariant
  OBVIOUS
<1>1. TypeInvariant
  <2>1. \A o \in Outputs : shelf[o] # Nothing => shelf[o] \in HandMade
    BY DEF Init
  <2>2. \A h \in HandMade : h = [manifest |-> h.manifest, cases |-> h.cases, torn |-> h.torn]
    BY DEF HandMade
  <2>3. QED
    BY <2>1, <2>2 DEF Init, TypeInvariant, MakerPlaces, TakerPlaces, Over, Tables
<1>2. StagedAsPlaced
  BY DEF Init, StagedAsPlaced
<1>3. DrawnAsPinned
  BY ZenonT(30) DEF Init, DrawnAsPinned, Materialized, HandMade
<1>4. RowsAreNamedOnce
  BY DEF Init, RowsAreNamedOnce, TablesOk, OwnRowsOk, Apart
<1>5. InputsAreRegistered
  BY DEF Init, InputsAreRegistered, RunsOk, Registered
<1>6. QED
  BY <1>1, <1>2, <1>3, <1>4, <1>5 DEF InductiveInvariant

LEMMA TypeStep == TypeInvariant /\ [Next]_vars => TypeInvariant'
<1> SUFFICES ASSUME TypeInvariant, [Next]_vars PROVE TypeInvariant'
  OBVIOUS
<1> USE DEF MakerPlaces, TakerPlaces
<1>1. ASSUME NEW m \in Materializers, NEW j \in JobsOf[m], StartJob(m, j)
      PROVE  TypeInvariant'
  BY ZenonT(30), <1>1 DEF TypeInvariant, Over, StartJob, MGoto, files, taker, database, bounds
<1>2. ASSUME NEW m \in Materializers,
             TakeDigest(m) \/ SelectCases(m) \/ Recheck(m) \/ MakerDies(m)
      PROVE  TypeInvariant'
  <2>1. CASE TakeDigest(m)
    BY ZenonT(30), <2>1 DEF TypeInvariant, Over, TakeDigest, MGoto, files, taker, database, bounds
  <2>2. CASE SelectCases(m)
    BY ZenonT(30), <2>2 DEF TypeInvariant, Over, SelectCases, MGoto, files, taker, database, bounds
  <2>3. CASE Recheck(m)
    BY <2>3 DEF TypeInvariant, Over, Recheck, MGoto, files, taker, database, bounds
  <2>4. CASE MakerDies(m)
    BY <2>4 DEF TypeInvariant, Over, MakerDies, MGoto, files, taker, database, bounds
  <2>5. QED
    BY <1>2, <2>1, <2>2, <2>3, <2>4
<1>3. ASSUME NEW m \in Materializers,
             PinRefused(m) \/ SelectRefused(m) \/ RecheckRefused(m) \/ PublishRefused(m)
               \/ MakerFault(m)
      PROVE  TypeInvariant'
  BY <1>3 DEF TypeInvariant, Over, PinRefused, SelectRefused, RecheckRefused, PublishRefused,
     MakerFault, Refuse, MEnds, MGoto, taker, database, bounds
<1>4. ASSUME NEW m \in Materializers, NEW f \in {"cases.jsonl", "manifest.yaml"}, Stage(m, f)
      PROVE  TypeInvariant'
  BY <1>4 DEF TypeInvariant, Over, Stage, MGoto, taker, database, bounds
<1>5. ASSUME NEW m \in Materializers, Publish(m) PROVE TypeInvariant'
  BY <1>5 DEF TypeInvariant, Over, Publish, Product, MEnds, MGoto, taker, database, bounds
<1>6. ASSUME Operator PROVE TypeInvariant'
  <2>1. ASSUME NEW o \in Outputs, NEW p \in HandMade, EditPack(o, p) PROVE TypeInvariant'
    <3>1. PICK q \in {[shelf[o] EXCEPT !.manifest = p.manifest],
                      [shelf[o] EXCEPT !.cases = p.cases, !.torn = TRUE]} :
            shelf' = [shelf EXCEPT ![o] = q]
      BY <2>1 DEF EditPack
    <3>2. shelf[o] = [manifest |-> shelf[o].manifest, cases |-> shelf[o].cases,
                      torn |-> shelf[o].torn]
      BY <2>1 DEF TypeInvariant, EditPack
    <3>3. q = [manifest |-> q.manifest, cases |-> q.cases, torn |-> q.torn]
      BY <3>1, <3>2
    <3>4. Over(shelf', Outputs)
      BY <3>1 DEF TypeInvariant, Over
    <3>5. \A r \in Outputs : shelf'[r] # Nothing =>
            shelf'[r] = [manifest |-> shelf'[r].manifest, cases |-> shelf'[r].cases,
                         torn |-> shelf'[r].torn]
      BY <3>1, <3>3 DEF TypeInvariant, Over
    <3>6. UNCHANGED <<temps, maker, taker, tables>> /\ edits' = edits + 1
      BY <2>1 DEF EditPack, Edit, database
    <3>7. QED
      BY <3>4, <3>5, <3>6 DEF TypeInvariant, Over, maker, taker
  <2>2. ASSUME NEW s \in Snapshots, ReplaceSnapshot(s) PROVE TypeInvariant'
    BY <2>2 DEF TypeInvariant, Over, ReplaceSnapshot, Edit, taker, database
  <2>3. ASSUME NEW p \in Pins, ReplacePin(p) PROVE TypeInvariant'
    BY <2>3 DEF TypeInvariant, Over, ReplacePin, Edit, maker, taker, database
  <2>4. QED
    BY <1>6, <2>1, <2>2, <2>3 DEF Operator
<1>7. ASSUME NEW e \in Evaluators, NEW q \in Requests, StartRun(e, q) PROVE TypeInvariant'
  BY ZenonT(30), <1>7 DEF TypeInvariant, Over, StartRun, EGoto, files, maker, database, bounds
<1>8. ASSUME NEW e \in Evaluators, LoadManifest(e) PROVE TypeInvariant'
  BY ZenonT(30), <1>8 DEF TypeInvariant, Over, LoadManifest, EGoto, files, maker, database, bounds
<1>9. ASSUME NEW e \in Evaluators, LoadCases(e) PROVE TypeInvariant'
  BY ZenonT(30), <1>9 DEF TypeInvariant, Over, LoadCases, EGoto, files, maker, database, bounds
<1>10. ASSUME NEW e \in Evaluators,
              SelectConflict(e) \/ InsertRefused(e) \/ TakerFails(e) \/ SelectNothing(e)
       PROVE  TypeInvariant'
  <2>1. CASE SelectConflict(e) \/ InsertRefused(e)
    BY <2>1 DEF TypeInvariant, Over, SelectConflict, InsertRefused, Rollback, EGoto, files,
       maker, database, bounds
  <2>2. CASE TakerFails(e)
    BY ZenonT(30), <2>2 DEF TypeInvariant, Over, TakerFails, Rollback, EGoto, files, maker, database
  <2>3. CASE SelectNothing(e)
    BY <2>3 DEF TypeInvariant, Over, SelectNothing, EGoto, files, maker, database, bounds
  <2>4. QED
    BY <1>10, <2>1, <2>2, <2>3
<1>11. ASSUME NEW e \in Evaluators, SelectFound(e) \/ Insert(e) PROVE TypeInvariant'
  <2>1. at' \in [Evaluators -> Tables]
    BY <1>11 DEF TypeInvariant, SelectFound, Insert, Advance, After, Tables
  <2>2. \E v \in {"commit", "select"} : epc' = [epc EXCEPT ![e] = v]
    BY <1>11 DEF SelectFound, Insert, Advance, EGoto
  <2>3. Over(own', Evaluators)
    BY <1>11 DEF TypeInvariant, Over, SelectFound, Insert
  <2>4. /\ UNCHANGED <<files, maker, asked, pack, database, bounds>>
        /\ \A f \in Evaluators \ {e} : at'[f] = at[f]
    BY <1>11 DEF TypeInvariant, SelectFound, Insert, Advance
  <2>5. /\ epc' \in [Evaluators -> TakerPlaces] /\ epc'[e] \in {"commit", "select"}
        /\ \A f \in Evaluators \ {e} : epc'[f] = epc[f]
    BY <2>2 DEF TypeInvariant
  <2>6. \A f \in Evaluators :
          /\ epc'[f] \in {"idle", "manifest", "cases"} => at'[f] = "datasets"
          /\ epc'[f] = "cases" =>
              pack'[f] = [manifest |-> pack'[f].manifest, cases |-> pack'[f].cases]
    BY <2>4, <2>5 DEF TypeInvariant
  <2>7. UNCHANGED <<mpc, job, pinned, chosen, torn, temps, shelf, tables, edits, asked, pack>>
    BY <2>4 DEF files, maker, database, bounds
  <2>8. QED
    BY <2>1, <2>3, <2>5, <2>6, <2>7 DEF TypeInvariant, Over
<1>12. ASSUME NEW e \in Evaluators, Commit(e) \/ RecordRun(e) PROVE TypeInvariant'
  BY <1>12 DEF TypeInvariant, Over, Commit, RecordRun, EGoto, files, maker, bounds
<1>13. ASSUME UNCHANGED vars PROVE TypeInvariant'
  BY <1>13 DEF TypeInvariant, Over, vars, files, maker, taker, database, bounds
<1>14. QED
  BY <1>1, <1>2, <1>3, <1>4, <1>5, <1>6, <1>7, <1>8, <1>9, <1>10, <1>11, <1>12, <1>13
     DEF Next, MakerStep, TakerStep

\* Only the commands that materialize touch what they hold.
LEMMA TakersLeaveMakers ==
    ASSUME NEW e \in Evaluators,
           TakerStep(e) \/ TakerFails(e) \/ (\E q \in Requests : StartRun(e, q))
    PROVE  UNCHANGED <<files, maker>>
BY DEF TakerStep, TakerFails, StartRun, LoadManifest, LoadCases, SelectConflict, SelectFound,
   SelectNothing, Insert, InsertRefused, Commit, RecordRun

LEMMA StagedStep == TypeInvariant /\ StagedAsPlaced /\ [Next]_vars => StagedAsPlaced'
<1> SUFFICES ASSUME TypeInvariant, StagedAsPlaced, [Next]_vars PROVE StagedAsPlaced'
  OBVIOUS
<1>0. Over(temps, Materializers) /\ mpc \in [Materializers -> MakerPlaces]
  BY DEF TypeInvariant, Over
<1>1. CASE UNCHANGED <<mpc, temps>>
  BY <1>1 DEF StagedAsPlaced
<1>2. ASSUME NEW m \in Materializers, NEW j \in JobsOf[m], StartJob(m, j)
      PROVE  StagedAsPlaced'
  BY <1>0, <1>2 DEF StagedAsPlaced, StartJob, MGoto, files
<1>3. ASSUME NEW m \in Materializers, MEnds(m) PROVE StagedAsPlaced'
  BY <1>0, <1>3 DEF StagedAsPlaced, MEnds, MGoto, Over
<1>4. ASSUME NEW m \in Materializers, NEW f \in {"cases.jsonl", "manifest.yaml"}, Stage(m, f)
      PROVE  StagedAsPlaced'
  BY <1>0, <1>4 DEF StagedAsPlaced, Stage, MGoto, Over
<1>5. ASSUME NEW m \in Materializers,
             TakeDigest(m) \/ SelectCases(m) \/ Recheck(m) \/ MakerDies(m)
      PROVE  StagedAsPlaced'
  BY <1>0, <1>5 DEF StagedAsPlaced, TakeDigest, SelectCases, Recheck, MakerDies, MGoto, files
<1>6. CASE Operator
  BY <1>1, <1>6 DEF Operator, ReplaceSnapshot, ReplacePin, EditPack, maker
<1>7. ASSUME NEW e \in Evaluators,
             TakerStep(e) \/ TakerFails(e) \/ (\E q \in Requests : StartRun(e, q))
      PROVE  StagedAsPlaced'
  BY <1>1, <1>7, TakersLeaveMakers DEF files, maker
<1>8. QED
  BY <1>1, <1>2, <1>3, <1>4, <1>5, <1>6, <1>7
     DEF Next, MakerStep, PinRefused, SelectRefused, RecheckRefused, PublishRefused, Refuse,
         Publish, MakerFault, vars, files, maker

\* What a version's cases are does not depend on who asks.
LEMMA VersionDrawsTheSame ==
    ASSUME NEW j, NEW p
    PROVE  CasesOfVersion(VersionOf(j, p)) = Drawn(j, p.revision, p.digest)
BY DEF CasesOfVersion, VersionOf, Drawn

LEMMA DrawnStep == TypeInvariant /\ DrawnAsPinned /\ [Next]_vars => DrawnAsPinned'
<1> SUFFICES ASSUME TypeInvariant, DrawnAsPinned, [Next]_vars PROVE DrawnAsPinned'
  OBVIOUS
<1>0. /\ mpc \in [Materializers -> MakerPlaces] /\ torn \in [Materializers -> BOOLEAN]
      /\ Over(job, Materializers) /\ Over(pinned, Materializers) /\ Over(chosen, Materializers)
      /\ Over(shelf, Outputs)
  BY DEF TypeInvariant
<1> DEFINE Kept(m) == ~torn[m] =>
        /\ mpc[m] = "select" => pinned[m].digest = source
        /\ mpc[m] \in {"recheck", "stage", "stage_manifest", "publish"} =>
            chosen[m] = Drawn(job[m], pinned[m].revision, pinned[m].digest)
<1>a. \A m \in Materializers : Kept(m)
  BY DEF DrawnAsPinned
<1>b. ASSUME UNCHANGED shelf, \A m \in Materializers : Kept(m)' PROVE DrawnAsPinned'
  BY <1>b DEF DrawnAsPinned, Materialized
<1>1. CASE UNCHANGED <<mpc, job, pinned, chosen, torn, source, shelf>>
  BY <1>1 DEF DrawnAsPinned, Materialized
<1>2. ASSUME NEW m \in Materializers, NEW j \in JobsOf[m], StartJob(m, j)
      PROVE  DrawnAsPinned'
  BY <1>0, <1>2, <1>a, <1>b DEF StartJob, MGoto, files, Over
<1>3. ASSUME NEW m \in Materializers, MGoto(m, "done") \/ MGoto(m, "dead"),
             UNCHANGED <<job, pinned, chosen, torn, source, shelf>>
      PROVE  DrawnAsPinned'
  BY <1>0, <1>3, <1>a, <1>b DEF MGoto, Over
<1>4. ASSUME NEW m \in Materializers, TakeDigest(m) PROVE DrawnAsPinned'
  BY <1>0, <1>4, <1>a, <1>b DEF TakeDigest, MGoto, files, Over
<1>5. ASSUME NEW m \in Materializers, SelectCases(m) PROVE DrawnAsPinned'
  <2>1. chosen' = [chosen EXCEPT ![m] = Drawn(job[m], pinned[m].revision, source)]
    BY <1>5 DEF SelectCases, Fresh
  <2>2. chosen'[m] = Drawn(job[m], pinned[m].revision, source)
    BY <2>1, <1>0 DEF Over
  <2>3. Kept(m)'
    BY <1>0, <1>5, <1>a, <2>2 DEF SelectCases, MGoto, files
  <2>4. ASSUME NEW n \in Materializers \ {m} PROVE Kept(n)'
    BY <1>0, <1>5, <1>a, <2>1, <2>4 DEF SelectCases, MGoto, files, Over
  <2>5. QED
    BY <2>3, <2>4, <1>b, <1>5 DEF SelectCases, files
<1>6. ASSUME NEW m \in Materializers,
             Recheck(m) \/ (\E f \in {"cases.jsonl", "manifest.yaml"} : Stage(m, f))
      PROVE  DrawnAsPinned'
  BY <1>0, <1>6, <1>a, <1>b DEF Recheck, Stage, MGoto, files, Over
<1>7. ASSUME NEW m \in Materializers, Publish(m) PROVE DrawnAsPinned'
  <2>1. \A n \in Materializers : Kept(n)'
    BY <1>0, <1>7, <1>a DEF Publish, MEnds, MGoto, Over
  <2>2. Product(m).torn = torn[m] /\ Product(m).cases = chosen[m]
        /\ Product(m).manifest.version = VersionOf(job[m], pinned[m])
    BY DEF Product, ManifestOf
  <2>3. ~torn[m] => Product(m).cases = CasesOfVersion(Product(m).manifest.version)
    BY <1>7, <1>a, <2>2, VersionDrawsTheSame DEF Publish
  <2>4. ASSUME NEW o \in Outputs, Materialized(o)'
        PROVE  shelf'[o].cases = CasesOfVersion(shelf'[o].manifest.version)
    <3>1. CASE o = job[m].out
      <4>1. shelf'[o] = Product(m)
        BY <1>0, <1>7, <3>1 DEF Publish, Over
      <4>2. QED
        BY <2>2, <2>3, <2>4, <4>1 DEF Materialized
    <3>2. CASE o # job[m].out
      <4>1. shelf'[o] = shelf[o]
        BY <1>0, <1>7, <3>2 DEF Publish, Over
      <4>2. QED
        BY <2>4, <4>1 DEF Materialized, DrawnAsPinned
    <3>3. QED
      BY <3>1, <3>2
  <2>5. QED
    BY <2>1, <2>4 DEF DrawnAsPinned
<1>8. ASSUME NEW s \in Snapshots, ReplaceSnapshot(s) PROVE DrawnAsPinned'
  BY <1>0, <1>8, <1>a, <1>b DEF ReplaceSnapshot, Over
<1>9. ASSUME NEW r \in Outputs, NEW p \in HandMade, EditPack(r, p) PROVE DrawnAsPinned'
  <2>1. PICK q \in {[shelf[r] EXCEPT !.manifest = p.manifest],
                    [shelf[r] EXCEPT !.cases = p.cases, !.torn = TRUE]} :
          shelf' = [shelf EXCEPT ![r] = q]
    BY <1>9 DEF EditPack
  <2>2. shelf[r] = [manifest |-> shelf[r].manifest, cases |-> shelf[r].cases,
                    torn |-> shelf[r].torn]
    BY <1>9 DEF EditPack, TypeInvariant
  <2>3. p.manifest.schema = NoValue
    BY DEF HandMade
  <2>4. q.manifest.schema = NoValue \/ q.torn
    BY <2>1, <2>2, <2>3
  <2>5. ASSUME NEW o \in Outputs, Materialized(o)'
        PROVE  shelf'[o].cases = CasesOfVersion(shelf'[o].manifest.version)
    BY <1>0, <2>1, <2>4, <2>5 DEF Over, Materialized, DrawnAsPinned
  <2>6. \A m \in Materializers : Kept(m)'
    BY <1>9, <1>a DEF EditPack, maker
  <2>7. QED
    BY <2>5, <2>6 DEF DrawnAsPinned
<1>10. ASSUME NEW p \in Pins, ReplacePin(p) PROVE DrawnAsPinned'
  BY <1>1, <1>10 DEF ReplacePin, maker
<1>11. ASSUME NEW e \in Evaluators,
              TakerStep(e) \/ TakerFails(e) \/ (\E q \in Requests : StartRun(e, q))
       PROVE  DrawnAsPinned'
  BY <1>1, <1>11, TakersLeaveMakers DEF files, maker
<1>12. ASSUME NEW m \in Materializers, Refuse(m) \/ MakerFault(m) \/ MakerDies(m)
       PROVE  DrawnAsPinned'
  BY <1>3, <1>12 DEF Refuse, MakerFault, MakerDies, MEnds, files
<1>13. QED
  BY <1>1, <1>2, <1>4, <1>5, <1>6, <1>7, <1>8, <1>9, <1>10, <1>11, <1>12
     DEF Next, MakerStep, Operator, PinRefused, SelectRefused, RecheckRefused, PublishRefused,
         vars, files, maker

-----------------------------------------------------------------------------
(* The transaction that registers dataset, template and model.             *)

\* Only the commands that evaluate touch rows.
LEMMA MakersLeaveTakers ==
    ASSUME Next, ~(\E e \in Evaluators :
                    TakerStep(e) \/ TakerFails(e) \/ (\E q \in Requests : StartRun(e, q)))
    PROVE  UNCHANGED <<taker, database>>
BY DEF Next, MakerStep, Operator, StartJob, TakeDigest, PinRefused, SelectCases, SelectRefused,
   Recheck, RecheckRefused, Stage, Publish, PublishRefused, Refuse, MakerFault, MakerDies,
   ReplaceSnapshot, ReplacePin, EditPack

\* What one command does leaves the others where they are.
LEMMA OthersStay ==
    ASSUME TypeInvariant, NEW e \in Evaluators, NEW f \in Evaluators \ {e},
           TakerStep(e) \/ TakerFails(e) \/ (\E q \in Requests : StartRun(e, q))
    PROVE  /\ UNCHANGED <<epc[f], at[f], own[f], pack[f], asked[f]>>
           /\ \A t \in Tables : RowFor(f, t)' = RowFor(f, t)
           /\ Passed(f)' = Passed(f)
<1>0. /\ epc \in [Evaluators -> TakerPlaces] /\ at \in [Evaluators -> Tables]
      /\ Over(own, Evaluators) /\ Over(pack, Evaluators) /\ Over(asked, Evaluators)
  BY DEF TypeInvariant
<1> USE <1>0 DEF Over, EGoto, Rollback, Advance
<1>1. UNCHANGED <<epc[f], at[f], own[f], pack[f], asked[f]>>
  <2>1. ASSUME NEW q \in Requests, StartRun(e, q)
        PROVE  UNCHANGED <<epc[f], at[f], own[f], pack[f], asked[f]>>
    BY <2>1 DEF StartRun
  <2>2. CASE LoadManifest(e)
    BY <2>2 DEF LoadManifest
  <2>3. CASE LoadCases(e)
    <3>1. PICK v : pack' = [pack EXCEPT ![e] = v]
      BY <2>3, Zenon DEF LoadCases
    <3>2. QED
      BY <2>3, <3>1 DEF LoadCases
  <2>4. CASE SelectConflict(e) \/ SelectNothing(e) \/ InsertRefused(e) \/ TakerFails(e)
    BY <2>4 DEF SelectConflict, SelectNothing, InsertRefused, TakerFails
  <2>5. CASE SelectFound(e)
    BY <2>5 DEF SelectFound
  <2>6. CASE Insert(e)
    BY <2>6 DEF Insert
  <2>7. CASE Commit(e) \/ RecordRun(e)
    BY <2>7 DEF Commit, RecordRun
  <2>8. QED
    BY <2>1, <2>2, <2>3, <2>4, <2>5, <2>6, <2>7 DEF TakerStep
<1>2. \A t \in Tables : RowFor(f, t)' = RowFor(f, t)
  BY <1>1 DEF RowFor
<1>3. Passed(f)' = Passed(f)
  BY <1>1 DEF Passed
<1>4. QED
  BY <1>1, <1>2, <1>3

LEMMA PassedTables ==
    ASSUME at \in [Evaluators -> Tables], NEW e \in Evaluators
    PROVE  Passed(e) \subseteq Tables
BY DEF Passed, Preceding, Tables

LEMMA RowShape ==
    ASSUME NEW e, NEW t
    PROVE  /\ RowFor(e, t) = [key |-> RowFor(e, t).key, content |-> RowFor(e, t).content]
           /\ t = "models" => RowFor(e, t).content = Capabilities
BY DEF RowFor

LEMMA NamedStep ==
    ASSUME TypeInvariant, RowsAreNamedOnce, [Next]_vars
    PROVE  RowsAreNamedOnce'
<1>0. /\ epc \in [Evaluators -> TakerPlaces] /\ at \in [Evaluators -> Tables]
      /\ Over(own, Evaluators) /\ Over(tables, Tables)
      /\ \A e \in Evaluators : epc[e] \in {"idle", "manifest", "cases"} => at[e] = "datasets"
  BY DEF TypeInvariant
<1>a. TablesOk /\ \A e \in Evaluators : OwnRowsOk(e) /\ \A f \in Evaluators \ {e} : Apart(e, f)
  BY DEF RowsAreNamedOnce
<1>b. ASSUME TablesOk', \A e \in Evaluators : OwnRowsOk(e)' /\ \A f \in Evaluators \ {e} : Apart(e, f)'
      PROVE  RowsAreNamedOnce'
  BY <1>b DEF RowsAreNamedOnce
<1>1. CASE UNCHANGED <<taker, tables>>
  BY <1>1 DEF RowsAreNamedOnce, TablesOk, OwnRowsOk, Apart, taker, Passed, Preceding, RowFor, Named
\* A step of one command that leaves the tables and takes no name.
<1>2. ASSUME NEW e \in Evaluators, TakerStep(e) \/ TakerFails(e) \/ (\E q \in Requests : StartRun(e, q)),
             UNCHANGED tables, own'[e] \subseteq own[e], OwnRowsOk(e)'
      PROVE  RowsAreNamedOnce'
  <2>1. TablesOk'
    BY <1>a, <1>2 DEF TablesOk
  <2>2. ASSUME NEW f \in Evaluators \ {e} PROVE OwnRowsOk(f)'
    BY <1>0, <1>a, <1>2, <2>2, OthersStay, PassedTables DEF OwnRowsOk, Named
  <2>3. ASSUME NEW f \in Evaluators, NEW g \in Evaluators \ {f} PROVE Apart(f, g)'
    <3>1. own'[f] \subseteq own[f] /\ own'[g] \subseteq own[g]
      BY <1>2, OthersStay
    <3>2. QED
      BY <3>1, <1>a DEF Apart
  <2>4. QED
    BY <1>b, <1>2, <2>1, <2>2, <2>3
<1>3. ASSUME NEW e \in Evaluators, own'[e] = {} PROVE OwnRowsOk(e)' /\ own'[e] \subseteq own[e]
  BY <1>3 DEF OwnRowsOk
<1>4. ASSUME NEW e \in Evaluators,
             SelectConflict(e) \/ InsertRefused(e) \/ TakerFails(e)
      PROVE  RowsAreNamedOnce'
  <2>1. own'[e] = {} /\ UNCHANGED tables
    BY <1>0, <1>4 DEF SelectConflict, InsertRefused, TakerFails, Rollback, Over, database
  <2>2. QED
    BY <1>2, <1>3, <1>4, <2>1 DEF TakerStep
<1>5. ASSUME NEW e \in Evaluators,
             (\E q \in Requests : StartRun(e, q)) \/ LoadManifest(e) \/ LoadCases(e) \/ RecordRun(e)
      PROVE  RowsAreNamedOnce'
  <2>1. own[e] = {}
    BY <1>5, <1>a DEF OwnRowsOk, StartRun, LoadManifest, LoadCases, RecordRun
  <2>2. own' = own /\ UNCHANGED tables
    BY <1>5 DEF StartRun, LoadManifest, LoadCases, RecordRun, database
  <2>3. QED
    BY <1>2, <1>3, <1>5, <2>1, <2>2 DEF TakerStep
<1>6. ASSUME NEW e \in Evaluators, SelectNothing(e) PROVE RowsAreNamedOnce'
  <2>1. /\ UNCHANGED <<tables, own, at, pack, asked>>
        /\ epc[e] = "select" /\ epc'[e] = "insert"
    BY <1>0, <1>6 DEF SelectNothing, EGoto, database
  <2>2. OwnRowsOk(e)'
    BY <1>a, <2>1 DEF OwnRowsOk, Passed, Preceding, RowFor, Named
  <2>3. QED
    BY <1>2, <1>6, <2>1, <2>2 DEF TakerStep
<1>7. ASSUME NEW e \in Evaluators, epc[e] \in {"select", "insert"}, Advance(e),
             UNCHANGED <<pack, asked>>
      PROVE  /\ epc'[e] \in {"select", "commit"}
             /\ \A t \in Tables : RowFor(e, t)' = RowFor(e, t)
             /\ Passed(e)' = Passed(e) \cup {at[e]} /\ at[e] \notin Passed(e)
  BY <1>0, <1>7 DEF Advance, EGoto, After, Passed, Preceding, RowFor, Tables
<1>8. ASSUME NEW e \in Evaluators, SelectFound(e) PROVE RowsAreNamedOnce'
  <2>1. UNCHANGED <<tables, own, pack, asked>> /\ epc[e] = "select" /\ Advance(e)
    BY <1>8 DEF SelectFound, database
  <2>2. OwnRowsOk(e)'
    BY <1>0, <1>a, <2>1, <1>7, PassedTables DEF OwnRowsOk, Named
  <2>3. QED
    BY <1>2, <1>8, <2>1, <2>2 DEF TakerStep
<1>9. ASSUME NEW e \in Evaluators, Insert(e) PROVE RowsAreNamedOnce'
  <2> DEFINE row == RowFor(e, at[e])
  <2>1. /\ UNCHANGED <<tables, pack, asked>> /\ epc[e] = "insert" /\ Advance(e)
        /\ own'[e] = own[e] \cup {[table |-> at[e], row |-> row]}
        /\ Named(at[e], row.key) = {}
        /\ \A f \in Evaluators \ {e} : \A r \in own[f] :
            ~(r.table = at[e] /\ r.row.key = row.key)
    BY <1>0, <1>9 DEF Insert, Over, database
  <2>2. at[e] \in Tables
    BY <1>0
  <2>3. OwnRowsOk(e)'
    <3>1. /\ epc'[e] \in {"select", "commit"} /\ Passed(e)' = Passed(e) \cup {at[e]}
          /\ \A t \in Tables : RowFor(e, t)' = RowFor(e, t)
          /\ Passed(e) \subseteq Tables
      BY <1>0, <1>7, <2>1, PassedTables
    <3>2. ASSUME NEW r \in own[e]
          PROVE  /\ r.table \in Passed(e)' /\ r.row = RowFor(e, r.table)'
                 /\ Named(r.table, r.row.key)' = {}
      BY <1>a, <2>1, <3>1, <3>2 DEF OwnRowsOk, Named
    <3>3. PICK t, n : t \in Tables /\ t = at[e] /\ n = RowFor(e, t)
      BY <2>2
    <3>4. own'[e] = own[e] \cup {[table |-> t, row |-> n]} /\ Named(t, n.key) = {}
          /\ t \in Passed(e)' /\ n = RowFor(e, t)'
      BY <2>1, <3>1, <3>3
    <3>5. Named(t, n.key)' = {}
      BY <2>1, <3>4 DEF Named
    <3>6. QED
      BY <3>1, <3>2, <3>4, <3>5 DEF OwnRowsOk
  <2>4. TablesOk'
    BY <1>a, <2>1 DEF TablesOk
  <2>5. ASSUME NEW f \in Evaluators \ {e} PROVE OwnRowsOk(f)' /\ own'[f] = own[f]
    BY <1>0, <1>a, <1>9, <2>1, <2>5, OthersStay, PassedTables DEF TakerStep, OwnRowsOk, Named
  <2>6. ASSUME NEW f \in Evaluators \ {e} PROVE Apart(e, f)' /\ Apart(f, e)'
    BY <1>a, <2>1, <2>5, <2>6 DEF Apart
  <2>7. ASSUME NEW f \in Evaluators \ {e}, NEW g \in Evaluators \ {e, f} PROVE Apart(f, g)'
    BY <1>a, <2>5, <2>7 DEF Apart
  <2>8. QED
    BY <1>b, <2>3, <2>4, <2>5, <2>6, <2>7
<1>10. ASSUME NEW e \in Evaluators, Commit(e) PROVE RowsAreNamedOnce'
  <2> DEFINE mine(t) == {r.row : r \in {x \in own[e] : x.table = t}}
  <2>1. /\ \A t \in Tables : tables'[t] = tables[t] \cup mine(t)
        /\ own'[e] = {} /\ UNCHANGED <<pack, asked, at>>
    BY <1>0, <1>10 DEF Commit, Over
  <2>2. \A t \in Tables : \A r \in mine(t) : r = RowFor(e, t) /\ Named(t, r.key) = {}
    BY <1>a DEF OwnRowsOk
  <2>3. TablesOk'
    <3>1. ASSUME NEW t \in Tables, NEW r \in tables'[t]
          PROVE  /\ r = [key |-> r.key, content |-> r.content]
                 /\ t = "models" => r.content = Capabilities
      BY <1>a, <2>1, <2>2, <3>1, RowShape DEF TablesOk
    <3>2. ASSUME NEW t \in Tables, NEW r \in tables'[t], NEW s \in tables'[t], r.key = s.key
          PROVE  r = s
      BY <1>a, <2>1, <2>2, <3>2 DEF TablesOk, Named
    <3>3. QED
      BY <3>1, <3>2 DEF TablesOk
  <2>4. ASSUME NEW f \in Evaluators \ {e}
        PROVE  OwnRowsOk(f)' /\ own'[f] = own[f]
    <3>1. /\ UNCHANGED <<epc[f], own[f]>> /\ Passed(f)' = Passed(f)
          /\ \A t \in Tables : RowFor(f, t)' = RowFor(f, t)
      BY <1>10, OthersStay DEF TakerStep
    <3>2. ASSUME NEW r \in own[f] PROVE r.table \in Tables /\ Named(r.table, r.row.key)' = {}
      <4>1. r.table \in Tables /\ Named(r.table, r.row.key) = {}
        BY <1>0, <1>a, PassedTables DEF OwnRowsOk
      <4>2. \A s \in mine(r.table) : s.key # r.row.key
        BY <1>a DEF Apart
      <4>3. QED
        BY <2>1, <4>1, <4>2 DEF Named
    <3>3. QED
      BY <1>a, <3>1, <3>2 DEF OwnRowsOk
  <2>5. OwnRowsOk(e)'
    BY <2>1 DEF OwnRowsOk
  <2>6. ASSUME NEW f \in Evaluators, NEW g \in Evaluators \ {f} PROVE Apart(f, g)'
    BY <1>a, <2>1, <2>4, <2>6 DEF Apart
  <2>7. QED
    BY <1>b, <2>3, <2>4, <2>5, <2>6
<1>11. QED
  BY <1>1, <1>4, <1>5, <1>6, <1>8, <1>9, <1>10, MakersLeaveTakers DEF TakerStep, vars, database

\* Committed rows stay, and whatever a step leaves of a command's own rows is
\* committed or still its own.
LEMMA RowsStayNamed ==
    ASSUME TypeInvariant, [Next]_vars
    PROVE  \A t \in Tables : tables[t] \subseteq tables'[t]
<1>1. ASSUME NEW e \in Evaluators, Commit(e) PROVE \A t \in Tables : tables[t] \subseteq tables'[t]
  BY <1>1 DEF Commit
<1>2. ASSUME NEW e \in Evaluators,
             TakerStep(e) \/ TakerFails(e) \/ (\E q \in Requests : StartRun(e, q)), ~Commit(e)
      PROVE  UNCHANGED tables
  BY <1>2 DEF TakerStep, TakerFails, StartRun, LoadManifest, LoadCases, SelectConflict,
     SelectFound, SelectNothing, Insert, InsertRefused, RecordRun, database
<1>3. QED
  BY <1>1, <1>2, MakersLeaveTakers DEF TakerStep, vars, database

LEMMA RegisteredStep ==
    ASSUME TypeInvariant, RowsAreNamedOnce, InputsAreRegistered, [Next]_vars
    PROVE  InputsAreRegistered'
<1>0. /\ epc \in [Evaluators -> TakerPlaces] /\ at \in [Evaluators -> Tables]
      /\ Over(own, Evaluators) /\ Over(tables, Tables) /\ Over(pack, Evaluators)
      /\ \A e \in Evaluators : epc[e] \in {"idle", "manifest", "cases"} => at[e] = "datasets"
  BY DEF TypeInvariant
<1>a. RunsOk /\ \A e \in Evaluators : Registered(e)
  BY DEF InputsAreRegistered
<1>b. \A t \in Tables : tables[t] \subseteq tables'[t]
  BY RowsStayNamed
<1>1. CASE UNCHANGED <<taker, database>>
  BY <1>1 DEF InputsAreRegistered, Registered, RunsOk, taker, database, Passed, Preceding, RowFor
<1>2. ASSUME UNCHANGED runs PROVE RunsOk'
  BY <1>a, <1>b, <1>2 DEF RunsOk, Tables
\* Others keep what they have.
<1>3. ASSUME NEW e \in Evaluators, NEW f \in Evaluators \ {e},
             TakerStep(e) \/ TakerFails(e) \/ (\E q \in Requests : StartRun(e, q))
      PROVE  Registered(f)'
  <2>1. /\ UNCHANGED <<epc[f], own[f], pack[f]>> /\ Passed(f)' = Passed(f)
        /\ \A t \in Tables : RowFor(f, t)' = RowFor(f, t)
    BY <1>3, OthersStay
  <2>2. Passed(f) \subseteq Tables
    BY <1>0, PassedTables
  <2>3. QED
    BY <1>a, <1>b, <2>1, <2>2 DEF Registered
<1>4. ASSUME NEW e \in Evaluators,
             TakerStep(e) \/ TakerFails(e) \/ (\E q \in Requests : StartRun(e, q)),
             Registered(e)', RunsOk'
      PROVE  InputsAreRegistered'
  BY <1>3, <1>4 DEF InputsAreRegistered
<1>5. ASSUME NEW e \in Evaluators,
             SelectConflict(e) \/ InsertRefused(e) \/ TakerFails(e)
               \/ (\E q \in Requests : StartRun(e, q)) \/ LoadManifest(e)
      PROVE  InputsAreRegistered'
  <2>1. UNCHANGED runs /\ \E v \in {"done", "manifest", "cases"} : epc' = [epc EXCEPT ![e] = v]
    BY <1>5 DEF SelectConflict, InsertRefused, TakerFails, StartRun, LoadManifest, Rollback,
       EGoto, database
  <2>2. epc'[e] \in {"done", "manifest", "cases"}
    BY <1>0, <2>1
  <2>3. Registered(e)'
    BY <2>2 DEF Registered
  <2>4. QED
    BY <1>2, <1>4, <1>5, <2>1, <2>3 DEF TakerStep
<1>6. ASSUME NEW e \in Evaluators, LoadCases(e) PROVE InputsAreRegistered'
  <2> DEFINE cases == shelf[asked[e].out].cases
  <2>1. /\ UNCHANGED <<database, asked, at>> /\ epc[e] = "cases"
        /\ pack' = [pack EXCEPT ![e].cases = cases]
        /\ \/ epc' = [epc EXCEPT ![e] = "done"]
           \/ /\ epc' = [epc EXCEPT ![e] = "select"]
              /\ Valid(pack[e].manifest, cases, asked[e].out \in InFixtures, asked[e].final)
    BY <1>6 DEF LoadCases, EGoto
  <2> HIDE DEF cases
  <2>2. pack[e] = [manifest |-> pack[e].manifest, cases |-> pack[e].cases]
    BY <2>1 DEF TypeInvariant
  <2>3. pack'[e] = [manifest |-> pack[e].manifest, cases |-> cases]
    BY <1>0, <2>1, <2>2 DEF Over
  <2>4. epc'[e] = "select" => (pack[e].manifest.content # NoValue => pack[e].manifest.content = cases)
    BY <1>0, <2>1 DEF Valid
  <2>5. epc'[e] \in {"done", "select"} /\ at'[e] = "datasets"
    BY <1>0, <2>1
  <2>6. Registered(e)'
    BY <2>3, <2>4, <2>5 DEF Registered, Passed, Preceding
  <2>7. QED
    BY <1>2, <1>4, <1>6, <2>1, <2>6 DEF TakerStep, database
<1>7. ASSUME NEW e \in Evaluators, SelectNothing(e) PROVE InputsAreRegistered'
  <2>1. /\ UNCHANGED <<database, own, at, pack, asked>>
        /\ epc[e] = "select" /\ epc'[e] = "insert"
    BY <1>0, <1>7 DEF SelectNothing, EGoto
  <2>2. Registered(e)'
    BY <1>a, <2>1 DEF Registered, Passed, Preceding, RowFor, database
  <2>3. QED
    BY <1>2, <1>4, <1>7, <2>1, <2>2 DEF TakerStep, database
<1>8. ASSUME NEW e \in Evaluators, epc[e] \in {"select", "insert"}, Advance(e),
             UNCHANGED <<pack, asked, database>>, own[e] \subseteq own'[e],
             NEW t \in Tables, t = at[e],
             RowFor(e, t) \in tables[t] \/ [table |-> t, row |-> RowFor(e, t)] \in own'[e]
      PROVE  Registered(e)' /\ RunsOk'
  <2>1. /\ \A u \in Tables : RowFor(e, u)' = RowFor(e, u)
        /\ Passed(e)' = Passed(e) \cup {t} /\ Passed(e) \subseteq Tables
    BY <1>0, <1>8 DEF Advance, EGoto, After, Passed, Preceding, RowFor, Tables
  <2>2. QED
    BY <1>2, <1>8, <1>a, <2>1 DEF Registered, database
<1>9. ASSUME NEW e \in Evaluators, SelectFound(e) PROVE InputsAreRegistered'
  <2>1. PICK t, n : t \in Tables /\ t = at[e] /\ n = RowFor(e, t)
    BY <1>0
  <2>2. PICK r \in tables[t] : r.key = n.key
    BY <1>9, <2>1 DEF SelectFound, Named
  <2>3. t # "models" => r.content = n.content
    BY <1>9, <2>1, <2>2 DEF SelectFound, Conflicts, Named
  <2>4. n \in tables[t]
    BY <2>1, <2>2, <2>3, RowShape DEF RowsAreNamedOnce, TablesOk
  <2>5. QED
    BY <1>4, <1>8, <1>9, <2>1, <2>4 DEF TakerStep, SelectFound
<1>10. ASSUME NEW e \in Evaluators, Insert(e) PROVE InputsAreRegistered'
  <2>1. PICK t, n : t \in Tables /\ t = at[e] /\ n = RowFor(e, t)
    BY <1>0
  <2>2. own'[e] = own[e] \cup {[table |-> t, row |-> n]}
    BY <1>0, <1>10, <2>1 DEF Insert, Over
  <2>3. QED
    BY <1>4, <1>8, <1>10, <2>1, <2>2 DEF TakerStep, Insert
<1>11. ASSUME NEW e \in Evaluators, Commit(e) PROVE InputsAreRegistered'
  <2>1. /\ UNCHANGED <<pack, asked, at, runs>> /\ epc[e] = "commit" /\ epc'[e] = "record"
        /\ \A t \in Tables : tables'[t] =
             tables[t] \cup {r.row : r \in {x \in own[e] : x.table = t}}
    BY <1>0, <1>11 DEF Commit, EGoto
  <2>2. Passed(e) = Tables /\ Passed(e)' = Tables
    BY <2>1 DEF Passed
  <2>3. ASSUME NEW t \in Tables PROVE RowFor(e, t)' \in tables'[t]
    <3>1. RowFor(e, t)' = RowFor(e, t)
      BY <2>1 DEF RowFor
    <3>2. PICK n : n = RowFor(e, t)
      OBVIOUS
    <3>3. n \in tables[t] \/ [table |-> t, row |-> n] \in own[e]
      BY <1>a, <2>1, <2>2, <3>2 DEF Registered
    <3>4. n \in tables'[t]
      BY <2>1, <3>3
    <3>5. QED
      BY <3>1, <3>2, <3>4
  <2>4. Registered(e)'
    BY <1>a, <2>1, <2>2, <2>3 DEF Registered
  <2>5. QED
    BY <1>2, <1>4, <1>11, <2>1, <2>4 DEF TakerStep
<1>12. ASSUME NEW e \in Evaluators, RecordRun(e) PROVE InputsAreRegistered'
  <2>1. /\ UNCHANGED tables /\ epc[e] = "record" /\ epc'[e] = "done"
        /\ runs' = runs \cup {[by |-> e, dataset |-> RowFor(e, "datasets"),
                            template |-> RowFor(e, "templates"),
                            model |-> RowFor(e, "models"),
                            stated |-> pack[e].manifest.content]}
    BY <1>0, <1>12 DEF RecordRun, EGoto
  <2>2. own[e] = {}
    BY <2>1 DEF RowsAreNamedOnce, OwnRowsOk
  <2>3. \A t \in Tables : RowFor(e, t) \in tables[t]
    BY <1>a, <2>1, <2>2 DEF Registered, Passed, Preceding
  <2>4. RowFor(e, "datasets").content = pack[e].cases
    BY DEF RowFor
  <2>5. pack[e].manifest.content # NoValue => pack[e].manifest.content = pack[e].cases
    BY <1>a, <2>1 DEF Registered
  <2>6. RunsOk'
    BY <1>a, <2>1, <2>3, <2>4, <2>5 DEF RunsOk, Tables
  <2>7. Registered(e)'
    BY <2>1 DEF Registered
  <2>8. QED
    BY <1>4, <1>12, <2>6, <2>7 DEF TakerStep
<1>13. QED
  BY <1>1, <1>5, <1>6, <1>7, <1>9, <1>10, <1>11, <1>12, MakersLeaveTakers DEF TakerStep, vars

-----------------------------------------------------------------------------
(* The sample.                                                             *)

\* Of finitely many things in an order, exactly size have fewer than size
\* before them.
LEMMA FirstOfMany ==
    ASSUME NEW P, IsFiniteSet(P), NEW rank,
           \A i \in P : rank[i] \in Int,
           \A i, j \in P : rank[i] = rank[j] => i = j,
           NEW size \in Nat, size <= Cardinality(P)
    PROVE  LET Before(i) == {j \in P : rank[j] < rank[i]}
               first == {i \in P : Cardinality(Before(i)) < size}
           IN  IsFiniteSet(first) /\ Cardinality(first) = size
<1> DEFINE Before(i) == {j \in P : rank[j] < rank[i]}
           first == {i \in P : Cardinality(Before(i)) < size}
           n == Cardinality(P)
           place == [i \in P |-> Cardinality(Before(i))]
           start == [i \in first |-> Cardinality(Before(i))]
<1>0. n \in Nat
  BY FS_CardinalityType
<1>1. ASSUME NEW i \in P PROVE IsFiniteSet(Before(i)) /\ Cardinality(Before(i)) \in 0 .. n - 1
  <2>1. Before(i) \in SUBSET P /\ Before(i) # P
    OBVIOUS
  <2>2. IsFiniteSet(Before(i)) /\ Cardinality(Before(i)) <= n /\ Cardinality(Before(i)) # n
    BY <2>1, FS_Subset
  <2>3. Cardinality(Before(i)) \in Nat
    BY <2>2, FS_CardinalityType
  <2>4. QED
    BY <1>0, <2>2, <2>3
<1>2. ASSUME NEW i \in P, NEW j \in P, rank[i] < rank[j]
      PROVE  Cardinality(Before(i)) # Cardinality(Before(j))
  <2>1. Before(i) \in SUBSET Before(j) /\ i \in Before(j) /\ i \notin Before(i)
    BY <1>2
  <2>2. QED
    BY <1>1, <2>1, FS_Subset
<1>3. ASSUME NEW i \in P, NEW j \in P, Cardinality(Before(i)) = Cardinality(Before(j))
      PROVE  i = j
  <2> HIDE DEF Before
  <2>1. rank[i] \in Int /\ rank[j] \in Int /\ ~(rank[i] < rank[j]) /\ ~(rank[j] < rank[i])
    BY <1>2, <1>3
  <2>2. QED
    BY <2>1
<1> HIDE DEF Before
<1>4. IsFiniteSet(0 .. n - 1) /\ Cardinality(0 .. n - 1) = n
  <2>1. 0 \in Int /\ n - 1 \in Int /\ (n - 1) - 0 + 1 = n /\ (0 > n - 1 => n = 0)
    BY <1>0
  <2>2. QED
    BY <2>1, FS_Interval
<1>5. place \in Injection(P, 0 .. n - 1)
  <2>1. place \in [P -> 0 .. n - 1]
    BY <1>1
  <2>2. \A i, j \in P : place[i] = place[j] => i = j
    BY <1>3
  <2>3. QED
    BY <2>1, <2>2 DEF Injection, IsInjective
<1>6. place \in Surjection(P, 0 .. n - 1)
  BY <1>4, <1>5, FS_Injection
<1>7. IsFiniteSet(0 .. size - 1) /\ Cardinality(0 .. size - 1) = size
  BY FS_Interval
<1>8. start \in Injection(first, 0 .. size - 1)
  BY <1>1, <1>3 DEF Injection, IsInjective
<1>9. start \in Surjection(first, 0 .. size - 1)
  <2>1. ASSUME NEW k \in 0 .. size - 1 PROVE \E i \in first : start[i] = k
    <3>1. k \in 0 .. n - 1
      BY <1>0
    <3>2. PICK i \in P : Cardinality(Before(i)) = k
      BY <1>6, <3>1 DEF Surjection
    <3>3. i \in first
      BY <3>2
    <3>4. QED
      BY <3>2, <3>3
  <2>2. QED
    BY <1>8, <2>1 DEF Surjection, Injection
<1>10. IsFiniteSet(first) /\ Cardinality(first) = size
  <2> HIDE DEF first, start
  <2> QED
    BY <1>7, <1>8, <1>9, FS_Injection
<1>11. QED
  BY <1>10 DEF Before

\* What a job draws from a snapshot it can be drawn from has the size that was
\* asked for, one case of each id, and no case that is too long.
LEMMA DrawnFits ==
    ASSUME NEW m \in Materializers, NEW j \in JobsOf[m], NEW items \in Snapshots, NEW revision,
           Selectable(Adapter(j.adapter).parser, items, j.size)
    PROVE  LET cases == Drawn(j, revision, items)
           IN  /\ Cardinality(cases) = j.size
               /\ \A c, d \in cases : c.case.id = d.case.id => c = d
               /\ \A c \in cases : ~c.case.long /\ c.adapter = j.adapter
               /\ \A c \in cases : c.record = c.case.id /\ c.record # NoValue
               /\ \A c \in cases : c.revision = revision
<1> DEFINE cases == Drawn(j, revision, items)
           parser == Adapter(j.adapter).parser
           P == Publishable(parser, items)
           id(i) == IdOf(parser, i, items[i])
           rank == [i \in P |-> RankIn(parser, items, j.seed, i)]
           first == First(parser, items, j.seed, j.size)
           made(i) == [case |-> CaseOf(parser, i, items[i]), adapter |-> j.adapter,
                       record |-> CaseOf(parser, i, items[i]).id, revision |-> revision]
           making == [i \in first |-> made(i)]
<1>1. IsFiniteSet(P)
  <2>1. items \in Seq({items[i] : i \in DOMAIN items})
    BY SamplesAssumption
  <2>2. IsFiniteSet(DOMAIN items)
    <3>1. PICK n \in Nat : DOMAIN items = 1 .. n
      BY <2>1
    <3>2. QED
      BY <3>1, FS_Interval
  <2>3. P \in SUBSET (DOMAIN items)
    BY DEF Publishable
  <2>4. QED
    BY <2>2, <2>3, FS_Subset
<1>2. \A i \in P : i \in DOMAIN items /\ id(i) # NoId /\ ~items[i].long
  BY DEF Selectable, Publishable
<1>3. \A i, k \in P : id(i) = id(k) => i = k
  BY DEF Selectable
<1>4. \A i \in P : id(i) \in DOMAIN Rank[j.seed] /\ Rank[j.seed][id(i)] \in Int
  BY <1>2, SamplesAssumption
<1>5. \A i \in P : rank[i] = Rank[j.seed][id(i)]
  BY DEF RankIn
<1>6. j.seed \in Seeds /\ j.size \in Nat /\ j.size <= Cardinality(P)
  <2>1. j.size <= Cardinality(P)
    <3>1. Cardinality(P) \in Nat /\ j.size \in Nat /\ Cardinality(P) >= j.size
      BY <1>1, FS_CardinalityType DEF Selectable
    <3>2. QED
      BY <3>1
  <2>2. QED
    BY <2>1
<1>7. \A i, k \in P : rank[i] = rank[k] => i = k
  <2> HIDE DEF P, id, rank, parser
  <2> QED
    BY <1>3, <1>4, <1>5, <1>6
<1>8. first = {i \in P : Cardinality({k \in P : rank[k] < rank[i]}) < j.size}
  BY DEF First, Ahead
<1>9. IsFiniteSet(first) /\ Cardinality(first) = j.size
  <2> HIDE DEF P, id, rank, first, parser
  <2>1. \A i \in P : rank[i] \in Int
    BY <1>4, <1>5
  <2>2. QED
    BY <1>1, <1>6, <1>7, <1>8, <2>1, FirstOfMany
<1>10. first \subseteq P
  BY DEF First
<1>11. cases = {made(i) : i \in first}
  BY DEF Drawn, WithProvenance, Sample
<1>12. \A i \in P : made(i).case.id = id(i) /\ made(i).case.long = items[i].long
  BY DEF CaseOf
<1>13. \A i, k \in first : made(i).case.id = made(k).case.id => i = k
  <2> HIDE DEF P, id, first, made, parser
  <2> QED
    BY <1>3, <1>10, <1>12
<1>14. Cardinality(cases) = j.size
  <2> HIDE DEF first, cases, made
  <2>1. making \in Bijection(first, cases)
    <3>1. making \in [first -> cases]
      BY <1>11
    <3>2. \A i, k \in first : making[i] = making[k] => i = k
      BY <1>13
    <3>3. \A c \in cases : \E i \in first : making[i] = c
      BY <1>11
    <3>4. QED
      BY <3>1, <3>2, <3>3 DEF Bijection, Injection, Surjection, IsInjective
  <2>2. QED
    BY <1>9, <2>1, FS_Bijection DEF ExistsBijection
<1>15. \A c, d \in cases : c.case.id = d.case.id => c = d
  <2> HIDE DEF first, cases, made
  <2> QED
    BY <1>11, <1>13
<1>16. \A c \in cases : ~c.case.long /\ c.adapter = j.adapter
  <2>1. \A i \in first : ~made(i).case.long
    BY <1>2, <1>10, <1>12
  <2>2. \A i \in first : made(i).adapter = j.adapter
    OBVIOUS
  <2>3. QED
    BY <1>11, <2>1, <2>2
<1>17. \A c \in cases : c.record = c.case.id /\ c.record # NoValue /\ c.revision = revision
  <2>1. \A i \in P : made(i).record = id(i) /\ made(i).case.id = id(i)
    BY DEF CaseOf
  <2>2. \A i \in P : id(i) # NoValue
    BY <1>2, SamplesAssumption
  <2>3. \A i \in first : made(i).revision = revision
    OBVIOUS
  <2> HIDE DEF P, id, first, cases, made, parser
  <2>4. QED
    BY <1>10, <1>11, <2>1, <2>2, <2>3
<1>18. QED
  BY <1>14, <1>15, <1>16, <1>17

\* A command that goes on was admitted, what it has taken from the pin or from
\* its adapter is stated in full, and what it has drawn it drew from a snapshot
\* that had enough to draw from.
Admitted(m) ==
    /\ job[m] \in JobsOf[m]
    /\ WithinTier(job[m].tier, job[m].size)
    /\ MayWrite(job[m].adapter, job[m].out \in InFixtures)
PinnedInFull(m) ==
    /\ Stated(pinned[m].revision)
    /\ pinned[m].digest # NoValue
    /\ pinned[m].url \notin Relative
DrawnFromEnough(m) ==
    \E items \in Snapshots :
        /\ Selectable(Adapter(job[m].adapter).parser, items, job[m].size)
        /\ chosen[m] = Drawn(job[m], pinned[m].revision, items)
WellChosen ==
    /\ source \in Snapshots /\ pin \in Pins
    /\ \A m \in Materializers :
        /\ mpc[m] \notin {"idle", "done", "dead"} => Admitted(m)
        /\ mpc[m] \notin {"idle", "digest", "done", "dead"} => PinnedInFull(m)
        /\ mpc[m] \in {"recheck", "stage", "stage_manifest", "publish"} => DrawnFromEnough(m)

LEMMA WellChosenStep == TypeInvariant /\ WellChosen /\ [Next]_vars => WellChosen'
<1> SUFFICES ASSUME TypeInvariant, WellChosen, [Next]_vars PROVE WellChosen'
  OBVIOUS
<1>0. /\ mpc \in [Materializers -> MakerPlaces]
      /\ Over(job, Materializers) /\ Over(pinned, Materializers) /\ Over(chosen, Materializers)
  BY DEF TypeInvariant
<1> DEFINE Good(m) ==
        /\ mpc[m] \notin {"idle", "done", "dead"} => Admitted(m)
        /\ mpc[m] \notin {"idle", "digest", "done", "dead"} => PinnedInFull(m)
        /\ mpc[m] \in {"recheck", "stage", "stage_manifest", "publish"} => DrawnFromEnough(m)
<1>a. source \in Snapshots /\ pin \in Pins /\ \A m \in Materializers : Good(m)
  BY DEF WellChosen
<1>b. ASSUME UNCHANGED <<source, pin>>, \A m \in Materializers : Good(m)' PROVE WellChosen'
  BY <1>a, <1>b DEF WellChosen
\* A command keeps what it has while it stands still.
<1>c. ASSUME NEW m \in Materializers, UNCHANGED <<mpc[m], job[m], pinned[m], chosen[m]>>
      PROVE  Good(m)'
  BY <1>a, <1>c DEF Admitted, PinnedInFull, DrawnFromEnough
<1>1. CASE UNCHANGED <<mpc, job, pinned, chosen>>
  <2>1. source' \in Snapshots /\ pin' \in Pins
    <3>1. CASE Operator
      BY <1>a, <3>1 DEF Operator, ReplaceSnapshot, ReplacePin, EditPack
    <3>2. CASE ~Operator
      <4>1. UNCHANGED <<source, pin>>
        BY <3>2, TakersLeaveMakers DEF Next, MakerStep, StartJob, TakeDigest, PinRefused,
           SelectCases, SelectRefused, Recheck, RecheckRefused, Stage, Publish, PublishRefused,
           Refuse, MakerFault, MakerDies, files, vars
      <4>2. QED
        BY <1>a, <4>1
    <3>3. QED
      BY <3>1, <3>2
  <2>2. \A m \in Materializers : Good(m)'
    BY <1>1, <1>c
  <2>3. QED
    BY <2>1, <2>2 DEF WellChosen
<1>2. ASSUME NEW m \in Materializers, NEW j \in JobsOf[m], StartJob(m, j)
      PROVE  WellChosen'
  <2>1. ASSUME NEW n \in Materializers \ {m} PROVE Good(n)'
    BY <1>0, <1>2, <1>c DEF StartJob, MGoto, Over
  <2>2. job'[m] = j /\ mpc'[m] = IF Admissible(j) THEN "digest" ELSE "done"
    BY <1>0, <1>2 DEF StartJob, MGoto, Over
  <2>3. Good(m)'
    BY <2>2 DEF Admitted, Admissible
  <2>4. QED
    BY <1>2, <1>b, <2>1, <2>3 DEF StartJob, files
<1>3. ASSUME NEW m \in Materializers, MGoto(m, "done") \/ MGoto(m, "dead"),
             UNCHANGED <<job, pinned, chosen, source, pin>>
      PROVE  WellChosen'
  <2>1. ASSUME NEW n \in Materializers \ {m} PROVE Good(n)'
    BY <1>0, <1>3, <1>c DEF MGoto
  <2>2. mpc'[m] \in {"done", "dead"}
    BY <1>0, <1>3 DEF MGoto
  <2>3. QED
    BY <1>3, <1>b, <2>1, <2>2
<1>4. ASSUME NEW m \in Materializers, TakeDigest(m) PROVE WellChosen'
  <2>1. ASSUME NEW n \in Materializers \ {m} PROVE Good(n)'
    BY <1>0, <1>4, <1>c DEF TakeDigest, MGoto, Over
  <2>2. mpc[m] = "digest" /\ mpc'[m] = "select" /\ UNCHANGED job
    BY <1>0, <1>4 DEF TakeDigest, MGoto
  <2>3. PinnedInFull(m)'
    <3> DEFINE spec == Adapter(job[m].adapter)
    <3>1. /\ pinned'[m].digest = source
          /\ spec.external_pin => PinFits(spec) /\ pinned'[m].revision = pin.revision
                                    /\ pinned'[m].url = pin.url
          /\ ~spec.external_pin => pinned'[m].revision = spec.revision
                                    /\ pinned'[m].url = spec.url
      <4> HIDE DEF spec
      <4>1. pinned' = [pinned EXCEPT ![m] =
                        [revision |-> (IF spec.external_pin THEN pin ELSE spec).revision,
                         digest |-> source,
                         url |-> (IF spec.external_pin THEN pin ELSE spec).url]]
        BY <1>4 DEF TakeDigest, spec
      <4>2. spec.external_pin => PinFits(spec)
        BY <1>4 DEF TakeDigest, spec
      <4>3. QED
        BY <1>0, <4>1, <4>2 DEF Over
    <3>2. CASE spec.external_pin
      <4> HIDE DEF spec
      <4> QED
        BY <1>a, <3>1, <3>2, SamplesAssumption DEF PinFits, PinnedInFull, Stated
    <3>3. CASE ~spec.external_pin
      <4>1. spec.revision = "synthetic-v1" /\ spec.url = RepoUrl
        BY <3>3 DEF Adapter
      <4> HIDE DEF spec
      <4>2. QED
        BY <1>a, <3>1, <3>3, <4>1, StringsAssumption, SamplesAssumption
           DEF PinnedInFull, Stated
    <3>4. QED
      BY <3>2, <3>3
  <2>4. Good(m)'
    BY <1>a, <2>2, <2>3 DEF Admitted
  <2>5. QED
    BY <1>4, <1>b, <2>1, <2>4 DEF TakeDigest, files
<1>5. ASSUME NEW m \in Materializers, SelectCases(m) PROVE WellChosen'
  <2>1. /\ chosen' = [chosen EXCEPT ![m] = Drawn(job[m], pinned[m].revision, source)]
        /\ mpc[m] = "select" /\ UNCHANGED <<job, pinned, source, pin>>
        /\ Selectable(Adapter(job[m].adapter).parser, source, job[m].size)
    BY <1>5 DEF SelectCases, CanSelect, Fresh, files
  <2>2. chosen'[m] = Drawn(job[m], pinned[m].revision, source)
    BY <1>0, <2>1 DEF Over
  <2>3. ASSUME NEW n \in Materializers \ {m} PROVE Good(n)'
    BY <1>0, <1>5, <2>1, <1>c DEF SelectCases, MGoto, Over
  <2>4. Good(m)'
    BY <1>a, <2>1, <2>2 DEF Admitted, PinnedInFull, DrawnFromEnough
  <2>5. QED
    BY <1>b, <2>1, <2>3, <2>4
<1>6. ASSUME NEW m \in Materializers,
             Recheck(m) \/ (\E f \in {"cases.jsonl", "manifest.yaml"} : Stage(m, f))
      PROVE  WellChosen'
  <2>1. ASSUME NEW n \in Materializers \ {m} PROVE Good(n)'
    BY <1>0, <1>6, <1>c DEF Recheck, Stage, MGoto
  <2>2. /\ mpc[m] \in {"recheck", "stage", "stage_manifest"}
        /\ UNCHANGED <<job, pinned, chosen, source, pin>>
    BY <1>6 DEF Recheck, Stage, files
  <2>3. Good(m)'
    BY <1>a, <2>2 DEF Admitted, PinnedInFull, DrawnFromEnough
  <2>4. QED
    BY <1>b, <2>1, <2>2, <2>3
<1>7. ASSUME NEW m \in Materializers,
             Publish(m) \/ Refuse(m) \/ MakerFault(m) \/ MakerDies(m)
      PROVE  WellChosen'
  BY <1>3, <1>7 DEF Publish, Refuse, MakerFault, MakerDies, MEnds, files
<1>8. QED
  BY <1>1, <1>2, <1>4, <1>5, <1>6, <1>7, TakersLeaveMakers
     DEF Next, MakerStep, Operator, PinRefused, SelectRefused, RecheckRefused, PublishRefused,
         ReplaceSnapshot, ReplacePin, EditPack, vars, files, maker

\* The license of an adapter allows what the license policy of the packs asks.
LEMMA LicenseFits ==
    ASSUME NEW a \in Adapters, NEW inFixtures \in BOOLEAN, MayWrite(a, inFixtures)
    PROVE  /\ inFixtures \/ Adapter(a).redistributable =>
               Adapter(a).license \in AllowedLicenses
           /\ (inFixtures \/ Adapter(a).redistributable)
                /\ Adapter(a).license \in AttributionLicenses => Adapter(a).attributed
BY DEF MayWrite, Adapter, AllowedLicenses, AttributionLicenses

LEMMA ChosenFits == WellChosen => RefusedForRecordsAlone
<1> SUFFICES ASSUME WellChosen, NEW m \in Materializers,
                    mpc[m] \in {"recheck", "stage", "stage_manifest", "publish"},
                    \A c \in chosen[m] : Complete(c.case, Adapter(job[m].adapter).metrics)
             PROVE  Passes(m)
  BY DEF RefusedForRecordsAlone
<1> DEFINE j == job[m]
           spec == Adapter(j.adapter)
           manifest == Product(m).manifest
           inFixtures == j.out \in InFixtures
<1>1. /\ j \in JobsOf[m] /\ j.adapter \in Adapters
      /\ WithinTier(j.tier, j.size) /\ MayWrite(j.adapter, inFixtures)
  BY DEF WellChosen, Admitted
<1>2. PICK items \in Snapshots :
        /\ Selectable(spec.parser, items, j.size)
        /\ chosen[m] = Drawn(j, pinned[m].revision, items)
  BY DEF WellChosen, DrawnFromEnough
<1>3. /\ Cardinality(chosen[m]) = j.size
      /\ \A c, d \in chosen[m] : c.case.id = d.case.id => c = d
      /\ \A c \in chosen[m] : ~c.case.long /\ c.adapter = j.adapter
      /\ \A c \in chosen[m] : c.record = c.case.id /\ c.record # NoValue
      /\ \A c \in chosen[m] : c.revision = pinned[m].revision
  BY <1>1, <1>2, DrawnFits
<1>4. /\ manifest.schema = "0.1" /\ manifest.tier = j.tier /\ manifest.sample_size = j.size
      /\ manifest.split = IF j.tier = "release" THEN "holdout" ELSE "dev"
      /\ manifest.license = spec.license /\ manifest.redistributable = spec.redistributable
      /\ manifest.attributed = spec.attributed /\ manifest.metrics = spec.metrics
      /\ manifest.content = chosen[m] /\ manifest.digest = pinned[m].digest
      /\ manifest.url = pinned[m].url /\ manifest.procedure = ScrubProcedure
  BY DEF Product, ManifestOf
<1>p. PinnedInFull(m)
  BY DEF WellChosen
<1> HIDE DEF manifest, spec
<1>5. LicenseAllows(manifest, inFixtures)
  <2>1. /\ inFixtures \/ spec.redistributable => spec.license \in AllowedLicenses
        /\ (inFixtures \/ spec.redistributable) /\ spec.license \in AttributionLicenses =>
            spec.attributed
    <3>1. inFixtures \in BOOLEAN
      OBVIOUS
    <3> HIDE DEF inFixtures
    <3>2. QED
      BY <1>1, <3>1, LicenseFits DEF spec
  <2> HIDE DEF inFixtures
  <2> QED
    BY <1>4, <2>1 DEF LicenseAllows
<1>6. VersionedOk(manifest, chosen[m])
  <2>1. manifest.digest # NoValue /\ manifest.url \notin Relative /\ Stated(manifest.procedure)
    <3>1. Stated(ScrubProcedure)
      BY StringsAssumption DEF Stated
    <3>2. QED
      BY <1>4, <1>p, <3>1 DEF PinnedInFull
  <2>2. QED
    BY <1>1, <1>3, <1>4, <2>1 DEF VersionedOk
<1>7. manifest.split = "holdout" => j.tier = "release"
  BY <1>4
<1>8. CasesOk(manifest, chosen[m])
  <2>1. \A c \in chosen[m] : Stated(c.adapter) /\ Stated(c.record) /\ Stated(c.revision)
    BY <1>1, <1>3, <1>p, StringsAssumption DEF Complete, PinnedInFull, Stated
  <2>2. \A c \in chosen[m] : Required(c.case.task) \subseteq c.case.fields
    BY DEF Complete
  <2>3. \A c \in chosen[m] : FitMetric(c.case.task, manifest.metrics)
    BY <1>4 DEF Complete, spec
  <2>4. QED
    BY <1>3, <2>1, <2>2, <2>3 DEF CasesOk
<1>9. Valid(manifest, chosen[m], inFixtures, j.tier = "release")
  BY <1>4, <1>5, <1>6, <1>7, <1>8 DEF Valid
<1>10. QED
  BY <1>9 DEF Passes, Complete, manifest

-----------------------------------------------------------------------------
(* The theorems.                                                           *)

\* Whatever commands run and die, what a pack, a transaction and a run hold is
\* what the place of each command says (_write_bundle, EvaluationService.run).
THEOREM PacksAndRowsAreKept == Spec => []InductiveInvariant
<1>1. InductiveInvariant /\ [Next]_vars => InductiveInvariant'
  BY TypeStep, StagedStep, DrawnStep, NamedStep, RegisteredStep DEF InductiveInvariant
<1>2. QED
  BY InitInvariant, <1>1, PTL DEF Spec

\* A run is recorded against the cases its manifest vouches for, for any number
\* of commands and any edits in between (validate_dataset).
THEOREM RunsKeepInputs == Spec => []RunsKeepTheirInputs
<1>1. InductiveInvariant => RunsKeepTheirInputs
  BY DEF InductiveInvariant, InputsAreRegistered, RunsOk, RunsKeepTheirInputs
<1>2. QED
  BY PacksAndRowsAreKept, <1>1, PTL

\* Packs of one name and version hold the same cases (materialization_version).
THEOREM VersionsNameCases == Spec => []VersionNamesCases
<1>1. InductiveInvariant => VersionNamesCases
  BY DEF InductiveInvariant, DrawnAsPinned, VersionNamesCases
<1>2. QED
  BY PacksAndRowsAreKept, <1>1, PTL

\* The validator refuses what a command has drawn for what its records lack and
\* for nothing else, for any adapters, sizes, tiers, orders and snapshots
\* (_sample, _enforce_license, _validate_requested_size, validate_dataset).
THEOREM DrawnPacksFit == Spec => []RefusedForRecordsAlone
<1>1. Init => WellChosen
  BY DEF Init, WellChosen
<1>2. InductiveInvariant /\ WellChosen /\ [Next]_vars => WellChosen'
  BY WellChosenStep DEF InductiveInvariant
<1>3. QED
  BY PacksAndRowsAreKept, ChosenFits, <1>1, <1>2, PTL DEF Spec

\* Only an edit changes a pack that is there (_write_bundle).
THEOREM PublishedPacksStay == Spec => PublishedStays
<1> DEFINE Stays == edits' = edits => \A o \in Outputs : shelf[o] # Nothing => shelf'[o] = shelf[o]
<1>1. ASSUME InductiveInvariant, [Next]_vars PROVE [Stays]_vars
  <2>1. ASSUME NEW m \in Materializers, Publish(m) PROVE Stays
    BY <1>1, <2>1 DEF InductiveInvariant, TypeInvariant, Publish, Over
  <2>2. ASSUME Edit PROVE Stays
    BY <1>1, <2>2 DEF Edit, InductiveInvariant, TypeInvariant
  <2>3. CASE Operator
    BY <2>2, <2>3 DEF Operator, ReplaceSnapshot, ReplacePin, EditPack
  <2>4. CASE UNCHANGED shelf
    BY <2>4
  <2>5. QED
    BY <1>1, <2>1, <2>3, <2>4, TakersLeaveMakers
       DEF Next, MakerStep, StartJob, TakeDigest, PinRefused, SelectCases, SelectRefused,
           Recheck, RecheckRefused, Stage, PublishRefused, Refuse, MakerFault, MakerDies, files,
           vars
<1>2. QED
  BY PacksAndRowsAreKept, <1>1, PTL DEF Spec, PublishedStays

-----------------------------------------------------------------------------
(* The refinement.                                                         *)

Entries == UNION {{Entry(t, row) : row \in tables[t]} : t \in Tables}
References ==
    {{Entry("datasets", r.dataset), Entry("templates", r.template),
      Entry("models", r.model)} : r \in runs}

LEMMA EntriesAreOneEach == TablesOk => \A g, h \in Entries : g.name = h.name => g = h
BY DEF TablesOk, Entries, Entry

LEMMA ReferencesAreRegistered == RunsOk => \A r \in References : r \subseteq Entries
BY DEF RunsOk, References, Entries, Tables

\* A step either leaves the tables or the runs alone.
LEMMA TablesOrRuns == [Next]_vars => UNCHANGED tables \/ UNCHANGED runs
<1>1. ASSUME NEW e \in Evaluators,
             TakerStep(e) \/ TakerFails(e) \/ (\E q \in Requests : StartRun(e, q))
      PROVE  UNCHANGED tables \/ UNCHANGED runs
  BY <1>1 DEF TakerStep, TakerFails, StartRun, LoadManifest, LoadCases, SelectConflict,
     SelectFound, SelectNothing, Insert, InsertRefused, Commit, RecordRun, database
<1>2. QED
  BY <1>1, MakersLeaveTakers DEF vars, database

LEMMA RunsGrow == [Next]_vars => runs \subseteq runs'
<1>1. ASSUME NEW e \in Evaluators,
             TakerStep(e) \/ TakerFails(e) \/ (\E q \in Requests : StartRun(e, q))
      PROVE  runs \subseteq runs'
  BY <1>1 DEF TakerStep, TakerFails, StartRun, LoadManifest, LoadCases, SelectConflict,
     SelectFound, SelectNothing, Insert, InsertRefused, Commit, RecordRun, database
<1>2. QED
  BY <1>1, MakersLeaveTakers DEF vars, database

\* The identity tables implement the catalog of IdentityCatalog.tla, however
\* many transactions select and insert at once (upsert_dataset,
\* upsert_prompt_template, upsert_model_version, create_run).
THEOREM TablesImplementCatalog == Spec => CatalogSpec
<1>1. Init => Catalog!Init
  BY DEF Init, Catalog!Init, Tables
<1>2. ASSUME InductiveInvariant, InductiveInvariant', [Next]_vars
      PROVE  [Catalog!Next]_<<Entries, References>>
  <2>1. Entries \subseteq Entries'
    BY <1>2, RowsStayNamed DEF InductiveInvariant, Entries
  <2>2. \A g, h \in Entries' : g.name = h.name => g = h
    BY <1>2, EntriesAreOneEach DEF InductiveInvariant, RowsAreNamedOnce, Entries, TablesOk, Entry
  <2>3. References \subseteq References'
    BY <1>2, RunsGrow DEF References
  <2>4. \A r \in References' : r \subseteq Entries'
    BY <1>2 DEF InductiveInvariant, InputsAreRegistered, RunsOk, References, Entries, Tables
  <2>5. CASE UNCHANGED tables
    <3>1. Entries' = Entries
      BY <2>5 DEF Entries
    <3>2. QED
      BY <2>3, <2>4, <3>1 DEF Catalog!Next, Catalog!Record, Entries, References
  <2>6. CASE UNCHANGED runs
    <3>1. References' = References
      BY <2>6 DEF References
    <3>2. QED
      BY <2>1, <2>2, <3>1 DEF Catalog!Next, Catalog!Register, Catalog!OneEach, Entries, References
  <2>7. QED
    BY <1>2, <2>5, <2>6, TablesOrRuns
<1>3. QED
  BY <1>1, <1>2, PacksAndRowsAreKept, PTL DEF Spec, CatalogSpec, Catalog!Spec, Entries, References
=============================================================================
