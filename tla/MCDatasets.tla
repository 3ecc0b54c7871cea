----------------------------- MODULE MCDatasets -----------------------------
(* Values for the constants of Datasets.tla: two snapshots of two items, of  *)
(* which the second loses its answer in the newer one, and one too long to   *)
(* be sampled, and a third of which a record has a blank for an id; one      *)
(* synthetic and one pinned adapter, with pins that fit, that name another   *)
(* revision and that give no address; a pack written by hand that vouches    *)
(* for its cases or not.                                                     *)
EXTENDS Datasets

CONSTANTS m1, m2, e1, e2, old, new, a, b, blank, hand, body1, body2

Item(id, shape, text) ==
    [id |-> id, shape |-> shape, task |-> "qa_short", answered |-> TRUE,
     long |-> FALSE, typed |-> TRUE, text |-> text]
TooLong == [Item(b, "record", new) EXCEPT !.long = TRUE]
Before == <<Item(a, "record", old), Item(b, "record", old), TooLong>>
Later == <<Item(a, "record", new), Item(b, "partial", old), TooLong>>
Unnamed == <<Item(a, "record", old), Item(blank, "record", old)>>
ThreeSnapshots == {Before, Later, Unnamed}

\* One seed draws a and the other b, or the blank id where there is one.
ByHalves ==
    [s \in {0, 1} |-> [i \in {a, b, blank} |->
        CASE i = a -> IF s = 0 THEN 0 ELSE 2 [] i = b -> 1 [] OTHER -> IF s = 0 THEN 2 ELSE 0]]
SmallBounds ==
    [smoke |-> [min |-> 1, max |-> 2], ci |-> [min |-> 2, max |-> 2],
     nightly |-> [min |-> 2, max |-> 3], release |-> [min |-> 1, max |-> 0]]

Job(adapter, out, seed, tier, recheck) ==
    [adapter |-> adapter, out |-> out, seed |-> seed, size |-> 1, tier |-> tier,
     recheck |-> recheck]
\* For one name and version twice, with and without the repeated transform;
\* for another sample of the same; for a pinned source; for a place in the
\* repository that its source may not have.
PackJobs ==
    [m \in Materializers |->
        IF m = m1
        THEN {Job("synthetic_qa", "shared", 0, "smoke", FALSE),
              Job("squad_v1_1", "shared", 0, "release", FALSE)}
        ELSE {Job("synthetic_qa", "fixtures", 0, "smoke", TRUE),
              Job("synthetic_qa", "fixtures", 1, "smoke", FALSE),
              Job("synthetic_qa", "shared", 1, "smoke", FALSE),
              Job("squad_v1_1", "fixtures", 0, "smoke", FALSE)}]
OneJob == [m \in Materializers |-> {Job("synthetic_qa", "shared", 0, "smoke", FALSE)}]
PinOf(revision, url) == [revision |-> revision, digest |-> Before, url |-> url]
SquadPins == {PinOf("dev-v1.1", SquadUrl), PinOf("another", SquadUrl),
              PinOf("dev-v1.1", "dev-v1.1.json")}
OnePin == {PinOf("dev-v1.1", SquadUrl)}

HandCase(text) ==
    {[case |-> [id |-> a, task |-> "generation", long |-> FALSE, typed |-> TRUE,
                fields |-> {}, text |-> text],
      adapter |-> NoValue, record |-> NoValue, revision |-> NoValue]}
TwoHandCases == {HandCase(old), HandCase(new)}
HandManifest(content) ==
    [name |-> "by_hand", version |-> hand, schema |-> NoValue, keys |-> LegacyKeys,
     split |-> "dev", license |-> "MIT", tier |-> NoValue, sample_size |-> 1,
     redistributable |-> FALSE, attributed |-> FALSE, metrics |-> {}, content |-> content]
TwoHandManifests == {HandManifest(NoValue), HandManifest(HandCase(old))}

EmptyOrByHand ==
    {[o \in Outputs |-> Nothing],
     [o \in Outputs |-> IF o = "shared" THEN Nothing ELSE
        [manifest |-> HandManifest(HandCase(old)), cases |-> HandCase(old), torn |-> FALSE]]}

Ask(out, body, final) == [out |-> out, template |-> "qa", body |-> body, final |-> final]
PackRequests == {Ask("shared", body1, TRUE), Ask("fixtures", body1, FALSE)}
RegistryRequests == {Ask("shared", body1, FALSE), Ask("shared", body2, FALSE)}
=============================================================================
