--------------------------- MODULE ComparePolicy ---------------------------
(***************************************************************************)
(* The paired comparison of two stored runs on one metric                  *)
(* (services/compare.py, statistics, repositories/scores.py): which        *)
(* verdicts are paired, which cases are left out as flaky, and what is     *)
(* significant.  No state: Publication.tla runs this over the store.       *)
(*                                                                         *)
(* A run holds one verdict or none per case, repeat and metric version.    *)
(* Rates are counts out of n, the p-value is a fraction.  The bootstrap    *)
(* interval is left out: no gate reads it.                                 *)
(***************************************************************************)
EXTENDS Integers, FiniteSets

CONSTANTS
    Q,        \* the false discovery rate of apply_multiplicity: a fraction
    Angle     \* [1..n -> [0..n -> Nat]]: twice asin(sqrt(k/n)), in some unit

ASSUME AngleAssumption == \A n \in DOMAIN Angle : \A k \in 0..n : Angle[n][k] \in Int

AtMost(p, bound) == p.num * bound.den <= bound.num * p.den

Comparable(baseline, candidate, allowCompatible) ==
    /\ baseline.run.dataset = candidate.run.dataset
    /\ \/ /\ baseline.run.template = candidate.run.template
          /\ baseline.run.config = candidate.run.config
       \/ allowCompatible /\ baseline.run.repeats = candidate.run.repeats

\* get_paired_outcomes: one verdict per case and repeat, of whichever version
\* the query returns last; scores without a verdict are no failures.
Keys(run) == {[case |-> v.case, repeat |-> v.repeat] : v \in run.verdicts}
VerdictsAt(run, key) ==
    {v.passed : v \in {w \in run.verdicts : w.case = key.case /\ w.repeat = key.repeat}}
PairedOutcomes(run) ==
    {f \in [Keys(run) -> BOOLEAN] : \A key \in Keys(run) : f[key] \in VerdictsAt(run, key)}

\* A case whose repeats disagree in either arm is no evidence.
Op_Flaky(old, new) ==
    {key.case : key \in {k \in DOMAIN old \cap DOMAIN new :
        \E l \in DOMAIN old \cap DOMAIN new : l.case = k.case /\ old[k] # old[l]}}
Flaky(old, new) ==
    {key.case : key \in {k \in DOMAIN old \cap DOMAIN new :
        \E l \in DOMAIN old \cap DOMAIN new :
            l.case = k.case /\ (old[k] # old[l] \/ new[k] # new[l])}}

\* exact_mcnemar: the two-sided binomial test of the discordant pairs.
ExactMcNemar(losses, wins) ==
    LET coins == 1..(losses + wins)
        fewer == IF losses < wins THEN losses ELSE wins
        tail == 2 * Cardinality({heads \in SUBSET coins : Cardinality(heads) <= fewer})
        all == 2 ^ (losses + wins)
    IN  [num |-> IF tail < all THEN tail ELSE all, den |-> all]

\* benjamini_hochberg over the p-values of a family of comparisons.
RankOf(ps, i) ==
    Cardinality({k \in DOMAIN ps : \/ ~AtMost(ps[i], ps[k])
                                   \/ AtMost(ps[k], ps[i]) /\ k <= i})
BenjaminiHochberg(ps, q) ==
    {i \in DOMAIN ps : \E k \in DOMAIN ps :
        /\ AtMost(ps[k], [num |-> q.num * RankOf(ps, k), den |-> q.den * Cardinality(DOMAIN ps)])
        /\ RankOf(ps, i) <= RankOf(ps, k)}

\* compare_runs, compare_binary, apply_multiplicity.
Stable(old, new) ==
    LET flaky == Flaky(old, new)
    IN  {k \in DOMAIN old \cap DOMAIN new : k.case \notin flaky}
ComparisonOf(baseline, old, candidate, new) ==
    LET keys == Stable(old, new)
        passes(f) == Cardinality({k \in keys : f[k]})
        p == ExactMcNemar(Cardinality({k \in keys : old[k] /\ ~new[k]}),
                          Cardinality({k \in keys : ~old[k] /\ new[k]}))
        n == Cardinality(keys)
    IN  [kind |-> "compare", baseline |-> baseline.run.id, candidate |-> candidate.run.id,
         flaky |-> Flaky(old, new), n |-> n, old |-> passes(old), new |-> passes(new),
         h |-> Angle[n][passes(new)] - Angle[n][passes(old)], p |-> p,
         significant |-> 1 \in BenjaminiHochberg(<<p>>, Q)]
=============================================================================
