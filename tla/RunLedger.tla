------------------------------ MODULE RunLedger ------------------------------
(***************************************************************************)
(* What one evaluation run promises to everything downstream of it         *)
(* (scoring, reports, gates), whatever executes it: the rows of the        *)
(* generations table for that run, the run's status and the response       *)
(* cache its rows may have been served from.                               *)
(*                                                                         *)
(*   - a generation row is written at most once per (case, repeat) and     *)
(*     never changes afterwards;                                           *)
(*   - every row was generated from the inputs the run was created with;   *)
(*   - a row marked as cached carries the text the cache holds;            *)
(*   - the status "completed" is only ever recorded over a full ledger.    *)
(*                                                                         *)
(* Executor.tla implements this specification; see ExecutorProofs.tla.     *)
(***************************************************************************)
CONSTANTS
    Keys,        \* the (case, repeat) pairs the run owes
    PromptOf,    \* [Keys -> Prompts]: what response_cache_key tells apart
    Prompts,
    Texts,       \* provider responses
    Inputs,      \* dataset, template, model, decode params, repeats, tenant
    NoRow, NoText, NoInputs

VARIABLES
    status,      \* runs.status
    runInputs,   \* the input columns of the runs row
    rows,        \* generations, by (case, repeat)
    cache        \* response_cache, by cache key

vars == <<status, runInputs, rows, cache>>

Statuses == {"absent", "running", "completed", "cancelled", "failed"}

\* A harness failure carries no output, so only answers have a text and only
\* answers can have come from the cache.
Answers == [kind: {"answer"}, text: Texts, cached: BOOLEAN, inputs: Inputs]
HarnessRows == [kind: {"harness_error", "harness_timeout"}, text: {NoText},
                cached: {FALSE}, inputs: Inputs]
Rows == Answers \cup HarnessRows

Missing == {k \in Keys : rows[k] = NoRow}

Init ==
    /\ status = "absent"
    /\ runInputs = NoInputs
    /\ rows = [k \in Keys |-> NoRow]
    /\ cache = [p \in Prompts |-> NoText]

\* The run row appears, with the inputs it will be resumed against.
Open(i) ==
    /\ status = "absent"
    /\ status' = "running"
    /\ runInputs' = i
    /\ UNCHANGED <<rows, cache>>

\* The first writer's response stays under its key.
Remember(p, t) ==
    /\ cache[p] = NoText
    /\ cache' = [cache EXCEPT ![p] = t]
    /\ UNCHANGED <<status, runInputs, rows>>

\* One generation of the run is written, for good.
Record(k, r) ==
    /\ status # "absent"
    /\ rows[k] = NoRow
    /\ r.inputs = runInputs
    /\ r.cached => cache[PromptOf[k]] = r.text
    /\ rows' = [rows EXCEPT ![k] = r]
    /\ UNCHANGED <<status, runInputs, cache>>

\* A pass over the run ends and records how.
Settle(s) ==
    /\ status # "absent"
    /\ s = "completed" => Missing = {}
    /\ status' = s
    /\ UNCHANGED <<runInputs, rows, cache>>

Next ==
    \/ \E i \in Inputs : Open(i)
    \/ \E p \in Prompts, t \in Texts : Remember(p, t)
    \/ \E k \in Keys, r \in Rows : Record(k, r)
    \/ \E s \in {"completed", "cancelled", "failed"} : Settle(s)

Spec == Init /\ [][Next]_vars
=============================================================================
