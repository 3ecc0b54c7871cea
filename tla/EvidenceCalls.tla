--------------------------- MODULE EvidenceCalls ---------------------------
(***************************************************************************)
(* One live command that asks a model about evidence: `evalctl judge run`  *)
(* (src/evalharness/judge/live.py) or `evalctl rag evidence`               *)
(* (src/evalharness/rag/live.py).  It resolves the model, maps its work    *)
(* over a pool of workers that call the provider under the bounded policy  *)
(* of src/evalharness/providers/call_policy.py, writes one artifact and    *)
(* closes the provider.                                                    *)
(*                                                                         *)
(* The queue of bounded_map is FIFO and its producer puts item 1, 2, ...   *)
(* and then one end marker per worker, so two counters describe it: "put"  *)
(* and "got".  Inside a call the managed provider is at work               *)
(* (ManagedProvider.tla); here it answers, raises or times out.            *)
(***************************************************************************)
EXTENDS Integers, Sequences, FiniteSets, Functions

CONSTANTS
    Workers,      \* the worker tasks, as many as --concurrency
    Command,      \* the task of the command itself, which resolves the model
    NItems,       \* pieces of work: candidates, orderings or claim-context pairs
    KeyOf,        \* where the artifact files an item; contexts of one case may share a doc_id
    Labels,       \* the judgments a well-formed response may carry
    ErrorClasses, \* classes the provider's errors may have
    MaxRetries,   \* default_max_retries
    NoLabel, NoFile

Items == 1 .. NItems
Callers == Workers \cup {Command}

Retryable == {"retryable_transient", "retryable_rate_limit"}
Fatal == {"timeout", "invalid", "non_retryable", "circuit_open"}

ASSUME CallsAssumption ==
    /\ Workers # {} /\ IsFiniteSet(Workers)
    /\ Command \notin Workers
    /\ ErrorClasses \subseteq Retryable \cup {"non_retryable", "circuit_open"}
    /\ NItems \in Nat /\ MaxRetries \in Nat
    /\ DOMAIN KeyOf = Items
    /\ Labels # {} /\ Labels \cap (Retryable \cup Fatal) = {}
    /\ NoLabel \notin Labels

VARIABLES
    main,      \* where the command stands
    put, got,  \* items and end markers put in the queue, and taken from it
    pc,        \* what each task does
    item,      \* the work a task is at; the resolution of the model is item 0
    attempt,   \* its loop variable in _call_with_policy
    log,       \* how the calls of each item ended
    results,   \* of bounded_map, by index
    file,      \* the artifact, NoFile for what was there before
    open       \* the provider's client

vars == <<main, put, got, pc, item, attempt, log, results, file, open>>

TypeOK ==
    /\ main \in {"checking", "resolving", "mapping", "cancelling", "closing", "done"}
    /\ put \in Nat /\ got \in Nat
    /\ pc \in [Callers -> {"idle", "getting", "calling", "sleeping", "returned", "raised",
                           "cancelled"}]
    /\ item \in [Callers -> 0 .. NItems]
    /\ attempt \in [Callers -> 0 .. MaxRetries]
    /\ log \in [0 .. NItems -> Seq(Labels \cup Retryable \cup Fatal)]
    /\ results \in [Items -> Labels \cup {NoLabel}]
    /\ file = NoFile \/ DOMAIN file = Range(KeyOf)
    /\ open \in BOOLEAN

Init ==
    /\ main = "checking"
    /\ put = 0 /\ got = 0
    /\ pc = [c \in Callers |-> "idle"]
    /\ item = [c \in Callers |-> 0]
    /\ attempt = [c \in Callers |-> 0]
    /\ log = [i \in 0 .. NItems |-> <<>>]
    /\ results = [i \in Items |-> NoLabel]
    /\ file = NoFile
    /\ open = TRUE

pool == <<put, got, results>>
Finished(w) == pc[w] \in {"returned", "raised", "cancelled"}

\* The input is checked before the model is resolved (families, rubric, report)
\* or after it (candidates, pairs).
RejectInput ==
    /\ \/ main = "checking"
       \/ main = "resolving" /\ pc[Command] = "returned"
    /\ main' = "closing"
    /\ UNCHANGED <<pool, pc, item, attempt, log, file, open>>

BeginResolve ==
    /\ main = "checking"
    /\ main' = "resolving"
    /\ pc' = [pc EXCEPT ![Command] = "calling"]
    /\ UNCHANGED <<pool, item, attempt, log, file, open>>

ResolveFails ==
    /\ main = "resolving" /\ pc[Command] = "raised"
    /\ main' = "closing"
    /\ UNCHANGED <<pool, pc, item, attempt, log, file, open>>

BeginMap ==
    /\ main = "resolving" /\ pc[Command] = "returned"
    /\ main' = "mapping"
    /\ pc' = [c \in Callers |-> IF c = Command THEN "returned" ELSE "getting"]
    /\ UNCHANGED <<pool, item, attempt, log, file, open>>

(***************************************************************************)
(* bounded_map: a producer, a queue of twice the concurrency, the workers. *)
(***************************************************************************)
EndMarkers_One == 1    \* not one for each worker
EndMarkers == Cardinality(Workers)
Produced == NItems + EndMarkers
IsItem(n) == n <= NItems
Capacity == 2 * Cardinality(Workers)

Put ==
    /\ main = "mapping"
    /\ put < Produced /\ put - got < Capacity
    /\ put' = put + 1
    /\ UNCHANGED <<main, got, pc, item, attempt, log, results, file, open>>

TakeItem(w) ==
    /\ main = "mapping" /\ pc[w] = "getting"
    /\ got < put /\ IsItem(got + 1)
    /\ got' = got + 1
    /\ item' = [item EXCEPT ![w] = got + 1]
    /\ pc' = [pc EXCEPT ![w] = "calling"]
    /\ attempt' = [attempt EXCEPT ![w] = 0]
    /\ UNCHANGED <<main, put, log, results, file, open>>

TakeEndMarker(w) ==
    /\ main = "mapping" /\ pc[w] = "getting"
    /\ got < put /\ ~IsItem(got + 1)
    /\ got' = got + 1
    /\ pc' = [pc EXCEPT ![w] = "returned"]
    /\ UNCHANGED <<main, put, item, attempt, log, results, file, open>>

(***************************************************************************)
(* _call_with_policy, for the resolution of the model and for each item.   *)
(***************************************************************************)
Calling(c) ==
    /\ main = IF c = Command THEN "resolving" ELSE "mapping"
    /\ pc[c] = "calling"

Record(c, how) == log' = [log EXCEPT ![item[c]] = Append(@, how)]

\* The operation raises: its worker ends with the exception.
Raise(c) == pc' = [pc EXCEPT ![c] = "raised"] /\ UNCHANGED <<item, results>>

\* A response that parses; the resolution answers with a digest, which
\* stands as any label.
StoreResult_ByArrival(c, label) ==    \* appended instead of put at its index
    results' = [results EXCEPT ![CHOOSE i \in Items :
                    /\ results[i] = NoLabel
                    /\ \A j \in 1 .. i - 1 : results[j] # NoLabel] = label]
StoreResult(c, label) == results' = [results EXCEPT ![item[c]] = label]

Answer(c, label) ==
    /\ Calling(c)
    /\ Record(c, label)
    /\ IF c = Command
       THEN pc' = [pc EXCEPT ![c] = "returned"] /\ UNCHANGED <<item, results>>
       ELSE /\ pc' = [pc EXCEPT ![c] = "getting"]
            /\ item' = [item EXCEPT ![c] = 0]
            /\ StoreResult(c, label)
    /\ UNCHANGED <<main, put, got, attempt, file, open>>

\* The response is not the JSON its schema asks for.
Malformed(w) ==
    /\ Calling(w)
    /\ Record(w, "invalid")
    /\ Raise(w)
    /\ UNCHANGED <<main, put, got, attempt, file, open>>

\* wait_for or the client gives up; unlike an executor's case, it is over.
TimesOut(c) ==
    /\ Calling(c)
    /\ Record(c, "timeout")
    /\ Raise(c)
    /\ UNCHANGED <<main, put, got, attempt, file, open>>

WorthRetry_OffByOne(c, class) == class \in Retryable /\ attempt[c] <= MaxRetries
WorthRetry(c, class) == class \in Retryable /\ attempt[c] < MaxRetries

ProviderRaises(c, class) ==
    /\ Calling(c)
    /\ Record(c, class)
    /\ IF WorthRetry(c, class)
       THEN pc' = [pc EXCEPT ![c] = "sleeping"] /\ UNCHANGED <<item, results>>
       ELSE Raise(c)
    /\ UNCHANGED <<main, put, got, attempt, file, open>>

Wake(c) ==
    /\ main = IF c = Command THEN "resolving" ELSE "mapping"
    /\ pc[c] = "sleeping"
    /\ pc' = [pc EXCEPT ![c] = "calling"]
    /\ attempt' = [attempt EXCEPT ![c] = @ + 1]
    /\ UNCHANGED <<main, put, got, item, log, results, file, open>>

(***************************************************************************)
(* The end of the map.  gather raises with the first exception; until then *)
(* and until the command runs again the other workers go on.               *)
(***************************************************************************)
MapFails ==
    /\ main = "mapping"
    /\ \E w \in Workers : pc[w] = "raised"
    /\ main' = "cancelling"
    /\ UNCHANGED <<pool, pc, item, attempt, log, file, open>>

\* Ctrl-C cancels the command, and with it whatever it awaits.
InterruptMap ==
    /\ main = "mapping"
    /\ main' = "cancelling"
    /\ UNCHANGED <<pool, pc, item, attempt, log, file, open>>

InterruptResolve ==
    /\ main = "resolving"
    /\ pc[Command] \in {"calling", "sleeping"}
    /\ pc' = [pc EXCEPT ![Command] = "cancelled"]
    /\ main' = "closing"
    /\ UNCHANGED <<pool, item, attempt, log, file, open>>

\* A cancelled task unwinds: its call is abandoned, its answer lost.
Unwind(w) ==
    /\ main = "cancelling"
    /\ ~Finished(w)
    /\ pc' = [pc EXCEPT ![w] = "cancelled"]
    /\ UNCHANGED <<main, pool, item, attempt, log, file, open>>

\* The second gather awaits every task before the exception goes on.
AllUnwound_NotAwaited == TRUE
AllUnwound == \A w \in Workers : Finished(w)

GiveUp ==
    /\ main = "cancelling"
    /\ AllUnwound
    /\ main' = "closing"
    /\ UNCHANGED <<pool, pc, item, attempt, log, file, open>>

\* Items are merged in the order of the work: the last one of a key stays.
IsLast(i) == \A j \in Items : KeyOf[j] = KeyOf[i] => j <= i
LastOf(k) == CHOOSE i \in Items : KeyOf[i] = k /\ IsLast(i)
Artifact == [k \in Range(KeyOf) |-> results[LastOf(k)]]

Complete == \A i \in Items : results[i] # NoLabel

MapEnds == put = Produced /\ \A w \in Workers : pc[w] = "returned"

\* An incomplete result raises; a complete one is written.
FinishMap ==
    /\ main = "mapping"
    /\ MapEnds
    /\ file' = IF Complete THEN Artifact ELSE file
    /\ main' = "closing"
    /\ UNCHANGED <<pool, pc, item, attempt, log, open>>

\* The finally of the service.
Close ==
    /\ main = "closing"
    /\ open' = FALSE
    /\ main' = "done"
    /\ UNCHANGED <<pool, pc, item, attempt, log, file>>

CallEnds(c) ==
    \/ \E label \in Labels : Answer(c, label)
    \/ c # Command /\ Malformed(c)
    \/ TimesOut(c)
    \/ \E class \in ErrorClasses : ProviderRaises(c, class)

TakeNext(w) == TakeItem(w) \/ TakeEndMarker(w)

CommandStep ==
    \/ RejectInput \/ BeginResolve \/ ResolveFails \/ BeginMap
    \/ MapFails \/ GiveUp \/ FinishMap \/ Close

Next ==
    \/ CommandStep
    \/ Put
    \/ \E w \in Workers : TakeNext(w) \/ Unwind(w)
    \/ \E c \in Callers : CallEnds(c) \/ Wake(c)
    \/ InterruptMap \/ InterruptResolve

Spec == Init /\ [][Next]_vars

\* The event loop runs every task that can run, sleeps end, and wait_for ends
\* every call by its timeout.  Nobody has to press Ctrl-C.
FairSpec ==
    /\ Spec
    /\ WF_vars(CommandStep) /\ WF_vars(Put)
    /\ \A w \in Workers : WF_vars(TakeNext(w)) /\ WF_vars(Unwind(w))
    /\ \A c \in Callers : WF_vars(CallEnds(c)) /\ WF_vars(Wake(c))

-----------------------------------------------------------------------------
(***************************************************************************)
(* The invariant of all steps.                                             *)
(***************************************************************************)
Final(i) == log[i][Len(log[i])]
Answered(i) == log[i] # <<>> /\ Final(i) \in Labels

Held(w) == pc[w] \in {"calling", "sleeping", "raised"}

\* Work is taken in order, by one worker at a time.
WorkInv ==
    /\ got <= put
    /\ item[Command] = 0
    /\ \A w \in Workers :
          /\ Held(w) => item[w] # 0
          /\ item[w] # 0 => item[w] <= got /\ (Held(w) \/ pc[w] = "cancelled")
          /\ pc[w] = "returned" => got > NItems
          /\ \A v \in Workers : item[v] = item[w] => v = w \/ item[w] = 0
    /\ \A i \in Items :
          /\ i > got => log[i] = <<>> /\ results[i] = NoLabel
          /\ i <= got => results[i] # NoLabel \/ \E w \in Workers : item[w] = i
          /\ results[i] # NoLabel => /\ log[i] # <<>> /\ Final(i) = results[i]
                                    /\ \A w \in Workers : item[w] # i

\* While a call may still be repeated, its log holds what was worth a retry.
LogInv ==
    /\ main = "checking" => pc[Command] = "idle" /\ log[0] = <<>> /\ attempt[Command] = 0
    /\ \A c \in Callers :
          /\ pc[c] = "calling" => Len(log[item[c]]) = attempt[c]
          /\ pc[c] = "sleeping" => /\ attempt[c] < MaxRetries
                                   /\ Len(log[item[c]]) = attempt[c] + 1
          /\ pc[c] \in {"calling", "sleeping"} =>
                \A n \in 1 .. Len(log[item[c]]) : log[item[c]][n] \in Retryable

StageInv ==
    /\ main \in {"checking", "resolving"} => \A w \in Workers : pc[w] = "idle"
    /\ main \in {"closing", "done"} => \A w \in Workers : pc[w] = "idle" \/ Finished(w)
    /\ ~open => main = "done"
    /\ file # NoFile => main \in {"closing", "done"} /\ Complete /\ file = Artifact

-----------------------------------------------------------------------------
(***************************************************************************)
(* Properties                                                              *)
(***************************************************************************)
\* The artifact is there only if every item was answered, and each key holds
\* the last answer to the last item filed under it, whatever the order the
\* answers came in (bounded_map, run_live_judgment, run_live_nli).
ArtifactIsWhole ==
    file # NoFile =>
        \A i \in Items : /\ Answered(i)
                         /\ IsLast(i) => file[KeyOf[i]] = Final(i)

\* A call is repeated only after an error that may pass, at most MaxRetries
\* times, and never once it was answered (_call_with_policy).
RetriesAreEarned ==
    \A i \in 0 .. NItems :
        /\ Len(log[i]) <= MaxRetries + 1
        /\ \A n \in 1 .. Len(log[i]) - 1 : log[i][n] \in Retryable

\* When the provider's client is closed, no task is in a call, asleep before
\* one or about to begin one (bounded_map's second gather).
NothingRunsAfterClose ==
    ~open => \A w \in Workers : pc[w] = "idle" \/ Finished(w)

\* When every worker has returned, no item was left behind: the error for an
\* incomplete result is never raised (call_policy.py:200).
NoItemLeftBehind == main = "mapping" /\ MapEnds => Complete

\* The command ends, with its client closed, whatever fails and whenever it
\* is interrupted.
CommandEnds == <>(main = "done" /\ ~open)

InductiveInvariant == TypeOK /\ WorkInv /\ LogInv /\ StageInv /\ RetriesAreEarned
=============================================================================
