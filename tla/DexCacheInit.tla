---------------------------- MODULE DexCacheInit ----------------------------
(* DexKit::InitDexCache (vendor/dexkit_core/Core/dexkit/dexkit.cpp and       *)
(* dex_item.cpp): the parts of the per-dex caches are claimed, built in a    *)
(* thread pool and published, first the caches (round "init"), then the      *)
(* cross references between dexes (round "cross"), then their aggregates.    *)
(* A part whose construction throws is latched as failed; a pool that cannot *)
(* be created or fed gives the claims back. One caller at a time runs this   *)
(* (QueryGate!WarmUpAlone); its pool tasks run concurrently.                 *)
EXTENDS Naturals, FiniteSets

CONSTANTS Dexes,
          CacheFlags,       \* kUsingString, kMethodInvoking, ...
          CrossFlags,       \* kCallerMethod, kRwFieldMethod
          BadInit,          \* <<dex, part>> whose InitCache throws
          BadCross,         \* <<dex, part>> whose PutCrossRef throws
          BadAggregate,     \* parts whose aggregate throws
          Requests,
          MaxRuns           \* bound: calls of InitDexCache

Flags == CacheFlags \cup CrossFlags
Rounds == {"init", "cross"}

\* A session holds a dex: its constructor throws when no input was accepted.
ASSUME InitAssumption ==
    /\ Dexes # {}
    /\ CacheFlags \cap CrossFlags = {}
    /\ BadInit \subseteq Dexes \X Flags
    /\ BadCross \subseteq Dexes \X CrossFlags
    /\ BadAggregate \subseteq CrossFlags
    /\ Requests \subseteq SUBSET Flags
    /\ MaxRuns \in Nat

VARIABLES stage, round,     \* where InitDexCache is
          init_flags,       \* its argument
          todo,             \* dexes still to be visited by the Begin loop
          jobs,             \* claimed_flags per dex, {}: no job
          task,             \* per dex: "none", "queued", "ran"
          flag, failed_flags, inflight,  \* [round][dex]: published, failed, claimed
          agg_flag, agg_failed, agg_inflight,
          abandoned,        \* ghost: parts whose aggregates lacked a thread
          built,            \* ghost: [round][dex] how often each part was built
          runs

dex_state == <<flag, failed_flags, inflight>>
agg_state == <<agg_flag, agg_failed, agg_inflight, abandoned>>
pool == <<todo, jobs, task>>
vars == <<stage, round, init_flags, pool, dex_state, agg_state, built, runs>>

\* What the current round is asked for.
Asked == IF round = "init" THEN init_flags ELSE init_flags \cap CrossFlags

PerDex(v) == [k \in Rounds |-> [d \in Dexes |-> v]]

Init ==
    /\ stage = "idle" /\ round = "init"
    /\ init_flags = {}
    /\ todo = {}
    /\ jobs = [d \in Dexes |-> {}]
    /\ task = [d \in Dexes |-> "none"]
    /\ flag = PerDex({}) /\ failed_flags = PerDex({}) /\ inflight = PerDex({})
    /\ agg_flag = {} /\ agg_failed = {} /\ agg_inflight = {} /\ abandoned = {}
    /\ built = PerDex([f \in Flags |-> 0])
    /\ runs = 0

\* InitDexCache is called.
Call(flags) ==
    /\ stage = "idle" /\ runs < MaxRuns
    /\ runs' = runs + 1
    /\ stage' = "begin" /\ round' = "init"
    /\ init_flags' = flags
    /\ todo' = Dexes
    /\ UNCHANGED <<jobs, task, dex_state, agg_state, built>>

\* Mutant: a failed part is claimed, and built, again.
MissingOrFailed(d) == Asked \ flag[round][d]
\* What BeginInitCache / BeginPutCrossRef would claim.
Missing(d) == Asked \ (flag[round][d] \cup failed_flags[round][d])

\* BeginInitCache / BeginPutCrossRef: claim what is missing, waiting for another
\* claim on this dex to be retired.
BeginDex(d) ==
    /\ stage = "begin" /\ d \in todo
    /\ todo' = todo \ {d}
    /\ \/ /\ Missing(d) = {}
          /\ UNCHANGED <<jobs, inflight>>
       \/ /\ Missing(d) # {} /\ inflight[round][d] = {}
          /\ jobs' = [jobs EXCEPT ![d] = Missing(d)]
          /\ inflight' = [inflight EXCEPT ![round][d] = Missing(d)]
    /\ UNCHANGED <<stage, round, init_flags, task, flag, failed_flags, agg_state, built, runs>>

HasJobs == \E d \in Dexes : jobs[d] # {}

\* All dexes visited: create the pool if there is anything to do.
CreatePool ==
    /\ stage = "begin" /\ todo = {}
    /\ stage' = IF HasJobs THEN "submit" ELSE "wait"
    /\ UNCHANGED <<round, init_flags, pool, dex_state, agg_state, built, runs>>

Submit(d) ==
    /\ stage = "submit"
    /\ jobs[d] # {} /\ task[d] = "none"
    /\ task' = [task EXCEPT ![d] = "queued"]
    /\ UNCHANGED <<stage, round, init_flags, todo, jobs, dex_state, agg_state, built, runs>>

\* The pool's constructor or enqueue throws before every job is submitted; the
\* pool is destroyed, which runs what was submitted.
PoolThrows ==
    /\ stage = "submit"
    /\ \E d \in Dexes : jobs[d] # {} /\ task[d] = "none"
    /\ stage' = "unwind"
    /\ UNCHANGED <<round, init_flags, pool, dex_state, agg_state, built, runs>>

Throws(d) ==
    IF round = "init" THEN \E f \in jobs[d] : <<d, f>> \in BadInit
    ELSE \E f \in jobs[d] : <<d, f>> \in BadCross

\* AbortInitCache / AbortPutCrossRef: latch what is not published.
Latched(d) == [failed_flags EXCEPT ![round][d] = @ \cup (jobs[d] \ flag[round][d])]

\* One pool task: the claimed set is built as a whole, then published or failed.
RunTask(d) ==
    /\ stage \in {"submit", "unwind"}
    /\ task[d] = "queued"
    /\ task' = [task EXCEPT ![d] = "ran"]
    /\ IF Throws(d)
       THEN /\ failed_flags' = Latched(d)
            /\ UNCHANGED flag
       ELSE /\ flag' = [flag EXCEPT ![round][d] = @ \cup jobs[d]]
            /\ UNCHANGED failed_flags
    /\ built' = [built EXCEPT ![round][d] =
                    [f \in Flags |-> IF f \in jobs[d] THEN @[f] + 1 ELSE @[f]]]
    /\ inflight' = [inflight EXCEPT ![round][d] = @ \ jobs[d]]
    /\ UNCHANGED <<stage, round, init_flags, todo, jobs, agg_state, runs>>

NoJobs ==
    /\ jobs' = [d \in Dexes |-> {}]
    /\ task' = [d \in Dexes |-> "none"]

Joined == \A d \in Dexes : task[d] # "queued"

\* The pool is joined. RetireInitClaims aborts every claim; that only matters
\* for one that published nothing.
RetireClaims ==
    /\ stage = "submit" /\ Joined
    /\ \A d \in Dexes : jobs[d] # {} => task[d] = "ran"
    /\ failed_flags' = [failed_flags EXCEPT ![round] =
                           [d \in Dexes |-> @[d] \cup (jobs[d] \ flag[round][d])]]
    /\ inflight' = [inflight EXCEPT ![round] = [d \in Dexes |-> @[d] \ jobs[d]]]
    /\ stage' = "wait"
    /\ NoJobs
    /\ UNCHANGED <<round, init_flags, todo, flag, agg_state, built, runs>>

\* Mutant: the claims of unsubmitted jobs are kept when the pool throws.
KeepClaims ==
    /\ stage = "unwind" /\ Joined
    /\ stage' = "thrown"
    /\ NoJobs
    /\ UNCHANGED <<round, init_flags, todo, dex_state, agg_state, built, runs>>
\* Mutant: the exception path latches, like the normal one.
LatchClaims ==
    /\ stage = "unwind" /\ Joined
    /\ failed_flags' = [failed_flags EXCEPT ![round] =
                           [d \in Dexes |-> @[d] \cup (jobs[d] \ flag[round][d])]]
    /\ inflight' = [inflight EXCEPT ![round] = [d \in Dexes |-> @[d] \ jobs[d]]]
    /\ stage' = "thrown"
    /\ NoJobs
    /\ UNCHANGED <<round, init_flags, todo, flag, agg_state, built, runs>>
\* ReleaseInitClaims: the claims are given back without a verdict, then rethrow.
ReleaseClaims ==
    /\ stage = "unwind" /\ Joined
    /\ inflight' = [inflight EXCEPT ![round] = [d \in Dexes |-> @[d] \ jobs[d]]]
    /\ stage' = "thrown"
    /\ NoJobs
    /\ UNCHANGED <<round, init_flags, todo, flag, failed_flags, agg_state, built, runs>>

\* Mutant: a failed part counts as an answer but is not reported.
WaitWithoutError ==
    /\ stage = "wait"
    /\ \A d \in Dexes : Asked \subseteq flag[round][d] \cup failed_flags[round][d]
    /\ IF round = "cross" THEN stage' = "aggregate" /\ UNCHANGED <<round, todo>>
       ELSE IF init_flags \cap CrossFlags = {} THEN stage' = "done" /\ UNCHANGED <<round, todo>>
       ELSE stage' = "begin" /\ round' = "cross" /\ todo' = Dexes
    /\ UNCHANGED <<init_flags, jobs, task, dex_state, agg_state, built, runs>>
\* WaitInitCache / WaitPutCrossRef over all dexes: blocks without a verdict,
\* throws on a failed part, and otherwise goes on to the next round.
WaitDexes ==
    /\ stage = "wait"
    /\ \A d \in Dexes : Asked \subseteq flag[round][d] \cup failed_flags[round][d]
    /\ IF \E d \in Dexes : Asked \cap failed_flags[round][d] # {}
       THEN stage' = "thrown" /\ UNCHANGED <<round, todo>>
       ELSE IF round = "cross" THEN stage' = "aggregate" /\ UNCHANGED <<round, todo>>
       ELSE IF init_flags \cap CrossFlags = {} THEN stage' = "done" /\ UNCHANGED <<round, todo>>
       ELSE stage' = "begin" /\ round' = "cross" /\ todo' = Dexes
    /\ UNCHANGED <<init_flags, jobs, task, dex_state, agg_state, built, runs>>

AggMissing == Asked \ (agg_flag \cup agg_failed)

BeginBuildCrossRefAggregates ==
    /\ stage = "aggregate"
    /\ \/ AggMissing = {} /\ stage' = "aggregate_wait" /\ UNCHANGED agg_inflight
       \/ /\ AggMissing # {} /\ agg_inflight = {}
          /\ stage' = "aggregate_build"
          /\ agg_inflight' = AggMissing
    /\ UNCHANGED <<round, init_flags, pool, dex_state, agg_flag, agg_failed, abandoned, built, runs>>

FinishBuildCrossRefAggregates ==
    /\ stage = "aggregate_build"
    /\ agg_inflight \cap BadAggregate = {}
    /\ agg_flag' = agg_flag \cup agg_inflight
    /\ agg_inflight' = {}
    /\ stage' = "aggregate_wait"
    /\ UNCHANGED <<round, init_flags, pool, dex_state, agg_failed, abandoned, built, runs>>

\* What makes BuildCrossRefAggregates throw on the calling thread: these dexes,
\* or no thread for the pool it uses when there is more than one target dex.
AggregateThrows(short) ==
    IF short THEN Cardinality(Dexes) > 1 ELSE agg_inflight \cap BadAggregate # {}

\* Mutant: a shortage gives the claim back, as in the two rounds before.
ReleaseOnShortage ==
    /\ stage = "aggregate_build"
    /\ \E short \in BOOLEAN :
         /\ AggregateThrows(short)
         /\ agg_failed' = IF short THEN agg_failed ELSE agg_failed \cup (agg_inflight \ agg_flag)
         /\ abandoned' = IF short THEN abandoned \cup agg_inflight ELSE abandoned
    /\ agg_inflight' = {}
    /\ stage' = "rethrow"
    /\ UNCHANGED <<round, init_flags, pool, dex_state, agg_flag, built, runs>>
\* The catch of InitDexCache does not tell the two apart: it latches both.
AbortBuildCrossRefAggregates ==
    /\ stage = "aggregate_build"
    /\ \E short \in BOOLEAN :
         /\ AggregateThrows(short)
         /\ abandoned' = IF short THEN abandoned \cup agg_inflight ELSE abandoned
    /\ agg_failed' = agg_failed \cup (agg_inflight \ agg_flag)
    /\ agg_inflight' = {}
    /\ stage' = "rethrow"
    /\ UNCHANGED <<round, init_flags, pool, dex_state, agg_flag, built, runs>>

Rethrow ==
    /\ stage = "rethrow"
    /\ stage' = "thrown"
    /\ UNCHANGED <<round, init_flags, pool, dex_state, agg_state, built, runs>>

WaitBuildCrossRefAggregates ==
    /\ stage = "aggregate_wait"
    /\ Asked \subseteq agg_flag \cup agg_failed
    /\ stage' = IF Asked \cap agg_failed # {} THEN "thrown" ELSE "done"
    /\ UNCHANGED <<round, init_flags, pool, dex_state, agg_state, built, runs>>

Return ==
    /\ stage \in {"done", "thrown"}
    /\ stage' = "idle" /\ round' = "init" /\ init_flags' = {} /\ todo' = {}
    /\ UNCHANGED <<jobs, task, dex_state, agg_state, built, runs>>

Run ==
    \/ \E d \in Dexes : BeginDex(d) \/ Submit(d) \/ RunTask(d)
    \/ CreatePool \/ PoolThrows \/ RetireClaims \/ ReleaseClaims \/ WaitDexes
    \/ BeginBuildCrossRefAggregates \/ FinishBuildCrossRefAggregates
    \/ AbortBuildCrossRefAggregates
    \/ Rethrow \/ WaitBuildCrossRefAggregates \/ Return

Next == Run \/ \E flags \in Requests : Call(flags)

Spec == Init /\ [][Next]_vars
\* The calling thread and the workers of its pool are scheduled.
FairSpec == Spec /\ WF_vars(Run)

-----------------------------------------------------------------------------
(* The view NeedWarmUp has, and the abstract specification. *)

AllReady ==
    {f \in CacheFlags : \A d \in Dexes : f \in flag["init"][d]}
    \cup {f \in CrossFlags : f \in agg_flag /\ \A d \in Dexes : f \in flag["cross"][d]}
SomeFailed ==
    agg_failed \cup UNION {UNION {failed_flags[k][d] : d \in Dexes} : k \in Rounds}
BrokenParts ==
    CrossFlags \cup {f \in Flags : \E d \in Dexes : <<d, f>> \in BadInit \cup BadCross}
Result == IF stage \in {"idle", "done", "thrown"} THEN stage ELSE "running"

W == INSTANCE CacheWarmUp WITH
        Broken <- BrokenParts, ready <- AllReady, failed <- SomeFailed,
        request <- init_flags, result <- Result

\* Type invariant; only cross-reference parts reach the aggregates (DEXKIT_CHECK),
\* and a part of a dex is built at most once, whatever failed or was retried
\* before: the builders append to shared tables, a second build doubles entries.
TypeOK ==
    /\ stage \in {"idle", "begin", "submit", "unwind", "wait", "aggregate",
                  "aggregate_build", "rethrow", "aggregate_wait", "done", "thrown"}
    /\ round \in Rounds
    /\ init_flags \subseteq Flags
    /\ todo \subseteq Dexes
    /\ jobs \in [Dexes -> SUBSET Flags]
    /\ task \in [Dexes -> {"none", "queued", "ran"}]
    /\ flag \in [Rounds -> [Dexes -> SUBSET Flags]]
    /\ failed_flags \in [Rounds -> [Dexes -> SUBSET Flags]]
    /\ inflight \in [Rounds -> [Dexes -> SUBSET Flags]]
    /\ agg_flag \subseteq CrossFlags /\ agg_failed \subseteq CrossFlags
    /\ agg_inflight \subseteq CrossFlags /\ abandoned \subseteq CrossFlags
    /\ built \in [Rounds -> [Dexes -> [Flags -> 0..1]]]
    /\ runs \in Nat

\* "A claim must be retired on EVERY exit": when InitDexCache is over, however it
\* ended, no claim is left for a later run to wait on.
NothingLeftClaimed ==
    stage \in {"idle", "done", "thrown"} =>
        /\ agg_inflight = {}
        /\ \A k \in Rounds, d \in Dexes : inflight[k][d] = {}

\* In the rounds that build the caches and the cross references a shortage of
\* threads is forgotten: only a part that throws, or one claimed together with
\* it, is ever given up.
OnlyThrowsLatch ==
    \A d \in Dexes :
        /\ failed_flags["init"][d] # {} => \E f \in failed_flags["init"][d] : <<d, f>> \in BadInit
        /\ failed_flags["cross"][d] # {} => \E f \in failed_flags["cross"][d] : <<d, f>> \in BadCross

\* In the aggregates it is not (dexkit.cpp:1829-1831, against 1753-1757): what was
\* claimed when no thread could be had has failed for good and is never built,
\* and only such a shortage or a part that throws gives an aggregate up.
ShortagesAbandon ==
    /\ abandoned \subseteq agg_failed \ agg_flag
    /\ agg_failed \ abandoned # {} => (agg_failed \ abandoned) \cap BadAggregate # {}

\* InitDexCache at rest and at work: every claim is retired, a part is built at
\* most once, a shortage of threads leaves nothing behind in the rounds "init"
\* and "cross", and leaves the parts of the aggregates dead.
ClaimsSettled == TypeOK /\ NothingLeftClaimed /\ OnlyThrowsLatch /\ ShortagesAbandon

\* InitDexCache keeps the promise QueryGate relies on.
WarmUpPromise == W!Spec

\* Every call returns or throws; no wait is for ever.
EveryRunEnds == stage # "idle" ~> stage = "idle"
=============================================================================
