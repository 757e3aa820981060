----------------------------- MODULE QueryGate -----------------------------
(* Admission of queries to the core (vendor/dexkit_core/Core/dexkit/         *)
(* dexkit.cpp): EnterQueryExecution lets a query in once the caches it needs *)
(* are built, runs pending warm-ups only while no query is active, and       *)
(* queues queries behind tickets when their number is limited.               *)
(*                                                                           *)
(* query_execution_mutex and query_execution_cv are explicit: a step between *)
(* taking and releasing the mutex keeps "mutex", a wait puts the caller to   *)
(* sleep until the next notify_all, and a woken caller tests its predicate   *)
(* again. SetMaxConcurrentQueries takes no mutex. InitDexCache is known here *)
(* by its promise (CacheWarmUp); module DexCacheInit has its inside.         *)
EXTENDS Integers, Sequences, FiniteSets, WarmUpOutcome

CONSTANTS Callers,      \* threads that run queries
          Needs,        \* the sets of parts that queries ask for
          Limits,       \* values max_concurrent_queries_ may be given
          NoCaller,
          MaxCalls,     \* bound: queries in one behaviour
          MaxChanges,   \* bound: calls of SetMaxConcurrentQueries
          MaxShortages  \* bound: warm-ups that fail for want of a resource

ASSUME GateAssumption ==
    /\ IsFiniteSet(Callers)
    /\ NoCaller \notin Callers
    /\ Needs \subseteq SUBSET Flags
    /\ Limits \subseteq Nat
    /\ {MaxCalls, MaxChanges, MaxShortages} \subseteq Nat

VARIABLES
    mutex,                      \* who holds query_execution_mutex
    active_query_count,
    pending_warmup_flags,
    warmup_inflight,
    wait_queue,                 \* shared_pool_admission_wait_queue_
    next_ticket,                \* next_shared_pool_admission_ticket_
    max_concurrent_queries,
    ready, failed,              \* parts built, parts whose failure is latched
    pc, asleep,                 \* where each caller is; is it blocked in a wait
    required,                   \* required_flags of each caller
    warmup_pending,             \* required_warmup_pending
    ticket,                     \* shared_pool_admission_ticket, 0: none
    local,                      \* warmup_flags taken by the caller
    seen,                       \* the limit the caller tested in this iteration
    setter,                     \* inside SetMaxConcurrentQueries, before the notify
    calls, changes, shortages   \* bounds only

gate == <<active_query_count, pending_warmup_flags, warmup_inflight>>
queue == <<wait_queue, next_ticket, ticket>>
cache == <<ready, failed>>
bounds == <<calls, changes, shortages>>
vars == <<mutex, gate, queue, max_concurrent_queries, cache, pc, asleep, required,
          warmup_pending, local, seen, setter, bounds>>

Waits == {"inflight_wait", "drain_wait", "turn_wait"}

-----------------------------------------------------------------------------
Init ==
    /\ mutex = NoCaller
    /\ active_query_count = 0
    /\ pending_warmup_flags = {}
    /\ warmup_inflight = FALSE
    /\ wait_queue = <<>> /\ next_ticket = 1
    /\ max_concurrent_queries = 0
    /\ ready = {} /\ failed = {}
    /\ pc = [q \in Callers |-> "idle"]
    /\ asleep = [q \in Callers |-> FALSE]
    /\ required = [q \in Callers |-> {}]
    /\ warmup_pending = [q \in Callers |-> FALSE]
    /\ ticket = [q \in Callers |-> 0]
    /\ local = [q \in Callers |-> {}]
    /\ seen = [q \in Callers |-> 0]
    /\ setter = FALSE
    /\ calls = 0 /\ changes = 0 /\ shortages = 0

NeedWarmUp(flags) == ~(flags \subseteq ready)

\* refresh_required_warmup_state, then track_required_warmup_request.
RefreshAndTrack(q, flags) ==
    /\ warmup_pending' = [warmup_pending EXCEPT ![q] = NeedWarmUp(flags)]
    /\ pending_warmup_flags' =
          pending_warmup_flags \cup (IF NeedWarmUp(flags) THEN flags ELSE {})

\* query_execution_cv.notify_all().
NotifyAll == asleep' = [q \in Callers |-> FALSE]

\* Mutant: the first test of the caches is forgotten.
EnterUntested(q, flags) ==
    /\ pc[q] = "idle" /\ mutex = NoCaller
    /\ calls < MaxCalls /\ calls' = calls + 1
    /\ mutex' = q
    /\ pc' = [pc EXCEPT ![q] = "loop"]
    /\ required' = [required EXCEPT ![q] = flags]
    /\ warmup_pending' = [warmup_pending EXCEPT ![q] = FALSE]
    /\ UNCHANGED <<gate, queue, max_concurrent_queries, cache, asleep, local, seen, setter,
                   changes, shortages>>
\* EnterQueryExecution up to its loop.
Enter(q, flags) ==
    /\ pc[q] = "idle" /\ mutex = NoCaller
    /\ calls < MaxCalls /\ calls' = calls + 1
    /\ mutex' = q
    /\ pc' = [pc EXCEPT ![q] = "loop"]
    /\ required' = [required EXCEPT ![q] = flags]
    /\ RefreshAndTrack(q, flags)
    /\ UNCHANGED <<active_query_count, warmup_inflight, queue, max_concurrent_queries,
                   cache, asleep, local, seen, setter, changes, shortages>>

-----------------------------------------------------------------------------
(* One iteration of the loop, entered with the mutex held. *)

InLoop(q) == pc[q] = "loop" /\ mutex = q

\* query_execution_cv.wait: the mutex is released and the caller sleeps.
Sleep(q, where) ==
    /\ mutex' = NoCaller
    /\ pc' = [pc EXCEPT ![q] = where]
    /\ asleep' = [asleep EXCEPT ![q] = TRUE]

WaitForWarmUp(q) ==
    /\ InLoop(q)
    /\ warmup_inflight
    /\ Sleep(q, "inflight_wait")
    /\ UNCHANGED <<gate, queue, max_concurrent_queries, cache, required, warmup_pending,
                   local, seen, setter, bounds>>

\* Mutant: the warm-up does not wait for the active queries.
StartWarmUpAtOnce(q) ==
    /\ InLoop(q)
    /\ ~warmup_inflight /\ pending_warmup_flags # {}
    /\ local' = [local EXCEPT ![q] = pending_warmup_flags]
    /\ pending_warmup_flags' = {}
    /\ warmup_inflight' = TRUE
    /\ mutex' = NoCaller
    /\ pc' = [pc EXCEPT ![q] = "warming"]
    /\ UNCHANGED <<active_query_count, queue, max_concurrent_queries, cache, asleep,
                   required, warmup_pending, seen, setter, bounds>>
StartWarmUp(q) ==
    /\ InLoop(q)
    /\ ~warmup_inflight /\ pending_warmup_flags # {}
    /\ active_query_count = 0
    /\ local' = [local EXCEPT ![q] = pending_warmup_flags]
    /\ pending_warmup_flags' = {}
    /\ warmup_inflight' = TRUE
    /\ mutex' = NoCaller
    /\ pc' = [pc EXCEPT ![q] = "warming"]
    /\ UNCHANGED <<active_query_count, queue, max_concurrent_queries, cache, asleep,
                   required, warmup_pending, seen, setter, bounds>>

WaitForDrain(q) ==
    /\ InLoop(q)
    /\ ~warmup_inflight /\ pending_warmup_flags # {}
    /\ active_query_count # 0
    /\ Sleep(q, "drain_wait")
    /\ UNCHANGED <<gate, queue, max_concurrent_queries, cache, required, warmup_pending,
                   local, seen, setter, bounds>>

\* Nothing pending although this query needs a warm-up: ask for it again.
AskAgain(q) ==
    /\ InLoop(q)
    /\ ~warmup_inflight /\ pending_warmup_flags = {}
    /\ warmup_pending[q]
    /\ pending_warmup_flags' = required[q]
    /\ UNCHANGED <<mutex, active_query_count, warmup_inflight, queue,
                   max_concurrent_queries, cache, pc, asleep, required, warmup_pending,
                   local, seen, setter, bounds>>

MayBeAdmitted(q) ==
    /\ InLoop(q)
    /\ ~warmup_inflight /\ pending_warmup_flags = {}
    /\ ~warmup_pending[q]

IsTicketTurn(q) == wait_queue # <<>> /\ Head(wait_queue) = ticket[q]

\* dequeue_shared_pool_admission_ticket: find, then erase.
Without(t) ==
    IF \E i \in 1..Len(wait_queue) : wait_queue[i] = t
    THEN LET at == CHOOSE i \in 1..Len(wait_queue) : wait_queue[i] = t
         IN  [i \in 1..(Len(wait_queue) - 1) |-> wait_queue[IF i < at THEN i ELSE i + 1]]
    ELSE wait_queue

\* No limit: a ticket from an earlier, limited iteration is given back.
AdmitUnlimited(q) ==
    /\ MayBeAdmitted(q)
    /\ max_concurrent_queries = 0
    /\ active_query_count' = active_query_count + 1
    /\ wait_queue' = Without(ticket[q])
    /\ ticket' = [ticket EXCEPT ![q] = 0]
    /\ IF ticket[q] # 0 THEN NotifyAll ELSE UNCHANGED asleep
    /\ mutex' = NoCaller
    /\ pc' = [pc EXCEPT ![q] = "active"]
    /\ UNCHANGED <<pending_warmup_flags, warmup_inflight, next_ticket,
                   max_concurrent_queries, cache, required, warmup_pending, local, seen,
                   setter, bounds>>

\* Limited and nobody queued: straight in.
AdmitAtOnce(q) ==
    /\ MayBeAdmitted(q)
    /\ max_concurrent_queries # 0
    /\ ticket[q] = 0 /\ active_query_count < max_concurrent_queries /\ wait_queue = <<>>
    /\ active_query_count' = active_query_count + 1
    /\ mutex' = NoCaller
    /\ pc' = [pc EXCEPT ![q] = "active"]
    /\ UNCHANGED <<pending_warmup_flags, warmup_inflight, queue, max_concurrent_queries,
                   cache, asleep, required, warmup_pending, local, seen, setter, bounds>>

\* Mutant: a ticket holder enters as soon as there is room.
AdmitAnyTicket(q) ==
    /\ MayBeAdmitted(q)
    /\ max_concurrent_queries # 0
    /\ ticket[q] # 0 /\ active_query_count < max_concurrent_queries
    /\ active_query_count' = active_query_count + 1
    /\ wait_queue' = Without(ticket[q])
    /\ ticket' = [ticket EXCEPT ![q] = 0]
    /\ NotifyAll
    /\ mutex' = NoCaller
    /\ pc' = [pc EXCEPT ![q] = "active"]
    /\ UNCHANGED <<pending_warmup_flags, warmup_inflight, next_ticket,
                   max_concurrent_queries, cache, required, warmup_pending, local, seen,
                   setter, bounds>>
\* Limited, holding the ticket at the front, and there is room.
AdmitTicket(q) ==
    /\ MayBeAdmitted(q)
    /\ max_concurrent_queries # 0
    /\ ticket[q] # 0 /\ active_query_count < max_concurrent_queries /\ IsTicketTurn(q)
    /\ active_query_count' = active_query_count + 1
    /\ wait_queue' = Tail(wait_queue)
    /\ ticket' = [ticket EXCEPT ![q] = 0]
    /\ NotifyAll
    /\ mutex' = NoCaller
    /\ pc' = [pc EXCEPT ![q] = "active"]
    /\ UNCHANGED <<pending_warmup_flags, warmup_inflight, next_ticket,
                   max_concurrent_queries, cache, required, warmup_pending, local, seen,
                   setter, bounds>>

\* Limited, and no room or not its turn: take a ticket and go to wait. The wait
\* tests its predicate before it sleeps, so this only gets to that test.
TakeTicket(q) ==
    LET fresh == ticket[q] = 0
        queued == IF fresh THEN Append(wait_queue, next_ticket) ELSE wait_queue
        mine == IF fresh THEN next_ticket ELSE ticket[q]
    IN  /\ MayBeAdmitted(q)
        /\ max_concurrent_queries # 0
        /\ fresh => active_query_count >= max_concurrent_queries \/ wait_queue # <<>>
        /\ active_query_count >= max_concurrent_queries \/ Head(queued) # mine
        /\ wait_queue' = queued
        /\ next_ticket' = IF fresh THEN next_ticket + 1 ELSE next_ticket
        /\ ticket' = [ticket EXCEPT ![q] = mine]
        /\ seen' = [seen EXCEPT ![q] = max_concurrent_queries]
        /\ pc' = [pc EXCEPT ![q] = "turn_test"]
        /\ UNCHANGED <<mutex, gate, max_concurrent_queries, cache, asleep, required,
                       warmup_pending, local, setter, bounds>>

\* The predicate of that wait.
TurnTest(q) ==
    \/ warmup_inflight
    \/ pending_warmup_flags # {}
    \/ max_concurrent_queries # seen[q]
    \/ IsTicketTurn(q) /\ active_query_count < max_concurrent_queries

\* The test and the sleep are two steps: the limit is not under the mutex.
TestTurn(q) ==
    /\ pc[q] = "turn_test" /\ mutex = q
    /\ pc' = [pc EXCEPT ![q] = IF TurnTest(q) THEN "loop" ELSE "turn_sleep"]
    /\ UNCHANGED <<mutex, gate, queue, max_concurrent_queries, cache, asleep, required,
                   warmup_pending, local, seen, setter, bounds>>

SleepForTurn(q) ==
    /\ pc[q] = "turn_sleep" /\ mutex = q
    /\ Sleep(q, "turn_wait")
    /\ UNCHANGED <<gate, queue, max_concurrent_queries, cache, required, warmup_pending,
                   local, seen, setter, bounds>>

-----------------------------------------------------------------------------
(* Waking up: the mutex is taken again and the predicate tested. *)

Woken(q, where) == pc[q] = where /\ ~asleep[q] /\ mutex = NoCaller

WakeAfterWarmUp(q) ==
    /\ Woken(q, "inflight_wait")
    /\ IF warmup_inflight
       THEN /\ Sleep(q, "inflight_wait")
            /\ UNCHANGED <<warmup_pending, pending_warmup_flags>>
       ELSE /\ mutex' = q
            /\ pc' = [pc EXCEPT ![q] = "loop"]
            /\ RefreshAndTrack(q, required[q])
            /\ UNCHANGED asleep
    /\ UNCHANGED <<active_query_count, warmup_inflight, queue, max_concurrent_queries,
                   cache, required, local, seen, setter, bounds>>

WakeAfterDrain(q) ==
    /\ Woken(q, "drain_wait")
    /\ IF ~warmup_inflight /\ active_query_count # 0
       THEN /\ Sleep(q, "drain_wait")
            /\ UNCHANGED <<warmup_pending, pending_warmup_flags>>
       ELSE /\ mutex' = q
            /\ pc' = [pc EXCEPT ![q] = "loop"]
            /\ RefreshAndTrack(q, required[q])
            /\ UNCHANGED asleep
    /\ UNCHANGED <<active_query_count, warmup_inflight, queue, max_concurrent_queries,
                   cache, required, local, seen, setter, bounds>>

WakeForTurn(q) ==
    /\ Woken(q, "turn_wait")
    /\ mutex' = q
    /\ pc' = [pc EXCEPT ![q] = "turn_test"]
    /\ UNCHANGED <<gate, queue, max_concurrent_queries, cache, asleep, required,
                   warmup_pending, local, seen, setter, bounds>>

-----------------------------------------------------------------------------
(* The warm-up, run without the mutex. *)

\* InitDexCache works on the request and publishes parts as it goes.
WarmUpProgress(q) ==
    /\ pc[q] = "warming"
    /\ \E built, bad \in SUBSET local[q] :
          /\ built \cup bad # {}
          /\ Outcome(local[q], ready, failed, built, bad)
          /\ ready' = ready \cup built
          /\ failed' = failed \cup bad
    /\ UNCHANGED <<mutex, gate, queue, max_concurrent_queries, pc, asleep, required,
                   warmup_pending, local, seen, setter, bounds>>

\* InitDexCache returns, or throws because a part of the request has failed.
InitDexCache(q) ==
    /\ pc[q] = "warming"
    /\ Settled(local[q], ready, failed)
    /\ pc' = [pc EXCEPT ![q] = IF local[q] \subseteq ready THEN "warmed" ELSE "thrown"]
    /\ UNCHANGED <<mutex, gate, queue, max_concurrent_queries, cache, asleep, required,
                   warmup_pending, local, seen, setter, bounds>>

\* A pool cannot be created or fed: InitDexCache throws with claims given back.
InitDexCacheShortage(q) ==
    /\ pc[q] = "warming"
    /\ shortages < MaxShortages /\ shortages' = shortages + 1
    /\ ~(local[q] \subseteq ready)
    /\ pc' = [pc EXCEPT ![q] = "thrown"]
    /\ UNCHANGED <<mutex, gate, queue, max_concurrent_queries, cache, asleep, required,
                   warmup_pending, local, seen, setter, calls, changes>>

EndWarmUp(q) ==
    /\ pc[q] = "warmed" /\ mutex = NoCaller
    /\ mutex' = q
    /\ warmup_inflight' = FALSE
    /\ NotifyAll
    /\ RefreshAndTrack(q, required[q])
    /\ pc' = [pc EXCEPT ![q] = "loop"]
    /\ UNCHANGED <<active_query_count, queue, max_concurrent_queries, cache, required,
                   local, seen, setter, bounds>>

\* Mutant: the ticket of a query that throws stays in the queue.
FailKeepingTicket(q) ==
    /\ pc[q] = "thrown" /\ mutex = NoCaller
    /\ warmup_inflight' = FALSE
    /\ ticket' = [ticket EXCEPT ![q] = 0]
    /\ NotifyAll
    /\ pc' = [pc EXCEPT ![q] = "error"]
    /\ UNCHANGED <<mutex, active_query_count, pending_warmup_flags, wait_queue, next_ticket,
                   max_concurrent_queries, cache, required, warmup_pending, local, seen,
                   setter, bounds>>
\* Mutant: warmup_inflight stays set when InitDexCache throws.
FailStillInflight(q) ==
    /\ pc[q] = "thrown" /\ mutex = NoCaller
    /\ wait_queue' = Without(ticket[q])
    /\ ticket' = [ticket EXCEPT ![q] = 0]
    /\ NotifyAll
    /\ pc' = [pc EXCEPT ![q] = "error"]
    /\ UNCHANGED <<mutex, gate, next_ticket, max_concurrent_queries, cache, required,
                   warmup_pending, local, seen, setter, bounds>>
\* The catch block: retire the warm-up, drop the ticket, rethrow.
FailWarmUp(q) ==
    /\ pc[q] = "thrown" /\ mutex = NoCaller
    /\ warmup_inflight' = FALSE
    /\ wait_queue' = Without(ticket[q])
    /\ ticket' = [ticket EXCEPT ![q] = 0]
    /\ NotifyAll
    /\ pc' = [pc EXCEPT ![q] = "error"]
    /\ UNCHANGED <<mutex, active_query_count, pending_warmup_flags, next_ticket,
                   max_concurrent_queries, cache, required, warmup_pending, local, seen,
                   setter, bounds>>

-----------------------------------------------------------------------------
\* The guard of an admitted query is destroyed.
LeaveQueryExecution(q) ==
    /\ pc[q] = "active" /\ mutex = NoCaller
    /\ active_query_count' = active_query_count - 1
    /\ NotifyAll
    /\ pc' = [pc EXCEPT ![q] = "idle"]
    /\ UNCHANGED <<mutex, pending_warmup_flags, warmup_inflight, queue,
                   max_concurrent_queries, cache, required, warmup_pending, local, seen,
                   setter, bounds>>

\* The caller has seen the exception.
Report(q) ==
    /\ pc[q] = "error"
    /\ pc' = [pc EXCEPT ![q] = "idle"]
    /\ UNCHANGED <<mutex, gate, queue, max_concurrent_queries, cache, asleep, required,
                   warmup_pending, local, seen, setter, bounds>>

\* SetMaxConcurrentQueries: a store and a notify, without the mutex.
SetMaxConcurrentQueries(limit) ==
    /\ ~setter
    /\ changes < MaxChanges /\ changes' = changes + 1
    /\ max_concurrent_queries' = limit
    /\ setter' = TRUE
    /\ UNCHANGED <<mutex, gate, queue, cache, pc, asleep, required, warmup_pending, local,
                   seen, calls, shortages>>

NotifyLimit ==
    /\ setter
    /\ setter' = FALSE
    /\ NotifyAll
    /\ UNCHANGED <<mutex, gate, queue, max_concurrent_queries, cache, pc, required,
                   warmup_pending, local, seen, bounds>>

\* What a caller that is inside EnterQueryExecution does next.
Step(q) ==
    \/ WaitForWarmUp(q) \/ StartWarmUp(q) \/ WaitForDrain(q) \/ AskAgain(q)
    \/ AdmitUnlimited(q) \/ AdmitAtOnce(q) \/ AdmitTicket(q) \/ TakeTicket(q)
    \/ TestTurn(q) \/ SleepForTurn(q)
    \/ WakeAfterWarmUp(q) \/ WakeAfterDrain(q) \/ WakeForTurn(q)
    \/ WarmUpProgress(q) \/ InitDexCache(q) \/ EndWarmUp(q) \/ FailWarmUp(q)

Next ==
    \/ \E q \in Callers : \/ \E flags \in Needs : Enter(q, flags)
                          \/ Step(q)
                          \/ InitDexCacheShortage(q)
                          \/ LeaveQueryExecution(q)
                          \/ Report(q)
    \/ \E limit \in Limits : SetMaxConcurrentQueries(limit)
    \/ NotifyLimit

Spec == Init /\ [][Next]_vars

\* Threads are scheduled, an admitted query ends, and a setter finishes.
Fairness ==
    /\ \A q \in Callers : /\ WF_vars(Step(q))
                          /\ WF_vars(LeaveQueryExecution(q))
                          /\ WF_vars(Report(q))
    /\ WF_vars(NotifyLimit)
FairSpec == Spec /\ Fairness

-----------------------------------------------------------------------------
Inside == {"loop", "turn_test", "turn_sleep", "warming", "warmed", "thrown"} \cup Waits
Warming == {"warming", "warmed", "thrown"}

\* Type invariant; the count of active queries never goes below zero.
TypeOK ==
    /\ mutex \in Callers \cup {NoCaller}
    /\ active_query_count \in Nat
    /\ pending_warmup_flags \subseteq Flags
    /\ warmup_inflight \in BOOLEAN
    /\ wait_queue \in Seq(Nat \ {0})
    /\ next_ticket \in Nat \ {0}
    /\ max_concurrent_queries \in Nat
    /\ ready \subseteq Flags /\ failed \subseteq Flags
    /\ pc \in [Callers -> Inside \cup {"idle", "active", "error"}]
    /\ asleep \in [Callers -> BOOLEAN]
    /\ required \in [Callers -> SUBSET Flags]
    /\ warmup_pending \in [Callers -> BOOLEAN]
    /\ ticket \in [Callers -> Nat]
    /\ local \in [Callers -> SUBSET Flags]
    /\ seen \in [Callers -> Nat]
    /\ setter \in BOOLEAN
    /\ calls \in Nat /\ changes \in Nat /\ shortages \in Nat

\* The caches are rebuilt by at most one thread, and never under a query that
\* reads them.
WarmUpAlone ==
    \A q \in Callers : pc[q] \in Warming =>
        /\ active_query_count = 0
        /\ \A r \in Callers \ {q} : pc[r] \notin Warming \cup {"active"}

\* EnterQueryExecution returns only when every part the query needs is built.
ReadyWhenActive == \A q \in Callers : pc[q] = "active" => required[q] \subseteq ready

\* No stranded ticket (dexllm#55): the wait queue holds the tickets of callers
\* that are still inside, each once and in the order they were drawn, so whoever
\* is in front can be admitted or can give its place up.
QueueIsLive ==
    /\ \A i \in 1..Len(wait_queue) :
          \E q \in Callers : pc[q] \in Inside /\ ticket[q] = wait_queue[i]
    /\ \A i, j \in 1..Len(wait_queue) : i < j => wait_queue[i] < wait_queue[j]
    /\ \A q \in Callers :
          ticket[q] # 0 => \E i \in 1..Len(wait_queue) : wait_queue[i] = ticket[q]

\* While the queries are limited nobody overtakes a ticket: whoever is admitted
\* held the first ticket or found nobody waiting, and the limit has room for it.
NoOvertaking ==
    [][\A q \in Callers :
          pc[q] # "active" /\ pc'[q] = "active" /\ max_concurrent_queries # 0 =>
              /\ wait_queue = <<>> \/ Head(wait_queue) = ticket[q]
              /\ active_query_count' <= max_concurrent_queries]_vars

\* Nobody is blocked for ever: every query that enters is admitted or told why
\* not, also when warm-ups fail and the limit changes without the mutex.
EveryQueryReturns ==
    \A q \in Callers : pc[q] \in Inside ~> pc[q] \in {"active", "error"}
=============================================================================
