--------------------------- MODULE QueryScheduler ---------------------------
(***************************************************************************)
(* The scheduler that shares one pool of worker threads among the queries  *)
(* that run at the same time (query_scheduler.h), with the executor each   *)
(* query drives it through (query_executor.h).                             *)
(*                                                                         *)
(* Every public operation takes the mutex, updates the slot of its query   *)
(* and then runs DispatchReadyTasksLocked, a loop that hands tasks to the  *)
(* pool.  Here an operation is one step that updates the slot and sets     *)
(* "locked"; each turn of the loop is a step of its own, and no operation  *)
(* starts until the loop has cleared "locked".                             *)
(*                                                                         *)
(* Tasks of one query are told apart only by where they are: waiting in    *)
(* the slot (pending), in the pool (running), or done, with their future   *)
(* ready, but with the guard that calls OnTaskFinished still to run        *)
(* (finishing).  The hand-over to the pool after the unlock is part of the *)
(* dispatch: a task that is handed over late is a task that runs late.     *)
(***************************************************************************)
EXTENDS Integers, Sequences, FiniteSets, FiniteSetsExt, SequencesExt, Functions

CONSTANTS NumQueries,    \* queries that use the scheduler, ids 1..NumQueries
          WorkerCount,   \* worker_count_, the threads of the pool
          MaxTasks       \* tasks one query may submit

ASSUME SchedulerAssumption == /\ NumQueries \in Nat
                              /\ WorkerCount \in Nat \ {0}
                              /\ MaxTasks \in Nat

VARIABLES sched,    \* the members of QueryScheduler that its mutex protects
          locked,   \* DispatchReadyTasksLocked is running
          pool,     \* per query, the tasks its pool holds
          caller,   \* per query, how far the thread that runs it has come
          failed    \* queries one of whose tasks has thrown

vars == <<sched, locked, pool, caller, failed>>

Query == 1..NumQueries

Priority == {"Normal", "LatencySensitive"}

(***************************************************************************)
(* "new": no executor yet; "submitting": attached; "waiting": all tasks    *)
(* submitted, in futures.get(); "unwinding": an exception has left the     *)
(* submission loop and the destructor has activated the query; "gone":     *)
(* detached.                                                               *)
(***************************************************************************)
Stage == {"new", "submitting", "waiting", "unwinding", "gone"}

Slot == [priority : Priority,
         attached : BOOLEAN, activated : BOOLEAN, started : BOOLEAN,
         queued : BOOLEAN,
         activationSeq : Nat, baseSeq : Nat, bonusSeq : Nat,
         inFlight : Nat, baseBudget : Nat, bonusBudget : Nat,
         pending : Nat]

FreshSlot(priority) ==
    [priority |-> priority,
     attached |-> TRUE, activated |-> FALSE, started |-> FALSE,
     queued |-> FALSE,
     activationSeq |-> 0, baseSeq |-> 0, bonusSeq |-> 0,
     inFlight |-> 0, baseBudget |-> 0, bonusBudget |-> 0,
     pending |-> 0]

-----------------------------------------------------------------------------
(***************************************************************************)
(* Shares.  A query counts as visible from its first submission, and once  *)
(* activated for as long as it has tasks.                                  *)
(***************************************************************************)
IsVisible(slot) ==
    /\ slot.attached
    /\ IF slot.activated THEN slot.pending # 0 \/ slot.inFlight # 0
                         ELSE slot.started

QueryShareCount(s) ==
    Max({1, Cardinality({q \in DOMAIN s.slots : IsVisible(s.slots[q])})})

InFlightLimit(share) == Max({1, (WorkerCount + share - 1) \div share})

BaseCap(share) == IF share <= 1 THEN WorkerCount ELSE InFlightLimit(share)

BonusCap(slot, share) ==
    IF /\ share > 1
       /\ BaseCap(share) < WorkerCount
       /\ slot.priority = "LatencySensitive"
    THEN 1 ELSE 0

Budget(slot) == slot.baseBudget + slot.bonusBudget

\* AssignDispatchBudgetsLocked, and the assignment in the refill loop
Assigned(slot, share) ==
    [slot EXCEPT !.baseBudget = BaseCap(share),
                 !.bonusBudget = BonusCap(slot, share)]

\* What RebalanceDispatchBudgetsLocked does to one slot
Capped(slot, share) ==
    IF slot.activated
    THEN [slot EXCEPT !.baseBudget = Min({@, BaseCap(share)}),
                      !.bonusBudget = Min({@, BonusCap(slot, share)})]
    ELSE slot

CouldRun(slot, limit) ==
    /\ slot.activated
    /\ slot.pending # 0
    /\ slot.inFlight < limit

IsRunnableCandidate(slot, limit) ==
    CouldRun(slot, limit) /\ ~slot.queued /\ Budget(slot) # 0

-----------------------------------------------------------------------------
(***************************************************************************)
(* The two runnable queues.                                                *)
(***************************************************************************)

\* The order of a queue: least recently served, then activated, then id
RunnableQueryLess(slots, bonusPhase, p, q) ==
    LET servedSeq(x) == IF bonusPhase THEN slots[x].bonusSeq ELSE slots[x].baseSeq
    IN  \/ servedSeq(p) < servedSeq(q)
        \/ /\ servedSeq(p) = servedSeq(q)
           /\ \/ slots[p].activationSeq < slots[q].activationSeq
              \/ /\ slots[p].activationSeq = slots[q].activationSeq
                 /\ p < q

Sorted(slots, bonusPhase, ids) ==
    CHOOSE queue \in [1..Cardinality(ids) -> ids] :
        \A i, j \in DOMAIN queue :
            i < j => RunnableQueryLess(slots, bonusPhase, queue[i], queue[j])

Candidates(s, limit) ==
    {q \in DOMAIN s.slots : IsRunnableCandidate(s.slots[q], limit)}

\* CollectAndEnqueueRunnableCandidatesLocked; it answers FALSE when the set
\* of candidates is empty
Collected(s, limit) ==
    LET ids    == Candidates(s, limit)
        inBase == {q \in ids : s.slots[q].baseBudget # 0}
    IN  [s EXCEPT
          !.baseQueue  = @ \o Sorted(s.slots, FALSE, inBase),
          !.bonusQueue = @ \o Sorted(s.slots, TRUE, ids \ inBase),
          !.slots = [q \in DOMAIN @ |->
                        IF q \in ids THEN [@[q] EXCEPT !.queued = TRUE] ELSE @[q]]]

Rebuilt(s) ==
    Collected([s EXCEPT !.baseQueue = << >>, !.bonusQueue = << >>,
                        !.slots = [q \in DOMAIN @ |-> [@[q] EXCEPT !.queued = FALSE]]],
              InFlightLimit(QueryShareCount(s)))

\* Changed: the queues keep what they held under the old limit.
SyncedStaleQueues(s) ==
    LET share == QueryShareCount(s)
    IN  IF share = s.lastShare THEN s
        ELSE [s EXCEPT !.lastShare = share,
                       !.slots = [q \in DOMAIN @ |-> Capped(@[q], share)]]

\* SyncQueryShareCountLocked: a changed number of shares lowers the budgets
\* and rebuilds both queues
Synced(s) ==
    LET share == QueryShareCount(s)
    IN  IF share = s.lastShare THEN s
        ELSE Rebuilt([s EXCEPT !.lastShare = share,
                               !.slots = [q \in DOMAIN @ |-> Capped(@[q], share)]])

\* Changed: a query that becomes runnable goes to the back.
InsertLast(s, queue, bonusPhase, q) == Append(queue, q)

\* q enters the queue before the first entry that it precedes
OrderedInsert(s, queue, bonusPhase, q) ==
    LET later == {i \in 1..Len(queue) :
                    RunnableQueryLess(s.slots, bonusPhase, q, queue[i])}
    IN  InsertAt(queue, Min(later \cup {Len(queue) + 1}), q)

\* TryEnqueueRunnableLocked
Enqueued(s, q) ==
    IF ~IsRunnableCandidate(s.slots[q], InFlightLimit(QueryShareCount(s))) THEN s
    ELSE IF s.slots[q].baseBudget # 0
         THEN [s EXCEPT !.slots[q].queued = TRUE,
                        !.baseQueue = OrderedInsert(s, @, FALSE, q)]
         ELSE [s EXCEPT !.slots[q].queued = TRUE,
                        !.bonusQueue = OrderedInsert(s, @, TRUE, q)]

\* TryEraseSlotLocked
Erased(s, q) ==
    LET slot == s.slots[q]
    IN  IF slot.attached \/ slot.pending # 0 \/ slot.inFlight # 0 THEN s
        ELSE [s EXCEPT !.slots = Restrict(@, DOMAIN @ \ {q})]

HasRunnable(s) == s.baseQueue # << >> \/ s.bonusQueue # << >>

\* Changed: spent budgets are not refilled.
SyncedOnly(s) == Synced(s)

\* RefillDispatchBudgetsLocked up to its call of the collection
Refilled(s) ==
    LET synced == Synced(s)
        share  == QueryShareCount(synced)
        refill(slot) == IF CouldRun(slot, InFlightLimit(share)) /\ Budget(slot) = 0
                        THEN Assigned(slot, share) ELSE slot
    IN  [synced EXCEPT !.slots = [q \in DOMAIN @ |-> refill(@[q])]]

-----------------------------------------------------------------------------
(***************************************************************************)
(* The operations of a query's thread.                                     *)
(***************************************************************************)
Init ==
    /\ sched = [slots |-> << >>, baseQueue |-> << >>, bonusQueue |-> << >>,
                lastShare |-> 1, totalInFlight |-> 0,
                nextActivation |-> 1, nextDispatch |-> 1]
    /\ locked = FALSE
    /\ pool = [q \in Query |-> [running |-> 0, finishing |-> 0]]
    /\ caller = [q \in Query |-> "new"]
    /\ failed = {}

\* The executor's constructor
AttachQuery(q, priority) ==
    /\ ~locked
    /\ caller[q] = "new"
    /\ caller' = [caller EXCEPT ![q] = "submitting"]
    /\ sched' = [sched EXCEPT !.slots =
                   [p \in DOMAIN @ \cup {q} |-> IF p = q THEN FreshSlot(priority) ELSE @[p]]]
    /\ UNCHANGED <<locked, pool, failed>>

\* Submit: the share is taken before the task is added
Submit(q) ==
    /\ ~locked
    /\ caller[q] = "submitting"
    /\ sched.slots[q].pending < MaxTasks
    /\ LET synced == Synced([sched EXCEPT !.slots[q].started = TRUE])
       IN  sched' = Enqueued([synced EXCEPT !.slots[q].pending = @ + 1], q)
    /\ locked' = TRUE
    /\ UNCHANGED <<pool, caller, failed>>

\* ActivateQuery on a query in the stage of submission
Activated(q) ==
    LET numbered == [sched EXCEPT !.slots[q].activated = TRUE,
                                  !.slots[q].activationSeq = sched.nextActivation,
                                  !.nextActivation = @ + 1]
        synced   == Synced(numbered)
        slot     == synced.slots[q]
    IN  Enqueued(IF slot.pending # 0 /\ Budget(slot) = 0
                 THEN [synced EXCEPT !.slots[q] = Assigned(slot, QueryShareCount(synced))]
                 ELSE synced, q)

\* OnSubmissionComplete, called by the query or, when an exception has left
\* the submission loop, by the executor's destructor
ActivateQuery(q, stage) ==
    /\ ~locked
    /\ caller[q] = "submitting"
    /\ stage \in {"waiting", "unwinding"}
    /\ caller' = [caller EXCEPT ![q] = stage]
    /\ sched' = Activated(q)
    /\ locked' = TRUE
    /\ UNCHANGED <<pool, failed>>

\* Every future of q is ready
FuturesReady(q) == sched.slots[q].pending = 0 /\ pool[q].running = 0

\* The destructor is reached after the last future, or after one that threw
MayDetach(q) ==
    /\ ~locked
    /\ \/ caller[q] = "waiting" /\ (FuturesReady(q) \/ q \in failed)
       \/ caller[q] = "unwinding"

\* The executor's destructor
DetachQuery(q) ==
    /\ MayDetach(q)
    /\ caller' = [caller EXCEPT ![q] = "gone"]
    /\ sched' = Erased(Synced([sched EXCEPT !.slots[q].attached = FALSE]), q)
    /\ locked' = TRUE
    /\ UNCHANGED <<pool, failed>>

-----------------------------------------------------------------------------
(***************************************************************************)
(* The worker threads.                                                     *)
(***************************************************************************)

\* A task ends, by returning or by throwing into its packaged_task: its
\* future is ready from here on
EndTask(q, throws) ==
    /\ pool[q].running > 0
    /\ pool' = [pool EXCEPT ![q].running = @ - 1, ![q].finishing = @ + 1]
    /\ failed' = IF throws THEN failed \cup {q} ELSE failed
    /\ UNCHANGED <<sched, locked, caller>>

\* Changed: the worker is not given back.
FinishedUncounted(q) ==
    IF q \in DOMAIN sched.slots
    THEN Erased(Enqueued(Synced([sched EXCEPT !.slots[q].inFlight =
                                    IF @ > 0 THEN @ - 1 ELSE 0]), q), q)
    ELSE sched

\* Changed: only the slot of a living query is updated.
FinishedWhileAttached(q) ==
    LET freed == [sched EXCEPT !.totalInFlight = IF @ > 0 THEN @ - 1 ELSE 0]
    IN  IF q \in DOMAIN freed.slots /\ freed.slots[q].attached
        THEN Erased(Enqueued(Synced([freed EXCEPT !.slots[q].inFlight =
                                        IF @ > 0 THEN @ - 1 ELSE 0]), q), q)
        ELSE freed

\* What OnTaskFinished does to the scheduler before the dispatch loop
TaskFinished(q) ==
    LET freed == [sched EXCEPT !.totalInFlight = IF @ > 0 THEN @ - 1 ELSE 0]
    IN  IF q \in DOMAIN freed.slots
        THEN Erased(Enqueued(Synced([freed EXCEPT !.slots[q].inFlight =
                                        IF @ > 0 THEN @ - 1 ELSE 0]), q), q)
        ELSE freed

\* The TaskCompletionGuard of a task that has ended
OnTaskFinished(q) ==
    /\ ~locked
    /\ pool[q].finishing > 0
    /\ pool' = [pool EXCEPT ![q].finishing = @ - 1]
    /\ sched' = TaskFinished(q)
    /\ locked' = TRUE
    /\ UNCHANGED <<caller, failed>>

-----------------------------------------------------------------------------
(***************************************************************************)
(* DispatchReadyTasksLocked, one turn of its loop at a time.               *)
(***************************************************************************)

\* Every worker has a task: the loop ends
StopDispatch ==
    /\ locked
    /\ sched.totalInFlight >= WorkerCount
    /\ locked' = FALSE
    /\ UNCHANGED <<sched, pool, caller, failed>>

\* Both queues are empty: refill the budgets and collect; leave the loop if
\* that finds nobody
RefillDispatchBudgets ==
    /\ locked
    /\ sched.totalInFlight < WorkerCount
    /\ ~HasRunnable(sched)
    /\ LET refilled == Refilled(sched)
           limit    == InFlightLimit(QueryShareCount(refilled))
       IN  /\ sched' = Collected(refilled, limit)
           /\ locked' = (Candidates(refilled, limit) # {} /\ HasRunnable(sched'))
    /\ UNCHANGED <<pool, caller, failed>>

\* PopRunnableQueryLocked: the bonus queue only when the base queue is empty
BaseFirst(s) == s.baseQueue # << >>

NextRunnable(s) == Head(IF BaseFirst(s) THEN s.baseQueue ELSE s.bonusQueue)

Popped(s) ==
    LET rest == IF BaseFirst(s) THEN [s EXCEPT !.baseQueue = Tail(@)]
                            ELSE [s EXCEPT !.bonusQueue = Tail(@)]
        q    == NextRunnable(s)
    IN  IF q \in DOMAIN s.slots THEN [rest EXCEPT !.slots[q].queued = FALSE] ELSE rest

CanDispatch(s, q) ==
    /\ q \in DOMAIN s.slots
    /\ s.slots[q].pending # 0
    /\ s.slots[q].inFlight < InFlightLimit(QueryShareCount(s))
    /\ Budget(s.slots[q]) # 0

\* One task of q charged to its base budget, or to its bonus when that is used up
Charged(s, q) ==
    LET slot == s.slots[q]
        paid == IF slot.baseBudget # 0
                THEN [slot EXCEPT !.baseBudget = @ - 1, !.baseSeq = s.nextDispatch]
                ELSE [slot EXCEPT !.bonusBudget = @ - 1, !.bonusSeq = s.nextDispatch]
    IN  [s EXCEPT !.slots[q] = [paid EXCEPT !.pending = @ - 1, !.inFlight = @ + 1],
                  !.totalInFlight = @ + 1,
                  !.nextDispatch = @ + 1]

\* Changed: one task more than there are workers.
DispatchOneMore ==
    /\ locked
    /\ sched.totalInFlight <= WorkerCount
    /\ HasRunnable(sched)
    /\ LET q == NextRunnable(sched)
           s == Popped(sched)
       IN  /\ CanDispatch(s, q)
           /\ sched' = Enqueued(Charged(s, q), q)
           /\ pool' = [pool EXCEPT ![q].running = @ + 1]
    /\ UNCHANGED <<locked, caller, failed>>

\* The head of the queue gives the pool one task and queues again; a head that
\* cannot run any more is dropped, or queued again, without one
DispatchHead ==
    /\ locked
    /\ sched.totalInFlight < WorkerCount
    /\ HasRunnable(sched)
    /\ LET q == NextRunnable(sched)
           s == Popped(sched)
       IN  IF CanDispatch(s, q)
           THEN /\ sched' = Enqueued(Charged(s, q), q)
                /\ pool' = [pool EXCEPT ![q].running = @ + 1]
           ELSE /\ sched' = IF q \in DOMAIN s.slots THEN Erased(Enqueued(s, q), q) ELSE s
                /\ UNCHANGED pool
    /\ UNCHANGED <<locked, caller, failed>>

DispatchReadyTasks == StopDispatch \/ RefillDispatchBudgets \/ DispatchHead

-----------------------------------------------------------------------------
Next ==
    \/ \E q \in Query :
         \/ \E p \in Priority : AttachQuery(q, p)
         \/ Submit(q)
         \/ \E stage \in {"waiting", "unwinding"} : ActivateQuery(q, stage)
         \/ DetachQuery(q)
         \/ \E throws \in BOOLEAN : EndTask(q, throws)
         \/ OnTaskFinished(q)
    \/ DispatchReadyTasks

Spec == Init /\ [][Next]_vars

(***************************************************************************)
(* The threads of the pool and of the queries keep running, and a thread   *)
(* that wants the mutex gets it.  Nothing is assumed of a query that is    *)
(* still submitting.  This is weak fairness of the four kinds of steps,    *)
(* with the condition under which each is enabled spelled out in place of  *)
(* ENABLED: every one of them changes a variable whenever its guard holds. *)
(***************************************************************************)
Fairness ==
    /\ []<>~locked \/ []<><<DispatchReadyTasks>>_vars
    /\ \A q \in Query :
         /\ []<>~MayDetach(q) \/ []<><<DetachQuery(q)>>_vars
         /\ \/ []<>(pool[q].running = 0)
            \/ []<><<\E throws \in BOOLEAN : EndTask(q, throws)>>_vars
         /\ \/ []<>(locked \/ pool[q].finishing = 0)
            \/ []<><<OnTaskFinished(q)>>_vars

-----------------------------------------------------------------------------
(***************************************************************************)
(* Properties.                                                             *)
(***************************************************************************)
Slots == sched.slots
Limit == InFlightLimit(QueryShareCount(sched))
Times(queue, q) == Cardinality({i \in DOMAIN queue : queue[i] = q})

\* The members and the threads stay within their types, the in-flight total
\* within the number of workers.
TypeOK ==
    /\ DOMAIN Slots \subseteq Query
    /\ Slots \in [DOMAIN Slots -> Slot]
    /\ sched.baseQueue \in Seq(Query) /\ sched.bonusQueue \in Seq(Query)
    /\ sched.lastShare \in 1..Max({1, NumQueries})
    /\ sched.totalInFlight \in 0..WorkerCount
    /\ sched.nextActivation \in Nat /\ sched.nextDispatch \in Nat
    /\ locked \in BOOLEAN
    /\ pool \in [Query -> [running : Nat, finishing : Nat]]
    /\ caller \in [Query -> Stage]
    /\ failed \subseteq Query

\* The tasks the pool holds, numbered within their query.
InPool == UNION {{q} \X (1..(pool[q].running + pool[q].finishing)) : q \in Query}

\* in_flight of every slot and total_in_flight_ count exactly the tasks the
\* pool holds, the ones between their future and their guard included, also
\* when the query has left before them.
InFlightCounted ==
    /\ \A q \in Query : pool[q].running + pool[q].finishing
                          = IF q \in DOMAIN Slots THEN Slots[q].inFlight ELSE 0
    /\ sched.totalInFlight = Cardinality(InPool)

\* The queues are exact whatever moved the limit or freed a worker. A slot is
\* marked queued when it is in the queues, once, in the one its budgets call
\* for, and then it can be dispatched (the branch of the loop for a head that
\* has gone stale is never taken); one that may run and has budget is queued.
QueuesExact ==
    \A q \in Query :
      LET slot == Slots[q]
      IN  IF q \in DOMAIN Slots /\ slot.queued
          THEN /\ CouldRun(slot, Limit)
               /\ IF slot.baseBudget # 0
                  THEN Times(sched.baseQueue, q) = 1 /\ Times(sched.bonusQueue, q) = 0
                  ELSE /\ slot.bonusBudget # 0
                       /\ Times(sched.baseQueue, q) = 0 /\ Times(sched.bonusQueue, q) = 1
          ELSE /\ Times(sched.baseQueue, q) = 0 /\ Times(sched.bonusQueue, q) = 0
               /\ q \in DOMAIN Slots => ~IsRunnableCandidate(slot, Limit)

\* When the mutex is released with an idle worker, no activated query below
\* its share has a task waiting.
WorkConserving ==
    ~locked /\ sched.totalInFlight < WorkerCount
      => \A q \in DOMAIN Slots : ~CouldRun(Slots[q], Limit)

\* The scheduler's bookkeeping (QuerySlot, total_in_flight_, the two queues)
\* agrees with the pool and with what may run, so that no worker idles.
SlotsExact == TypeOK /\ InFlightCounted /\ QueuesExact /\ WorkConserving

DispatchOf(q) == /\ q \in DOMAIN Slots
                 /\ pool'[q].running = pool[q].running + 1

\* A bonus is spent only when no query that may run has base budget left, and
\* within a phase the worker goes to the query that has waited longest since it
\* was last served, among all that may run, not just the ones that were queued
\* when the round began.
ServedInOrder ==
    [][\A q \in Query : DispatchOf(q)
         => LET bonusPhase == Slots[q].baseBudget = 0
            IN  \A p \in {r \in DOMAIN Slots \ {q} : CouldRun(Slots[r], Limit)} :
                  /\ bonusPhase => Slots[p].baseBudget = 0
                  /\ Budget(Slots[p]) # 0 /\ (Slots[p].baseBudget = 0) = bonusPhase
                       => RunnableQueryLess(Slots, bonusPhase, q, p)]_vars

\* Every task of an activated query is run, even when the query has left
\* early, and then its slot goes.
EveryTaskRuns ==
    \A q \in Query : caller[q] \in {"waiting", "unwinding"} ~> q \notin DOMAIN Slots
=============================================================================
