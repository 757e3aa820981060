-------------------------- MODULE MCQueryScheduler --------------------------
(***************************************************************************)
(* Instances of QueryScheduler for TLC.                                    *)
(***************************************************************************)
EXTENDS QueryScheduler

CONSTANTS Failing,   \* the queries that may meet an exception
          Hurried    \* the queries that may be latency-sensitive

(***************************************************************************)
(* Query ids only break ties between equal activation numbers, and those   *)
(* differ, so queries are interchangeable: the runs number them in the     *)
(* order in which they are activated.                                      *)
(***************************************************************************)
ActivateInOrder ==
    \A p, q \in Query : p < q /\ caller[q] \notin {"new", "submitting"}
                          => caller[p] \notin {"new", "submitting"}

\* Exceptions, in a task or while submitting, are confined to Failing
FailuresConfined ==
    /\ failed \subseteq Failing
    /\ \A q \in Query \ Failing : caller[q] # "unwinding"

PrioritiesConfined ==
    \A q \in DOMAIN Slots \ Hurried : Slots[q].priority = "Normal"

Confined == ActivateInOrder /\ FailuresConfined /\ PrioritiesConfined

\* The system stops when every query has left.
MCSpec == Init /\ [][Next /\ Confined']_vars /\ Fairness
=============================================================================
