---------------------------- MODULE CacheWarmUp ----------------------------
(* The promise of InitDexCache to its one caller: requests come one at a     *)
(* time; parts become ready, or failed for good, never both; a request ends  *)
(* well exactly when all of it is ready; and it ends badly only over a       *)
(* failed part or for want of a resource.                                    *)
EXTENDS WarmUpOutcome

CONSTANT Requests

VARIABLES ready, failed, request, result

Init ==
    /\ ready = {} /\ failed = {}
    /\ request = {} /\ result = "idle"

Begin ==
    /\ result = "idle"
    /\ request' \in Requests
    /\ result' = "running"
    /\ UNCHANGED <<ready, failed>>

Progress ==
    /\ result = "running"
    /\ \E built, bad \in SUBSET request :
          /\ Outcome(request, ready, failed, built, bad)
          /\ ready' = ready \cup built
          /\ failed' = failed \cup bad
    /\ UNCHANGED <<request, result>>

Return ==
    /\ result = "running"
    /\ Settled(request, ready, failed)
    /\ result' = IF request \subseteq ready THEN "done" ELSE "thrown"
    /\ UNCHANGED <<ready, failed, request>>

Shortage ==
    /\ result = "running"
    /\ ~(request \subseteq ready)
    /\ result' = "thrown"
    /\ UNCHANGED <<ready, failed, request>>

Collect ==
    /\ result \in {"done", "thrown"}
    /\ request' = {} /\ result' = "idle"
    /\ UNCHANGED <<ready, failed>>

vars == <<ready, failed, request, result>>
Next == Begin \/ Progress \/ Return \/ Shortage \/ Collect
Spec == Init /\ [][Next]_vars
=============================================================================
