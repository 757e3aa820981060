--------------------------- MODULE WarmUpOutcome ---------------------------
(* What one DexKit::InitDexCache(request) may do, seen from outside: the     *)
(* parts "ready" in every dex, the parts "failed" in some dex. CacheWarmUp   *)
(* is the specification made of these, DexCacheInit implements it, and       *)
(* QueryGate relies on it.                                                   *)

CONSTANTS Flags,        \* parts of the cache, kUsingString, kCallerMethod, ...
          Broken        \* parts whose construction can throw

ASSUME BrokenAssumption == Broken \subseteq Flags

\* Parts that are neither ready nor known to fail are worked on: "built" become
\* ready and "bad" are latched as failed. Only a part that throws latches
\* anything, but it takes parts that were claimed with it along.
Outcome(request, ready, failed, built, bad) ==
    LET claim == request \ (ready \cup failed)
    IN  /\ built \subseteq claim
        /\ bad \subseteq claim \ built
        /\ bad # {} => request \cap Broken # {}

\* The request is answered: all of it is there, or some of it never will be.
Settled(request, ready, failed) == request \subseteq ready \/ request \cap failed # {}
=============================================================================
