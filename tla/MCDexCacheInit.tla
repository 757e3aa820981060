--------------------------- MODULE MCDexCacheInit ---------------------------
(* Small instances of DexCacheInit. *)
EXTENDS DexCacheInit
CONSTANTS d1, d2, str, inv, call, rw, third

MCDexes == {d1, d2}
MCCacheFlags == {str, inv}
\* The code has two cross-reference parts; a third lets one break in its dex, one
\* in the aggregates and one be built.
MCCrossFlags == {call, rw, third}
\* The requests of queries, and InitFullCache.
MCRequests == {{inv}, {str}, {inv, call}, {inv, rw}, {third}, {rw, third}, MCCacheFlags \cup MCCrossFlags}
\* One dex breaks on a cache, the other on its cross references; one aggregate
\* throws.
MCBadInit == {<<d1, str>>}
MCBadCross == {<<d2, call>>}
MCBadAggregate == {third}
=============================================================================
