------------------------- MODULE MCDecompileCache -------------------------
(* Small instances of DecompileCache. *)
EXTENDS DecompileCache, TLC

CONSTANTS t1, t2, ka, kb, kc, kd, n1, n2, n3, n4

MCThreads == {t1, t2}
MCNodes == {n1, n2, n3, n4}
MCClasses == {<<ka, kb>>}
MCSymmetry == Permutations(MCThreads) \cup Permutations(MCNodes)
===========================================================================
