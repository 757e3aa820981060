---------------------------- MODULE SessionOpen ----------------------------
(* How the servers open a container (src/dexllm/_open.py): strictly first,   *)
(* leniently when the strict verifier refuses all or part of it.             *)
EXTENDS Integers

\* A container as the loader sees it: its dexes, and how many of them each mode
\* loads; a mode that loads none raises RuntimeError.
Container == {c \in [total : 1..2, strict : 0..2, lenient : 0..2] :
                 c.strict <= c.total /\ c.lenient <= c.total}

\* The strict attempt ends the matter when nothing is refused.
StrictSuffices(c) == c.strict = c.total

\* The lenient attempt is taken only when it loads more than the strict one;
\* "strict" is what the strict attempt loaded, 0 if it raised.
TakeLenient(strict, c) == c.lenient > strict
=============================================================================
