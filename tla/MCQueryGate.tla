---------------------------- MODULE MCQueryGate ----------------------------
(* Small instances of QueryGate. *)
EXTENDS QueryGate, TLC
CONSTANTS q1, q2, q3, str, call

MCCallers == {q1, q2, q3}
MCFlags == {str, call}
MCNeeds == {{str}, {call}}

\* Callers are interchangeable, so they are named in the order in which they
\* first ask; every query of MCNeeds asks for something.
AskInOrder ==
    /\ required[q2] # {} => required[q1] # {}
    /\ required[q3] # {} => required[q2] # {}

MCSpec == Init /\ [][Next /\ AskInOrder']_vars /\ Fairness
=============================================================================
