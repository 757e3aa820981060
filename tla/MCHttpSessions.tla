--------------------------- MODULE MCHttpSessions --------------------------
(* Model-checking instance of HttpSessions. *)
EXTENDS HttpSessions
CONSTANTS u1, u2, u3, d1, d2, a1

MCUploads == {u1, u2, u3}
MCDeletes == {d1, d2}
MCAnalyses == {a1}

\* A container that loads and one that does not.
TwoShapes == {[total |-> 1, strict |-> 1, lenient |-> 1],
              [total |-> 1, strict |-> 0, lenient |-> 0]}

\* Uploads are interchangeable, and so are deletions: they are named in the
\* order in which they arrive.
ArriveInOrder ==
    /\ pc[u2] # "new" => pc[u1] # "new"
    /\ pc[u3] # "new" => pc[u2] # "new"
    /\ pc[d2] # "new" => pc[d1] # "new"

MCSpec == Init /\ [][Next /\ ArriveInOrder']_vars /\ Fairness
=============================================================================
