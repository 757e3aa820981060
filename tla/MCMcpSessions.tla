--------------------------- MODULE MCMcpSessions ---------------------------
(* Model-checking instances of McpSessions. *)
EXTENDS McpSessions
CONSTANTS t1, t2, p1, p2, p3

TwoThreads == {t1, t2}
ThreePaths == {p1, p2, p3}

\* Loads in part, strictly; loads leniently; does not load.
ThreeShapes == {[total |-> 2, strict |-> 1, lenient |-> 1],
                [total |-> 1, strict |-> 0, lenient |-> 1],
                [total |-> 1, strict |-> 0, lenient |-> 0]}

\* Paths, and threads, are interchangeable: they are named in the order in which
\* they are first asked for, or first used; the calls of a client that waits are
\* given to one thread.  A file that changes before it is first asked for is another
\* initial file.  A client that pipelines makes up to three calls if a file changes.
InOrder ==
    /\ \A p \in Paths \ {p1} : last_use[p] # 0 => last_use[p1] # 0
    /\ last_use[p3] # 0 => last_use[p2] # 0
    /\ \A p \in changed : last_use[p] # 0
    /\ client = "pipelines" /\ writes > 0 => calls <= MaxCalls - 1
    /\ pc[t2] # "done" => calls > 1 /\ client = "pipelines"

MCSpec == Init /\ [][Next /\ InOrder']_vars
=============================================================================
