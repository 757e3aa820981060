---------------------------- MODULE MCStructuring ----------------------------
(***************************************************************************)
(* Methods for the structuring passes: all the control flow a few blocks    *)
(* can have, in four families.  The entry is never the target of a branch   *)
(* except in the family of small loops.                                     *)
(***************************************************************************)
EXTENDS Structuring

Block(kind, n, childs) ==
    [kind |-> kind, n |-> n, mex |-> FALSE, childs |-> childs, handlers |-> <<>>]
Stmt(n, t) == Block("stmt", n, <<<<t, "fall", "">>>>)
Cond(n, t, f) == Block("cond", n, <<<<t, "true", "">>, <<f, "false", "">>>>)
Switch(a, b, d) == Block("switch", 1, <<<<a, "case", "k1">>, <<b, "case", "k2">>, <<d, "default", "">>>>)
Ret == Block("ret", 1, <<>>)
Throw == Block("throw", 1, <<>>)

RECURSIVE BlocksFrom(_, _)
BlocksFrom(s, S) ==
    LET to(b) == {s[b].childs[i][1] : i \in 1..Len(s[b].childs)}
                 \cup {s[b].handlers[i][1] : i \in 1..Len(s[b].handlers)}
        T == S \cup UNION {to(b) : b \in S}
    IN  IF T = S THEN S ELSE BlocksFrom(s, T)
AllReached(S) == {s \in S : BlocksFrom(s, {1}) = DOMAIN s}

\* Three blocks of any kind, with any edges between the last two.
Small ==
    LET T == 2..3
        any == {Stmt(n, t) : n \in 0..1, t \in T}
               \cup {Cond(n, t, f) : n \in 1..2, t \in T, f \in T}
               \cup {Switch(a, b, d) : a \in T, b \in T, d \in T} \cup {Ret}
    IN  AllReached({<<a, b, c>> : a \in any, b \in any, c \in any})

\* Five blocks, forward edges only.
Forward ==
    LET later(b) == (b + 1)..5
        at(b) == {Ret} \cup {Stmt(1, t) : t \in later(b)}
                 \cup {Cond(1, p[1], p[2]) : p \in {q \in later(b) \X later(b) : q[1] # q[2]}}
    IN  AllReached({<<a, b, c, d, Ret>> : a \in at(1), b \in at(2), c \in at(3), d \in at(4)})

\* An entry, three statements or conditions with any edges, a return.
Looping ==
    LET T == 2..5
        any == {Stmt(1, t) : t \in T} \cup {Cond(1, p[1], p[2]) : p \in {q \in T \X T : q[1] # q[2]}}
    IN  AllReached({<<Stmt(1, 2), b, c, d, Ret>> : b \in any, c \in any, d \in any})

\* Blocks under handlers: block 4 catches, and block 5 may.
Caught(b, hs) == [b EXCEPT !.handlers = hs]
Catcher(b) == [b EXCEPT !.mex = TRUE]
Guarded ==
    LET one == <<<<4, "E">>>>
        two == <<<<4, "E">>, <<5, "">>>>
        bodies == {Stmt(1, 3), Stmt(1, 6), Cond(2, 3, 6), Cond(2, 6, 3), Cond(2, 3, 2)}
        handlers == {Catcher(Stmt(0, 6)), Catcher(Stmt(1, 3)), Catcher(Throw), Catcher(Cond(2, 3, 6))}
    IN  AllReached({<<Stmt(1, 2), Caught(b, p), Caught(c, q), d, e, Ret>> :
                      b \in bodies, p \in {<<>>, one, two}, c \in {Stmt(1, 6), Cond(2, 2, 6)},
                      q \in {<<>>, one, two}, d \in handlers, e \in {Catcher(Stmt(1, 6)), Catcher(Throw)}})

\* Two conditions that may merge, and a handler whose test leads into them.
Rejoined ==
    LET T == 5..6
    IN  AllReached({<<Caught(Stmt(1, 2), <<<<4, "E">>>>), Cond(1, p[1], p[2]), Cond(1, q[1], q[2]),
                      Catcher(Cond(2, r[1], r[2])), Stmt(1, 6), Ret>> :
                      p \in {u \in {3, 5, 6} \X {3, 5, 6} : u[1] # u[2]},
                      q \in {u \in {2, 5, 6} \X {2, 5, 6} : u[1] # u[2]},
                      r \in {u \in (2..3 \cup T) \X (2..3 \cup T) : u[1] # u[2]}})

MCSnapshots == Small \cup Forward \cup Looping \cup Guarded \cup Rejoined
=============================================================================
