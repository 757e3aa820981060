---------------------------- MODULE ProgramFlow ----------------------------
(***************************************************************************)
(* Reference semantics, independent of the decompiler: what a control-flow *)
(* graph does and what an emitted program does, as machines that stop at   *)
(* every instruction and at every test.  Two machines agree when no        *)
(* sequence of test outcomes tells them apart.                             *)
(*                                                                         *)
(* A stop is <<"ins", i, next>>, <<"test", i, onTrue, onFalse>>,           *)
(* <<"switch", i, byLabel>>, <<"end">> or <<"spin">> (a loop that does     *)
(* nothing).  Exceptions are not followed; a program stops at a try, with  *)
(* its catch clauses and the states its body and theirs begin in.          *)
(***************************************************************************)
EXTENDS DadEmitters

Fuel == 12

-----------------------------------------------------------------------------
(* Graphs: <<"at", n, k>> is before the k-th instruction of node n. *)

RECURSIVE GraphStop(_, _, _)
GraphStop(g, s, fuel) ==
    LET n == s[2]
        k == s[3]
        r == g.nd[n]
        to(m) == <<"at", m, 1>>
        last == k = Len(r.ins)
        byLabel == [l \in UNION ToSet(r.keys) \cup {"default"} |->
                      IF l = "default" THEN to(r.default)
                      ELSE to(r.cases[CHOOSE i \in 1..Len(r.cases) : l \in r.keys[i]])]
    IN  CASE fuel = 0 -> <<"spin">>
          [] last /\ r.type = "cond" -> <<"test", r.ins[k], to(r.true), to(r.false)>>
          [] last /\ r.type = "switch" -> <<"switch", r.ins[k], byLabel>>
          [] k <= Len(r.ins) -> <<"ins", r.ins[k], <<"at", n, k + 1>>>>
          [] r.type \in {"ret", "throw"} \/ sucs(g, n) = <<>> -> <<"end">>
          [] OTHER -> GraphStop(g, to(sucs(g, n)[1]), fuel - 1)

-----------------------------------------------------------------------------
(* Programs: a state is a stack of frames <<kind, rest, statement>>, the    *)
(* innermost last, or a test with its two continuations.                   *)

Enter(frames, kind, body, stmt) == <<"run", Append(frames, <<kind, body, stmt>>)>>

RECURSIVE Test(_, _, _)
Test(e, yes, no) ==
    CASE e[1] = "leaf" -> IF e[3] THEN <<"test", e[2], no, yes>> ELSE <<"test", e[2], yes, no>>
      [] e[1] = "and" -> Test(e[2], Test(e[3], yes, no), no)
      [] e[1] = "or" -> Test(e[2], yes, Test(e[3], yes, no))
      [] OTHER -> <<"none">>

RECURSIVE Unwind(_)
\* A break leaves the innermost loop or switch.
Unwind(frames) ==
    IF frames = <<>> THEN <<>>
    ELSE IF Last(frames)[1] \in {"while", "loop", "do", "switch"} THEN Front(frames)
    ELSE Unwind(Front(frames))

\* The bodies from arm i on: a case falls into the next one.
ArmsFrom(arms, i) == FlattenSeq([j \in 1..(Len(arms) - i + 1) |-> arms[i + j - 1][2]])

RECURSIVE ProgramStop(_, _)
ProgramStop(s, fuel) ==
    LET frames == s[2]
        top == Last(frames)
        under == Front(frames)
        stmt == top[2][1]
        after == Append(under, <<top[1], Tail(top[2]), top[3]>>)
        again(st) == CASE st[1] = "while" -> Test(st[2], Enter(under, "while", st[3], st), <<"run", under>>)
                       [] st[1] = "loop" -> Enter(under, "loop", st[2], st)
                       [] OTHER -> Test(st[3], Enter(under, "do", st[2], st), <<"run", under>>)
        arm(l) == {i \in 1..Len(stmt[3]) : l \in stmt[3][i][1]}
        pick(l) == IF arm(l) # {} THEN Enter(after, "switch", ArmsFrom(stmt[3], CHOOSE i \in arm(l) : TRUE), <<>>)
                   ELSE IF arm("default") # {}
                   THEN Enter(after, "switch", ArmsFrom(stmt[3], CHOOSE i \in arm("default") : TRUE), <<>>)
                   ELSE <<"run", after>>
    IN  CASE fuel = 0 -> <<"spin">>
          [] s[1] \in {"test", "none"} -> s
          [] frames = <<>> -> <<"end">>
          [] top[2] = <<>> ->
               IF top[1] \in {"seq", "switch"} THEN ProgramStop(<<"run", under>>, fuel - 1)
               ELSE ProgramStop(again(top[3]), fuel - 1)
          [] stmt[1] = "ins" -> <<"ins", stmt[2], <<"run", after>>>>
          [] stmt[1] = "exit" -> <<"end">>
          [] stmt[1] = "break" -> ProgramStop(<<"run", Unwind(frames)>>, fuel - 1)
          [] stmt[1] = "if" -> ProgramStop(Test(stmt[2], Enter(after, "seq", stmt[3], <<>>),
                                                Enter(after, "seq", stmt[4], <<>>)), fuel - 1)
          [] stmt[1] = "while" -> ProgramStop(Test(stmt[2], Enter(after, "while", stmt[3], stmt),
                                                   <<"run", after>>), fuel - 1)
          [] stmt[1] = "loop" -> ProgramStop(Enter(after, "loop", stmt[2], stmt), fuel - 1)
          [] stmt[1] = "do" -> ProgramStop(Enter(after, "do", stmt[2], stmt), fuel - 1)
          [] stmt[1] \in {"note", "expr"} ->
               ProgramStop(Test(stmt[2], <<"run", after>>, <<"run", after>>), fuel - 1)
          [] stmt[1] = "try" ->
               <<"try", [i \in 1..Len(stmt[3]) |-> <<stmt[3][i][1], stmt[3][i][2]>>],
                 <<Enter(after, "seq", stmt[2], <<>>)>>
                   \o [i \in 1..Len(stmt[3]) |-> Enter(after, "seq", stmt[3][i][3], <<>>)]>>
          [] stmt[1] = "switch" -> <<"pick", stmt[2], [l \in {"k1", "k2", "k3", "default"} |-> pick(l)]>>
          [] OTHER -> <<"stuck">>

ProgramStart(p) == <<"run", <<<<"seq", p, <<>>>>>>>>

-----------------------------------------------------------------------------
(* Agreement. *)

StopOf(g, s) == IF s[1] = "at" THEN GraphStop(g, s, Fuel) ELSE ProgramStop(s, Fuel)

RECURSIVE Agree(_, _, _)
\* Explore pairs of states; `seen` are the pairs already compared.  The answer
\* is the set of pairs seen, or {} when two stops differ.
Agree(g, todo, seen) ==
    IF todo = {} THEN seen
    ELSE LET p == CHOOSE x \in todo : TRUE
             a == StopOf(g, p[1])
             b == StopOf(g, p[2])
             ends(x) == x[1] \in {"end", "spin"}
             rest(new) == Agree(g, (todo \ {p}) \cup (new \ seen), seen \cup {p})
         IN  CASE ends(a) /\ a = b -> rest({})
               [] a[1] = "ins" /\ b[1] = "ins" /\ a[2] = b[2] -> rest({<<a[3], b[3]>>})
               [] a[1] = "test" /\ b[1] = "test" /\ a[2] = b[2] ->
                    rest({<<a[3], b[3]>>, <<a[4], b[4]>>})
               [] a[1] = "pick" /\ b[1] = "pick" /\ a[2] = b[2] ->
                    rest({<<a[3][l], b[3][l]>> : l \in DOMAIN a[3]})
               [] a[1] = "switch" /\ b[1] = "pick" /\ a[2] = b[2] ->
                    rest({<<a[3][l], b[3][l]>> : l \in DOMAIN a[3]})
               [] a[1] = "switch" /\ b[1] = "switch" /\ a[2] = b[2] ->
                    rest({<<a[3][l], b[3][l]>> : l \in DOMAIN a[3]})
               [] a[1] = "try" /\ b[1] = "try" /\ a[2] = b[2] ->
                    rest({<<a[3][i], b[3][i]>> : i \in DOMAIN a[3]})
               [] OTHER -> {}

\* The program does what the graph does; two programs do the same.
Implements(g, p) == Agree(g, {<<<<"at", g.entry, 1>>, ProgramStart(p)>>}, {}) # {}
SameProgram(g, p, q) == Agree(g, {<<ProgramStart(p), ProgramStart(q)>>}, {}) # {}

RECURSIVE AgreeGraphs(_, _, _, _)
AgreeGraphs(g, h, todo, seen) ==
    IF todo = {} THEN TRUE
    ELSE LET p == CHOOSE x \in todo : TRUE
             a == GraphStop(g, p[1], Fuel)
             b == GraphStop(h, p[2], Fuel)
             rest(new) == AgreeGraphs(g, h, (todo \ {p}) \cup (new \ (seen \cup {p})), seen \cup {p})
         IN  /\ a[1] = b[1]
             /\ a[1] \in {"ins", "test", "switch"} => a[2] = b[2]
             /\ CASE a[1] = "ins" -> rest({<<a[3], b[3]>>})
                  [] a[1] = "test" -> rest({<<a[3], b[3]>>, <<a[4], b[4]>>})
                  [] a[1] = "switch" -> rest({<<a[3][l], b[3][l]>> : l \in DOMAIN a[3]})
                  [] OTHER -> rest({})

SameFlow(g, h) == AgreeGraphs(g, h, {<<<<"at", g.entry, 1>>, <<"at", h.entry, 1>>>>}, {})

\* The instructions a graph can reach, through handlers too, and those a
\* program writes.
RECURSIVE ReachedFrom(_, _)
ReachedFrom(g, S) ==
    LET T == S \cup UNION {ToSet(all_sucs(g, n)) : n \in S}
    IN  IF T = S THEN S ELSE ReachedFrom(g, T)

RECURSIVE ReachedAvoiding(_, _, _)
ReachedAvoiding(g, S, d) ==
    LET T == S \cup (UNION {ToSet(all_sucs(g, n)) : n \in S} \ {d})
    IN  IF T = S THEN S ELSE ReachedAvoiding(g, T, d)

Reachable(g) == ReachedFrom(g, {g.entry})

RECURSIVE LeavesOf(_)
LeavesOf(e) == CASE e[1] = "leaf" -> {e[2]}
                 [] e[1] = "none" -> {}
                 [] OTHER -> LeavesOf(e[2]) \cup LeavesOf(e[3])

RECURSIVE WrittenIn(_)
WrittenIn(p) ==
    UNION {LET s == p[k]
           IN  CASE s[1] = "ins" -> {s[2]}
                 [] s[1] \in {"note", "expr"} -> LeavesOf(s[2])
                 [] s[1] = "if" -> LeavesOf(s[2]) \cup WrittenIn(s[3]) \cup WrittenIn(s[4])
                 [] s[1] = "while" -> LeavesOf(s[2]) \cup WrittenIn(s[3])
                 [] s[1] = "loop" -> WrittenIn(s[2])
                 [] s[1] = "do" -> WrittenIn(s[2]) \cup LeavesOf(s[3])
                 [] s[1] = "switch" -> {s[2]} \cup UNION {WrittenIn(s[3][i][2]) : i \in 1..Len(s[3])}
                 [] s[1] = "try" -> WrittenIn(s[2]) \cup UNION {WrittenIn(s[3][i][3]) : i \in 1..Len(s[3])}
                 [] OTHER -> {} : k \in 1..Len(p)}
=============================================================================
