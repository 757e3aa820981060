---------------------------- MODULE DadEmitters ----------------------------
(***************************************************************************)
(* The two walks that turn the structured graph into a program: the Java   *)
(* text of native/dad_cpp/writer.cpp (ast = FALSE) and the AST of          *)
(* native/dad_cpp/dast.cpp (ast = TRUE).  Both give a sequence of          *)
(* statements; layout, types and expressions are left out.                 *)
(*                                                                         *)
(*   <<"ins", i>>              the statement of instruction i              *)
(*   <<"if", c, then, else>>   <<"while", c, body>>   <<"do", body, c>>    *)
(*   <<"loop", body>>          while(true)                                 *)
(*   <<"switch", i, arms>>     arms: <<labels, body>> in order             *)
(*   <<"try", body, catches>>  catches: <<type, handler, body>>            *)
(*   <<"note", c>>, <<"expr", c>>   a condition whose two sides are one:   *)
(*                             a comment of the text, an expression of the *)
(*                             AST, the code of that side after it         *)
(*   <<"break">>, <<"exit">>   the last follows a return or a throw        *)
(*                                                                         *)
(* A condition is <<"leaf", i, neg>> or <<"and"|"or", left, right>>.       *)
(* The walk's state is one record: the statements of the open scope, the   *)
(* stacks of follows, and the graph, whose conditions the walk negates.    *)
(***************************************************************************)
EXTENDS DadStructure

Start(g) == [out |-> <<>>, vis |-> {}, g |-> g, nextCase |-> Null, needBreak |-> TRUE,
             loopF |-> <<Null>>, ifF |-> <<Null>>, switchF |-> <<Null>>, latchN |-> <<Null>>,
             tryF |-> <<Null>>]

Write(st, s) == [st EXCEPT !.out = Append(@, s)]
WriteIns(st, ins) == [st EXCEPT !.out = @ \o [k \in 1..Len(ins) |-> <<"ins", ins[k]>>]]
Push(st, stack, n) == [st EXCEPT ![stack] = Append(@, n)]
Pop(st, stack) == [st EXCEPT ![stack] = Front(@)]

RECURSIVE neg(_, _)
\* CondBlock, Condition and LoopBlock::neg.
neg(g, n) ==
    LET r == g.nd[n]
    IN  CASE r.class = "sc" ->
               neg(neg([g EXCEPT !.nd[n].cond[3] = ~@], r.cond[1]), r.cond[2])
          [] r.class = "loop" -> IF IsCond(g, r.start) THEN neg(g, r.start) ELSE g
          [] OTHER -> IF Len(r.ins) = 1 THEN [g EXCEPT !.nd[n].neg = ~@] ELSE g

RECURSIVE Condition(_, _)
\* visit_cond and visit_short_circuit_condition: printing a condition with
\* isnot negates its first operand for good.
Condition(g, n) ==
    LET r == g.nd[n]
    IN  CASE r.class = "sc" ->
               LET flipped == IF r.cond[4] THEN neg(g, r.cond[1]) ELSE g
                   left == Condition(flipped, r.cond[1])
                   right == Condition(left.g, r.cond[2])
               IN  [g |-> right.g, e |-> <<IF r.cond[3] THEN "and" ELSE "or", left.e, right.e>>]
          [] r.class = "loop" -> IF IsCond(g, r.start) THEN Condition(g, r.start)
                                 ELSE [g |-> g, e |-> <<"none">>]
          [] OTHER -> [g |-> g, e |-> IF r.ins = <<>> THEN <<"none">>
                                      ELSE <<"leaf", Last(r.ins), r.neg>>]

\* Mutant: the branches change sides, the test does not.
SwapOnly(st, n) ==
    LET r == st.g.nd[n]
    IN  [st EXCEPT !.g = [@ EXCEPT !.nd[n].true = r.false, !.nd[n].false = r.true]]

\* neg followed by the swap of the branches.
NegSwap(st, n) ==
    LET g == neg(st.g, n)
    IN  [st EXCEPT !.g = [g EXCEPT !.nd[n].true = g.nd[n].false, !.nd[n].false = g.nd[n].true]]

\* The early returns of VisitNode before anything is written.
EmitsNothing(st, n) ==
    \/ n = Null
    \/ n \in {Last(st.ifF), Last(st.switchF), Last(st.loopF), Last(st.latchN), Last(st.tryF)}
    \/ n \in st.vis /\ st.g.nd[n].type # "ret"

RECURSIVE VisitNode(_, _, _)
RECURSIVE EmitIf(_, _)
RECURSIVE EmitLoop(_, _)
RECURSIVE EmitSwitch(_, _, _)
RECURSIVE EmitTry(_, _, _)
RECURSIVE visit_cond_node(_, _)
RECURSIVE visit_loop_node(_, _)
RECURSIVE visit_switch_node(_, _)
RECURSIVE visit_try_node(_, _)

\* A nested scope: its statements are set aside in `body`.
Scope(ast, st, n) ==
    LET r == VisitNode(ast, [st EXCEPT !.out = <<>>], n)
    IN  [st |-> [r EXCEPT !.out = st.out], body |-> r.out]

\* A statement block: its instructions, then its only successor.
EmitStatement(ast, st, n) ==
    LET s == WriteIns(st, st.g.nd[n].ins)
        out == sucs(st.g, n)
    IN  CASE Len(out) # 1 -> s
          [] out[1] = Last(s.loopF) -> Write(s, <<"break">>)
          [] out[1] = s.nextCase -> [s EXCEPT !.needBreak = FALSE]
          [] OTHER -> VisitNode(ast, s, out[1])

EmitReturn(st, n) == Write(WriteIns([st EXCEPT !.needBreak = FALSE], st.g.nd[n].ins), <<"exit">>)
EmitThrow(st, n) == Write(WriteIns(st, st.g.nd[n].ins), <<"exit">>)

visit_statement_node(st, n) == EmitStatement(TRUE, st, n)

\* Both walks: the early returns, the mark, the dispatch on the class.
DispatchText(s, n) ==
    LET class == s.g.nd[n].class
    IN  CASE class = "stmt" -> EmitStatement(FALSE, s, n)
          [] class = "ret" -> EmitReturn(s, n)
          [] class = "throw" -> EmitThrow(s, n)
          [] class = "loop" -> EmitLoop(s, n)
          [] class \in {"cond", "sc"} -> EmitIf(s, n)
          [] class = "switch" -> EmitSwitch(FALSE, s, n)
          [] class = "try" -> EmitTry(FALSE, s, n)
          [] OTHER -> s

visit_node(s, n) ==
    LET class == s.g.nd[n].class
    IN  CASE class = "stmt" -> visit_statement_node(s, n)
          [] class = "ret" -> EmitReturn(s, n)
          [] class = "throw" -> EmitThrow(s, n)
          [] class = "loop" -> visit_loop_node(s, n)
          [] class \in {"cond", "sc"} -> visit_cond_node(s, n)
          [] class = "switch" -> visit_switch_node(s, n)
          [] class = "try" -> visit_try_node(s, n)
          [] OTHER -> s

VisitNode(ast, st, n) ==
    LET s == [st EXCEPT !.vis = @ \cup {n}]
    IN  IF EmitsNothing(st, n) THEN st
        ELSE IF ast THEN visit_node(s, n) ELSE DispatchText(s, n)

\* The true branch that would leave an empty then-part, or jump backwards.
TurnsAround(st, n, follow) ==
    LET r == st.g.nd[n]
    IN  \/ r.true \in {follow, st.nextCase}
        \/ r.num > Num(st.g, r.true)

\* The arms of an if whose follow is known, in both walks.
IfWithFollow(ast, st, n, follow) ==
    LET s0 == IF TurnsAround(st, n, follow) THEN NegSwap(st, n) ELSE st
        c == Condition(s0.g, n)
        t == c.g.nd[n].true
        f == c.g.nd[n].false
        s1 == Scope(ast, Push([s0 EXCEPT !.g = c.g], "ifF", follow), t)
        isElse == follow \notin {t, f} /\ f \notin s1.st.vis
        s2 == IF isElse THEN Scope(ast, s1.st, f) ELSE [st |-> s1.st, body |-> <<>>]
    IN  VisitNode(ast, Write(Pop(s2.st, "ifF"), <<"if", c.e, s1.body, s2.body>>), follow)

\* Both sides are one block: the condition is written, then that block.
BothSides(ast, st, n) ==
    LET c == Condition(st.g, n)
    IN  VisitNode(ast, Write([st EXCEPT !.g = c.g], <<IF ast THEN "expr" ELSE "note", c.e>>),
                  st.g.nd[n].true)

\* Mutant: an if without a follow takes the path of one with a follow, so that
\* an arm already written is left out.
EmitIfOnePath(st, n) ==
    LET r == st.g.nd[n]
        lf == Last(st.loopF)
        s0 == IF lf # Null /\ r.false = lf THEN NegSwap(st, n) ELSE st
        r0 == s0.g.nd[n]
        c == Condition(s0.g, n)
    IN  CASE r.true = r.false -> BothSides(FALSE, st, n)
          [] lf # Null /\ lf \in {r0.true, r0.false} ->
               VisitNode(FALSE, Write([s0 EXCEPT !.g = c.g], <<"if", c.e, <<<<"break">>>>, <<>>>>), r0.false)
          [] OTHER -> IfWithFollow(FALSE, s0, n, r0.follow.if)

\* Writer::EmitIf.
EmitIf(st, n) ==
    LET r == st.g.nd[n]
        lf == Last(st.loopF)
        s0 == IF lf # Null /\ r.false = lf THEN NegSwap(st, n) ELSE st
        r0 == s0.g.nd[n]
        c == Condition(s0.g, n)
        cs == [s0 EXCEPT !.g = c.g]
        then == Scope(FALSE, cs, r0.true)
        else == IF EmitsNothing(then.st, r0.false) THEN [st |-> then.st, body |-> <<>>]
                ELSE Scope(FALSE, then.st, r0.false)
    IN  CASE r.true = r.false -> BothSides(FALSE, st, n)
          [] lf # Null /\ lf \in {r0.true, r0.false} ->
               VisitNode(FALSE, Write(cs, <<"if", c.e, <<<<"break">>>>, <<>>>>), r0.false)
          [] r0.follow.if = Null -> Write(else.st, <<"if", c.e, then.body, else.body>>)
          [] OTHER -> IfWithFollow(FALSE, s0, n, r0.follow.if)

\* JSONWriter::visit_cond_node: the break form keeps the rest in the else part.
visit_cond_node(st, n) ==
    LET r == st.g.nd[n]
        lf == Last(st.loopF)
        s0 == IF r.false = lf THEN NegSwap(st, n) ELSE st
        r0 == s0.g.nd[n]
        c == Condition(s0.g, n)
        cs == [s0 EXCEPT !.g = c.g]
        rest == Scope(TRUE, cs, r0.false)
        then == Scope(TRUE, cs, r0.true)
        else == Scope(TRUE, then.st, r0.false)
    IN  CASE r.true = r.false -> BothSides(TRUE, st, n)
          [] lf # Null /\ lf \in {r0.true, r0.false} ->
               Write(rest.st, <<"if", c.e, <<<<"break">>>>, rest.body>>)
          [] r0.follow.if = Null -> Write(else.st, <<"if", c.e, then.body, else.body>>)
          [] OTHER -> IfWithFollow(TRUE, s0, n, r0.follow.if)

\* The condition of a do-while: that of the latch, if the latch is one.
LatchCondition(g, n) == IF IsCond(g, g.nd[n].latch) THEN Condition(g, g.nd[n].latch)
                        ELSE [g |-> g, e |-> <<"none">>]

\* The head of a loop that tests first.
Pretest(st, n) == IF st.g.nd[n].true # Null /\ st.g.nd[n].true = st.g.nd[n].follow.loop
                  THEN NegSwap(st, n) ELSE st

\* Writer::EmitLoop: the latch of an endless loop is visited with the loop's
\* follow still on the stack.
EmitLoop(st, n) ==
    LET r == st.g.nd[n]
        follow == r.follow.loop
        p == Pretest(st, n)
        c == Condition(p.g, n)
        wbody == Scope(FALSE, Push([p EXCEPT !.g = c.g], "loopF", follow), p.g.nd[n].true)
        ebody == Scope(FALSE, Push(st, "loopF", follow), r.start)
        elatch == Scope(FALSE, ebody.st, r.latch)
        dbody == Scope(FALSE, Push(Push(st, "loopF", follow), "latchN", r.latch), r.start)
        dc == LatchCondition(dbody.st.g, n)
        done == CASE r.looptype = "pretest" ->
                       Write(Pop(wbody.st, "loopF"), <<"while", c.e, wbody.body>>)
                  [] r.looptype = "endless" ->
                       Write(Pop(elatch.st, "loopF"), <<"loop", ebody.body \o elatch.body>>)
                  [] OTHER -> Write([Pop(Pop(dbody.st, "latchN"), "loopF") EXCEPT !.g = dc.g],
                                    <<"do", dbody.body, dc.e>>)
    IN  VisitNode(FALSE, done, follow)

\* JSONWriter::visit_loop_node: the follow is popped before the latch.
visit_loop_node(st, n) ==
    LET r == st.g.nd[n]
        follow == r.follow.loop
        p == Pretest(st, n)
        c == Condition(p.g, n)
        wbody == Scope(TRUE, Push([p EXCEPT !.g = c.g], "loopF", follow), p.g.nd[n].true)
        ebody == Scope(TRUE, Push(st, "loopF", follow), r.start)
        elatch == Scope(TRUE, Pop(ebody.st, "loopF"), r.latch)
        dbody == Scope(TRUE, Push(Push(st, "latchN", r.latch), "loopF", follow), r.start)
        dc == LatchCondition(dbody.st.g, n)
        done == CASE r.looptype = "pretest" ->
                       Write(Pop(wbody.st, "loopF"), <<"while", c.e, wbody.body>>)
                  [] r.looptype = "posttest" ->
                       Write([Pop(Pop(dbody.st, "loopF"), "latchN") EXCEPT !.g = dc.g],
                             <<"do", dbody.body, dc.e>>)
                  [] OTHER -> Write(elatch.st, <<"loop", ebody.body \o elatch.body>>)
    IN  VisitNode(TRUE, done, follow)

\* EmitSwitch and visit_switch_node: a case already written is left out, one
\* that falls into the next case has no break, a default among the cases is
\* labelled there.
EmitSwitch(ast, st, n) ==
    LET r == st.g.nd[n]
        follow == r.follow.switch
        arm(acc, i) ==
            LET s == [acc.st EXCEPT !.nextCase = IF i < Len(r.cases) THEN r.cases[i + 1] ELSE Null]
                b == Scope(ast, s, r.cases[i])
                isDefault == r.cases[i] = acc.default
                labels == r.keys[i] \cup (IF isDefault THEN {"default"} ELSE {})
                body == IF b.st.needBreak THEN Append(b.body, <<"break">>) ELSE b.body
            IN  IF r.cases[i] \in acc.st.vis THEN acc
                ELSE [st |-> [b.st EXCEPT !.needBreak = TRUE],
                      default |-> IF isDefault THEN Null ELSE acc.default,
                      arms |-> Append(acc.arms, <<labels, body>>)]
        head == WriteIns(st, IF r.ins = <<>> THEN <<>> ELSE Front(r.ins))
        test == IF r.ins = <<>> THEN <<>> ELSE Last(r.ins)
        cases == FoldLeft(arm, [st |-> Push(head, "switchF", follow), default |-> r.default,
                                arms |-> <<>>], [i \in 1..Len(r.cases) |-> i])
        last == IF cases.default \in {Null, follow} THEN [st |-> cases.st, body |-> <<>>]
                ELSE Scope(ast, cases.st, cases.default)
        arms == IF cases.default \in {Null, follow} THEN cases.arms
                ELSE Append(cases.arms, <<{"default"}, last.body>>)
    IN  VisitNode(ast, Write(Pop(last.st, "switchF"), <<"switch", test, arms>>), follow)

visit_switch_node(st, n) == EmitSwitch(TRUE, st, n)

\* EmitTry and visit_try_node.
EmitTry(ast, st, n) ==
    LET r == st.g.nd[n]
        body == Scope(ast, Push(st, "tryF", r.tryFollow), r.start)
        one(acc, c) ==
            LET b == Scope(ast, acc.st, acc.st.g.nd[c].start)
            IN  [st |-> b.st,
                 catches |-> Append(acc.catches, <<st.g.nd[c].ctype, st.g.nd[c].start, b.body>>)]
        all == FoldLeft(one, [st |-> body.st, catches |-> <<>>], r.catches)
    IN  VisitNode(ast, Write(Pop(all.st, "tryF"), <<"try", body.body, all.catches>>), r.tryFollow)

visit_try_node(st, n) == EmitTry(TRUE, st, n)

\* The dispatch of both walks from the entry.
WriteMethod(g) == VisitNode(FALSE, Start(g), g.entry).out
get_ast(g) == VisitNode(TRUE, Start(g), g.entry).out
=============================================================================
