----------------------------- MODULE MCDataflow -----------------------------
(***************************************************************************)
(* Methods for the data-flow passes.  v0 to v2 are locals; the parameters   *)
(* start at v3.  A piece is a short sequence of instructions, such as a     *)
(* call and the move of its result.                                        *)
(***************************************************************************)
EXTENDS Dataflow

I(op, A, B, C) == [op |-> op, A |-> A, B |-> B, C |-> C, args |-> <<>>, ref |-> NoRef, at |-> 0]
Of(d, kind, name, t, ps) ==
    [d EXCEPT !.ref = [kind |-> kind, t |-> t, ps |-> ps, name |-> name, cls |-> "K"]]
Call(op, name, t, ps, args) ==
    [Of(I(op, Len(args), 0, 0), "method", name, t, ps) EXCEPT !.args = args \o [i \in 1..(5 - Len(args)) |-> 0]]

Const(r, n) == I(18, r, n, 0)
Move(a, b) == I(1, a, b, 0)
Add(a, b, c) == I(144, a, b, c)
AddLit(a, b, n) == I(216, a, b, n)
Sput(r) == Of(I(103, r, 0, 0), "field", "s", "I", <<>>)
Iget(a, b) == Of(I(82, a, b, 0), "field", "f", "I", <<>>)
Iput(a, b) == Of(I(89, a, b, 0), "field", "f", "I", <<>>)
Text(r) == Of(I(26, r, 0, 0), "string", "text", "String", <<>>)
Made(r) == Of(I(34, r, 0, 0), "type", "", "A", <<>>)
Init_(r) == Call(112, "<init>", "V", <<>>, <<r>>)
Fn(r) == Call(113, "fn", "I", <<"I">>, <<r>>)
Use(r) == Call(113, "use", "V", <<"I">>, <<r>>)
Result(r) == I(10, r, 0, 0)
Caught(r) == I(13, r, 0, 0)
Return(r) == I(15, r, 0, 0)
Goto == I(40, 0, 0, 0)
Ifz(r) == I(56, r, 0, 0)
IfLt(a, b) == I(52, a, b, 0)

\* Blocks, offsets and methods.
Block(code, childs) == [code |-> code, childs |-> childs, handlers |-> <<>>]
Then(code, t) == Block(code, <<<<t, "fall", "">>>>)
Test(code, t, f) == Block(code, <<<<t, "true", "">>, <<f, "false", "">>>>)
Located(blocks) ==
    [b \in 1..Len(blocks) |-> [blocks[b] EXCEPT !.code = [i \in 1..Len(@) |-> [@[i] EXCEPT !.at = 10 * b + i]]]]
Method(blocks, ptypes) ==
    [blocks |-> Located(blocks), regs |-> 3, static |-> TRUE, cls |-> "K", ptypes |-> ptypes,
     ret |-> "I", ctor |-> FALSE, subtypes |-> {}]
Line(code, ptypes) == Method(<<Block(code, <<>>)>>, ptypes)

-----------------------------------------------------------------------------
\* One of each opcode, on a copy of a parameter.
Binary == {I(op, 0, 0, 4) : op \in (144..175) \ {154, 165}}
          \cup {I(op, 0, 4, 0) : op \in (176..207) \ {186, 197}}
          \cup {I(op, 0, 0, n) : op \in (208..226) \ {226}, n \in {-5, 7}}
          \cup {I(op, 0, 0, 4) : op \in 45..49} \cup {I(op, 0, 0, 0) : op \in 123..143}
Consts == {I(op, 0, n, 0) : op \in 18..25, n \in {0, 5, 15}} \cup {Of(I(28, 0, 0, 0), "type", "", "A", <<>>)}
Objects == {Of(I(31, 0, 0, 0), "type", "", "A", <<>>), Of(I(32, 0, 0, 0), "type", "", "A", <<>>),
            I(33, 0, 0, 0), Of(I(35, 0, 0, 0), "type", "", "[A", <<>>), I(38, 0, 0, 0)}
           \cup {I(op, 0, 0, 4) : op \in (68..74) \cup (75..81)}
           \cup {Of(I(op, 0, 0, 0), "field", "f", "I", <<>>) : op \in 82..109}
Moves == {I(op, 0, 4, 0) : op \in 1..9} \cup {I(0, 0, 0, 0)} \cup {I(29, 0, 0, 0), I(30, 0, 0, 0)}
Calls ==
    UNION {{<<Call(op, "fn", t, <<"J", "I">>, <<0, 4, 3, 5>>), Result(0)>> : t \in {"I", "J"}} : op \in {110, 111, 112, 114}}
    \cup {<<Call(113, "fn", "I", <<"J", "I">>, <<3, 4, 5>>), Result(0)>>}
    \cup UNION {{<<[Call(op, "fn", "I", <<"J", "I">>, <<1, 1, 1, 1>>) EXCEPT !.C = 3, !.A = IF op = 119 THEN 3 ELSE 4], Result(0)>>}
                  : op \in 116..120}
    \cup {<<[Call(250, "fn", "I", <<"I">>, <<4>>) EXCEPT !.A = 2, !.C = 3], Result(0)>>,
          <<[Call(251, "fn", "I", <<"I">>, <<>>) EXCEPT !.A = 2, !.C = 3], Result(0)>>,
          <<[Call(252, "fn", "I", <<"J">>, <<3, 4>>) EXCEPT !.ref.kind = "site"], Result(0)>>,
          <<[Call(253, "fn", "I", <<"J">>, <<>>) EXCEPT !.ref.kind = "site", !.A = 2, !.C = 4], Result(0)>>,
          <<[Of(I(36, 2, 0, 0), "type", "", "[I", <<>>) EXCEPT !.args = <<0, 4, 0, 0, 0>>], Result(0)>>,
          <<[Call(118, "fn", "V", <<>>, <<>>) EXCEPT !.A = 0]>>}
Single ==
    LET ps == <<"I", "I", "I", "I">>
        code == {<<d>> : d \in Binary \cup Consts \cup Objects \cup Moves} \cup Calls
    IN  {Line(<<Move(0, 3)>> \o c \o <<Return(0)>>, ps) : c \in code}
        \cup {Line(<<I(39, 3, 0, 0)>>, ps), Line(<<I(14, 0, 0, 0)>>, ps)}
        \cup {Method(<<Test(<<I(op, 3, 4, 0)>>, 3, 2), Block(<<Return(3)>>, <<>>), Block(<<Return(4)>>, <<>>)>>, ps)
                : op \in 50..61}
        \cup {Method(<<Block(<<I(op, 3, 0, 0)>>, <<<<2, "case", "k">>, <<3, "default", "">>>>),
                       Block(<<Return(3)>>, <<>>), Block(<<Return(4)>>, <<>>)>>, ps) : op \in 43..44}

-----------------------------------------------------------------------------
\* Sequences of pieces over v0, v1 and an object p = v3.
Pieces ==
    {<<Const(0, 1)>>, <<Const(1, 2)>>, <<Move(1, 0)>>, <<Move(0, 1)>>, <<Add(0, 0, 1)>>, <<AddLit(1, 0, -1)>>,
     <<Fn(0), Result(1)>>, <<Use(1)>>, <<Iput(0, 3)>>, <<Iget(0, 3)>>, <<Sput(1)>>}
Straight ==
    {Line(a \o b \o c \o d, <<"O">>) :
       a \in {<<Const(0, 1)>>, <<Iget(0, 3)>>, <<Move(0, 3)>>}, b \in Pieces, c \in Pieces,
       d \in {<<Return(0)>>, <<Return(1)>>, <<Add(0, 0, 1), Return(0)>>, <<Sput(1), Return(0)>>}}

\* A branch, two arms, a join.
Arms == {<<>>, <<Const(0, 2)>>, <<Move(0, 1)>>, <<Move(1, 0)>>, <<Add(0, 0, 1)>>, <<Fn(0), Result(1)>>, <<Sput(0)>>}
Diamond ==
    LET start == <<Const(0, 1), Move(1, 3)>>
    IN  {Method(<<Test(start \o a \o <<Ifz(3)>>, 3, 2), Then(b, 4), Then(c \o <<Goto>>, 4), Block(d \o <<Return(r)>>, <<>>)>>, <<"I">>) :
           a \in {<<>>, <<AddLit(0, 1, 3)>>}, b \in Arms, c \in Arms,
           d \in {<<>>, <<Move(0, 1)>>, <<Add(0, 0, 1)>>, <<Fn(0), Result(1)>>, <<Use(1)>>}, r \in {0, 1}}

\* A loop tested at its head, and one tested at its end.
Loops ==
    LET start == <<Const(0, 1), Move(1, 3)>>
    IN  {Method(<<Then(start, 2), Test(h \o <<IfLt(0, 3)>>, 4, 3), Then(b \o c \o <<Goto>>, 2), Block(d \o <<Return(1)>>, <<>>)>>, <<"I">>) :
           h \in {<<>>, <<Move(2, 0)>>}, b \in Arms, c \in Arms, d \in {<<>>, <<Use(0)>>, <<Move(1, 2)>>}}
        \cup {Method(<<Then(start, 2), Test(b \o c \o <<IfLt(0, 3)>>, 2, 3), Block(<<Return(r)>>, <<>>)>>, <<"I">>) :
                b \in Arms, c \in Arms, r \in {0, 1}}

\* A block under a handler.
Guarded ==
    {Method(<<Then(<<Const(0, 1), Const(1, 0)>>, 2),
              [Then(a \o b, 4) EXCEPT !.handlers = <<<<3, "E">>>>],
              Then(<<Caught(2)>> \o c \o <<Goto>>, 4), Block(d \o <<Return(r)>>, <<>>)>>, <<"I">>) :
       a \in Arms, b \in Arms, c \in {<<>>, <<Const(0, 2)>>, <<Use(1)>>, <<Move(1, 0)>>},
       d \in {<<>>, <<Use(0)>>}, r \in {0, 1}}

\* An instance method that reuses the register of its receiver, v3.
ThisMethod(blocks, ret, sub) ==
    [Method(blocks, <<"I">>) EXCEPT !.static = FALSE, !.ret = ret, !.subtypes = sub]
ThisReused ==
    LET set == {<<Made(3), Init_(3)>>, <<Const(3, 0)>>, <<Text(3)>>, <<Call(113, "mk", "A", <<>>, <<>>), Result(3)>>,
                <<Iput(4, 3)>>, <<>>}
        end == {<<Return(3)>>, <<Call(113, "take", "V", <<"A">>, <<3>>), Return(4)>>,
                <<Iput(4, 3), Return(4)>>, <<Return(4)>>}
    IN  {ThisMethod(<<Test(<<Ifz(4)>>, 3, 2), Then(a, 4), Then(b \o <<Goto>>, 4), Block(c \o d, <<>>)>>, IF d = <<Return(3)>> THEN "A" ELSE "I", sub) :
           a \in set, b \in set, c \in {<<>>, <<Made(3), Init_(3)>>}, d \in end,
           sub \in {{}, {<<"K", "A">>}}}

\* Null where one arm may put a text and uses a reference, and the other may put
\* a number and uses an integer.
NullSplit ==
    LET ref(r) == Call(113, "text", "V", <<"String">>, <<r>>)
    IN  {Method(<<Test(<<Const(0, 0), Ifz(3)>>, 3, 2),
                  Test(<<Ifz(4)>>, 5, 4), Test(<<Ifz(4)>>, 7, 6),
                  Then(<<Text(0)>>, 5), Block(<<ref(0), Return(3)>>, <<>>),
                  Then(<<Const(0, n)>>, 7), Block(<<Use(0), Return(3)>>, <<>>)>>, <<"I", "I">>) : n \in {0, -3}}

MCMethods == Single \cup Straight \cup Diamond \cup Loops \cup Guarded \cup ThisReused
=============================================================================
