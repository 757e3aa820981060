----------------------------- MODULE MCCallSites -----------------------------
(***************************************************************************)
(* Sessions for the call-site queries.                                     *)
(***************************************************************************)
EXTENDS CallSites

Ids == [string |-> 9, type |-> 9, field |-> 2, method |-> 3, proto |-> 1]
Code(units, regs, ins) ==
    [regs |-> regs, ins |-> ins, outs |-> 0, units |-> units, pad |-> 0, tries |-> <<>>, bytes |-> <<>>,
     ids |-> Ids, said |-> [ok |-> TRUE, tries |-> <<>>]]
Roomy == [work |-> 1000, entries |-> 1000]
Session(ds, budget, faults) == [dexes |-> ds, budget |-> budget, roomy |-> budget = Roomy, faults |-> faults]

Ret == <<14>>
Str(r, s) == <<26 + 256 * r, s>>
Int16(r, v) == <<19 + 256 * r, v>>
Wide16(r, v) == <<22 + 256 * r, v>>
Move(a, b) == <<1 + 256 * (a + 16 * b)>>
MoveWide(a, b) == <<4 + 256 * (a + 16 * b)>>
Result(r) == <<12 + 256 * r>>
If(d) == <<56, d % 65536>>
Goto(d) == <<40 + 256 * (d % 256)>>
S4(d) == <<d % 65536, IF d < 0 THEN 65535 ELSE 0>>
\* invoke-static {v0, v1} and {v0 .. v(n-1)}.
Call2(m) == <<113 + 256 * 32, m, 16>>
CallRange(m, n) == <<119 + 256 * n, m, 0>>

\* One dex, one class, one body; the callees are its own referenced methods.
Alone(code, budget) ==
    Session(<<[methods |-> <<<<"A", "m">>, <<"Z", "p">>, <<"Z", "q">>>>, fields |-> <<<<"A", "f">>, <<"Z", "g">>>>, defs |-> <<"A">>,
               declared |-> {0}, code |-> [m \in {0} |-> code]]>>, budget, 0)

\* Every opcode between loads of the low registers and a call that passes them.
Prefixes == {Str(0, 1) \o Str(1, 2) \o Str(2, 3), Wide16(0, 7) \o Wide16(2, 7), Str(0, 1) \o Wide16(1, 9) \o Int16(3, 0)}
Operands(op) ==
    LET f == GetFormatFromOpcode(op)
        wide == GetWidthFromFormat(f)
    IN  {SubSeq(<<op + 256 * hi, w1, w2, 0, 0>>, 1, wide) :
            hi \in IF f \in {"12x", "11n", "22c", "22s"} THEN {1, 2, 16, 18, 33} ELSE {0, 1, 2},
            w1 \in IF wide > 1 THEN {0, 1, 258} ELSE {0}, w2 \in IF wide > 2 THEN {0, 2} ELSE {0}}
Legal == {x \in UNION {Operands(op) : op \in 0..255} : VerifyInsns(Code(x \o CallRange(1, 4) \o Ret, 6, 0))}
Opcodes == {Alone(Code(l \o x \o CallRange(1, 4) \o Ret, 6, 0), Roomy) : l \in Prefixes, x \in Legal}

\* Four slots of two units and a call: every small graph of branches over
\* definitions of v0, forward, backward and across.
Slots == {Str(0, 1), Str(0, 2), <<8, 2>>} \cup {If(2 * k) : k \in {-2, 2, 3}} \cup {<<41, U>> : U \in {65534, 4}}
Shape(a, b, c, d) == Code(a \o b \o c \o d \o CallRange(1, 3) \o Ret, 3, 1)
InRange(s) == \A k \in 1..4 :
    LET w == s[k][1]
        rel == Signed(s[k][2], 16) \div 2
    IN  w \in {56, 41} => k + rel \in 1..5
Fours == {s \in [1..4 -> Slots] : InRange(s)}
Shapes == {Alone(Shape(s[1], s[2], s[3], s[4]), Roomy) : s \in Fours}
\* The same with budgets that run out.
Starved ==
    {Alone(Shape(s[1], s[2], s[3], s[4]), [work |-> w, entries |-> e]) :
        s \in {x \in Fours : x[1][1] = 56 /\ x[3][1] = 41}, w \in {0, 1, 3, 1000}, e \in {0, 1, 2}}

\* A loop from the entry that passes and redefines the parameter, with results.
Chain(x, y) ==
    If(9 + Len(y)) \o x \o Call2(1) \o y \o Result(0) \o Goto(-8 - Len(y)) \o CallRange(2, 2) \o Ret
Loops == {Alone(Code(Chain(x, y), 2, n), Roomy) : x \in {Str(1, 1), <<8, 1>>, Int16(0, 5)}, y \in {<<>>, <<0>>}, n \in 0..2}

\* A try range anywhere over three definitions, a call and a handler that calls.
Tried(c, start, count, addr, typed) ==
    [c EXCEPT !.tries = <<[start |-> start, count |-> count, off |-> 1]>>,
              !.bytes = IF typed THEN <<1, 1, 0, addr>> ELSE <<1, 0, addr>>,
              !.said = [ok |-> TRUE, tries |-> <<[start |-> start, end |-> start + count,
                                                  handlers |-> <<<<IF typed THEN 0 ELSE CatchAll, addr>>>>]>>]]
Bodies == {x \o y \o Call2(1) \o z \o CallRange(2, 3) \o Ret :
             x \in {Str(0, 1), <<8, 2>>}, y \in {Str(0, 2), If(5), If(-2)}, z \in {Str(0, 3), <<41, 2>>, <<41, 65533>>}}
Handled ==
    {Alone(Tried(Code(b, 3, 1), s, n, h, typed), Roomy) :
        b \in Bodies, s \in {0, 2, 4}, n \in {2, 5}, h \in {2, 4, 7, 9}, typed \in BOOLEAN}

\* Switches into three arms, their table whole, cut, or of the other kind.
Table(mark, n, to) ==
    <<mark, n>> \o (IF mark = PackedMark THEN S4(0) ELSE S4(1) \o S4(2)) \o S4(to[1]) \o S4(to[2])
Arms == Str(0, 1) \o Goto(3) \o Str(0, 2) \o CallRange(1, 2) \o Ret
Switches ==
    {Alone(Code(Str(0, 3) \o <<op>> \o S4(12) \o Arms \o Table(mark, n, <<x, y>>), 2, 0), Roomy) :
        op \in {43, 44}, mark \in {PackedMark, SparseMark}, n \in 0..3, x \in {-2, 3, 5, 6, 8}, y \in {6, 8, 40}}

-----------------------------------------------------------------------------
(* Three dexes: which define A and B, and which members of them each names. *)

Own == <<"C1", "C2", "C3">>
Named(c, members) == LET m == Asc(members) IN [k \in DOMAIN m |-> <<c, m[k]>>]
\* The dex's own class calls every method, one of them twice and one past the
\* table, and reads and writes every field; the bodies of A and B are shorter.
Everything(methods, fields) ==
    Flat([k \in 1..methods |-> <<113, k - 1, 0>>]) \o <<113, 0, 0, 251, 9, 0, 0>>
    \o Flat([k \in 1..fields |-> <<96, k - 1, 103, k - 1>>]) \o Ret
Little == <<113, 1, 0, 103, 0>> \o Ret
DexOf(d, defs, members, reversed) ==
    LET methods == Named("A", members) \o Named("B", {1}) \o <<<<Own[d], 1>>>>
        fields == Named("A", members)
        classes == <<Own[d]>> \o (IF "A" \in defs THEN <<"A">> ELSE <<>>) \o (IF "B" \in defs THEN <<"B">> ELSE <<>>)
        \* A's member 0 is inherited: named and never declared.
        mine == {i \in 0..(Len(methods) - 1) : methods[i + 1][1] \in defs \cup {Own[d]} /\ methods[i + 1][2] # 0}
    IN  [methods |-> methods, fields |-> fields,
         defs |-> IF reversed THEN [k \in DOMAIN classes |-> classes[Len(classes) + 1 - k]] ELSE classes,
         declared |-> mine,
         code |-> [m \in mine |-> Code(IF methods[m + 1][1] = Own[d] THEN Everything(Len(methods), Len(fields))
                                       ELSE Little, 2, 0)]]
Triples(Defs, Members, faults) ==
    {Session([d \in 1..3 |-> DexOf(d, f[d], g[d], faults = 1)], Roomy, faults) :
        f \in {x \in [1..3 -> SUBSET {"A", "B"}] : \A d \in 1..3 : x[d] \in Defs[d]}, g \in [1..3 -> Members]}
Crossed == Triples(<<{{}, {"A"}, {"B"}}, {{"A"}, {"B"}}, {{}, {"A", "B"}}>>, {{1, 2}, {0, 1, 2}}, 0)
Interrupted == Triples(<<{{}, {"A"}}, {{"A"}}, {{"B"}}>>, {{1, 2}}, 1)

MCApps == <<Opcodes, Shapes, Starved, Loops, Handled, Switches, Crossed, Interrupted>>
MCDepths == 0..2
=============================================================================
