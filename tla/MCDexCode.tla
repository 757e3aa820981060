------------------------------ MODULE MCDexCode ------------------------------
(***************************************************************************)
(* Code items for the verifier and the snapshot builder.                   *)
(***************************************************************************)
EXTENDS DexCode

Ids == [string |-> 3, type |-> 3, field |-> 3, method |-> 3, proto |-> 2]
NoList == [at |-> 0, places |-> <<>>, handlers |-> <<>>]
Body(units, regs) ==
    [regs |-> regs, ins |-> 0, outs |-> 0, units |-> units, pad |-> 0, tries |-> <<>>, bytes |-> <<>>,
     ids |-> Ids, said |-> [ok |-> TRUE, tries |-> <<>>, lists |-> <<>>, cut |-> NoList]]
Join(p) == IF p = <<>> THEN <<>> ELSE
    LET all[i \in 1..Len(p)] == IF i = 1 THEN p[1] ELSE all[i - 1] \o p[i] IN all[Len(p)]

Nop == <<0>>
Ret == <<14>>
Const16 == <<19, 0>>
AsU2(d) == d % 65536
S4(d) == <<AsU2(d), IF d < 0 THEN 65535 ELSE 0>>
If(d) == <<56, AsU2(d)>>
Goto(d) == <<40 + 256 * (d % 256)>>
Load(op, d) == <<op>> \o S4(d)

\* An opcode with a few values in each operand field, whole and cut short.
Operands(op) ==
    LET wide == GetWidthFromFormat(GetFormatFromOpcode(op))
        all == {<<op + 256 * hi, w1, w2, w3, 0>> :
                  hi \in {0, 18, 81, 96},
                  w1 \in IF wide > 1 THEN {0, 2, 513} ELSE {0},
                  w2 \in IF wide > 2 THEN {0, 1, 12816} ELSE {0},
                  w3 \in IF wide > 3 THEN {0, 1, 2} ELSE {0}}
        cuts == {SubSeq(u, 1, wide) \o Ret : u \in all} \cup {SubSeq(u, 1, wide) : u \in all}
                \cup {SubSeq(u, 1, wide - 1) : u \in all}
    IN  {Body(u, regs) : u \in cuts, regs \in {1, 4}}

\* Three pieces and a return, with branches to every place, the middle of an
\* instruction or of a payload included.
Pieces == {Nop, Const16, Ret, <<PackedMark, 0, 0, 0>>} \cup {If(d) : d \in -2..6} \cup {Goto(d) : d \in -2..6}
Flows == {Body(a \o b \o c \o Ret, 1) : a \in Pieces, b \in Pieces, c \in Pieces}

\* A switch or a fill-array-data at 0, four instructions, and what its target
\* names: a payload of any declared size, cut short or in the wrong place.
Packed(size, cases) == <<PackedMark, size>> \o S4(7) \o Join([k \in DOMAIN cases |-> S4(cases[k])])
Sparse(size, keys, cases) ==
    <<SparseMark, size>> \o Join([k \in DOMAIN keys |-> S4(keys[k])]) \o Join([k \in DOMAIN cases |-> S4(cases[k])])
Array(width, lo, hi, data) == <<ArrayMark, width, lo, hi>> \o [k \in 1..data |-> 0]
Places == {-1, 0, 3, 4, 5, 7, 20}
Loaded ==
    {Packed(size, <<x, y>>) : size \in {0, 1, 2, 3, 65535}, x \in Places, y \in Places}
    \cup {Sparse(size, <<-1, 9>>, <<x, y>>) : size \in {0, 1, 2, 3, 65535}, x \in Places, y \in Places}
    \cup {Array(w, lo, hi, n) : w \in {0, 1, 2, 3, 65535}, lo \in {0, 1, 3, 65535}, hi \in {0, 1, 65535}, n \in 0..2}
Payloads ==
    {Body(Load(op, d) \o Nop \o Ret \o Nop \o Ret \o p, 1) : op \in {38, 43, 44}, d \in {5, 7}, p \in Loaded}
    \cup {Body(Load(op, d) \o Nop \o Ret \o Nop \o Ret \o SubSeq(p, 1, n), 1) :
            op \in {43}, d \in {-2, 7, 8}, n \in 0..4, p \in {Packed(1, <<3>>), Sparse(1, <<1>>, <<3>>)}}

\* The same with the marker hidden in a const-wide's literal, where the linear
\* sweep does not see it: the declared size is then the parser's alone.
Hidden ==
    {Body(Load(op, 4) \o <<24, m, n, x, 0>> \o SubSeq(<<0, 0, 0, 0, 0>>, 1, k) \o Ret, 2) :
        op \in {38, 43, 44}, m \in {PackedMark, SparseMark, ArrayMark},
        n \in {0, 1, 2, 3, 65535}, x \in {0, 1, 3, 65535}, k \in 0..5}

\* Try tables.  A clause is <<type, address>>.  A number v is written as leb128
\* in n bytes; n = 6 stands for five bytes with the bits past the 32nd set.
Leb(v, n) ==
    LET k == IF n = 6 THEN 5 ELSE n
        digit(i) == IF i < 5 THEN (v \div 128^(i - 1)) % 128
                    ELSE ((v \div 268435456) % 16) + IF n = 6 THEN 112 ELSE 0
    IN  [i \in 1..k |-> digit(i) + IF i < k THEN 128 ELSE 0]
\* A list: its size in n bytes, its addresses in m.
Encode(h, n, m) ==
    LET typed == SelectSeq(h, LAMBDA x : x[1] # CatchAll)
        clause(x) == IF x[1] = CatchAll THEN Leb(x[2], m) ELSE <<x[1]>> \o Leb(x[2], m)
    IN  Leb(IF typed # h THEN -Len(typed) ELSE Len(typed), n) \o Join([k \in DOMAIN h |-> clause(h[k])])
Tried(c, ranges, lists, n, m) ==
    LET encoded == [k \in DOMAIN lists |-> Encode(lists[k], n, m)]
        off(k) == 1 + Len(Join(SubSeq(encoded, 1, k - 1)))
        width(x) == (IF x[1] = CatchAll THEN 0 ELSE 1) + Smaller(m, 5)
        places(k) == LET w[i \in 1..(Len(lists[k]) + 1)] ==
                             IF i = 1 THEN off(k) + Smaller(n, 5) ELSE w[i - 1] + width(lists[k][i - 1])
                     IN  [i \in 1..(Len(lists[k]) + 1) |-> w[i]]
    IN  [c EXCEPT !.bytes = <<Len(lists)>> \o Join(encoded),
                  !.tries = [t \in DOMAIN ranges |-> [start |-> ranges[t][1], count |-> ranges[t][2], off |-> off(ranges[t][3])]],
                  !.said = [ok |-> TRUE,
                            tries |-> [t \in DOMAIN ranges |->
                                         [start |-> ranges[t][1], end |-> ranges[t][1] + ranges[t][2],
                                          handlers |-> lists[ranges[t][3]]]],
                            lists |-> [k \in DOMAIN lists |->
                                         [at |-> off(k), places |-> places(k), handlers |-> lists[k]]],
                            cut |-> NoList]]
Guarded == Body(Nop \o If(3) \o Const16 \o Ret \o Nop \o Ret, 1)
Shared == Body(<<PackedMark, 0, 0, 0>> \o Nop \o Goto(2) \o Nop \o Ret, 1)
Caught == {<<<<CatchAll, 6>>>>, <<<<1, 6>>, <<2, 7>>>>, <<<<2, 6>>, <<CatchAll, 8>>>>, <<<<1, 2>>>>, <<<<3, 6>>>>}
Tries ==
    {Tried(c, <<<<s, n, 1>>>>, <<h>>, 1, m) : c \in {Guarded, Shared}, s \in 0..8, n \in 0..4, m \in 1..2, h \in Caught}
    \cup {Tried(c, <<<<0, 3, 1>>>>, <<h>>, n, m) : c \in {Guarded, Shared}, n \in 1..6, m \in 1..6, h \in Caught}
    \cup {Tried(Guarded, <<<<0, 3, 1>>>>, <<<<<<1, a>>>>, <<<<CatchAll, 7>>>>>>, n, m) :
            a \in {8, 9, 268435456, Large}, n \in 4..6, m \in 5..6}
    \cup {Tried(c, <<<<s, n, a>>, <<t, 2, b>>>>, <<<<<<1, 6>>>>, <<<<CatchAll, 7>>>>>>, 1, 1) :
            c \in {Guarded, Shared}, s \in 0..4, n \in 0..3, t \in 2..7, a \in 1..2, b \in 1..2}
    \cup {Tried(Guarded, <<<<0, 3, 1>>>>, <<<<<<1, 6>>>>, <<x>>>>, 1, 1) :
            x \in {<<2, 7>>, <<2, 99>>, <<3, 6>>, <<CatchAll, 7>>, <<CatchAll, 99>>}}
BrokenTries ==
    LET c == Tried(Guarded, <<<<0, 3, 1>>>>, <<<<<<1, 6>>, <<CatchAll, 7>>>>>>, 1, 2)
        broken(x) == [x EXCEPT !.said.ok = FALSE]
        l == c.said.lists[1]
        upto(n) == LET m == Cardinality({k \in DOMAIN l.places : l.places[k] <= n})
                   IN  [at |-> l.at, places |-> SubSeq(l.places, 1, m), handlers |-> SubSeq(l.handlers, 1, m - 1)]
        sized(leb) == [c EXCEPT !.bytes = <<1>> \o leb \o <<1, 6, 1, 6, 7>>, !.said.lists = <<>>,
                                !.said.cut = [at |-> 1, places |-> <<>>, handlers |-> <<>>]]
    IN  {broken([c EXCEPT !.bytes = SubSeq(@, 1, n), !.said.lists = <<>>, !.said.cut = upto(n)]) :
            n \in 0..(Len(c.bytes) - 1)}
        \cup {broken(sized(Leb(v, n))) :
                v \in {-Large - 1, -Large, -268435456, -65537, 65537, 268435456, Large}, n \in 5..6}
        \cup {broken(sized(<<129, 128, 128, 128, 128>>))}
        \cup {broken([c EXCEPT !.tries[1].off = n]) : n \in {0, 2, 3, 9}}
        \cup {broken([c EXCEPT !.bytes[1] = 0]), broken([c EXCEPT !.pad = 1, !.units = @ \o Nop])}
        \cup {[c EXCEPT !.ins = 2], [c EXCEPT !.outs = 6], [c EXCEPT !.outs = 5]}

MCCodes == [f \in 1..256 |-> Operands(f - 1)] \o <<Flows, Payloads, Hidden, Tries, BrokenTries>>
=============================================================================
