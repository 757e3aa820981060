---------------------------- MODULE DadStructure ----------------------------
(***************************************************************************)
(* Dominators (DomLt in graph.cpp) and the structuring passes of           *)
(* native/dad_cpp/control_flow.cpp: intervals and the derived sequence,    *)
(* loops, ifs, switches, short-circuit conditions, while blocks and        *)
(* try/catch.  Every pass takes the graph record of DadGraph and returns   *)
(* it; a dominator tree is a function from nodes to nodes, Null at the     *)
(* entry.                                                                  *)
(***************************************************************************)
EXTENDS DadGraph

-----------------------------------------------------------------------------
(* Lengauer-Tarjan. *)

RECURSIVE DomDfs(_, _, _, _)
\* The numbering walk: it also collects the predecessors it meets.
DomDfs(g, acc, v, parent) ==
    LET n == acc.n + 1
        entered == [acc EXCEPT !.n = n, !.semi = Put(@, v, n), !.vertex = Append(@, v),
                               !.parent = Put(@, v, parent)]
        look(a, w) ==
            LET b == [a EXCEPT !.pred = Put(@, w, AddOnce(Get(@, w), v))]
            IN  IF w \notin DOMAIN b.semi THEN DomDfs(g, b, w, v) ELSE b
    IN  FoldLeft(look, entered, all_sucs(g, v))

RECURSIVE Compress(_, _)
\* Path compression: above v only the root of its tree is left.
Compress(s, v) ==
    LET u == s.ancestor[v]
    IN  IF u = Null \/ s.ancestor[u] = Null THEN s
        ELSE LET t == Compress(s, u)
             IN  [t EXCEPT !.label[v] = IF t.semi[t.label[u]] < t.semi[t.label[v]]
                                        THEN t.label[u] ELSE @,
                           !.ancestor[v] = t.ancestor[u]]

\* Mutant: eval answers with the label of before the compression.
EvalStale(s, v) ==
    IF s.ancestor[v] = Null THEN [s |-> s, u |-> v]
    ELSE [s |-> Compress(s, v), u |-> s.label[v]]

\* eval: the state after compression and the node it answers with.
Eval(s, v) ==
    IF s.ancestor[v] = Null THEN [s |-> s, u |-> v]
    ELSE LET t == Compress(s, v) IN [s |-> t, u |-> t.label[v]]

\* Steps 2 and 3 for one vertex, from the highest down.
SemiStep(s, w) ==
    LET low(t, v) == LET e == Eval(t, v)
                     IN  [e.s EXCEPT !.semi[w] = IF e.s.semi[e.u] < @ THEN e.s.semi[e.u] ELSE @]
        one == FoldLeft(low, s, Get(s.pred, w))
        y == one.vertex[one.semi[w]]
        pw == one.parent[w]
        two == [one EXCEPT !.bucket[y] = @ \cup {w}, !.ancestor[w] = pw]
        drain(t, v) == LET e == Eval(t, v)
                       IN  [e.s EXCEPT !.dom = Put(@, v, IF e.s.semi[e.u] < e.s.semi[v]
                                                         THEN e.u ELSE pw)]
        three == FoldLeft(drain, two, SortBy(two.bucket[pw], LAMBDA a, b : a < b))
    IN  [three EXCEPT !.bucket[pw] = {}]

DomLt(g) ==
    LET start(d, V) ==
            [semi |-> d.semi, vertex |-> d.vertex, parent |-> d.parent, pred |-> d.pred,
             label |-> [v \in V |-> v], ancestor |-> [v \in V |-> Null],
             bucket |-> [v \in V |-> {}], dom |-> <<>>]
        step4(s, dom, w) ==
            CASE w \notin DOMAIN dom -> dom
              [] dom[w] # s.vertex[s.semi[w]] ->
                     Put(dom, w, IF dom[w] \in DOMAIN dom THEN dom[dom[w]] ELSE Null)
              [] OTHER -> dom
        finish(s) == Put(FoldLeft(LAMBDA dom, w : step4(s, dom, w), s.dom, Tail(s.vertex)), g.entry, Null)
        number(d) == finish(FoldLeft(SemiStep, start(d, ToSet(d.vertex)), Reverse(Tail(d.vertex))))
    IN  number(DomDfs(g, [n |-> 0, semi |-> <<>>, vertex |-> <<>>, parent |-> <<>>, pred |-> <<>>],
                      g.entry, Null))

RECURSIVE ClimbTo(_, _, _, _)
\* One of the inner loops of CommonDom: climb while the number is above.
ClimbTo(g, idom, n, bound) ==
    IF n = Null \/ Num(g, n) <= bound THEN n
    ELSE ClimbTo(g, idom, IF n \in DOMAIN idom THEN idom[n] ELSE Null, bound)

RECURSIVE CommonDom(_, _, _, _)
CommonDom(g, idom, cur, pred) ==
    IF cur = Null \/ pred = Null THEN IF cur = Null THEN pred ELSE cur
    ELSE IF cur = pred THEN cur
    ELSE LET p == ClimbTo(g, idom, pred, Num(g, cur))
             c == IF p = Null THEN cur ELSE ClimbTo(g, idom, cur, Num(g, p))
         IN  IF c = Null \/ p = Null THEN IF c = Null THEN p ELSE c
             ELSE IF Num(g, c) = Num(g, p) THEN c
             ELSE CommonDom(g, idom, c, p)

\* UpdateDom.
UpdateDom(idom, map) == [n \in DOMAIN idom |-> MapGet(map, idom[n])]

-----------------------------------------------------------------------------
(* Intervals and the derived sequence. *)

RECURSIVE IntervalContains(_, _, _)
IntervalContains(nd, iv, n) ==
    \/ n \in nd[iv].content
    \/ \E m \in nd[iv].content : nd[m].class = "interval" /\ IntervalContains(nd, m, n)

RECURSIVE HeadOf(_, _)
HeadOf(nd, n) == IF nd[n].class = "interval" THEN HeadOf(nd, nd[n].start) ELSE n

RECURSIVE EndOf(_, _)
EndOf(nd, n) == IF nd[n].class # "interval" THEN n
                ELSE IF nd[n].end = Null THEN Null ELSE EndOf(nd, nd[n].end)

RECURSIVE GrowInterval(_, _)
\* The inner `while (change)` of Intervals: all predecessors inside.
GrowInterval(g, iv) ==
    LET add(h, n) == IF \/ IntervalContains(h.nd, iv, n)
                        \/ \E p \in ToSet(all_preds(h, n)) : ~IntervalContains(h.nd, iv, p)
                     THEN h
                     ELSE [h EXCEPT !.nd[iv].content = @ \cup {n}, !.nd[n].interval = iv]
        grown == FoldLeft(add, g, Tail(g.rpo))
    IN  IF grown.nd[iv].content = g.nd[iv].content THEN g ELSE GrowInterval(grown, iv)

\* Interval::ComputeEnd: the member with an outside successor and the largest
\* number, else the head.
ComputeEnd(g, iv) ==
    LET r == g.nd[iv]
        outs == {m \in r.content : \E s \in ToSet(sucs(g, m)) : s \notin r.content}
    IN  IF outs = {} THEN r.start
        ELSE CHOOSE m \in outs : \A o \in outs : Num(g, o) <= Num(g, m)

\* Mutant: an edge also to the heads that already wait.
NextIntervalAllEdges(acc, head) ==
    LET g == acc.g
        iv == NewId(g)
        fresh == [FreshNode("interval", "none", <<>>) EXCEPT
                     !.start = head, !.content = {head}, !.inCatch = g.nd[head].inCatch]
        grown == GrowInterval([g EXCEPT !.nd = Append([@ EXCEPT ![head].interval = iv], fresh)], iv)
        found == SelectSeq(grown.nodes, LAMBDA n : /\ ~IntervalContains(grown.nd, iv, n)
                     /\ \E p \in ToSet(all_preds(grown, n)) : IntervalContains(grown.nd, iv, p))
    IN  [g |-> [grown EXCEPT !.nd[iv].end = ComputeEnd(grown, iv)],
         heads |-> acc.heads \o found, done |-> acc.done \cup {head},
         ivs |-> Append(acc.ivs, iv), edges |-> Append(acc.edges, found)]

\* One head taken from the work list: a node that already waits gets no edge
\* from this interval.
NextInterval(acc, head) ==
    LET g == acc.g
        iv == NewId(g)
        fresh == [FreshNode("interval", "none", <<>>) EXCEPT
                     !.start = head, !.content = {head}, !.inCatch = g.nd[head].inCatch]
        grown == GrowInterval([g EXCEPT !.nd = Append([@ EXCEPT ![head].interval = iv], fresh)], iv)
        out(n) == /\ ~IntervalContains(grown.nd, iv, n)
                  /\ ~Contains(acc.heads, n)
                  /\ \E p \in ToSet(all_preds(grown, n)) : IntervalContains(grown.nd, iv, p)
        found == SelectSeq(grown.nodes, out)
    IN  [g |-> [grown EXCEPT !.nd[iv].end = ComputeEnd(grown, iv)],
         heads |-> acc.heads \o found, done |-> acc.done \cup {head},
         ivs |-> Append(acc.ivs, iv), edges |-> Append(acc.edges, found)]

RECURSIVE IntervalLoop(_)
IntervalLoop(acc) ==
    IF acc.heads = <<>> THEN acc
    ELSE LET head == acc.heads[1]
             rest == [acc EXCEPT !.heads = Tail(@)]
         IN  IntervalLoop(IF head \in acc.done THEN rest ELSE NextInterval(rest, head))

\* Intervals: the interval graph, and the table of nodes it has annotated.
Intervals(g) ==
    LET byHead(r, h) == CHOOSE iv \in ToSet(r.ivs) : r.g.nd[iv].start = h
        unlinked(r) == [r.g EXCEPT !.nodes = r.ivs, !.E = <<>>, !.R = <<>>, !.C = <<>>, !.RC = <<>>,
                          !.rpo = <<>>, !.entry = r.g.nd[g.entry].interval,
                          !.exit = IF g.exit = Null THEN Null ELSE r.g.nd[g.exit].interval]
        heads(r, i) == [k \in DOMAIN r.edges[i] |-> byHead(r, r.edges[i][k])]
        graphs(r) == [g |-> r.g, ig |-> FoldLeft(LAMBDA h, i : EdgesTo(h, r.ivs[i], heads(r, i)),
                                                 unlinked(r), [i \in DOMAIN r.ivs |-> i])]
    IN  graphs(IntervalLoop([g |-> g, heads |-> <<g.entry>>, done |-> {}, ivs |-> <<>>,
                             edges |-> <<>>]))

RECURSIVE DerivedFrom(_, _, _)
\* `fuel` bounds the outer loop for the model: a sequence that has used it up
\* is recorded as open.
DerivedFrom(cur, seq, fuel) ==
    LET Level(next, grown) ==
            CASE Len(next.nodes) = 1 -> [seq |-> grown, nd |-> next.nd, closed |-> TRUE]
              [] fuel = 0 -> [seq |-> grown, nd |-> next.nd, closed |-> FALSE]
              [] OTHER -> DerivedFrom(next, grown, fuel - 1)
        Derive(r) == Level(compute_rpo(r.ig), Append(seq, r.g))
    IN  Derive(Intervals(cur))

DerivedSequence(g) == DerivedFrom(g, <<>>, Len(g.nodes))

-----------------------------------------------------------------------------
(* Loops. *)

RECURSIVE MarkLoopRec(_, _, _, _, _, _)
MarkLoopRec(g, loop, n, lo, hi, iv) ==
    IF Contains(loop, n) THEN loop
    ELSE FoldLeft(LAMBDA l, p : IF lo < Num(g, p) /\ Num(g, p) <= hi /\ iv # Null
                                   /\ IntervalContains(g.nd, iv, p)
                                THEN MarkLoopRec(g, l, p, lo, hi, iv) ELSE l,
                  Append(loop, n), all_preds(g, n))

\* MarkLoop, on the table of the first graph: the header gets its latch.
MarkLoop(g, start, end, iv) ==
    LET head == HeadOf(g.nd, start)
        latch == EndOf(g.nd, end)
        loop == IF latch = Null THEN <<head>>
                ELSE MarkLoopRec(g, <<head>>, latch, Num(g, head), Num(g, latch), iv)
    IN  [g |-> [g EXCEPT !.nd[head].startloop = TRUE, !.nd[head].latch = latch], loop |-> loop]

\* One head of one level: the predecessors in its own interval close loops.
HeadLoops(g, level, head) ==
    LET mark(acc, p) ==
            IF acc.g.nd[p].interval # acc.g.nd[head].interval THEN acc
            ELSE LET m == MarkLoop(acc.g, head, p, acc.g.nd[head].interval)
                 IN  [g |-> m.g, loop |-> FoldLeft(AddOnce, acc.loop, m.loop)]
        r == FoldLeft(mark, [g |-> g, loop |-> <<>>], all_preds(level, head))
    IN  [r.g EXCEPT !.nd[HeadOf(g.nd, head)].loopNodes = r.loop]

\* The heads of a level are the starts of the intervals made from it.
LoopStruct(g, levels) ==
    LET heads(level) == {n \in ToSet(level.nodes) :
                            level.nd[n].interval # Null
                              /\ level.nd[level.nd[n].interval].start = n}
        one(h, level) == FoldLeft(LAMBDA k, n : HeadLoops(k, level, n), h,
                                  SortByNum(h, heads(level)))
    IN  FoldLeft(one, g, levels)

InLoop(loop, n) == n # Null /\ Contains(loop, n)

\* Mutant: a header counts as a condition by its class, which a LoopBlock
\* always has.
LoopTypeByClass(g, n) ==
    LET r == g.nd[n]
        both == InLoop(r.loopNodes, r.true) /\ InLoop(r.loopNodes, r.false)
        endCond == r.latch # Null /\ TypeIs(g, r.latch, "cond")
    IN  [g EXCEPT !.nd[n].looptype = IF ~both THEN "pretest"
                                     ELSE IF endCond THEN "posttest" ELSE "endless"]

LoopType(g, n) ==
    LET r == g.nd[n]
        both == InLoop(r.loopNodes, r.true) /\ InLoop(r.loopNodes, r.false)
        endCond == r.latch # Null /\ TypeIs(g, r.latch, "cond")
        kind == CASE r.type # "cond" -> IF endCond THEN "posttest" ELSE "endless"
                  [] both -> IF endCond THEN "posttest" ELSE "endless"
                  [] OTHER -> "pretest"
    IN  [g EXCEPT !.nd[n].looptype = kind]

\* The way out of an endless loop: the exit with the smallest number, the true
\* branch of a node looked at first.
EndlessFollow(g, loop) ==
    LET look(acc, n) ==
            LET t == g.nd[n].true
                f == g.nd[n].false
                out(x) == x # Null /\ (acc = Null \/ Num(g, x) < Num(g, acc)) /\ ~InLoop(loop, x)
            IN  CASE ~IsCond(g, n) -> acc
                  [] out(t) -> t
                  [] out(f) -> f
                  [] OTHER -> acc
    IN  FoldLeft(look, Null, loop)

LoopFollow(g, n) ==
    LET r == g.nd[n]
        exit(c) == IF InLoop(r.loopNodes, g.nd[c].true) THEN g.nd[c].false ELSE g.nd[c].true
        follow == CASE r.looptype = "pretest" -> IF IsCond(g, n) THEN exit(n) ELSE Null
                    [] r.looptype = "posttest" -> IF IsCond(g, r.latch) THEN exit(r.latch) ELSE Null
                    [] OTHER -> EndlessFollow(g, r.loopNodes)
    IN  [g EXCEPT !.nd = [m \in 1..Len(@) |-> IF m = n \/ Contains(r.loopNodes, m)
                                              THEN [@[m] EXCEPT !.follow.loop = follow] ELSE @[m]]]

-----------------------------------------------------------------------------
(* Ifs and switches. *)

MaxNum(g, S) == CHOOSE n \in S : \A m \in S : Num(g, m) <= Num(g, n)
MinNum(g, S) == CHOOSE n \in S : \A m \in S : Num(g, n) <= Num(g, m)

\* IfStruct: in post order, a condition's follow is the last join it dominates;
\* a join reached only through handlers is no follow of a condition outside.
IfStruct(g, idom) ==
    LET joins(h, n) == {m \in DOMAIN idom : /\ idom[m] = n
                                            /\ Len(Get(h.R, m)) > 1
                                            /\ ~(h.nd[m].inCatch /\ ~h.nd[n].inCatch)}
        one(acc, n) ==
            LET J == joins(acc.g, n)
                f == MaxNum(acc.g, J)
                inner == {x \in acc.un : Num(acc.g, n) < Num(acc.g, x) /\ Num(acc.g, x) < Num(acc.g, f)}
            IN  CASE ~(IsCond(acc.g, n) /\ TypeIs(acc.g, n, "cond")) -> acc
                  [] J = {} -> [acc EXCEPT !.un = @ \cup {n}]
                  [] OTHER -> [g |-> [acc.g EXCEPT !.nd = [m \in 1..Len(@) |->
                                        IF m \in inner \cup {n} THEN [@[m] EXCEPT !.follow.if = f]
                                        ELSE @[m]]],
                               un |-> acc.un \ inner]
    IN  FoldLeft(one, [g |-> g, un |-> {}], post_order(g))

\* SwitchStruct: the same, from the common dominator of the cases.
SwitchStruct(g, idom) ==
    LET one(acc, n) ==
            LET m == FoldLeft(LAMBDA c, s : IF s \notin DOMAIN idom \/ idom[s] # n
                                            THEN CommonDom(g, idom, n, s) ELSE c,
                              n, sucs(g, n))
                J == {x \in DOMAIN idom : idom[x] = m /\ Len(all_preds(g, x)) > 1}
            IN  CASE ~(g.nd[n].class = "switch" /\ TypeIs(g, n, "switch")) -> acc
                  [] J = {} -> [acc EXCEPT !.un = @ \cup {n}]
                  [] OTHER -> [g |-> [acc.g EXCEPT !.nd = [x \in 1..Len(@) |->
                                        IF x \in acc.un \cup {n}
                                        THEN [@[x] EXCEPT !.follow.switch = MaxNum(g, J)] ELSE @[x]]],
                               un |-> {}]
    IN  FoldLeft(one, [g |-> g, un |-> {}], post_order(g)).g

-----------------------------------------------------------------------------
(* Short-circuit conditions. *)

\* MergeShortCircuit: two conditions become one ShortCircuitBlock; only the
\* predecessors that are not in_catch are wired to it.
MergeShortCircuit(acc, n1, n2, isand, isnot, true, false) ==
    LET g == acc.g
        new == NewId(g)
        removed1 == remove_node(g, n1)
        removed == remove_node(removed1, n2)
        ins == (ToSet(preds(g, n1)) \cup ToSet(preds(removed1, n2))) \ {n1, n2}
        outs == (ToSet(sucs(g, n1)) \cup ToSet(sucs(removed1, n2))) \ {n1, n2}
        map == [k \in DOMAIN acc.map \cup {n1, n2} |->
                    IF k \in {n1, n2} \/ acc.map[k] \in {n1, n2} THEN new ELSE acc.map[k]]
        rec == [CopyFrom(FreshNode("sc", "cond", <<>>), g.nd[n1]) EXCEPT
                   !.cond = <<n1, n2, isand, isnot>>]
        pin(h, p) == add_edge(UpdateAttributeWith(h, {p}, map), MapGet(map, p), new)
        wired == FoldLeft(pin, MakeNode(removed, rec), SortByNum(g, ins))
        linked == EdgesTo(wired, new, [i \in 1..Cardinality(outs) |->
                                          MapGet(map, SortByNum(g, outs)[i])])
        moved == IF g.entry \in {n1, n2} THEN [linked EXCEPT !.entry = new] ELSE linked
    IN  [g |-> [moved EXCEPT !.nd[new].true = true, !.nd[new].false = false],
         map |-> map, merges |-> acc.merges + 1, done |-> acc.done \cup {n1, n2},
         idom |-> Put(Without(Without(acc.idom, n1), n2), new,
                      IF n1 \in DOMAIN acc.idom THEN acc.idom[n1] ELSE Null)]

\* One condition of the walk: with a condition on the true side that only it
\* leads to, else with one on the false side.
ShortCircuitOne(acc, n) ==
    LET g == acc.g
        t == g.nd[n].true
        e == g.nd[n].false
        only(x) == IsCond(g, x) /\ Len(preds(g, x)) = 1
        back(x) == n \in {g.nd[x].true, g.nd[x].false}
        visited == [acc EXCEPT !.done = @ \cup {n}]
    IN  CASE ~(IsCond(g, n) /\ TypeIs(g, n, "cond")) \/ n \in acc.done -> acc
          [] n \in {t, e} -> acc
          [] only(t) ->
               CASE back(t) -> acc
                 [] g.nd[t].false = e -> MergeShortCircuit(acc, n, t, TRUE, FALSE, g.nd[t].true, e)
                 [] g.nd[t].true = e -> MergeShortCircuit(acc, n, t, FALSE, TRUE, e, g.nd[t].false)
                 [] OTHER -> visited
          [] only(e) ->
               CASE back(e) -> acc
                 [] g.nd[e].false = t -> MergeShortCircuit(acc, n, e, TRUE, TRUE, g.nd[e].true, t)
                 [] g.nd[e].true = t -> MergeShortCircuit(acc, n, e, FALSE, FALSE, t, g.nd[e].false)
                 [] OTHER -> visited
          [] OTHER -> visited

\* One round of ShortCircuitStruct's outer loop: every condition once, in post
\* order, and new numbers if two were merged.
ShortCircuitRound(g, idom, map) ==
    LET walk == FoldLeft(ShortCircuitOne,
                         [g |-> g, map |-> map, idom |-> idom, merges |-> 0, done |-> {}],
                         post_order(g))
    IN  IF walk.merges = 0 THEN walk ELSE [walk EXCEPT !.g = compute_rpo(@)]

\* The rounds after which it gives up; g as it was before the first.
kMaxIters(g) == IF 10 * Len(g.nodes) > 1000 THEN 10 * Len(g.nodes) ELSE 1000

-----------------------------------------------------------------------------
(* While blocks, try and catch. *)

\* A loop header is wrapped in a LoopBlock that takes its place; the header
\* keeps its outgoing edges, one way, for the walk of the emitters.
WrapHeader(acc, n) ==
    LET g == acc.g
        r == g.nd[n]
        new == NewId(g)
        map == Put(acc.map, n, new)
        rec == [CopyFrom(FreshNode("loop", "cond", <<>>), r) EXCEPT
                   !.start = n,
                   !.true = IF IsCond(g, n) /\ r.type = "cond" THEN r.true ELSE Null,
                   !.false = IF IsCond(g, n) /\ r.type = "cond" THEN r.false ELSE Null]
        outs == [i \in 1..Len(sucs(g, n)) |-> MapGet(map, sucs(g, n)[i])]
        pin(h, p) == add_edge(h, MapGet(map, p), new)
        wired == EdgesTo(FoldLeft(pin, MakeNode(g, rec), preds(g, n)), new, outs)
        moved == IF n = g.entry THEN [wired EXCEPT !.entry = new] ELSE wired
        gone == remove_node(moved, n)
    IN  IF ~r.startloop THEN acc
        ELSE [g |-> [gone EXCEPT !.E = Put(@, n, FoldLeft(AddOnce, <<>>, outs))], map |-> map]

WhileBlockStruct(g, map) ==
    LET r == FoldLeft(WrapHeader, [g |-> g, map |-> map], g.rpo)
    IN  IF r.map = map THEN r ELSE [r EXCEPT !.g = compute_rpo(@)]

\* TryBlock: the first catch block dominated by a block wraps that block.
TryFollow(g, n) ==
    LET r == g.nd[n]
    IN  CASE r.type = "stmt" -> IF sucs(g, n) = <<>> THEN Null ELSE sucs(g, n)[1]
          [] r.type = "cond" -> IF r.follow.loop # Null THEN r.follow.loop ELSE r.follow.if
          [] r.type = "switch" -> r.follow.switch
          [] OTHER -> Null

MakeTry(acc, try) ==
    LET g == acc.g
        new == NewId(g)
        map == Put(acc.map, try, new)
        rec == [FreshNode("try", "none", <<>>) EXCEPT !.start = try, !.num = Num(g, try)]
        pin(h, p) == LET u == UpdateAttributeWith(h, {p}, map)
                     IN  add_edge([u EXCEPT !.E = Put(@, p, SelectSeq(Get(@, p),
                                                 LAMBDA s : s # try))], p, new)
        wired == FoldLeft(pin, MakeNode(g, rec), all_preds(g, try))
    IN  [g |-> [wired EXCEPT !.nd[new].tryFollow = TryFollow(wired, try)],
         map |-> map, tries |-> Put(acc.tries, try, new)]

\* One catch target: a CatchBlock takes the move-exception off its front.
CatchOne(idom, acc, c) ==
    LET g == acc.g
        r == g.nd[c]
        exc == r.ins # <<>> /\ r.ins[1][2] = 0
        ins == IF exc THEN Tail(r.ins) ELSE r.ins
        rec == [FreshNode("catch", "none", ins) EXCEPT
                   !.start = c, !.exc = exc, !.ctype = r.ctype]
        catch == NewId(g)
        one == [acc EXCEPT !.g = MakeNode([g EXCEPT !.nd[c].ins = ins], rec)]
        try == IF c \in DOMAIN idom THEN idom[c] ELSE Null
        two == IF try \in DOMAIN one.tries THEN one ELSE MakeTry(one, try)
    IN  CASE c \in DOMAIN g.C -> acc
          [] try = Null -> one
          [] OTHER -> [two EXCEPT !.g.nd[two.tries[try]].catches = Append(@, catch)]

CatchStruct(g, idom) ==
    LET r == FoldLeft(LAMBDA a, c : CatchOne(idom, a, c),
                      [g |-> g, map |-> <<>>, tries |-> <<>>], SortByNum(g, DOMAIN g.RC))
        h == UpdateAttributeWith(r.g, ToSet(r.g.nodes), r.map)
    IN  [h EXCEPT !.entry = MapGet(r.map, @)]

-----------------------------------------------------------------------------
(* The parts of IdentifyStructures between the passes. *)

\* After the while blocks: references are remapped, the loops are typed.
TypeLoops(g, map) ==
    LET h == UpdateAttributeWith(g, ToSet(g.rpo), map)
        starts == SelectSeq(h.rpo, LAMBDA n : h.nd[n].startloop)
    IN  FoldLeft(LAMBDA k, n : LoopFollow(LoopType(k, n), n), h, starts)

\* Conditions without a follow of their own take that of the loop or switch
\* around them, whichever comes first.
InheritFollows(g, unresolved) ==
    [g EXCEPT !.nd = [n \in 1..Len(@) |->
        LET F == {@[n].follow.loop, @[n].follow.switch} \ {Null}
        IN  IF n \in unresolved /\ F # {} THEN [@[n] EXCEPT !.follow.if = MinNum(g, F)] ELSE @[n]]]
=============================================================================
