------------------------------ MODULE DadGraph ------------------------------
(***************************************************************************)
(* The control-flow graph of the decompiler (native/dad_cpp/graph.cpp,     *)
(* node.cpp and the data of basic_blocks.cpp) as operators on one record.  *)
(*                                                                         *)
(* A node is its position in g.nd, the table of everything ever made       *)
(* (owned_nodes_); 0 is the null pointer.  g.E, g.R, g.C and g.RC are the  *)
(* tables edges, reverse_edges, catch_edges and reverse_catch_edges:       *)
(* partial functions, because the code asks whether a key exists.          *)
(* Instructions are <<block, k>>; k = 0 is the move-exception that opens   *)
(* a handler.  What an instruction computes is left to DadDataflow.        *)
(***************************************************************************)
EXTENDS Integers, Sequences, FiniteSets, SequencesExt, TLC

Null == 0

Get(f, k) == IF k \in DOMAIN f THEN f[k] ELSE <<>>
Put(f, k, v) == (k :> v) @@ f
Without(f, k) == [x \in DOMAIN f \ {k} |-> f[x]]
AddOnce(s, e) == IF Contains(s, e) THEN s ELSE Append(s, e)
MapGet(m, k) == IF k \in DOMAIN m THEN m[k] ELSE k

-----------------------------------------------------------------------------
(* Nodes. *)

\* Node::Node and BasicBlock::BasicBlock: everything unset.  `class` is the
\* C++ class, `type` the mutually exclusive NodeType flag: a LoopBlock keeps
\* its class but copies the type of the block it wraps.
NodeFields ==
    [num |-> 0, inCatch |-> FALSE, interval |-> Null, startloop |-> FALSE,
     looptype |-> "none", latch |-> Null, loopNodes |-> <<>>,
     follow |-> [if |-> Null, loop |-> Null, switch |-> Null]]
\* CondBlock, and the Condition of a ShortCircuitBlock: <<left, right, isand, isnot>>.
CondFields == [true |-> Null, false |-> Null, neg |-> FALSE, cond |-> <<>>]
SwitchFields == [cases |-> <<>>, keys |-> <<>>, default |-> Null]
\* TryBlock; `start` is also the block a LoopBlock or CatchBlock wraps, and
\* the head of an Interval.
TryFields == [start |-> Null, catches |-> <<>>, tryFollow |-> Null]
CatchFields == [ctype |-> "", exc |-> FALSE]
IntervalFields == [content |-> {}, end |-> Null]
FreshNode(class, type, ins) ==
    [class |-> class, type |-> type, ins |-> ins] @@ NodeFields @@ CondFields
      @@ SwitchFields @@ TryFields @@ CatchFields @@ IntervalFields

\* Node::CopyFrom.
CopyFrom(new, old) ==
    [new EXCEPT !.num = old.num, !.looptype = old.looptype,
                !.interval = old.interval, !.startloop = old.startloop,
                !.type = old.type, !.follow = old.follow, !.latch = old.latch,
                !.loopNodes = old.loopNodes, !.inCatch = old.inCatch]

Num(g, n) == g.nd[n].num
IsCond(g, n) == n # Null /\ g.nd[n].class \in {"cond", "sc", "loop"}
TypeIs(g, n, t) == g.nd[n].type = t

\* The sorts by num; a tie is broken by age (the code leaves it open, or takes
\* the block's name).
SortBy(S, less(_, _)) ==
    [i \in 1..Cardinality(S) |-> CHOOSE n \in S : Cardinality({m \in S : less(m, n)}) = i - 1]
SortByNum(g, S) ==
    SortBy(S, LAMBDA a, b : Num(g, a) < Num(g, b) \/ (Num(g, a) = Num(g, b) /\ a < b))

\* Node, CondBlock and SwitchBlock::UpdateAttributeWith: every reference the
\* node keeps goes through the map; the loop nodes become a set sorted by num.
UpdateNode(g, r, m) ==
    LET one(n) == MapGet(m, n)
    IN  [r EXCEPT !.latch = one(@),
                  !.follow = [k \in DOMAIN @ |-> one(@[k])],
                  !.loopNodes = SortByNum(g, {one(@[i]) : i \in 1..Len(@)}),
                  !.true = one(@), !.false = one(@), !.default = one(@),
                  !.cases = [i \in 1..Len(@) |-> one(@[i])]]

\* Interval and TryBlock inherit UpdateAttributeWith from classes without the
\* branch slots: an Interval keeps everything.
UpdateAttributeWith(g, ns, m) ==
    [g EXCEPT !.nd = [n \in 1..Len(@) |->
        IF n \in ns /\ @[n].class # "interval" THEN UpdateNode(g, @[n], m)
                                               ELSE @[n]]]

-----------------------------------------------------------------------------
(* The tables. *)

sucs(g, n) == Get(g.E, n)
all_sucs(g, n) == Get(g.E, n) \o Get(g.C, n)
preds(g, n) == SelectSeq(Get(g.R, n), LAMBDA p : ~g.nd[p].inCatch)
all_preds(g, n) == Get(g.R, n) \o Get(g.RC, n)

\* MakeNode: own it and add it to the graph; its id is NewId.
NewId(g) == Len(g.nd) + 1
MakeNode(g, r) ==
    [g EXCEPT !.nd = Append(@, r), !.nodes = Append(@, NewId(g))]

add_edge(g, a, b) ==
    [g EXCEPT !.E = Put(@, a, AddOnce(Get(@, a), b)),
              !.R = Put(@, b, AddOnce(Get(@, b), a))]

\* add_catch_edge: both ends take the source's catch type, or the handler's
\* when the source has none.
add_catch_edge(g, a, b) ==
    LET t == IF g.nd[a].ctype # "" THEN g.nd[a].ctype ELSE g.nd[b].ctype
    IN  [g EXCEPT !.nd[a].ctype = t, !.nd[b].ctype = t,
                  !.C = Put(@, a, AddOnce(Get(@, a), b)),
                  !.RC = Put(@, b, AddOnce(Get(@, b), a))]

\* Mutant: the node's own entries stay, as in DAD.
RemoveKeepingOwn(g, n) ==
    LET drop(f, ks) == [k \in DOMAIN f |->
                          IF Contains(ks, k) THEN RemoveFirst(f[k], n) ELSE f[k]]
    IN  [g EXCEPT !.E = drop(@, Get(g.R, n)),
                  !.R = drop(@, Get(g.E, n)),
                  !.C = Without(drop(@, Get(g.RC, n)), n),
                  !.RC = Without(drop(@, Get(g.C, n)), n),
                  !.nodes = RemoveFirst(@, n), !.rpo = RemoveFirst(@, n)]

\* remove_node: out of the neighbours' lists, then the node's own entries go.
remove_node(g, n) ==
    LET drop(f, ks) == [k \in DOMAIN f |->
                          IF Contains(ks, k) THEN RemoveFirst(f[k], n) ELSE f[k]]
        gone(f) == Without(f, n)
    IN  [g EXCEPT !.E = gone(drop(@, Get(g.R, n))),
                  !.R = gone(drop(@, Get(g.E, n))),
                  !.C = gone(drop(@, Get(g.RC, n))),
                  !.RC = gone(drop(@, Get(g.C, n))),
                  !.nodes = RemoveFirst(@, n), !.rpo = RemoveFirst(@, n)]

\* add_edge of one node to a list of others, and the other way round.
EdgesTo(g, n, s) == FoldLeft(LAMBDA h, x : add_edge(h, n, x), g, s)

-----------------------------------------------------------------------------
(* Orders. *)

RECURSIVE PostOrderFrom(_, _, _)
PostOrderFrom(g, acc, n) ==
    LET below == FoldLeft(LAMBDA a, s : IF s \in a.seen THEN a
                                        ELSE PostOrderFrom(g, a, s),
                          [acc EXCEPT !.seen = @ \cup {n}], all_sucs(g, n))
    IN  [below EXCEPT !.out = Append(@, n)]

\* post_order: depth first along normal and catch edges, children first.
post_order(g) ==
    IF g.entry = Null THEN <<>>
    ELSE PostOrderFrom(g, [seen |-> {}, out |-> <<>>], g.entry).out

\* compute_rpo: reached nodes are renumbered, the others keep their number.
compute_rpo(g) ==
    LET po == post_order(g)
        nb == Len(g.nodes) + 1
        at(n) == CHOOSE i \in 1..Len(po) : po[i] = n
        h == [g EXCEPT !.nd = [n \in 1..Len(@) |->
                 IF Contains(po, n) THEN [@[n] EXCEPT !.num = nb - at(n)] ELSE @[n]]]
    IN  [h EXCEPT !.rpo = SortByNum(h, ToSet(h.nodes))]

-----------------------------------------------------------------------------
(* Construct. *)

\* BuildNodeFromBlock: the class follows the last opcode.
BuildNodeFromBlock(b, raw) ==
    FreshNode(raw.kind, raw.kind,
              (IF raw.mex THEN <<<<b, 0>>>> ELSE <<>>) \o [k \in 1..raw.n |-> <<b, k>>])

RECURSIVE Bfs(_, _, _)
\* The breadth-first walk that builds the nodes: handlers are enqueued before
\* children, and a block first reached through a handler edge starts in_catch.
Bfs(snap, q, acc) ==
    IF q > Len(acc.queue) THEN acc
    ELSE LET raw == snap[acc.queue[q]]
             enq(a, t, seed) == IF Contains(a.queue, t) THEN a
                                ELSE [queue |-> Append(a.queue, t),
                                      seeds |-> IF seed THEN a.seeds \cup {t} ELSE a.seeds]
             one == FoldLeft(LAMBDA a, h : enq(a, h[1], TRUE), acc, raw.handlers)
             two == FoldLeft(LAMBDA a, c : enq(a, c[1], FALSE), one, raw.childs)
         IN  Bfs(snap, q + 1, two)

WalkOrder(snap) == Bfs(snap, 1, [queue |-> <<1>>, seeds |-> {}]).queue

\* One child edge: the table, then the slot of the branch or of the switch.
\* `keys` holds, beside each case, the labels node_to_case lists for it.
WireChild(g, n, tgt, kind, key) ==
    LET h == add_edge(g, n, tgt)
        isSwitch == g.nd[n].class = "switch"
        at == CHOOSE i \in 1..Len(g.nd[n].cases) : g.nd[n].cases[i] = tgt
    IN  CASE IsCond(g, n) /\ kind = "true"  -> [h EXCEPT !.nd[n].true = tgt]
          [] IsCond(g, n) /\ kind = "false" -> [h EXCEPT !.nd[n].false = tgt]
          [] isSwitch /\ kind = "case" ->
               IF Contains(g.nd[n].cases, tgt) THEN [h EXCEPT !.nd[n].keys[at] = @ \cup {key}]
               ELSE [h EXCEPT !.nd[n].cases = Append(@, tgt), !.nd[n].keys = Append(@, {key})]
          [] isSwitch /\ kind = "default" -> [h EXCEPT !.nd[n].default = tgt]
          [] OTHER -> h

WireHandler(g, n, h, type) ==
    add_catch_edge([g EXCEPT !.nd[n].ctype = type, !.nd[h].ctype = type], n, h)

\* In_catch spreads, in reverse post order, to a node all of whose earlier
\* predecessors are in_catch.
SpreadInCatch(g, n) ==
    LET early == {p \in ToSet(all_preds(g, n)) : Num(g, p) < Num(g, n)}
    IN  IF early # {} /\ \A p \in early : g.nd[p].inCatch
        THEN [g EXCEPT !.nd[n].inCatch = TRUE] ELSE g

\* Construct: nodes in the order of the walk, edges in block order.  The block
\* at position i of the walk becomes node i.
Construct(snap) ==
    LET walk == Bfs(snap, 1, [queue |-> <<1>>, seeds |-> {}])
        id(b) == CHOOSE i \in 1..Len(walk.queue) : walk.queue[i] = b
        built == [nd |-> [i \in 1..Len(walk.queue) |->
                    LET b == walk.queue[i]
                    IN  [BuildNodeFromBlock(b, snap[b]) EXCEPT !.inCatch = b \in walk.seeds]],
                  nodes |-> [i \in 1..Len(walk.queue) |-> i],
                  E |-> <<>>, R |-> <<>>, C |-> <<>>, RC |-> <<>>,
                  entry |-> 1, exit |-> Null, rpo |-> <<>>]
        wire(g, b) ==
            LET n == id(b)
                childs == FoldLeft(LAMBDA h, c : WireChild(h, n, id(c[1]), c[2], c[3]),
                                   g, snap[b].childs)
                all == FoldLeft(LAMBDA h, c : WireHandler(h, n, id(c[1]), c[2]),
                                childs, snap[b].handlers)
            IN  IF IsCond(all, n) /\ all.nd[n].false = Null
                THEN [all EXCEPT !.nd[n].false = all.nd[n].true] ELSE all
        wired == FoldLeft(wire, built,
                          SelectSeq([b \in 1..Len(snap) |-> b],
                                    LAMBDA b : Contains(walk.queue, b)))
        spread(g) == FoldLeft(SpreadInCatch, g, g.rpo)
        rets(g) == SelectSeq(g.nodes, LAMBDA n : TypeIs(g, n, "ret"))
        finish(g) == [g EXCEPT !.exit = IF Len(rets(g)) = 1 THEN rets(g)[1] ELSE Null]
    IN  finish(spread(compute_rpo(wired)))

-----------------------------------------------------------------------------
(* SplitIfNodes and Simplify. *)

\* Mutant: the back edge of a condition that loops to itself is not moved to the
\* condition half.
RedirectPredPlain(g, acc, node, pre, cnd, p) ==
    LET mapped == MapGet(acc.map, p)
    IN  IF ~Contains(sucs(acc.g, p), node)
        THEN [acc EXCEPT !.g = add_catch_edge(@, mapped, pre)]
        ELSE [acc EXCEPT !.g = add_edge(@, mapped, pre)]

\* One predecessor of a node that is being split.
RedirectPred(g, acc, node, pre, cnd, p) ==
    LET mapped == MapGet(acc.map, p)
        from == IF p = node THEN cnd ELSE mapped
        slot(h, k) == IF IsCond(g, p) /\ TypeIs(g, p, "cond") /\ IsCond(h, from)
                         /\ g.nd[p][k] = node
                      THEN [h EXCEPT !.nd[from][k] = pre] ELSE h
    IN  IF ~Contains(sucs(acc.g, p), node)
        THEN [acc EXCEPT !.g = add_catch_edge(@, mapped, pre)]
        ELSE [acc EXCEPT !.g = add_edge(slot(slot(@, "true"), "false"), from, pre)]

\* A condition with more than one instruction becomes a statement block and a
\* condition of one instruction.
SplitOne(acc, node) ==
    LET g == acc.g
        r == g.nd[node]
        pre == NewId(g)
        cnd == pre + 1
        preRec == [CopyFrom(FreshNode("stmt", "stmt", Front(r.ins)), r) EXCEPT !.type = "stmt"]
        cndRec == [CopyFrom(FreshNode("cond", "cond", <<Last(r.ins)>>), r)
                     EXCEPT !.true = r.true, !.false = r.false]
        made == [g |-> MakeNode(MakeNode(g, preRec), cndRec),
                 map |-> Put(acc.map, node, pre)]
        ins == FoldLeft(LAMBDA a, p : RedirectPred(a.g, a, node, pre, cnd, p),
                        made, all_preds(g, node))
        outs == EdgesTo(ins.g, cnd, [i \in 1..Len(sucs(ins.g, node)) |->
                                        MapGet(ins.map, sucs(ins.g, node)[i])])
        catch == FoldLeft(LAMBDA h, s : add_catch_edge(h, pre, MapGet(ins.map, s)),
                          outs, Get(outs.C, node))
        moved == IF node = g.entry THEN [catch EXCEPT !.entry = pre] ELSE catch
        linked == UpdateAttributeWith(add_edge(moved, pre, cnd), {pre, cnd}, ins.map)
    IN  [g |-> remove_node(linked, node), map |-> ins.map]

SplitIfNodes(g) ==
    LET multi == SelectSeq(g.nodes, LAMBDA n : IsCond(g, n) /\ TypeIs(g, n, "cond")
                                               /\ Len(g.nd[n].ins) > 1)
        rest == {n \in ToSet(g.nodes) : ~(IsCond(g, n) /\ TypeIs(g, n, "cond"))}
        done == FoldLeft(SplitOne, [g |-> g, map |-> <<>>], multi)
    IN  UpdateAttributeWith(done.g, rest, done.map)

\* An empty statement block is bypassed unless a switch leads to it.
Bypass(acc, node, suc) ==
    LET map == Put(acc.map, node, suc)
        move(h, p) ==
            LET u == UpdateAttributeWith(h, {p}, map)
            IN  IF Contains(sucs(u, p), node) THEN add_edge(u, p, suc)
                                              ELSE add_catch_edge(u, p, suc)
        moved == FoldLeft(move, acc.g, all_preds(acc.g, node))
        g == IF node = moved.entry THEN [moved EXCEPT !.entry = suc] ELSE moved
    IN  [acc EXCEPT !.g = remove_node(g, node), !.map = map, !.redo = TRUE]

\* A statement block takes over the block that only it leads to.
Merge(acc, node, suc) ==
    LET g == [acc.g EXCEPT !.nd[node].ins = @ \o acc.g.nd[suc].ins]
        next == sucs(g, suc)
        h == IF next = <<>> THEN g ELSE add_edge(g, node, next[1])
    IN  [acc EXCEPT !.g = remove_node(h, suc), !.redo = TRUE]

CanMerge(g, node, suc) ==
    /\ TypeIs(g, suc, "stmt")
    /\ Len(all_preds(g, suc)) = 1
    /\ suc \notin DOMAIN g.C
    /\ suc # node
    /\ suc # g.entry

SimplifyOne(acc, node) ==
    LET g == acc.g
        out == all_sucs(g, node)
    IN  CASE ~(TypeIs(g, node, "stmt") /\ Contains(g.nodes, node)) ->
                 [acc EXCEPT !.update = @ \cup {node}]
          [] Len(out) # 1 -> acc
          [] g.nd[node].ins = <<>> ->
                 IF \/ out[1] = node
                    \/ \E p \in ToSet(all_preds(g, node)) : TypeIs(g, p, "switch")
                 THEN acc ELSE Bypass(acc, node, out[1])
          [] CanMerge(g, node, out[1]) -> Merge(acc, node, out[1])
          [] OTHER -> acc

RECURSIVE Simplify(_)
Simplify(g) ==
    LET pass == FoldLeft(SimplifyOne, [g |-> g, map |-> <<>>, update |-> {}, redo |-> FALSE],
                         g.nodes)
        h == UpdateAttributeWith(pass.g, pass.update, pass.map)
    IN  IF pass.redo THEN Simplify(h) ELSE h
=============================================================================
