---------------------------- MODULE Structuring ----------------------------
(***************************************************************************)
(* The structural half of DvMethod::BuildProcessedGraph and                *)
(* IdentifyStructures, pass by pass, and the two emitters on the result.   *)
(* A behaviour takes one method, given as the blocks of its snapshot,      *)
(* through the passes in the order of the code; the data-flow passes that  *)
(* run between Construct and SplitIfNodes are in DadDataflow.              *)
(***************************************************************************)
EXTENDS ProgramFlow

CONSTANT Snapshots  \* the methods: sequences of raw blocks, entry first

VARIABLES
    phase,   \* the pass that ran last
    snap,    \* the method
    g,       \* the graph
    before,  \* the graph the structuring passes start from
    idoms,   \* immediate dominators
    levels,  \* the derived sequence and whether it ended in one node
    map,     \* node_map of IdentifyStructures
    open,    \* if_unresolved
    iter, change, merges,  \* ShortCircuitStruct: rounds, the flag of its loop, merges so far
    text, ast

rounds == <<iter, change, merges>>
vars == <<phase, snap, g, before, idoms, levels, map, open, rounds, text, ast>>

Empty == [nd |-> <<>>, nodes |-> <<>>, E |-> <<>>, R |-> <<>>, C |-> <<>>, RC |-> <<>>,
          entry |-> Null, exit |-> Null, rpo |-> <<>>]

Init ==
    /\ phase = "raw"
    /\ snap \in Snapshots
    /\ g = Empty /\ before = Empty
    /\ idoms = <<>> /\ map = <<>> /\ open = {}
    /\ levels = [seq |-> <<>>, closed |-> TRUE]
    /\ iter = 0 /\ change = TRUE /\ merges = 0
    /\ text = <<>> /\ ast = <<>>

\* Run a pass: `from` is the pass before it.
Pass(from, to) == phase = from /\ phase' = to /\ UNCHANGED snap

Build ==
    /\ Pass("raw", "built")
    /\ g' = Construct(snap)
    /\ UNCHANGED <<before, idoms, levels, map, open, rounds, text, ast>>

Split ==
    /\ Pass("built", "split")
    /\ g' = SplitIfNodes(g)
    /\ UNCHANGED <<before, idoms, levels, map, open, rounds, text, ast>>

SimplifyGraph ==
    /\ Pass("split", "simple")
    /\ g' = Simplify(g)
    /\ UNCHANGED <<before, idoms, levels, map, open, rounds, text, ast>>

Dominators ==
    /\ Pass("simple", "numbered")
    /\ g' = compute_rpo(g)
    /\ before' = g'
    /\ idoms' = DomLt(g')
    /\ UNCHANGED <<levels, map, open, rounds, text, ast>>

Derive ==
    /\ Pass("numbered", "derived")
    /\ \E d \in {DerivedSequence(g)} :
          /\ levels' = [seq |-> d.seq, closed |-> d.closed]
          /\ g' = [g EXCEPT !.nd = d.nd]
    /\ UNCHANGED <<before, idoms, map, open, rounds, text, ast>>

Loops ==
    /\ Pass("derived", "loops")
    /\ g' = LoopStruct(SwitchStruct(g, idoms), levels.seq)
    /\ UNCHANGED <<before, idoms, levels, map, open, rounds, text, ast>>

\* One turn of `while (change)` in ShortCircuitStruct.
MergeConditions ==
    /\ phase = "loops" /\ change /\ iter < kMaxIters(before)
    /\ \E r \in {ShortCircuitRound(g, idoms, map)} :
          /\ g' = r.g /\ idoms' = r.idom /\ map' = r.map
          /\ change' = (r.merges > 0)
          /\ merges' = merges + r.merges
    /\ iter' = iter + 1
    /\ UNCHANGED <<phase, snap, before, levels, open, text, ast>>

\* Its end, at a fixpoint or at the cap.
ShortCircuits ==
    /\ Pass("loops", "conditions")
    /\ ~change \/ iter = kMaxIters(before)
    /\ idoms' = UpdateDom(idoms, map)
    /\ UNCHANGED <<before, g, levels, map, open, rounds, text, ast>>

Ifs ==
    /\ Pass("conditions", "ifs")
    /\ \E r \in {IfStruct(g, idoms)} : g' = r.g /\ open' = r.un
    /\ UNCHANGED <<before, idoms, levels, map, rounds, text, ast>>

Whiles ==
    /\ Pass("ifs", "whiles")
    /\ \E r \in {WhileBlockStruct(g, map)} :
          /\ map' = r.map
          /\ idoms' = UpdateDom(idoms, r.map)
          /\ g' = InheritFollows(TypeLoops(r.g, r.map), open)
    /\ UNCHANGED <<before, levels, open, rounds, text, ast>>

Catches ==
    /\ Pass("whiles", "structured")
    /\ g' = CatchStruct(g, idoms)
    /\ UNCHANGED <<before, idoms, levels, map, open, rounds, text, ast>>

\* Process and ProcessAst each build the graph anew; the passes are
\* deterministic, so both walks start from this one.
Emit ==
    /\ Pass("structured", "emitted")
    /\ text' = WriteMethod(g)
    /\ ast' = get_ast(g)
    /\ UNCHANGED <<before, g, idoms, levels, map, open, rounds>>

Next ==
    \/ Build \/ Split \/ SimplifyGraph \/ Dominators \/ Derive \/ Loops
    \/ MergeConditions \/ ShortCircuits \/ Ifs \/ Whiles \/ Catches \/ Emit

Spec == Init /\ [][Next]_vars

-----------------------------------------------------------------------------
(* What the passes must keep. *)

\* Every instruction and the handlers that catch what it throws.
Covered(gr) == {<<i, h>> \in UNION {ToSet(gr.nd[n].ins) \X ToSet(Get(gr.C, n)) : n \in ToSet(gr.nodes)} : TRUE}
FirstIns(gr, n) == IF gr.nd[n].ins = <<>> THEN <<>> ELSE Head(gr.nd[n].ins)
Catchers(gr) == {<<c[1], FirstIns(gr, c[2])>> : c \in Covered(gr)}
Branches(gr) == {Last(gr.nd[n].ins) : n \in {m \in ToSet(gr.nodes) : TypeIs(gr, m, "cond") /\ gr.nd[m].ins # <<>>}}

\* SplitIfNodes and Simplify rearrange blocks without changing the method: the
\* new graph runs the same instructions and tests in the same order on every
\* path, and every instruction but the test itself keeps its handlers.  The
\* edge tables, the branch slots and the deferred node_map must agree for this.
FlowPreserved ==
    [][phase' \in {"split", "simple"} =>
         /\ SameFlow(g, g')
         /\ \A c \in Catchers(g) : c[1] \in Branches(g) \/ c \in Catchers(g')]_vars

\* d is on every path from the entry to n.
Dominates(gr, d, n) == d = n \/ n \notin ReachedAvoiding(gr, {gr.entry} \ {d}, d)

\* DomLt computes immediate dominators: semidominators, path compression and
\* the deferred buckets give for every node the closest of the nodes that lie on
\* all its paths from the entry, handlers included.
DominatorsExact ==
    phase = "numbered" =>
      /\ DOMAIN idoms = ToSet(g.nodes)
      /\ idoms[g.entry] = Null
      /\ \A n \in DOMAIN idoms \ {g.entry} :
           LET strict == {d \in DOMAIN idoms \ {n} : Dominates(g, d, n)}
           IN  idoms[n] \in strict /\ \A d \in strict : Dominates(g, d, idoms[n])

\* The two loops that only stop at a fixpoint stop.  DerivedSequenceOf collapses
\* every method to one interval, irreducible ones too.  In ShortCircuitStruct
\* every merge takes two nodes and gives one, and every round but the last
\* merges: the rounds are bounded by the nodes, and the loop ends at a round that
\* found nothing, before its cap.  The comment at control_flow.cpp:466-481 has it
\* fail to converge; that was while remove_node left a removed node's own edges
\* in the tables (graph.cpp:162-178), and a merge with it added a node.
PassesConverge ==
    /\ levels.closed
    /\ phase \in {"loops", "conditions"} =>
         /\ Len(g.nodes) + merges = Len(before.nodes)
         /\ IF change THEN iter <= merges ELSE iter <= merges + 1
    /\ phase = "conditions" => ~change

\* The text and the AST have the same control flow and the same catch clauses,
\* whatever the shape of the method (dast.cpp and writer.cpp are separate walks
\* of one graph, each negating conditions as it goes).  A condition with one
\* block on both sides is at the same place in both, if only as a comment of
\* the text.
EmittersAgree == phase = "emitted" => SameProgram(before, text, ast)

\* Loops the structuring handles: the method does not begin with a loop header
\* and no loop has two back edges.
BackPreds(gr, n) == {p \in ToSet(all_preds(gr, n)) : Num(gr, p) >= Num(gr, n)}
Headers(gr) == {n \in ToSet(gr.nodes) : BackPreds(gr, n) # {}}
SimpleLoops(gr) ==
    /\ all_preds(gr, gr.entry) = <<>>
    /\ \A n \in Headers(gr) : Cardinality(BackPreds(gr, n)) = 1

NoHandlers == \A n \in ToSet(before.nodes) : Get(before.C, n) = <<>>

\* No code is lost: where loops are simple and not under a handler, every
\* instruction that can run is written, although each walk skips nodes it has
\* seen, follows and latches.  A move-exception is part of its catch clause.
NothingLost ==
    /\ phase = "emitted" /\ SimpleLoops(before)
    /\ NoHandlers \/ Headers(before) = {}
    => \A n \in Reachable(before) :
          {i \in ToSet(before.nd[n].ins) : i[2] # 0} \subseteq WrittenIn(text)

\* Joins whose branches cross are outside what nested statements can say.
Joins(gr) == {n \in ToSet(gr.nodes) : Cardinality(ToSet(all_preds(gr, n)) \ BackPreds(gr, n)) > 1}
Uncrossed == \A a, b \in Joins(g) \cap DOMAIN idoms : a # b => idoms[a] # idoms[b]

\* A loop that can be entered at its header only and left on one edge; a
\* do-while is left on the false side of its test.
Body(gr, h) == {n \in Reachable(gr) : Dominates(gr, h, n) /\ h \in ReachedFrom(gr, ToSet(sucs(gr, n)))}
OneExit(gr, h) ==
    /\ BackPreds(gr, h) \subseteq Body(gr, h)
    /\ Cardinality({e \in Body(gr, h) \X (Reachable(gr) \ Body(gr, h)) :
                      Contains(sucs(gr, e[1]), e[2])}) = 1
ExitsOnFalse ==
    \A n \in ToSet(g.nodes) : g.nd[n].looptype = "posttest" =>
        ~Contains(g.nd[n].loopNodes, g.nd[g.nd[n].latch].false)

\* The written program does what the bytecode does: same instructions, same
\* tests (those in comments counted), same order, on every path, for methods
\* without handlers or crossing joins that are acyclic, or have one such loop
\* and no switch.
WrittenMeansGraph ==
    /\ phase = "emitted" /\ SimpleLoops(before) /\ Uncrossed /\ NoHandlers
    /\ Headers(before) # {} =>
         /\ ExitsOnFalse
         /\ \A h, k \in Headers(before) : h = k /\ OneExit(before, h)
         /\ \A n \in ToSet(before.nodes) : ~TypeIs(before, n, "switch")
    => Implements(before, text)
=============================================================================
