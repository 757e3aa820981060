------------------------------ MODULE Dataflow ------------------------------
(***************************************************************************)
(* The data-flow half of DvMethod::BuildProcessedGraph: a method, given as  *)
(* decoded blocks, is translated to the intermediate representation and     *)
(* goes through the passes in the order of the code.  What the passes leave *)
(* behind is compared with what the bytecode does on every path.           *)
(***************************************************************************)
EXTENDS DalvikFlow

CONSTANT Methods   \* the methods, each with the blocks of its snapshot

-----------------------------------------------------------------------------
(* Paths and definitions. *)

RECURSIVE WalksTo(_, _, _)
\* The walks from the entry to n that pass no node more than twice: enough for
\* a definition and a use to lie anywhere on them.
WalksTo(g, path, n) ==
    LET here == Last(path)
        often(x) == Cardinality({i \in 1..Len(path) : path[i] = x})
        next == {s \in ToSet(all_sucs(g, here)) : often(s) < 2}
    IN  (IF here = n THEN {path} ELSE {}) \cup UNION {WalksTo(g, Append(path, s), n) : s \in next}

\* The definition of key in force at l after a walk to l's node: a loc, the
\* parameter -i, or Undefined.
Undefined == -100
InForce(x, key, l, walk) ==
    LET own(j) == {d \in Defs(x, walk[j], key) : j < Len(walk) \/ d < l}
        js == {j \in 1..Len(walk) : own(j) # {}}
    IN  CASE js # {} -> Max(own(Max(js)))
          [] js = {} /\ Contains(x.params, key) -> -(CHOOSE i \in 1..Len(x.params) : x.params[i] = key)
          [] OTHER -> Undefined
Reaching(x, key, l) == {InForce(x, key, l, w) : w \in WalksTo(x.g, <<x.g.entry>>, NodeAt(x, l))}

\* What ART's verifier guarantees and the load gate does not check: no path
\* reads a register before it is defined.
NoUndefinedRead(x) ==
    \A l \in DOMAIN x.ir : \A k \in ToSet(UsedVars(x.ir[l])) : Undefined \notin Reaching(x, k, l)

-----------------------------------------------------------------------------
VARIABLES
    phase,   \* the pass that ran last
    meth,    \* the method
    m,       \* graph, instructions, chains, types, declarations
    defined  \* history: every register is written before it is read

vars == <<phase, meth, m, defined>>

Init ==
    /\ phase = "decoded"
    /\ meth \in Methods
    /\ m = <<>>
    /\ defined = FALSE

Pass(from, to, op(_)) ==
    /\ phase = from
    /\ phase' = to
    /\ m' = op(m)
    /\ UNCHANGED <<meth, defined>>

\* Construct; an exception of a handler ends the decompilation.
TranslateMethod ==
    /\ phase = "decoded"
    /\ m' = Translate(meth)
    /\ phase' = IF m'.bad THEN "failed" ELSE "translated"
    /\ defined' = (~m'.bad /\ NoUndefinedRead(m'))
    /\ UNCHANGED meth
Chain == Pass("translated", "chained", BuildDefUse)
Split == Pass("chained", "split", SplitVariables)
\* Only an instance method has a `this`.
ReuseThis == Pass("split", "this", LAMBDA x : IF meth.static THEN x ELSE MaterializeReusedThis(x))
FixTypes == Pass("this", "typed", FixAllocationResultTypes)
DropDead == Pass("typed", "alive", DeadCodeElimination)
Propagate == Pass("alive", "propagated", RegisterPropagation)
Declare == Pass("propagated", "declared", PlaceDeclarations)

Next == TranslateMethod \/ Chain \/ Split \/ ReuseThis \/ FixTypes \/ DropDead \/ Propagate \/ Declare
Spec == Init /\ [][Next]_vars

-----------------------------------------------------------------------------
(* What the passes must keep. *)

Walk == WalkOrder(meth.blocks)

\* The use-def chains hold, for every register an instruction reads, exactly
\* the definitions some path brings to it, and the def-use chains are their
\* inverse: after the worklist has found them, and still after versions were
\* renamed, `this` was replaced and dead definitions were dropped one by one.
\* When expressions have moved with their chains it still holds of the locals,
\* which is what PlaceDeclarations reads.
ChainsExact ==
    LET local(k) == ~Contains(m.params, k)
        uses == {kl \in DOMAIN m.ud : kl[2] \in DOMAIN m.ir}
    IN  /\ phase \in {"chained", "split", "this", "alive", "propagated"} =>
             \A l \in DOMAIN m.ir : \A k \in ToSet(UsedVars(m.ir[l])) :
               (phase = "propagated" => local(k))
               => ToSet(Get(m.ud, <<k, l>>)) = Reaching(m, k, l) \ {Undefined}
        /\ phase \in {"chained", "split", "this", "alive"} =>
             UNION {{<<kl[1], d, kl[2]>> : d \in ToSet(m.ud[kl])} : kl \in uses}
             = UNION {{<<kd[1], kd[2], u>> : u \in ToSet(m.du[kd])} : kd \in DOMAIN m.du}

AllPaths == Paths(m.g)

\* Splitting registers into versions, materialising a reused `this` and
\* dropping dead definitions change no behaviour: on every path the same calls,
\* stores, tests and results happen on the same values, as the bytecode does
\* them.  A version too few or too many on a join, or a dropped definition that
\* was needed, changes a value some event works on.
RenamingSound ==
    defined /\ phase \in {"translated", "split", "this", "alive"} =>
      \A p \in AllPaths : JavaTrace(m, p) = DalvikTrace(meth, Walk, p)

IsCallEvent(e) == e.tag = "call"
Effects(tr) == SelectSeq(tr, LAMBDA e : ~IsCallEvent(e))
CallsOf(tr) == {e \in ToSet(tr) : IsCallEvent(e)}
ParamAssigned == \E l \in DOMAIN m.ir : Contains(m.params, LhsKey(m, l))

\* Moving an expression into its use changes no store, test or result: the
\* operands it reads have not been reassigned on any way between the two.
\* Calls may move with the expression they are in; none is invented.
PropagationSound ==
    defined /\ phase = "propagated" /\ ~ParamAssigned =>
      \A p \in AllPaths :
        LET java == JavaTrace(m, p)
            dalvik == DalvikTrace(meth, Walk, p)
        IN  /\ Effects(java) = Effects(dalvik)
            /\ CallsOf(java) \subseteq CallsOf(dalvik)
            /\ Len(m.g.rpo) = 1 /\ Cardinality(CallsOf(dalvik)) = 1 => java = dalvik

\* n declares the register before l: by var_to_declare, or because the writer
\* declares a local where it first assigns it.
DeclaresIn(n, key, l) ==
    \/ Contains(m.decl[n], key)
    \/ \E d \in Defs(m, n, key) : n # NodeAt(m, l) \/ d < l

\* Java's scoping: one place declares a local, and every path to a read of it
\* passes there, so no read is outside the scope of the declaration.  Handlers'
\* definitions are not looked at, as in the code.
DeclaredBeforeUse ==
    defined /\ phase = "declared" =>
      \A l \in DOMAIN m.ir : \A k \in ToSet(UsedVars(m.ir[l])) :
        /\ k[1] = "v" /\ ~Contains(m.params, k)
        /\ \A d \in ToSet(Get(m.ud, <<k, l>>)) : ~m.g.nd[NodeAt(m, d)].inCatch
        => LET walks == WalksTo(m.g, <<m.g.entry>>, NodeAt(m, l))
           IN  \E n \in ToSet(m.g.rpo) : DeclaresIn(n, k, l) /\ \A w \in walks : Contains(w, n)
=============================================================================
