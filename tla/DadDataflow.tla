---------------------------- MODULE DadDataflow ----------------------------
(***************************************************************************)
(* The data-flow passes of the decompiler (native/dad_cpp/dataflow.cpp and  *)
(* the loc tables of graph.cpp) as operators on one record m:              *)
(*   g      the graph;                                                     *)
(*   ir     the instruction at each loc that still has one;                 *)
(*   range  the locs [lo, hi) of each node;                                *)
(*   ud, du the chains, keyed by <<register key, loc>>;                    *)
(*   lvars  the Variable, Param or ThisParam of each register number;      *)
(*   ty     the type of each register key;                                 *)
(*   params the keys of the parameters, in order;                          *)
(*   decl   var_to_declare of each node.                                   *)
(* A negative loc -i stands for the i-th parameter.  InferCascadeTypes,     *)
(* which only changes types, is not modelled.                              *)
(***************************************************************************)
EXTENDS DadStructure, DadOpcodes

\* The same function, computed once.
Table(f) == f @@ <<>>
InOrder(S, before(_, _)) ==
    Table([i \in 1..Cardinality(S) |-> CHOOSE x \in S : Cardinality({y \in S \ {x} : before(y, x)}) = i - 1])
Asc(S) == InOrder(S, <)
InNode(m, n, l) == m.range[n][1] <= l /\ l < m.range[n][2]

\* LocWithIns, and what DefinedAt assigns.
LocsOf(m, n) == Asc({l \in DOMAIN m.ir : InNode(m, n, l)})
LhsKey(m, l) == m.ir[l].lhs

get_node_from_loc(m, l) ==
    IF \E n \in DOMAIN m.range : InNode(m, n, l)
    THEN CHOOSE n \in DOMAIN m.range : InNode(m, n, l) ELSE Null
remove_ins(m, l) == [m EXCEPT !.ir = Without(@, l)]

\* number_ins: consecutive locs in reverse post order; body[n] is the node's code.
number_ins(m, body) ==
    LET start(i) == MapThenSumSet(LAMBDA j : Len(body[m.g.rpo[j]]), 1..(i - 1))
        at(n) == CHOOSE i \in 1..Len(m.g.rpo) : m.g.rpo[i] = n
        range == Table([n \in ToSet(m.g.rpo) |-> <<start(at(n)), start(at(n)) + Len(body[n])>>])
        total == start(Len(m.g.rpo) + 1)
        node(l) == CHOOSE n \in DOMAIN range : range[n][1] <= l /\ l < range[n][2]
    IN  [m EXCEPT !.range = range,
                  !.ir = Table([l \in 0..(total - 1) |-> body[node(l)][l - range[node(l)][1] + 1]])]

-----------------------------------------------------------------------------
(* Reaching definitions. *)

\* def_to_loc and defs of BasicReachDef; the parameters belong to node 0, the
\* dummy entry.
DefLocs(m, key) ==
    {l \in DOMAIN m.ir : LhsKey(m, l) = key} \cup {-i : i \in {j \in 1..Len(m.params) : m.params[j] = key}}
Defs(m, n, key) == {l \in DefLocs(m, key) : l >= 0 /\ InNode(m, n, l)}
KeysDefined(m, n) == {LhsKey(m, l) : l \in ToSet(LocsOf(m, n))} \ {NoKey}
Generated(m, n) == {Max(Defs(m, n, k)) : k \in KeysDefined(m, n)}
\* Mutant: a block kills only its own definitions.
KilledOwn(m, n) == UNION {Defs(m, n, k) : k \in KeysDefined(m, n)}
Killed(m, n) == UNION {DefLocs(m, k) : k \in KeysDefined(m, n)}

PredsWithDummy(m, n) == ToSet(all_preds(m.g, n)) \cup (IF n = m.g.entry THEN {0} ELSE {})

RECURSIVE RunReachDef(_, _, _, _)
\* run(): the worklist, seeded with the reverse post order.
RunReachDef(m, A, R, todo) ==
    IF todo = <<>> THEN R
    ELSE LET n == Head(todo)
             newR == UNION {A[p] : p \in PredsWithDummy(m, n)}
             R1 == IF newR # {} THEN [R EXCEPT ![n] = newR] ELSE R
             newA == (R1[n] \ Killed(m, n)) \cup Generated(m, n)
             rest == FoldLeft(AddOnce, Tail(todo),
                              IF R1 # R \/ newA # A[n] THEN all_sucs(m.g, n) ELSE <<>>)
         IN  RunReachDef(m, [A EXCEPT ![n] = newA], R1, rest)
BasicReachDef(m) ==
    LET none == [n \in ToSet(m.g.rpo) |-> {}]
    IN  RunReachDef(m, (0 :> {-i : i \in 1..Len(m.params)}) @@ none, none, m.g.rpo)

\* BuildDefUse: the last earlier definition in the same node, or else every
\* definition that reaches the node.
BuildDefUse(m) ==
    LET R == BasicReachDef(m)
        node(l) == get_node_from_loc(m, l)
        uses == UNION {{<<k, l>> : k \in {x \in ToSet(UsedVars(m.ir[l])) : DefLocs(m, x) # {}}}
                         : l \in DOMAIN m.ir}
        prior(k, l) == {d \in Defs(m, node(l), k) : d < l}
        ud == Table([kl \in uses |->
                 IF prior(kl[1], kl[2]) # {} THEN <<Max(prior(kl[1], kl[2]))>>
                 ELSE Asc(DefLocs(m, kl[1]) \cap R[node(kl[2])])])
        pairs == UNION {{<<<<kl[1], ud[kl][i]>>, kl[2]>> : i \in 1..Len(ud[kl])} : kl \in uses}
    IN  [m EXCEPT !.ud = ud,
                  !.du = [kd \in {p[1] : p \in pairs} |-> Asc({p[2] : p \in {q \in pairs : q[1] = kd}})]]

-----------------------------------------------------------------------------
(* Splitting a register into versions. *)

\* Mutant: a definition and its own uses, without the other definitions they have.
WebOnce(m, key, defs, uses) == <<defs, uses>>
RECURSIVE Web(_, _, _, _)
\* The closure GroupVariables takes over uses of defs and defs of uses.
Web(m, key, defs, uses) ==
    LET defs1 == defs \cup UNION {ToSet(Get(m.ud, <<key, u>>)) : u \in uses}
        uses1 == uses \cup UNION {ToSet(Get(m.du, <<key, d>>)) : d \in defs1}
    IN  IF defs1 = defs /\ uses1 = uses THEN <<defs, uses>> ELSE Web(m, key, defs1, uses1)
\* The keys sort as text, in which -1 comes before -2.
BeforeAsText(a, b) == IF a < 0 /\ b < 0 THEN a > b ELSE a < b
GroupVariables(m, key) ==
    LET locs == InOrder({kd[2] : kd \in {x \in DOMAIN m.du : x[1] = key}}, BeforeAsText)
        add(groups, l) ==
            IF \E i \in 1..Len(groups) : l \in groups[i][1] THEN groups
            ELSE Append(groups, Web(m, key, {l}, ToSet(Get(m.du, <<key, l>>))))
    IN  FoldLeft(add, <<>>, locs)

Prims == {"I", "J", "Z", "B", "S", "C", "F", "D"}
IsRef(t) == t \notin Prims \cup {"", "V"}
\* region_of: R a reference, P a nonzero literal, N zero or null, U anything else.
RegionOf(m, l) ==
    IF l < 0 \/ l \notin DOMAIN m.ir THEN "U"
    ELSE IF ~HasRhs(m.ir[l]) THEN "U"
    ELSE LET rhs == Rhs(m.ir[l])
         IN  CASE IsRef(TypeOf(rhs, m.ty)) -> "R"
               [] rhs.c = "const" /\ ~IsRef(rhs.t) -> IF rhs.x.k = 0 THEN "N" ELSE "P"
               [] OTHER -> "U"

\* SplitConflatedVersion: a reference and a literal that share no use become two
\* versions; the definitions of zero go with the reference.
SplitConflatedVersion(m, key, group) ==
    LET region == [d \in group[1] |-> RegionOf(m, d)]
        conflated == /\ \A d \in group[1] : region[d] # "U"
                     /\ \E d \in group[1] : region[d] = "R"
                     /\ \E d \in group[1] : region[d] = "P"
        reached(u) == {region[d] : d \in ToSet(Get(m.ud, <<key, u>>)) \cap group[1]} \ {"N"}
        clean == \A u \in group[2] : reached(u) \in {{"R"}, {"P"}}
        part(regions, r) == <<{d \in group[1] : region[d] \in regions}, {u \in group[2] : reached(u) = {r}}>>
    IN  [conflated |-> conflated,
         parts |-> IF conflated /\ clean THEN <<part({"R", "N"}, "R"), part({"P"}, "P")>> ELSE <<group>>]

\* The type a version takes from its own definitions: the first trusted one, or
\* the first trusted reference.
VersionType(m, defs) ==
    LET rhsType(l) == TypeOf(Rhs(m.ir[l]), m.ty)
        trusted(l) == /\ HasRhs(m.ir[l])
                      /\ rhsType(l) # ""
                      /\ \/ ~IsIdent(Rhs(m.ir[l]))
                         \/ IsRef(rhsType(l))
                         \/ Rhs(m.ir[l]).v[1] = "tmp"
        locs == SelectSeq(Asc({l \in defs : l >= 0}), trusted)
        refs == SelectSeq(locs, LAMBDA l : IsRef(rhsType(l)))
    IN  CASE refs # <<>> -> rhsType(refs[1])
          [] refs = <<>> /\ locs # <<>> -> rhsType(locs[1])
          [] OTHER -> ""

\* One version: a fresh register, or the parameter's own if the parameter is
\* among its definitions.  Definitions and uses move to it with their chains.
RenameVersion(acc, r, orig, group) ==
    LET m == acc.m
        keep == \E d \in group[1] : d < 0
        reg == IF keep THEN r ELSE acc.nb
        new == CASE keep /\ orig.c = "this" -> ThisParam(V(reg))
                 [] keep /\ orig.c # "this" -> Param(V(reg))
                 [] ~keep -> Variable(V(reg))
        moved(chain, locs) ==
            Table([kl \in {IF x[1] = V(r) /\ x[2] \in locs THEN <<V(reg), x[2]>> ELSE x : x \in DOMAIN chain} |->
                     IF kl[1] = V(reg) /\ kl[2] \in locs THEN chain[<<V(r), kl[2]>>] ELSE chain[kl]])
        own == VersionType(m, group[1])
        type == CASE keep \/ own = "" -> acc.type
                  [] ~keep /\ own # "" /\ SplitConflatedVersion(m, V(r), group).conflated -> "Object"
                  [] OTHER -> own
        lhsed(n, l) == IF l \in group[1] THEN ReplaceLhs(n, new) ELSE n
        used(n, l) == IF l \in group[2] THEN ReplaceVar(n, V(r), new) ELSE n
    IN  [acc EXCEPT
           !.m = [m EXCEPT !.ir = Table([l \in DOMAIN @ |-> used(lhsed(@[l], l), l)]),
                           !.du = moved(@, {d \in group[1] : d >= 0}),
                           !.ud = moved(@, group[2]),
                           !.lvars = (reg :> new) @@ @,
                           !.ty = (V(reg) :> type) @@ @],
           !.nb = IF keep THEN @ ELSE @ + 1]

\* The first loop of SplitVariables: the versions of each register; one that
\* stays whole although conflated becomes an Object, unless it is a parameter.
PlanRegister(acc, r) ==
    LET groups == GroupVariables(acc.m, V(r))
        splits == [i \in 1..Len(groups) |-> SplitConflatedVersion(acc.m, V(r), groups[i])]
        versions == FlattenSeq([i \in 1..Len(splits) |-> splits[i].parts])
        whole == Len(versions) = 1 /\ splits[1].conflated /\ acc.m.lvars[r].c = "var"
    IN  [m |-> IF whole THEN [acc.m EXCEPT !.ty = (V(r) :> "Object") @@ @] ELSE acc.m,
         plan |-> (r :> versions) @@ acc.plan]

\* The second loop renames the registers that have several versions.
SplitVariables(m) ==
    LET regs == Asc({r \in DOMAIN m.lvars : \E kd \in DOMAIN m.du : kd[1] = V(r)})
        nb == Max({0} \cup {r + 1 : r \in DOMAIN m.lvars})
        planned == FoldLeft(PlanRegister, [m |-> m, plan |-> <<>>], regs)
        rename(acc, r) ==
            LET orig == acc.m.lvars[r]
            IN  IF Len(planned.plan[r]) = 1 THEN acc
                ELSE FoldLeft(LAMBDA a, gr : RenameVersion(a, r, orig, gr),
                              [acc EXCEPT !.m.lvars = Without(@, r), !.type = TypeOf(orig, acc.m.ty)],
                              planned.plan[r])
    IN  FoldLeft(rename, [m |-> planned.m, nb |-> nb, type |-> ""], regs).m

-----------------------------------------------------------------------------
(* A reused `this`. *)

AllLocs(m) == DOMAIN m.ir
NodeAt(m, l) == get_node_from_loc(m, l)
Uses(m, l, key) == Contains(UsedVars(m.ir[l]), key)
Reassigns(m, key) == {l \in AllLocs(m) : LhsKey(m, l) = key}
IsAlloc(n) == HasRhs(n) /\ Rhs(n).c \in {"new", "newarr"}

\* The typed sinks of `this`: a return, or an argument of a reference type.
SinkType(m, l, key) ==
    LET n == m.ir[l]
        args == {i \in 2..Len(Rhs(n).a) : Rhs(n).a[i] = key}
    IN  IF n.c = "return" /\ Uses(m, l, key) THEN {m.ret}
        ELSE IF ~HasRhs(n) \/ Rhs(n).c # "invoke" THEN {}
        ELSE LET ps == m.site[Rhs(n).x.k].ps
             IN  IF Len(ps) = Len(Rhs(n).a) - 1 THEN {ps[i - 1] : i \in args} ELSE {}
Sinks(m, key) == {l \in AllLocs(m) : \E t \in SinkType(m, l, key) : IsRef(t)}
SinkTypes(m, key) == {t \in UNION {SinkType(m, l, key) : l \in AllLocs(m)} : IsRef(t)}

RECURSIVE ReachedNodes(_, _, _, _)
\* The nodes a walk reaches that stops at the nodes of `stop`.
ReachedNodes(g, next(_, _), S, stop) ==
    LET T == S \cup UNION {ToSet(next(g, n)) : n \in S \ stop}
    IN  IF T = S THEN S ELSE ReachedNodes(g, next, T, stop)
NodesReassigning(m, key) == {NodeAt(m, l) : l \in Reassigns(m, key)}
EntryReaches(m, key) == ReachedNodes(m.g, sucs, {m.g.entry}, NodesReassigning(m, key))

\* entry_this_read: the receiver is read before it is reassigned, or anywhere a
\* handler leads.
EntryThisRead(m, key) ==
    LET caught == ReachedNodes(m.g, all_sucs, {n \in ToSet(m.g.rpo) : m.g.nd[n].inCatch}, {})
        first(n) == {l \in Reassigns(m, key) : InNode(m, n, l)}
        early(l) == LET n == NodeAt(m, l)
                    IN  n \in EntryReaches(m, key) /\ \A d \in first(n) : l <= d
    IN  \E l \in AllLocs(m) : Uses(m, l, key) /\ (NodeAt(m, l) \in caught \/ early(l))

\* A reassignment is a reference, null, or a reason to decline.
ReassignType(m, l) ==
    LET t == IF HasRhs(m.ir[l]) THEN TypeOf(Rhs(m.ir[l]), m.ty) ELSE ""
    IN  CASE IsRef(t) -> t
          [] ~IsRef(t) /\ HasRhs(m.ir[l]) /\ Rhs(m.ir[l]).c = "const" /\ Rhs(m.ir[l]).x.k = 0
             /\ t \in {"I", "Z", "B", "S", "C"} -> ""
          [] OTHER -> "!"
Assignable(m, sub, super) == sub = super \/ <<sub, super>> \in m.subtypes

\* The type the fresh local would have, and whether it must start as `this`;
\* no anchor when the pass declines.
ThisAnchor(m, key) ==
    LET re == Reassigns(m, key)
        types == {ReassignType(m, l) : l \in re}
        sinks == SinkTypes(m, key)
        scratch == /\ \A l \in re : IsAlloc(m.ir[l]) /\ IsRef(ReassignType(m, l))
                   /\ Cardinality(types) = 1
                   /\ ~EntryThisRead(m, key)
        anchor == IF scratch THEN CHOOSE t \in types : TRUE ELSE CHOOSE t \in sinks : TRUE
        returned == \E l \in AllLocs(m) : m.ir[l].c = "return" /\ Uses(m, l, key)
        upcast == \/ returned /\ anchor = m.ret
                  \/ Assignable(m, m.cls, anchor)
                  \/ \E l \in Sinks(m, key) : NodeAt(m, l) \in EntryReaches(m, key) \ NodesReassigning(m, key)
        refuse == [type |-> "", seed |-> FALSE]
    IN  IF re = {} \/ Cardinality(sinks) > 1 \/ (~scratch /\ sinks = {}) THEN refuse
        ELSE IF ~(\A t \in types : t = "" \/ (t # "!" /\ Assignable(m, t, anchor))) THEN refuse
        ELSE IF ~scratch /\ ~upcast THEN refuse
        ELSE [type |-> anchor, seed |-> ~scratch]

\* Phase B: every mention of the receiver becomes the fresh local, which the
\* entry block may start from `this`; then the chains are built again.
MaterializeReusedThis(m) ==
    LET r == m.thisReg
        key == V(r)
        found == r \in DOMAIN m.lvars /\ m.lvars[r].c = "this" /\ ~m.ctor
        a == ThisAnchor(m, key)
        fresh == 1 + Max({r} \cup DOMAIN m.lvars)
        vX == Variable(V(fresh))
        lhsed(n) == IF n.lhs = key THEN ReplaceLhs(n, vX) ELSE n
        used(n) == IF Contains(UsedVars(n), key) THEN ReplaceVar(n, key, vX) ELSE n
        code(n) == [i \in 1..Len(LocsOf(m, n)) |-> used(lhsed(m.ir[LocsOf(m, n)[i]]))]
        body == Table([n \in ToSet(m.g.rpo) |->
                   IF n = m.g.entry /\ a.seed THEN <<AssignExpression(vX.v, m.lvars[r])>> \o code(n) ELSE code(n)])
        rewritten == [m EXCEPT !.lvars = (fresh :> vX) @@ @, !.ty = (key :> m.cls) @@ (vX.v :> a.type) @@ @]
    IN  IF ~found THEN m
        ELSE IF a.type = "" THEN m
        ELSE BuildDefUse(number_ins(rewritten, body))

\* FixAllocationResultTypes: what `new` or a constructor defines is what was
\* allocated; another reference is overridden only in a single definition.
FixAllocationResultTypes(m) ==
    LET sole(key) == Cardinality(Reassigns(m, key)) = 1
        def(key) == m.ir[CHOOSE l \in Reassigns(m, key) : TRUE]
        fix(acc, l) ==
            LET n == acc.ir[l]
                key == n.lhs
                rhs == Rhs(n)
                made == (rhs.c = "invoke" /\ rhs.x.op = "<init>") \/ rhs.c \in {"new", "newarr"}
                copied == IsIdent(rhs) /\ sole(rhs.v) /\ IsAlloc(def(rhs.v))
                cur == TypeOf(Variable(key), acc.ty)
                got == TypeOf(rhs, acc.ty)
                bt == CASE ~HasRhs(n) \/ key = NoKey -> ""
                        [] HasRhs(n) /\ key # NoKey /\ rhs.c = "invoke" /\ made /\ ~IsRef(got) -> m.site[rhs.x.k].cls
                        [] OTHER -> IF made \/ copied THEN got ELSE ""
            IN  IF IsRef(bt) /\ (~IsRef(cur) \/ (made /\ cur # bt /\ sole(key) /\ key # V(m.thisReg)))
                THEN [acc EXCEPT !.ty = (key :> bt) @@ @] ELSE acc
    IN  FoldLeft(fix, m, Asc(AllLocs(m)))

-----------------------------------------------------------------------------
(* Dead code. *)

\* A definition nobody uses: a call loses its register, another side effect
\* stays, anything else goes.
RECURSIVE UpdateChain(_, _)
DropDef(m, d) ==
    CASE d \notin DOMAIN m.ir -> m
      [] d \in DOMAIN m.ir /\ IsCall(m.ir[d]) -> [m EXCEPT !.ir[d] = RemoveDefinedVar(@)]
      [] d \in DOMAIN m.ir /\ ~IsCall(m.ir[d]) /\ HasSideEffect(m.ir[d]) -> m
      [] OTHER -> remove_ins(UpdateChain(m, d), d)

PutChain(f, k, s) == IF s = <<>> THEN Without(f, k) ELSE Put(f, k, s)
\* UpdateChain: the instruction at loc is going; its operands lose a use, and a
\* definition that loses its last use goes too.
UpdateChain(m, loc) ==
    LET oneDef(var, acc, d) ==
            LET less == RemoveFirst(Get(acc.du, <<var, d>>), loc)
                cut == [acc EXCEPT !.du = IF d < 0 THEN Put(@, <<var, d>>, less) ELSE PutChain(@, <<var, d>>, less),
                                   !.ud = PutChain(@, <<var, loc>>, RemoveFirst(Get(@, <<var, loc>>), d))]
            IN  IF d >= 0 /\ less = <<>> THEN DropDef(cut, d) ELSE cut
        oneVar(acc, var) ==
            FoldLeft(LAMBDA a, d : oneDef(var, a, d), acc, Asc(ToSet(Get(acc.ud, <<var, loc>>))))
    IN  IF loc \notin DOMAIN m.ir THEN m ELSE FoldLeft(oneVar, m, UsedVars(m.ir[loc]))

DeadCodeElimination(m) ==
    LET drop(acc, l) ==
            IF l \in DOMAIN acc.ir /\ LhsKey(acc, l) # NoKey /\ <<LhsKey(acc, l), l>> \notin DOMAIN acc.du
            THEN DropDef(acc, l) ELSE acc
    IN  FoldLeft(drop, m, Asc(AllLocs(m)))

-----------------------------------------------------------------------------
(* Register propagation. *)

ClearPathNode(m, reg, l1, l2) ==
    \A l \in {x \in AllLocs(m) : l1 <= x /\ x < l2} :
        ~(reg # NoKey /\ LhsKey(m, l) = reg) /\ ~HasSideEffect(m.ir[l])

RECURSIVE BuildPath(_, _, _, _)
\* Every node met walking back from n2, stopping at n1.
BuildPath(g, n1, n2, path) ==
    IF n1 = n2 THEN path
    ELSE FoldLeft(LAMBDA p, q : IF Contains(p, q) THEN p ELSE BuildPath(g, n1, q, p),
                  Append(path, n2), all_preds(g, n2))

\* ClearPath: nothing between the two locs assigns reg or has a side effect.
ClearPath(m, reg, l1, l2) ==
    LET n1 == NodeAt(m, l1)
        n2 == NodeAt(m, l2)
        end(n) == IF m.range[n][1] <= l2 /\ l2 <= m.range[n][2] THEN l2 ELSE m.range[n][2]
    IN  IF n1 = n2 THEN ClearPathNode(m, reg, l1 + 1, l2)
        ELSE /\ ClearPathNode(m, reg, l1 + 1, m.range[n1][2])
             /\ \A n \in ToSet(BuildPath(m.g, n1, n2, <<>>)) : ClearPathNode(m, reg, m.range[n][1], end(n))

\* Mutant: the operands of the definition may change on the way.
CanPropagateUnchecked(m, var, i, loc) ==
    /\ loc >= 0 /\ loc # i /\ loc \in DOMAIN m.ir
    /\ IsPropagable(m.ir[loc])
    /\ \/ HasRhs(m.ir[loc]) /\ IsConst(Rhs(m.ir[loc]))
       \/ Len(Get(m.du, <<var, loc>>)) = 1
    /\ HasSideEffect(m.ir[loc]) => ClearPath(m, NoKey, loc, i)

\* The tests of RegisterPropagation on the only definition that reaches a use.
CanPropagate(m, var, i, loc) ==
    /\ loc >= 0 /\ loc # i /\ loc \in DOMAIN m.ir
    /\ IsPropagable(m.ir[loc])
    /\ \/ HasRhs(m.ir[loc]) /\ IsConst(Rhs(m.ir[loc]))
       \/ /\ <<var, loc>> \in DOMAIN m.du /\ Len(m.du[<<var, loc>>]) <= 1
          /\ \A v \in ToSet(UsedVars(m.ir[loc])) : ClearPath(m, v, loc, i)
    /\ HasSideEffect(m.ir[loc]) => ClearPath(m, NoKey, loc, i)

\* One definition's operand: its chain moves from the definition to the use.
MoveChain(m, v, loc, i) ==
    LET old == m.ud[<<v, loc>>]
        ud1 == Put(Without(m.ud, <<v, loc>>), <<v, i>>, Get(m.ud, <<v, i>>) \o old)
        redirect(du, d) == Put(du, <<v, d>>, Append(RemoveFirst(Get(du, <<v, d>>), loc), i))
    IN  IF <<v, loc>> \notin DOMAIN m.ud THEN m
        ELSE [m EXCEPT !.ud = ud1, !.du = FoldLeft(redirect, @, old)]

\* The use takes the right side; a definition without uses goes.
PropagateInto(acc, var, i, loc) ==
    LET m == acc.m
        orig == m.ir[loc]
        replaced == [m EXCEPT !.ir[i] = IF HasRhs(orig) THEN Replace(@, var, Rhs(orig)) ELSE @,
                              !.ud = PutChain(@, <<var, i>>, RemoveFirst(Get(@, <<var, i>>), loc))]
        chained == FoldLeft(LAMBDA h, v : MoveChain(h, v, loc, i), replaced, UsedVars(orig))
        less == RemoveFirst(Get(chained.du, <<var, loc>>), i)
        done == [chained EXCEPT !.du = PutChain(@, <<var, loc>>, less)]
    IN  IF less = <<>> THEN [m |-> remove_ins(done, loc), change |-> TRUE]
        ELSE [acc EXCEPT !.m = done]

RECURSIVE RegisterPropagation(_)
RegisterPropagation(m) ==
    LET oneVar(i, acc, var) ==
            LET locs == Get(acc.m.ud, <<var, i>>)
            IN  IF Len(locs) = 1 /\ CanPropagate(acc.m, var, i, locs[1])
                THEN PropagateInto(acc, var, i, locs[1]) ELSE acc
        oneIns(acc, i) ==
            IF i \notin DOMAIN acc.m.ir THEN acc
            ELSE FoldLeft(LAMBDA a, v : oneVar(i, a, v), acc, UsedVars(acc.m.ir[i]))
        pass == FoldLeft(oneIns, [m |-> m, change |-> FALSE], Asc(AllLocs(m)))
    IN  IF pass.change THEN RegisterPropagation(pass.m) ELSE pass.m

-----------------------------------------------------------------------------
(* Declarations. *)

\* Mutant: the declaration goes to the node of one definition.
DeclareInFirst(m, defs) == CHOOSE n \in defs : \A k \in defs : Num(m.g, n) <= Num(m.g, k)
\* The node every definition's node is dominated by.
DeclareIn(m, defs) ==
    LET idom == DomLt(m.g)
        order == Asc(defs)
    IN  FoldLeft(LAMBDA c, n : CommonDom(m.g, idom, c, n), Head(order), Tail(order))

\* PlaceDeclarations for one use: nothing to do if a definition lies in the
\* common dominator, which then declares the variable itself.
DeclareFor(m, loc, var) ==
    LET locs == ToSet(Get(m.ud, <<var, loc>>))
        defs == {n \in {NodeAt(m, d) : d \in locs} \ {Null} : ~m.g.nd[n].inCatch}
        at(cd) == IF \E d \in locs : InNode(m, cd, d) THEN m ELSE [m EXCEPT !.decl[cd] = AddOnce(@, var)]
    IN  IF defs = {} THEN m ELSE at(DeclareIn(m, defs))
PlaceDeclarations(m) ==
    LET isLocal(key) == key[1] = "v" /\ key[2] \in DOMAIN m.lvars /\ m.lvars[key[2]].c = "var"
        oneNode(acc, n) ==
            FoldLeft(LAMBDA a, l : FoldLeft(LAMBDA b, v : IF isLocal(v) THEN DeclareFor(b, l, v) ELSE b,
                                            a, UsedVars(a.ir[l])), acc, LocsOf(acc, n))
    IN  FoldLeft(oneNode, m, post_order(m.g))

-----------------------------------------------------------------------------
(* From the snapshot to the numbered intermediate representation. *)

\* The parameters' registers: `this` first, a wide parameter taking two.
ParamRegs(meth) ==
    LET ps == (IF meth.static THEN <<>> ELSE <<meth.cls>>) \o meth.ptypes
        start(i) == meth.regs + MapThenSumSet(LAMBDA j : GetTypeSize(ps[j]), 1..(i - 1))
    IN  Table([i \in 1..Len(ps) |-> [reg |-> start(i), type |-> ps[i], this |-> i = 1 /\ ~meth.static]])

\* The type a handler catches: the last entry that names its block.
ExceptionTypeFor(meth, b) ==
    LET all == FlattenSeq([i \in 1..Len(meth.blocks) |-> meth.blocks[i].handlers])
        own == SelectSeq(all, LAMBDA h : h[1] = b)
    IN  IF own = <<>> THEN "" ELSE Last(own)[2]

\* Construct: the blocks are translated in the order of the walk, which shares
\* the parameters, the types and the last result between them.
Translate(meth) ==
    LET ps == ParamRegs(meth)
        node(p) == IF p.this THEN ThisParam(V(p.reg)) ELSE Param(V(p.reg))
        key(i) == V(ps[i].reg)
        at(k) == CHOOSE i \in 1..Len(ps) : key(i) = k
        leaf == Table([k \in {key(i) : i \in 1..Len(ps)} |-> node(ps[at(k)])])
        type == Table([k \in DOMAIN leaf |-> ps[at(k)].type])
        walk == WalkOrder(meth.blocks)
        build(acc, b) ==
            LET add(st) == [st |-> st, body |-> (b :> st.out) @@ acc.body]
            IN  add(TranslateBlock(acc.st, meth.blocks[b].code, ExceptionTypeFor(meth, b)))
        shape(body) ==
            Table([b \in 1..Len(meth.blocks) |->
                    [kind |-> BlockKind(meth.blocks[b].code), mex |-> FALSE,
                     n |-> IF b \in DOMAIN body THEN Len(body[b]) ELSE 0,
                     childs |-> meth.blocks[b].childs, handlers |-> meth.blocks[b].handlers]])
        regs(body) == UNION {UNION {{k[2] : k \in {x \in ToSet(UsedVars(n)) \cup {n.lhs} : x[1] = "v"}}
                                      : n \in ToSet(body[b])} : b \in DOMAIN body}
        vars(rs) == [r \in rs |-> IF V(r) \in DOMAIN leaf THEN leaf[V(r)] ELSE Variable(V(r))]
        unnumbered(g, st, rs) ==
            [g |-> g, ir |-> <<>>, range |-> <<>>, ud |-> <<>>, du |-> <<>>, ty |-> st.ty,
             lvars |-> vars(rs \cup {k[2] : k \in DOMAIN leaf}),
             params |-> [i \in 1..Len(ps) |-> key(i)], decl |-> [n \in ToSet(g.rpo) |-> <<>>],
             thisReg |-> IF meth.static THEN NoReg ELSE meth.regs,
             cls |-> meth.cls, ret |-> meth.ret, ctor |-> meth.ctor, subtypes |-> meth.subtypes,
             site |-> [k \in UNION {{d.at : d \in ToSet(bl.code)} : bl \in ToSet(meth.blocks)} |->
                         (CHOOSE d \in UNION {ToSet(bl.code) : bl \in ToSet(meth.blocks)} : d.at = k).ref],
             bad |-> st.bad]
        numbered(g, done) == number_ins(unnumbered(g, done.st, regs(done.body)),
                                        Table([n \in ToSet(g.rpo) |-> done.body[walk[n]]]))
        method(done) == numbered(Construct(shape(done.body)), done)
    IN  method(FoldLeft(build, [st |-> Fresh(leaf, type), body |-> <<>>], walk))
=============================================================================
