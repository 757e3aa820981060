------------------------------ MODULE CrossRefs ------------------------------
(***************************************************************************)
(* Who calls what, across the dexes of a session: the core's reverse index *)
(* (dex_item.cpp, dexkit.cpp) and the queries of core_ext/dexkit_ext.cpp   *)
(* that read it.                                                           *)
(*                                                                         *)
(* A dex is a record:                                                      *)
(*   methods, fields  the id tables, sorted: <<class, signature>> and      *)
(*                    <<class, name>>; bytecode indexes count from 0       *)
(*   defs             the classes it defines, in class_defs order          *)
(*   declared         the method indexes its class_data lists              *)
(*   code             the code items, by method index (a method without    *)
(*                    one is abstract, native or only referenced)          *)
(* Dexes count from 1 in load order.  A type is its descriptor: type_ids   *)
(* are sorted and unique, so type indexes and descriptors correspond.      *)
(***************************************************************************)
EXTENDS InvokeArgs

RECURSIVE Flat(_)
Flat(ss) == IF ss = <<>> THEN <<>> ELSE Head(ss) \o Flat(Tail(ss))
Defines(dex, cls) == \E i \in DOMAIN dex.defs : dex.defs[i] = cls
Classes(table) == {table[i][1] : i \in DOMAIN table}
\* The indexes of a class in an id table, ascending.
IdsOf(table, cls) == Asc({i \in 0..(Len(table) - 1) : table[i + 1][1] = cls})

\* class_declare_dex_map: the lowest dex that defines the class, whatever the
\* order the dexes were constructed in; 0 for none.
GetClassDeclaredDex(dexes, cls) ==
    LET by == {d \in DOMAIN dexes : Defines(dexes[d], cls)}
    IN  IF by = {} THEN 0 ELSE CHOOSE d \in by : \A e \in by : d <= e

\* class_method_ids, and the references that wait for their declaring dex.
ClassMethodIds(dex, cls) == Asc({m \in dex.declared : dex.methods[m + 1][1] = cls})
Pending(dex, table, cls) == IF Defines(dex, cls) THEN <<>> ELSE IdsOf(table, cls)

-----------------------------------------------------------------------------
(* InitCache: the reverse lists, by member index.                           *)

Lists == {"call", "get", "put"}
IsFieldAccessOpcode(op) == op \in 82..109
IsFieldReadOpcode(op) == op \in (82..88) \cup (96..102)
Collects(list, op) ==
    CASE list = "call" -> IsInvoke(op)
      [] list = "get" -> IsFieldAccessOpcode(op) /\ IsFieldReadOpcode(op)
      [] list = "put" -> IsFieldAccessOpcode(op) /\ ~IsFieldReadOpcode(op)
TableOf(dex, list) == IF list = "call" THEN dex.methods ELSE dex.fields

\* The indexes a body uses, one per instruction, those past the table dropped.
UsesIn(dex, u, list) ==
    LET at == SelectSeq(Sweep(u, 0), LAMBDA p : Collects(list, OpcodeFromBytecode(Unit(u, p)))
                                                /\ Unit(u, p + 1) < Len(TableOf(dex, list)))
    IN  [k \in DOMAIN at |-> Unit(u, at[k] + 1)]
\* The <<method, index>> pairs of a dex in class_defs order.
UsesOf(dex, list) ==
    LET methods == Flat([i \in DOMAIN dex.defs |-> ClassMethodIds(dex, dex.defs[i])])
        coded == SelectSeq(methods, LAMBDA m : m \in DOMAIN dex.code)
        uses(m) == UsesIn(dex, dex.code[m].units, list)
    IN  Flat([k \in DOMAIN coded |-> [j \in DOMAIN uses(coded[k]) |-> <<coded[k], uses(coded[k])[j]>>]])
ReverseList(dex, id, list) ==
    LET uses == UsesOf(dex, list)
        of(i) == SelectSeq(uses, LAMBDA x : x[2] = i)
    IN  [i \in 0..(Len(TableOf(dex, list)) - 1) |-> [k \in DOMAIN of(i) |-> <<id, of(i)[k][1]>>]]

-----------------------------------------------------------------------------
(* PutCrossRef: which of a dex's lists move to the declaring dex.           *)

\* The two-cursor merge; the reference cursor waits for its own match.
RECURSIVE Matched(_, _, _, _)
Matched(origin, ori, current, cur) ==
    IF ori = <<>> \/ cur = <<>> THEN <<>>
    ELSE IF origin[Head(ori) + 1] = current[Head(cur) + 1]
    THEN <<<<Head(cur), Head(ori)>>>> \o Matched(origin, Tail(ori), current, Tail(cur))
    ELSE Matched(origin, Tail(ori), current, cur)

\* The moves a dex asks for: from `list` of (dex, from) to (to, at).
MovesFrom(dexes, lists, d, kinds, cls) ==
    LET o == GetClassDeclaredDex(dexes, cls)
        dex == dexes[d]
        table(x) == IF kinds = <<"call">> THEN x.methods ELSE x.fields
        ori == IF kinds = <<"call">> THEN ClassMethodIds(dexes[o], cls) ELSE IdsOf(table(dexes[o]), cls)
        pairs == Matched(table(dexes[o]), ori, table(dex), Pending(dex, table(dex), cls))
        used == SelectSeq(pairs, LAMBDA p : \E k \in DOMAIN kinds : lists[kinds[k]][p[1]] # <<>>)
    IN  IF o = 0 \/ o = d THEN <<>>
        ELSE Flat([i \in DOMAIN used |-> [k \in DOMAIN kinds |->
                 [list |-> kinds[k], dex |-> d, from |-> used[i][1], to |-> o, at |-> used[i][2]]]])
\* Type by type; only the order inside a class matters to the lists.
PutCrossRef(dexes, lists, d, kinds) ==
    LET classes == IF kinds = <<"call">> THEN Classes(dexes[d].methods) ELSE Classes(dexes[d].fields)
        RECURSIVE over(_)
        over(S) == IF S = {} THEN <<>>
                   ELSE LET c == CHOOSE c \in S : TRUE
                        IN  MovesFrom(dexes, lists, d, kinds, c) \o over(S \ {c})
    IN  over(classes)

-----------------------------------------------------------------------------
(* The queries.  An index entry is [types, methods].                        *)

FindTypeIdxIndexed(idx, cls) == cls \in idx.types
\* The first match, ascending; -1 for none.
FindMethodIdxIndexed(dex, idx, api) ==
    LET mine == IF api[1] \in DOMAIN idx.methods THEN idx.methods[api[1]] ELSE <<>>
        at == SelectSeq(mine, LAMBDA m : dex.methods[m + 1] = api)
    IN  IF ~FindTypeIdxIndexed(idx, api[1]) \/ at = <<>> THEN -1 ELSE at[1]

IsShadowedMethod(dexes, d, m) ==
    LET o == GetClassDeclaredDex(dexes, dexes[d].methods[m + 1][1]) IN o # 0 /\ o # d

Before(a, b) == a[1] < b[1] \/ (a[1] = b[1] /\ a[2] < b[2])
\* std::sort and std::unique of <<dex, method>> pairs.
SortUnique(pairs) ==
    LET S == {pairs[i] : i \in DOMAIN pairs}
    IN  [k \in 1..Cardinality(S) |-> CHOOSE x \in S : Cardinality({y \in S : Before(y, x)}) = k - 1]

\* Mutant: a caller from another dex is matched on the declaring dex's index.
TargetAsListed(dexes, index, d, origin, api) == FindMethodIdxIndexed(dexes[d], index[d], api)
\* The target's method index in the dex the caller lives in.
LocalTarget(dexes, index, d, origin, api) == FindMethodIdxIndexed(dexes[origin], index[origin], api)

CollectApiCallers(dexes, index, callers, api) ==
    LET listed(d) ==
          LET t == FindMethodIdxIndexed(dexes[d], index[d], api)
          IN  IF t = -1 THEN <<>> ELSE SortUnique(callers[d]["call"][t])
        refs(d) == [k \in DOMAIN listed(d) |->
                      <<listed(d)[k][1], listed(d)[k][2], LocalTarget(dexes, index, d, listed(d)[k][1], api)>>]
        out == Flat([d \in DOMAIN dexes |-> SelectSeq(refs(d), LAMBDA r : r[3] # -1)])
        RECURSIVE insert(_, _)
        insert(s, x) == IF s = <<>> \/ Before(x, Head(s)) THEN <<x>> \o s ELSE <<Head(s)>> \o insert(Tail(s), x)
        sorted[k \in 0..Len(out)] == IF k = 0 THEN <<>> ELSE insert(sorted[k - 1], out[k])
    IN  sorted[Len(out)]

Row(d, m, s, shadowed) == [dex |-> d, method |-> m, off |-> s.off, op |-> s.op, shadowed |-> shadowed]
FindCallSitesToApi(dexes, index, callers, api) ==
    LET refs == CollectApiCallers(dexes, index, callers, api)
        rows(r) == LET at == SelectSeq(EnumerateInvokeSites(dexes[r[1]].code[r[2]].units), LAMBDA s : s.callee = r[3])
                   IN  [k \in DOMAIN at |-> Row(r[1], r[2], at[k], IsShadowedMethod(dexes, r[1], r[2]))]
    IN  Flat([i \in DOMAIN refs |-> rows(refs[i])])

ResolveCallArgs(dexes, index, callers, api, depth, budget) ==
    LET refs == CollectApiCallers(dexes, index, callers, api)
        rows(r, at) == [k \in DOMAIN at |->
                          [row |-> Row(r[1], r[2], at[k], IsShadowedMethod(dexes, r[1], r[2])), args |-> at[k].args]]
        sites(r) == SelectSeq(AnalyzeInvokes(dexes[r[1]].code[r[2]], depth, budget), LAMBDA s : s.callee = r[3])
    IN  Flat([i \in DOMAIN refs |-> rows(refs[i], sites(refs[i]))])

\* The callees of the copy that resolves; a callee is its descriptor.
FindCallSitesFromMethod(dexes, index, method, budget) ==
    LET d == GetClassDeclaredDex(dexes, method[1])
        m == FindMethodIdxIndexed(dexes[d], index[d], method)
        rows(sites) ==
            [k \in DOMAIN sites |->
                [row |-> Row(d, m, sites[k], FALSE),
                 callee |-> IF sites[k].callee < Len(dexes[d].methods) THEN dexes[d].methods[sites[k].callee + 1] ELSE <<>>]]
    IN  IF d = 0 \/ m = -1 \/ m \notin DOMAIN dexes[d].code THEN <<>>
        ELSE rows(AnalyzeInvokes(dexes[d].code[m], 0, budget))

\* LocateFields: <<dex, field index>> of the field, one per dex that names it.
LocateFields(dexes, field) ==
    LET at(d) == {f \in 0..(Len(dexes[d].fields) - 1) : dexes[d].fields[f + 1] = field}
    IN  Flat([d \in DOMAIN dexes |-> IF at(d) = {} THEN <<>> ELSE <<<<d, CHOOSE f \in at(d) : \A g \in at(d) : f <= g>>>>])

EnumerateFieldAccessSites(u) ==
    LET at == SelectSeq(Sweep(u, 0), LAMBDA p : IsFieldAccessOpcode(OpcodeFromBytecode(Unit(u, p))))
    IN  [k \in DOMAIN at |->
           [off |-> at[k], op |-> OpcodeFromBytecode(Unit(u, at[k])), field |-> Unit(u, at[k] + 1)]]

\* Mutant: the rows stay in the order of the locations.
AsEmitted(rows) == rows
\* std::stable_sort by (dex, method, offset).
StableSort(rows) ==
    LET less(a, b) == Before(<<a.dex, a.method>>, <<b.dex, b.method>>)
                      \/ (a.dex = b.dex /\ a.method = b.method /\ a.off < b.off)
        RECURSIVE insert(_, _)
        insert(s, x) == IF s = <<>> \/ less(x, Head(s)) THEN <<x>> \o s ELSE <<Head(s)>> \o insert(Tail(s), x)
        sorted[k \in 0..Len(rows)] == IF k = 0 THEN <<>> ELSE insert(sorted[k - 1], rows[k])
    IN  sorted[Len(rows)]

FieldAccessSites(dexes, lists, field, writers) ==
    LET locs == LocateFields(dexes, field)
        local(d) == {locs[i][2] : i \in {j \in DOMAIN locs : locs[j][1] = d}}
        accessors(l) == SortUnique(lists[l[1]][IF writers THEN "put" ELSE "get"][l[2]])
        rows(a) == LET at == SelectSeq(EnumerateFieldAccessSites(dexes[a[1]].code[a[2]].units),
                                       LAMBDA s : s.field \in local(a[1]) /\ IsFieldReadOpcode(s.op) # writers)
                   IN  [k \in DOMAIN at |-> Row(a[1], a[2], at[k], IsShadowedMethod(dexes, a[1], a[2]))]
        found(l) == Flat([k \in DOMAIN accessors(l) |-> rows(accessors(l)[k])])
    IN  StableSort(Flat([i \in DOMAIN locs |-> found(locs[i])]))
=============================================================================
