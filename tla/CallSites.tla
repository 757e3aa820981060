------------------------------ MODULE CallSites ------------------------------
(***************************************************************************)
(* The call-site and field-site queries of a session, from the warm-up     *)
(* that builds the reverse index to the answers, beside the machine that   *)
(* runs the same bodies.                                                   *)
(*                                                                         *)
(* WarmAnalysisCaches fills every dex's lists (in any order), decides what *)
(* moves to a declaring dex, and moves it: one thread per target dex, each *)
(* move an append and a clear.  EnsureApiResolveIndex then fills its       *)
(* members dex by dex and may run out of memory on the way; the next query *)
(* starts it again over what is there.                                     *)
(***************************************************************************)
EXTENDS CrossRefs

CONSTANTS Apps,      \* the sessions tried: a sequence of sets
          Depths,    \* the depths asked of ResolveCallArgs: 0..n
          RunBound   \* how many instructions the machine runs

VARIABLES app,       \* [dexes, budget, roomy, faults]: the session, kMaxWork and kMaxWindowEntries
                     \* (roomy: never reached), allocation failures left
          stage,     \* where the warm-up or the query stands
          lists,     \* method_caller_ids, field_get_method_ids, field_put_method_ids by dex
          moves,     \* pending_aggregate_*_work_items by source dex
          work,      \* the moves of each target dex's thread
          appended,  \* the targets whose thread is between append and clear
          index,     \* api_resolve_index_
          at,        \* the dex EnsureApiResolveIndex fills next
          answers,   \* what the queries return
          vm         \* the running method: [dex, method, pc, file, result, ran]

vars == <<app, stage, lists, moves, work, appended, index, at, answers, vm>>

dexes == app.dexes
NoAnswers == [to |-> Nothing, args |-> Nothing, from |-> Nothing, reads |-> Nothing, writes |-> Nothing]
NoVm == [dex |-> 0, method |-> 0, pc |-> 0, file |-> Nothing, result |-> <<>>, ran |-> 0]
EmptyEntry == [types |-> {}, methods |-> Nothing]

Init ==
    /\ \E f \in DOMAIN Apps : app \in Apps[f]
    /\ stage = "init"
    /\ lists = [d \in DOMAIN dexes |-> <<>>]
    /\ moves = [d \in DOMAIN dexes |-> <<>>]
    /\ work = [d \in DOMAIN dexes |-> <<>>]
    /\ appended = {}
    /\ index = [d \in DOMAIN dexes |-> EmptyEntry]
    /\ at = 1
    /\ answers = NoAnswers
    /\ vm = NoVm

-----------------------------------------------------------------------------
(* WarmAnalysisCaches. *)

InitCache(d) ==
    /\ stage = "init" /\ lists[d] = <<>>
    /\ lists' = [lists EXCEPT ![d] = [l \in Lists |-> ReverseList(dexes[d], d, l)]]
    /\ stage' = IF \A e \in DOMAIN dexes \ {d} : lists[e] # <<>> THEN "cross" ELSE stage
    /\ UNCHANGED <<app, moves, work, appended, index, at, answers, vm>>

\* Every dex's PutCrossRef reads its own lists and what all dexes declare, so
\* their order does not matter.
PutCrossRefs ==
    /\ stage = "cross"
    /\ moves' = [d \in DOMAIN dexes |-> PutCrossRef(dexes, lists[d], d, <<"call">>)
                                        \o PutCrossRef(dexes, lists[d], d, <<"get", "put">>)]
    /\ stage' = "methods"
    /\ UNCHANGED <<app, lists, work, appended, index, at, answers, vm>>

\* BuildCrossRefAggregates: the work of each target, by source dex.
WorkOf(t, fields) ==
    Flat([d \in DOMAIN dexes |-> SelectSeq(moves[d], LAMBDA m : m.to = t /\ (m.list # "call") = fields)])
ShareWork ==
    /\ stage \in {"methods", "fields"}
    /\ work' = [t \in DOMAIN dexes |-> WorkOf(t, stage = "fields")]
    /\ stage' = IF stage = "methods" THEN "move_methods" ELSE "move_fields"
    /\ UNCHANGED <<app, lists, moves, appended, index, at, answers, vm>>

AppendMove(t) ==
    /\ stage \in {"move_methods", "move_fields"} /\ work[t] # <<>> /\ t \notin appended
    /\ LET m == Head(work[t])
       IN  lists' = [lists EXCEPT ![t][m.list][m.at] = @ \o lists[m.dex][m.list][m.from]]
    /\ appended' = appended \cup {t}
    /\ UNCHANGED <<app, stage, moves, work, index, at, answers, vm>>

ClearMove(t) ==
    /\ t \in appended
    /\ LET m == Head(work[t])
       IN  lists' = [lists EXCEPT ![m.dex][m.list][m.from] = <<>>]
    /\ appended' = appended \ {t}
    /\ work' = [work EXCEPT ![t] = Tail(@)]
    /\ UNCHANGED <<app, stage, moves, index, at, answers, vm>>

\* Every thread's future is joined before the next pass.
JoinThreads ==
    /\ stage \in {"move_methods", "move_fields"} /\ \A t \in DOMAIN work : work[t] = <<>>
    /\ stage' = IF stage = "move_methods" THEN "fields" ELSE "index"
    /\ UNCHANGED <<app, lists, moves, work, appended, index, at, answers, vm>>

-----------------------------------------------------------------------------
(* EnsureApiResolveIndex. *)

\* An entry after the types and the first n method_ids went in again.
Filled(entry, dex, n) ==
    LET ids(c) == SelectSeq([m \in 1..n |-> m - 1], LAMBDA m : dex.methods[m + 1][1] = c)
        had(c) == IF c \in DOMAIN entry.methods THEN entry.methods[c] ELSE <<>>
        classes == {dex.methods[m][1] : m \in 1..n}
    IN  [types |-> entry.types \cup Classes(dex.methods) \cup Classes(dex.fields)
                   \cup {dex.defs[i] : i \in DOMAIN dex.defs},
         methods |-> [c \in DOMAIN entry.methods \cup classes |-> had(c) \o ids(c)]]

IndexDex ==
    /\ stage = "index" /\ at <= Len(dexes)
    /\ index' = [index EXCEPT ![at] = Filled(@, dexes[at], Len(dexes[at].methods))]
    /\ at' = at + 1
    /\ UNCHANGED <<app, stage, lists, moves, work, appended, answers, vm>>

\* The build throws: the query fails, the members stay as they are.
IndexFails ==
    /\ stage = "index" /\ at <= Len(dexes) /\ app.faults > 0
    /\ \E n \in 0..Len(dexes[at].methods) : index' = [index EXCEPT ![at] = Filled(@, dexes[at], n)]
    /\ app' = [app EXCEPT !.faults = @ - 1]
    /\ at' = 1
    /\ UNCHANGED <<stage, lists, moves, work, appended, answers, vm>>

-----------------------------------------------------------------------------
(* The queries, asked of every method and field any dex names.              *)

Methods == UNION {{dexes[d].methods[i] : i \in DOMAIN dexes[d].methods} : d \in DOMAIN dexes}
Fields == UNION {{dexes[d].fields[i] : i \in DOMAIN dexes[d].fields} : d \in DOMAIN dexes}
Answer ==
    /\ stage = "index" /\ at > Len(dexes)
    /\ answers' =
         [to |-> [a \in Methods |-> FindCallSitesToApi(dexes, index, lists, a)],
          args |-> [n \in Depths |-> [a \in Methods |-> ResolveCallArgs(dexes, index, lists, a, n, app.budget)]],
          from |-> [a \in Methods |-> FindCallSitesFromMethod(dexes, index, a, app.budget)],
          reads |-> [f \in Fields |-> FieldAccessSites(dexes, lists, f, FALSE)],
          writes |-> [f \in Fields |-> FieldAccessSites(dexes, lists, f, TRUE)]]
    /\ stage' = "ready"
    /\ UNCHANGED <<app, lists, moves, work, appended, index, at, vm>>

-----------------------------------------------------------------------------
(* The machine.  A register holds [from, half]: an origin and which half of *)
(* a 64-bit value it is ("one" for a 32-bit value).  What is not a literal, *)
(* a reference load or a result is Other.                                   *)

Value(kind, val, half) == [kind |-> kind, val |-> val, half |-> half]
Other == Value("Other", 0, "one")
\* Dalvik's register writers.
Writes(op) == op \in (1..13) \cup (18..28) \cup (32..35) \cup (45..49) \cup (68..74) \cup (82..88) \cup (96..102)
                     \cup (123..229) \cup (239..242) \cup {254, 255}
Moves(op) == op \in 1..9

\* The literal or reference an instruction loads, by the decoder's fields.
Loaded(u, p) ==
    LET d == DecodeInstruction(u, p)
        f == GetFormatFromOpcode(d.op)
    IN  CASE d.op \in 18..20 -> <<"Int", d.B>>
          [] d.op = 21 -> <<"Int", Signed(d.B, 16) * 65536>>
          [] d.op = 24 -> <<"Long", SubSeq(u, p + 2, p + 5)>>
          [] d.op = 25 -> <<"Long", <<0, 0, 0, d.B>>>>
          [] d.op \in {22, 23} ->
               <<"Long", [k \in 1..4 |-> IF k = 1 THEN d.B % 65536
                                         ELSE IF k = 2 /\ d.op = 23 THEN (d.B \div 65536) % 65536
                                         ELSE IF d.B < 0 THEN 65535 ELSE 0]>>
          [] d.op \in {26, 27} -> <<"String", d.B>>
          [] d.op = 28 -> <<"Class", d.B>>
          [] d.op = 34 -> <<"Instance", d.B>>
          [] d.op = 35 -> <<"Array", d.C>>
          [] d.op \in 82..88 -> <<"Field", d.C>>
          [] d.op \in 96..102 -> <<"Field", d.B>>
          [] OTHER -> <<"Other", 0>>

CodeOf(v) == dexes[v.dex].code[v.method]
RegisterFile(c) ==
    [r \in 0..(c.regs - 1) |-> IF r >= c.regs - c.ins THEN Value("Parameter", r - (c.regs - c.ins), "one") ELSE Other]

\* The register file after the instruction at p.
FileAfter(u, p, file, result) ==
    LET d == DecodeInstruction(u, p)
        pair == d.op \in WideA
        literal(x) == Value(x[1], x[2], "one")
        low(one) == IF pair /\ ~Moves(d.op) THEN [one EXCEPT !.half = "low"] ELSE one
        high(one) == IF Moves(d.op) THEN file[d.B + 1] ELSE [one EXCEPT !.half = "high"]
        write(one) == [r \in DOMAIN file |-> IF r = d.A THEN low(one) ELSE IF pair /\ r = d.A + 1 THEN high(one) ELSE file[r]]
    IN  IF ~Writes(d.op) THEN file
        ELSE write(CASE Moves(d.op) -> file[d.B]
                     [] d.op \in MoveResults -> IF result = <<>> THEN Other ELSE Value("Return", result[1], "one")
                     [] OTHER -> literal(Loaded(u, p)))

\* What the runtime's own verifier requires: no 32-bit move of half a value, and
\* a switch with its own kind of table, inside insns[].
Verified(u, p, file) ==
    LET d == DecodeInstruction(u, p)
        pay == p + ExtractBranchOffset(d)
    IN  /\ d.op \in {1, 2, 3, 7, 8, 9} => file[d.B].half = "one"
        /\ d.op \in {43, 44} => /\ Unit(u, pay) = IF d.op = 43 THEN PackedMark ELSE SparseMark
                                /\ pay + GetWidthFromBytecode(u, pay) <= Len(u)

CaseTargets(u, p, pay) ==
    LET n == Unit(u, pay + 1)
    IN  CASE Unit(u, pay) = PackedMark -> {p + S4At(u, pay + 4 + 2 * k) : k \in 0..(n - 1)}
          [] Unit(u, pay) = SparseMark -> {p + S4At(u, pay + 2 + 2 * n + 2 * k) : k \in 0..(n - 1)}
          [] OTHER -> {}
NextPcs(u, p) ==
    LET d == DecodeInstruction(u, p)
        next == p + GetWidthFromBytecode(u, p)
        to == p + ExtractBranchOffset(d)
    IN  CASE d.op \in (14..17) \cup {39, 115} -> {}
          [] d.op \in 40..42 -> {to}
          [] d.op \in 50..61 -> {next, to}
          [] d.op \in {43, 44} -> {next} \cup CaseTargets(u, p, to)
          [] OTHER -> {next}
\* Control stays on instructions.
Runs(u, p) ==
    /\ \E i \in DOMAIN Sweep(u, 0) : Sweep(u, 0)[i] = p
    /\ ~IsPayloadMarker(Unit(u, p))

Enter(d, m) ==
    /\ stage = "ready" /\ vm = NoVm
    /\ m \in DOMAIN dexes[d].code /\ GetClassDeclaredDex(dexes, dexes[d].methods[m + 1][1]) = d
    /\ dexes[d].code[m].units # <<>>
    /\ vm' = [dex |-> d, method |-> m, pc |-> 0, file |-> RegisterFile(dexes[d].code[m]), result |-> <<>>, ran |-> 0]
    /\ UNCHANGED <<app, stage, lists, moves, work, appended, index, at, answers>>

Run ==
    /\ vm # NoVm /\ vm.ran < RunBound
    /\ LET u == CodeOf(vm).units
           op == OpcodeFromBytecode(Unit(u, vm.pc))
       IN  /\ Verified(u, vm.pc, vm.file)
           /\ \E to \in NextPcs(u, vm.pc) :
                /\ Runs(u, to)
                /\ vm' = [vm EXCEPT !.pc = to, !.ran = @ + 1,
                                    !.file = FileAfter(u, vm.pc, vm.file, vm.result),
                                    !.result = IF GetIndexTypeFromOpcode(op) = "method" THEN <<Unit(u, vm.pc + 1)>> ELSE <<>>]
    /\ UNCHANGED <<app, stage, lists, moves, work, appended, index, at, answers>>

\* The instruction throws, before it writes, into a handler of its range.
Throw ==
    /\ vm # NoVm /\ vm.ran < RunBound
    /\ LET c == CodeOf(vm)
       IN  \E t \in DOMAIN c.said.tries : \E h \in DOMAIN c.said.tries[t].handlers :
             /\ c.said.tries[t].start <= vm.pc /\ vm.pc < c.said.tries[t].end
             /\ Runs(c.units, c.said.tries[t].handlers[h][2])
             /\ vm' = [vm EXCEPT !.pc = c.said.tries[t].handlers[h][2], !.ran = @ + 1, !.result = <<>>]
    /\ UNCHANGED <<app, stage, lists, moves, work, appended, index, at, answers>>

Next ==
    \/ \E d \in DOMAIN dexes : InitCache(d) \/ AppendMove(d) \/ ClearMove(d)
    \/ PutCrossRefs \/ ShareWork \/ JoinThreads
    \/ IndexDex \/ IndexFails
    \/ Answer
    \/ \E d \in DOMAIN dexes : \E m \in DOMAIN dexes[d].code : Enter(d, m)
    \/ Run \/ Throw

Spec == Init /\ [][Next]_vars

-----------------------------------------------------------------------------
(* Properties. *)

\* The rows a scan of every body of every dex gives, in the order of the dexes,
\* their methods and the offsets: the instructions Is(dex, operand, opcode)
\* picks.
ScanBody(d, m, Is(_, _, _)) ==
    LET u == dexes[d].code[m].units
        hits == SelectSeq(Sweep(u, 0), LAMBDA p : Is(d, Unit(u, p + 1), OpcodeFromBytecode(Unit(u, p))))
    IN  [k \in DOMAIN hits |->
           [dex |-> d, method |-> m, off |-> hits[k], op |-> OpcodeFromBytecode(Unit(u, hits[k])),
            shadowed |-> \E e \in 1..(d - 1) : Defines(dexes[e], dexes[d].methods[m + 1][1])]]
Scan(Is(_, _, _)) ==
    Flat([d \in DOMAIN dexes |->
            LET coded == Asc(DOMAIN dexes[d].code)
            IN  Flat([k \in DOMAIN coded |-> ScanBody(d, coded[k], Is)])])
RowsOf(answer) == [k \in DOMAIN answer |-> answer[k].row]

\* The rows for a method are those of a scan of every body, each once and in
\* order, with the copies that never run marked: however the threads moved the
\* lists between dexes, wherever a class is declared twice, and after an index
\* build that failed half way.  ResolveCallArgs gives the same rows at every
\* depth, and a method's own callees are those of the copy that resolves.
CallSitesExact ==
    (stage = "ready" /\ vm = NoVm) =>
        \A a \in Methods :
            LET calls(d, i, op) == /\ GetIndexTypeFromOpcode(op) = "method"
                                   /\ i < Len(dexes[d].methods) /\ dexes[d].methods[i + 1] = a
                d == GetClassDeclaredDex(dexes, a[1])
                own == {m \in DOMAIN dexes[d].code : dexes[d].methods[m + 1] = a}
                any(e, i, op) == GetIndexTypeFromOpcode(op) = "method"
            IN  /\ answers.to[a] = Scan(calls)
                /\ \A n \in Depths : RowsOf(answers.args[n][a]) = Scan(calls)
                /\ RowsOf(answers.from[a]) = IF d = 0 \/ own = {} THEN <<>>
                                             ELSE ScanBody(d, CHOOSE m \in own : TRUE, any)

\* The same of a field's reads and of its writes.
FieldSitesExact ==
    (stage = "ready" /\ vm = NoVm) =>
        \A f \in Fields :
            LET names(d, i) == i < Len(dexes[d].fields) /\ dexes[d].fields[i + 1] = f
                reads(d, i, op) == op \in (82..88) \cup (96..102) /\ names(d, i)
                writes(d, i, op) == op \in (89..95) \cup (103..109) /\ names(d, i)
            IN  answers.reads[f] = Scan(reads) /\ answers.writes[f] = Scan(writes)

KindNames == [ConstString |-> "String", ConstInt |-> "Int", ConstWide |-> "Long", ConstClass |-> "Class",
              FieldRead |-> "Field", MethodReturn |-> "Return", Parameter |-> "Parameter",
              NewInstance |-> "Instance", NewArray |-> "Array", ConstNull |-> "Int"]
\* The register holds the reported value, both halves of it.
Holds(file, r, from) ==
    /\ file[r].kind = KindNames[from.kind] /\ file[r].val = from.val
    /\ file[r].half = "low" => file[r + 1] = [file[r] EXCEPT !.half = "high"]
    /\ file[r].half # "high"

\* Whatever path the method ran to get here, through loops, joins, switches and
\* handlers, an invoke has its row and every argument the row gives a value
\* holds that value, at every depth and when a budget ran out.
ArgsSound ==
    vm # NoVm =>
        LET u == CodeOf(vm).units
            callee == Unit(u, vm.pc + 1)
            mine(row) == row.dex = vm.dex /\ row.method = vm.method /\ row.off = vm.pc
        IN  (GetIndexTypeFromOpcode(OpcodeFromBytecode(Unit(u, vm.pc))) = "method"
             /\ callee < Len(dexes[vm.dex].methods)) =>
              \A n \in Depths :
                LET answer == answers.args[n][dexes[vm.dex].methods[callee + 1]]
                    row == {k \in DOMAIN answer : mine(answer[k].row)}
                IN  /\ Cardinality(row) = 1
                    /\ \A k \in row : \A i \in DOMAIN answer[k].args :
                         LET x == answer[k].args[i]
                         IN  x.from.kind # "Unknown" => Holds(vm.file, x.reg, x.from)

\* Asking for one more level of predecessors never loses or changes a value:
\* what a window of n levels establishes, a wider one establishes too.
DepthMonotone ==
    (stage = "ready" /\ vm = NoVm /\ app.roomy) =>
        \A n \in Depths : (n + 1) \in Depths =>
            \A a \in Methods : \A k \in DOMAIN answers.args[n][a] : \A i \in DOMAIN answers.args[n][a][k].args :
                LET x == answers.args[n][a][k].args[i]
                IN  x.from.kind # "Unknown" => answers.args[n + 1][a][k].args[i] = x
=============================================================================
