----------------------------- MODULE InvokeArgs -----------------------------
(***************************************************************************)
(* Which value reaches each argument register of an invoke: the            *)
(* bounded-window register analysis of core_ext/invoke_args.cpp.  Code     *)
(* items are those of CodeVerifier; offsets count code units, blocks count *)
(* from 1.                                                                 *)
(***************************************************************************)
EXTENDS SnapshotBuilder

\* The gate every pass of the file spells: the opcodes whose BBBB is a
\* method_ids index.
IsInvoke(op) == op \in (110..114) \cup (116..120) \cup {250, 251}
IsRangeInvoke(op) == op \in (116..120) \cup {251}

\* The linear sweep; a payload is swept as one wide nop.
RECURSIVE Sweep(_, _)
Sweep(u, p) == IF p >= Len(u) THEN <<>> ELSE <<p>> \o Sweep(u, p + GetWidthFromBytecode(u, p))

EnumerateInvokeSites(u) ==
    LET at == SelectSeq(Sweep(u, 0), LAMBDA p : IsInvoke(OpcodeFromBytecode(Unit(u, p))))
    IN  [k \in DOMAIN at |->
           [off |-> at[k], op |-> OpcodeFromBytecode(Unit(u, at[k])), callee |-> Unit(u, at[k] + 1)]]

-----------------------------------------------------------------------------
(* BuildCfg. *)

\* The case targets of a switch at p, when the marker is its own and the table
\* fits.
SwitchTargets(u, p) ==
    LET op == OpcodeFromBytecode(Unit(u, p))
        pay == p + S4At(u, p + 1)
        size == Unit(u, pay + 1)
        tbl == IF op = 43 THEN pay + 4 ELSE pay + 2 + 2 * size
    IN  IF \/ pay < 0 \/ pay + 2 > Len(u)
           \/ Unit(u, pay) # (IF op = 43 THEN PackedMark ELSE SparseMark)
           \/ tbl + 2 * size > Len(u)
        THEN {}
        ELSE {p + S4At(u, tbl + 2 * k) : k \in 0..(size - 1)}

\* The explicit targets of the instruction at p, before `note` and the leader
\* pass drop those that are no instruction.
BranchTargets(u, p) ==
    LET w == Unit(u, p)
        op == OpcodeFromBytecode(w)
    IN  CASE op = 40 -> {p + Signed(InstAA(w), 8)}
          [] op = 41 -> {p + Signed(Unit(u, p + 1), 16)}
          [] op = 42 -> {p + S4At(u, p + 1)}
          [] op \in 50..61 -> {p + Signed(Unit(u, p + 1), 16)}
          [] op \in {43, 44} -> SwitchTargets(u, p)
          [] OTHER -> {}
FallsThrough(op) == op \notin (14..17) \cup {115, 39} \cup (40..42)

\* The handler addresses of one encoded_catch_handler.
HandlerAddrs(b, p) ==
    LET size == ReadSleb128(b, p)
        typed == ReadClauses(b, size.p, IF size.v < 0 THEN -size.v ELSE size.v)
    IN  {typed[2][k][2] : k \in DOMAIN typed[2]}
        \cup IF size.v <= 0 /\ typed[1] < Len(b) THEN {ReadUleb128(b, typed[1]).v} ELSE {}
Handlers(c) ==
    UNION {HandlerAddrs(c.bytes, c.tries[t].off) : t \in {k \in DOMAIN c.tries : c.tries[k].off < Len(c.bytes)}}

\* The block that owns an offset, and one past a block's last unit.
BlockOf(starts, off) == Cardinality({b \in DOMAIN starts : starts[b] <= off})
EndOf(c, starts, b) == IF b < Len(starts) THEN starts[b + 1] ELSE Len(c.units)

\* Exception edges are left out: a handler's register file is unknown anyway.
BuildCfg(c) ==
    LET u == c.units
        swept == Sweep(u, 0)
        op(p) == OpcodeFromBytecode(Unit(u, p))
        leaders(offs, to, next, handlers) ==
            {0} \cup UNION {to[p] : p \in offs}
            \cup {next[p] : p \in {q \in offs : ~FallsThrough(op(q)) \/ to[q] # {}}}
            \cup handlers
        edges(starts, offs, to, next) ==
            UNION {{<<BlockOf(starts, p), BlockOf(starts, t)>> : t \in to[p]} : p \in offs}
            \cup {<<BlockOf(starts, p), BlockOf(starts, next[p])>> :
                    p \in {q \in offs : /\ FallsThrough(op(q)) /\ next[q] \in offs
                                        /\ BlockOf(starts, q) # BlockOf(starts, next[q])}}
        blocks(starts, es, offs, handlers) ==
            [starts |-> starts,
             preds |-> [b \in DOMAIN starts |-> Asc({e[1] : e \in {x \in es : x[2] = b}})],
             isHandler |-> {b \in DOMAIN starts : starts[b] \in handlers},
             hasInvoke |-> {BlockOf(starts, p) : p \in {q \in offs : IsInvoke(op(q))}}]
        graph(offs, to, next, handlers) ==
            LET starts == Asc(leaders(offs, to, next, handlers) \cap offs)
            IN  blocks(starts, edges(starts, offs, to, next), offs, handlers)
        built(offs) == graph(offs, [p \in offs |-> BranchTargets(u, p) \cap offs],
                             [p \in offs |-> p + GetWidthFromBytecode(u, p)], Handlers(c))
    IN  built({swept[i] : i \in DOMAIN swept})

-----------------------------------------------------------------------------
(* Register states: a function from the tracked registers to their origins. *)

Origin(kind, val) == [kind |-> kind, val |-> val, crossed |-> FALSE, wide |-> FALSE]
Unknown == Origin("Unknown", 0)
tombstone == [Unknown EXCEPT !.crossed = TRUE]
Nothing == [r \in {} |-> Unknown]

SameOrigin(a, b) ==
    /\ a.kind = b.kind
    /\ CASE a.kind = "ConstNull" -> TRUE
         [] a.kind = "Unknown" -> a.crossed = b.crossed
         [] OTHER -> a.val = b.val

param_state(c) ==
    LET first == IF c.regs > c.ins THEN c.regs - c.ins ELSE 0
    IN  [r \in first..(first + c.ins - 1) |-> Origin("Parameter", r - first)]

\* A register that differs or is absent on one side keeps a tombstone.
meet_into(dst, src) ==
    [r \in DOMAIN dst \cup DOMAIN src |->
        IF r \in DOMAIN dst \cap DOMAIN src /\ SameOrigin(dst[r], src[r]) THEN dst[r] ELSE tombstone]

Without(st, regs) == [r \in DOMAIN st \ regs |-> st[r]]
\* Mutant: a narrow write leaves the pair whose upper half it destroys.
KillNothing(st, r) == st
\* A 64-bit value parked at r - 1 also owns r.
kill_wide_alias(st, r) ==
    IF (r - 1) \in DOMAIN st /\ st[r - 1].wide THEN Without(st, {r - 1}) ELSE st
is_wide_dest(op) == op \in WideA
set_reg_op(st, r, a, op) ==
    LET kept == Without(st, {r} \cup {x \in {r + 1} : is_wide_dest(op)})
    IN  kill_wide_alias([x \in DOMAIN kept \cup {r} |->
                            IF x = r THEN [a EXCEPT !.wide = is_wide_dest(op)] ELSE kept[x]], r)
erase_reg_op(st, r, op) ==
    kill_wide_alias(Without(st, {r} \cup {x \in {r + 1} : is_wide_dest(op)}), r)

-----------------------------------------------------------------------------
(* run_block. *)

Zero(v) == IF v = 0 THEN Origin("ConstNull", 0) ELSE Origin("ConstInt", v)
\* A 64-bit literal as its four units, sign extended.
Extended(units, n) == [k \in 1..4 |-> IF k <= n THEN units[k] ELSE IF units[n] >= 32768 THEN 65535 ELSE 0]

MovesA == {1, 4, 7}
MovesAA == {2, 5, 8}
Moves16 == {3, 6, 9}
MoveResults == 10..12
ReadsField(op) == op \in (82..88) \cup (96..102)
\* The writers of vAA and of vA whose value is not tracked.
ClearsAA(op) == op \in {13} \cup (45..49) \cup (68..74) \cup (144..175) \cup (216..226) \cup {254, 255}
ClearsA(op) == op \in {32, 33} \cup (123..143) \cup (176..215)
\* iget-*-quick: vA is written and no field index is left to report.
ClearsQuick(op) == op \in (227..229) \cup (239..242)

\* The origin the literal and reference loads define; "" for other opcodes.
Loads(u, q) ==
    LET op == OpcodeFromBytecode(Unit(u, q))
        BBBB == Unit(u, q + 1)
    IN  CASE op = 18 -> Zero(Signed(InstB(Unit(u, q)), 4))
          [] op = 19 -> Zero(Signed(BBBB, 16))
          [] op = 20 -> Origin("ConstInt", S4At(u, q + 1))
          [] op = 21 -> Origin("ConstInt", Signed(BBBB, 16) * 65536)
          [] op = 22 -> Origin("ConstWide", Extended(<<BBBB>>, 1))
          [] op = 23 -> Origin("ConstWide", Extended(SubSeq(u, q + 2, q + 3), 2))
          [] op = 24 -> Origin("ConstWide", Extended(SubSeq(u, q + 2, q + 5), 4))
          [] op = 25 -> Origin("ConstWide", <<0, 0, 0, BBBB>>)
          [] op = 26 -> Origin("ConstString", BBBB)
          [] op = 27 -> Origin("ConstString", S4At(u, q + 1))
          [] op = 28 -> Origin("ConstClass", BBBB)
          [] op = 34 -> Origin("NewInstance", BBBB)
          [] op = 35 -> Origin("NewArray", BBBB)
          [] ReadsField(op) -> Origin("FieldRead", BBBB)
          [] OTHER -> Unknown

\* The register the switch names as written: vA, vAA or a unit of its own.
Dest(u, q) ==
    LET w == Unit(u, q)
        op == OpcodeFromBytecode(w)
    IN  IF op \in Moves16 THEN Unit(u, q + 1)
        ELSE IF op \in MovesA \cup {18, 35} \cup (82..88) \/ ClearsA(op) \/ ClearsQuick(op)
        THEN InstA(w) ELSE InstAA(w)
MoveSource(u, q) ==
    LET w == Unit(u, q)
        op == OpcodeFromBytecode(w)
    IN  IF op \in MovesA THEN InstB(w) ELSE IF op \in MovesAA THEN Unit(u, q + 1) ELSE Unit(u, q + 2)

\* One instruction.  last is the callee of the invoke just before, or -1; only
\* a move-result leaves it alone.
NoInvoke == -1
StepState(u, q, st, last) ==
    LET op == OpcodeFromBytecode(Unit(u, q))
        r == Dest(u, q)
        src == MoveSource(u, q)
    IN  CASE op \in MovesA \cup MovesAA \cup Moves16 ->
               IF src \in DOMAIN st THEN set_reg_op(st, r, st[src], op) ELSE erase_reg_op(st, r, op)
          [] op \in MoveResults ->
               IF last # NoInvoke THEN set_reg_op(st, r, Origin("MethodReturn", last), op)
               ELSE erase_reg_op(st, r, op)
          [] Loads(u, q) # Unknown -> set_reg_op(st, r, Loads(u, q), op)
          [] ClearsAA(op) \/ ClearsA(op) \/ ClearsQuick(op) -> erase_reg_op(st, r, op)
          [] OTHER -> st
StepLast(u, q, last) ==
    LET op == OpcodeFromBytecode(Unit(u, q))
    IN  IF IsInvoke(op) THEN Unit(u, q + 1) ELSE IF op \in MoveResults THEN last ELSE NoInvoke

ArgRegisters(u, q) ==
    LET w == Unit(u, q)
        pack == Unit(u, q + 2)
        list == <<Nibble(pack, 0), Nibble(pack, 1), Nibble(pack, 2), Nibble(pack, 3), InstA(w)>>
    IN  IF IsRangeInvoke(OpcodeFromBytecode(w)) THEN [k \in 1..InstAA(w) |-> pack + k - 1]
        ELSE SubSeq(list, 1, Smaller(InstB(w), 5))
Site(u, q, st) ==
    LET regs == ArgRegisters(u, q)
    IN  [off |-> q, op |-> OpcodeFromBytecode(Unit(u, q)), callee |-> Unit(u, q + 1),
         args |-> [k \in DOMAIN regs |->
                     [reg |-> regs[k], from |-> IF regs[k] \in DOMAIN st THEN st[regs[k]] ELSE Unknown]]]

\* The state, the sites and the instruction count after the units from q to
\* end.
RECURSIVE RunFrom(_, _, _, _, _, _, _)
RunFrom(u, q, end, st, last, sites, count) ==
    IF q >= end THEN [st |-> st, sites |-> sites, count |-> count]
    ELSE RunFrom(u, q + GetWidthFromBytecode(u, q), end, StepState(u, q, st, last), StepLast(u, q, last),
                 IF IsInvoke(OpcodeFromBytecode(Unit(u, q))) THEN Append(sites, Site(u, q, st)) ELSE sites,
                 count + 1)
run_block(c, cfg, b, st) ==
    RunFrom(c.units, cfg.starts[b], EndOf(c, cfg.starts, b), st, NoInvoke, <<>>, 0)

-----------------------------------------------------------------------------
(* AnalyzeInvokes. *)

\* The window: dist by block, growing one predecessor level at a time and
\* stopping at a handler.
RECURSIVE Levels(_, _, _, _)
Levels(cfg, dist, d, depth) ==
    LET frontier == {f \in DOMAIN dist : dist[f] = d} \ cfg.isHandler
        found == UNION {{cfg.preds[f][k] : k \in DOMAIN cfg.preds[f]} : f \in frontier} \ DOMAIN dist
    IN  IF d = depth \/ found = {} THEN dist
        ELSE Levels(cfg, [b \in DOMAIN dist \cup found |-> IF b \in found THEN d + 1 ELSE dist[b]], d + 1, depth)
\* Farthest first, then by index.
WindowOrder(dist) ==
    [k \in 1..Cardinality(DOMAIN dist) |->
        CHOOSE w \in DOMAIN dist :
            Cardinality({x \in DOMAIN dist : dist[x] > dist[w] \/ (dist[x] = dist[w] /\ x < w)}) = k - 1]

\* Mutant: an edge from an unresolved block is passed over.
KnownEdges(preds, outs) ==
    LET known == SelectSeq(preds, LAMBDA p : p \in DOMAIN outs)
    IN  [k \in DOMAIN known |-> outs[known[k]]]
\* What each edge into a block carries: an edge from a block outside the window
\* or not resolved yet carries nothing.
Contributions(preds, outs) ==
    [k \in DOMAIN preds |-> IF preds[k] \in DOMAIN outs THEN outs[preds[k]] ELSE Nothing]

\* The method entry is an edge of the first block; a handler starts empty.
Incoming(c, cfg, w, outs) ==
    LET entry == IF w = 1 THEN <<param_state(c)>> ELSE <<>>
        all == entry \o Contributions(cfg.preds[w], outs)
        met[k \in 1..Len(all)] == IF k = 1 THEN all[1] ELSE meet_into(met[k - 1], all[k])
    IN  IF w \in cfg.isHandler \/ all = <<>> THEN Nothing ELSE met[Len(all)]

\* The loop over the window: the incoming state of its last block and the work
\* done.  A budget that runs out abandons the window.
RECURSIVE Resolve(_, _, _, _, _, _, _)
Resolve(c, cfg, window, outs, work, stored, budget) ==
    LET w == Head(window)
        next(run) ==
            Resolve(c, cfg, Tail(window), [x \in DOMAIN outs \cup {w} |-> IF x = w THEN run.st ELSE outs[x]],
                    work + run.count, stored + Cardinality(DOMAIN run.st), budget)
        from(st) ==
            IF Len(window) = 1 THEN [in |-> st, work |-> work]
            ELSE IF work > budget.work \/ stored + Cardinality(DOMAIN st) > budget.entries
            THEN [in |-> Nothing, work |-> work]
            ELSE next(run_block(c, cfg, w, st))
    IN  from(Incoming(c, cfg, w, outs))

RECURSIVE AnalyzeFrom(_, _, _, _, _, _)
AnalyzeFrom(c, cfg, b, depth, work, budget) ==
    LET window == WindowOrder(Levels(cfg, [x \in {b} |-> 0], 0, depth))
        sites(found) ==
            run_block(c, cfg, b, found.in).sites \o AnalyzeFrom(c, cfg, b + 1, depth, found.work, budget)
    IN  IF b > Len(cfg.starts) THEN <<>>
        ELSE IF b \notin cfg.hasInvoke THEN AnalyzeFrom(c, cfg, b + 1, depth, work, budget)
        ELSE sites(IF work <= budget.work THEN Resolve(c, cfg, window, Nothing, work, 0, budget)
                   ELSE [in |-> Nothing, work |-> work])

\* budget is [work, entries]: kMaxWork and kMaxWindowEntries.
AnalyzeInvokes(c, depth, budget) ==
    IF c.units = <<>> THEN <<>> ELSE AnalyzeFrom(c, BuildCfg(c), 1, depth, 0, budget)
=============================================================================
