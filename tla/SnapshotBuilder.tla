--------------------------- MODULE SnapshotBuilder ---------------------------
(***************************************************************************)
(* The stages of MethodSnapshotBuilder::Build                              *)
(* (dad_cpp/method_snapshot_builder.cpp): code units to basic blocks.      *)
(* Code items are those of CodeVerifier.  Offsets are in code units; block *)
(* ids and instruction numbers count from 1 and 0 stands for UINT32_MAX    *)
(* and SIZE_MAX.                                                           *)
(***************************************************************************)
EXTENDS CodeVerifier

\* static_cast<uint32_t> of a byte offset, which is modulo 2^31 in code units: a
\* negative target becomes a huge one.
MaxUnits == 2147483647
Unsigned(t) == IF t < 0 THEN (t + MaxUnits) + 1 ELSE IF t > MaxUnits THEN (t - MaxUnits) - 1 ELSE t
NoTarget == -1

\* The numbers of a set in ascending order, and the entries of a list at some
\* of its positions.
Asc(S) == [i \in 1..Cardinality(S) |-> CHOOSE x \in S : Cardinality({y \in S : y < x}) = i - 1]
Chosen(s, K) == LET at == Asc(K) IN [i \in DOMAIN at |-> s[at[i]]]

IsConditionalBranch(op) == op \in 50..61
IsUnconditionalBranch(op) == op \in 40..42
IsSwitch(op) == op \in {43, 44}
IsReturn(op) == op \in 14..17
IsThrow(op) == op = 39
FillArrayData == 38
IsBlockTerminator(op) == IsReturn(op) \/ IsThrow(op) \/ IsUnconditionalBranch(op)
IsBranchOpcode(op) ==
    IsUnconditionalBranch(op) \/ IsConditionalBranch(op) \/ IsSwitch(op) \/ op = FillArrayData

\* ExtractBranchOffsetCodeUnits: 0 for everything else.
ExtractBranchOffset(d) == IF TargetOffset(d) = <<>> THEN 0 ELSE TargetOffset(d)[1]

-----------------------------------------------------------------------------
(* DecodeAllInsns. *)

PayloadHeaderUnits(w) == header_units(w)
\* SafeWidth: 0 when it throws.
SafeWidth(u, p) ==
    IF p + PayloadHeaderUnits(Unit(u, p)) > Len(u) \/ p + GetWidthFromBytecode(u, p) > Len(u)
    THEN 0 ELSE GetWidthFromBytecode(u, p)

\* A RawIns.  A switch and a fill-array-data keep the offset of their payload
\* (owner_to_payload) instead of a branch target.
RawIns(u, p) ==
    LET d == DecodeInstruction(u, p)
        to == Unsigned(p + ExtractBranchOffset(d))
        loads == IsSwitch(d.op) \/ d.op = FillArrayData
    IN  [off |-> p, len |-> SafeWidth(u, p), op |-> d.op, bad |-> d.bad,
         target |-> IF IsBranchOpcode(d.op) /\ ~loads THEN to ELSE NoTarget,
         payload |-> IF loads THEN to ELSE NoTarget]

\* <<ok, instructions>>: ok is FALSE when SafeWidth or the decoder throws.
DecodePass(u) ==
    LET from[p \in 0..Len(u)] ==
            IF p = Len(u) THEN <<TRUE, <<>>>>
            ELSE IF SafeWidth(u, p) = 0 THEN <<FALSE, <<>>>>
            ELSE LET rest == from[p + SafeWidth(u, p)]
                     ri == RawIns(u, p)
                 IN  IF IsPayloadMarker(Unit(u, p)) THEN rest
                     ELSE <<rest[1] /\ ~ri.bad, <<ri>> \o rest[2]>>
    IN  from[0]

-----------------------------------------------------------------------------
(* Payloads.  `read` is the offset one past the last unit a parse reads.    *)

Smaller(a, b) == IF a < b THEN a ELSE b
NoPayload == [kind |-> "none", first |-> 0, keys |-> <<>>, targets |-> <<>>, read |-> 0]

ParsePackedSwitchPayload(u, p) ==
    LET avail == (Len(u) - (p + 4)) \div 2
        n == Smaller(Unit(u, p + 1), avail)
    IN  IF p + 4 > Len(u) THEN NoPayload
        ELSE [kind |-> "packed", first |-> S4At(u, p + 2),
              keys |-> [k \in 1..n |-> S4At(u, p + 2) + k - 1],
              targets |-> [k \in 1..n |-> S4At(u, p + 2 + 2 * k)], read |-> p + 4 + 2 * n]

\* Mutant: the clamp forgets that every case has a key and a target.
ParseSparseHalfClamped(u, p) ==
    LET n == Smaller(Unit(u, p + 1), (Len(u) - (p + 2)) \div 2)
    IN  IF p + 4 > Len(u) THEN NoPayload
        ELSE [kind |-> "sparse", first |-> 0,
              keys |-> [k \in 1..n |-> S4At(u, p + 2 * k)],
              targets |-> [k \in 1..n |-> S4At(u, p + 2 * n + 2 * k)], read |-> p + 2 + 4 * n]
ParseSparseSwitchPayload(u, p) ==
    LET avail == (Len(u) - (p + 2)) \div 2
        n == Smaller(Unit(u, p + 1), avail \div 2)
    IN  IF p + 4 > Len(u) THEN NoPayload
        ELSE [kind |-> "sparse", first |-> 0,
              keys |-> [k \in 1..n |-> S4At(u, p + 2 * k)],
              targets |-> [k \in 1..n |-> S4At(u, p + 2 * n + 2 * k)], read |-> p + 2 + 4 * n]

\* The size is u4 and the product size_t: exact when both are small, and past
\* avail_bytes otherwise.  `targets` holds the number of bytes kept.
ParseFillArrayPayload(u, p) ==
    LET avail == 2 * (Len(u) - (p + 4))
        w == Unit(u, p + 1)
        large == Unit(u, p + 3) # 0 \/ Unit(u, p + 2) > avail \/ w > avail
        total == IF w = 0 \/ (Unit(u, p + 2) = 0 /\ Unit(u, p + 3) = 0) THEN 0
                 ELSE IF large THEN avail ELSE Smaller(w * Unit(u, p + 2), avail)
    IN  IF p + 4 > Len(u) THEN NoPayload
        ELSE [kind |-> "array", first |-> w, keys |-> <<>>, targets |-> <<total>>,
              read |-> p + 4 + (total + 1) \div 2]

ParsePayloadAt(u, p) ==
    CASE p + 1 > Len(u) -> NoPayload
      [] p + 1 <= Len(u) /\ Unit(u, p) = PackedMark -> ParsePackedSwitchPayload(u, p)
      [] p + 1 <= Len(u) /\ Unit(u, p) = SparseMark -> ParseSparseSwitchPayload(u, p)
      [] p + 1 <= Len(u) /\ Unit(u, p) = ArrayMark -> ParseFillArrayPayload(u, p)
      [] OTHER -> NoPayload
PayloadOf(u, ri) == IF ri.payload = NoTarget THEN NoPayload ELSE ParsePayloadAt(u, ri.payload)

-----------------------------------------------------------------------------
(* ComputeLeaders: the first instruction, what follows a branch, a return   *)
(* or a throw, branch targets, and the case targets inside insns[].         *)

EndsBlock(op) == IsBlockTerminator(op) \/ IsConditionalBranch(op) \/ IsSwitch(op)
CaseLeaders(u, ri) ==
    LET p == PayloadOf(u, ri)
    IN  IF p.kind \notin {"packed", "sparse"} THEN {}
        ELSE {t \in {ri.off + p.targets[k] : k \in 1..Len(p.targets)} : 0 <= t /\ t < Len(u)}
ComputeLeaders(u, ins) ==
    {ins[i].off : i \in {1} \cap DOMAIN ins}
    \cup {ins[i + 1].off : i \in {k \in 1..(Len(ins) - 1) : EndsBlock(ins[k].op)}}
    \cup ({ins[i].target : i \in DOMAIN ins} \ {NoTarget})
    \cup UNION {CaseLeaders(u, ins[i]) : i \in DOMAIN ins}

-----------------------------------------------------------------------------
(* ParseExceptions.  The builder's LEB readers stop at the end of the image *)
(* instead of failing, or behind the fifth byte.                            *)

Available(b, p) == Smaller(5, Len(b) - p)
ReadUleb128(b, p) ==
    IF LebEnds(b, p) # {} THEN ReadUleb(b, p)
    ELSE [ok |-> FALSE, v |-> UlebValue(b, p, Available(b, p)), p |-> p + Available(b, p)]
ReadSleb128(b, p) ==
    IF LebEnds(b, p) # {} THEN ReadSleb(b, p)
    ELSE [ok |-> FALSE, v |-> SlebValue(b, p, Available(b, p)), p |-> p + Available(b, p)]

\* The clauses from position begin on, as <<position, <<type, address>>...>>:
\* read[n][p] reads n of them from p.
ReadClauses(b, begin, count) ==
    LET read[n \in 0..count] ==
            [p \in 0..Len(b) |->
                IF n = 0 \/ p = Len(b) THEN <<p, <<>>>>
                ELSE LET type == ReadUleb128(b, p)
                         addr == ReadUleb128(b, type.p)
                         rest == read[n - 1][addr.p]
                     IN  <<rest[1], <<<<type.v, addr.v>>>> \o rest[2]>>]
    IN  read[count][begin]

CatchAll == -1
ParseHandler(b, p) ==
    LET size == ReadSleb128(b, p)
        typed == ReadClauses(b, size.p, IF size.v < 0 THEN -size.v ELSE size.v)
    IN  typed[2] \o IF size.v <= 0 THEN <<<<CatchAll, ReadUleb128(b, typed[1]).v>>>> ELSE <<>>

\* A try whose handler would start past the image is left out.
ParseExceptions(c) ==
    LET known == Chosen(c.tries, {t \in DOMAIN c.tries : c.tries[t].off < Len(c.bytes)})
    IN  [t \in DOMAIN known |->
           [start |-> known[t].start, end |-> known[t].start + known[t].count,
            handlers |-> ParseHandler(c.bytes, known[t].off)]]

HandlerOffs(tries) ==
    UNION {{tries[t].handlers[h][2] : h \in DOMAIN tries[t].handlers} : t \in DOMAIN tries}
\* Mutant: a try range starts no block.
HandlersLeadOnly(tries) == HandlerOffs(tries)
ExceptionLeaders(tries) == {tries[t].start : t \in DOMAIN tries} \cup HandlerOffs(tries)

-----------------------------------------------------------------------------
(* SplitIntoBlocks: one block per leader, holding the instructions at or    *)
(* after the leader and before the next.                                    *)

\* Mutant: the span is looked up at its start alone.
SpanAtStart(ins, start, end) ==
    IF \A i \in DOMAIN ins : ins[i].off # start THEN {}
    ELSE {i \in DOMAIN ins : start <= ins[i].off /\ ins[i].off < end}
\* The instructions that begin at or after start and before end.
SpanFrom(ins, start, end) == {i \in DOMAIN ins : start <= ins[i].off /\ ins[i].off < end}
SplitIntoBlocks(ins, leaders, size) ==
    LET at == Asc(leaders)
    IN  [b \in DOMAIN at |->
           LET end == IF b < Len(at) THEN at[b + 1] ELSE size
               span == SpanFrom(ins, at[b], end)
           IN  [start |-> at[b], end |-> end,
                first |-> IF span = {} THEN 0 ELSE CHOOSE i \in span : \A j \in span : i <= j,
                last |-> IF span = {} THEN 0 ELSE CHOOSE i \in span : \A j \in span : i >= j,
                off |-> ins # <<>> /\ \A i \in DOMAIN ins : ins[i].off # at[b],
                childs |-> <<>>, handlers |-> <<>>]]

\* FindBlockIdForByteOff.
FindBlockId(blocks, off) ==
    LET at == {b \in DOMAIN blocks : blocks[b].start = off}
    IN  IF at = {} THEN 0 ELSE CHOOSE b \in at : TRUE

-----------------------------------------------------------------------------
(* ComputeChildEdges. *)

Edge(kind, to, label) == IF to = 0 THEN <<>> ELSE <<[kind |-> kind, to |-> to, label |-> label]>>
\* Cases by position in the payload; a target that starts no block is dropped.
CaseEdges(blocks, ri, p) ==
    LET to == [k \in 1..Len(p.targets) |-> FindBlockId(blocks, Unsigned(ri.off + p.targets[k]))]
        known == Asc({k \in 1..Len(p.targets) : to[k] # 0})
    IN  [j \in DOMAIN known |-> [kind |-> "case", to |-> to[known[j]], label |-> p.keys[known[j]]]]

\* Mutant: a block without instructions is skipped.
EmptyBlockIsEnd(blocks, b, handlerOffs) == <<>>
\* A block without instructions falls through, unless a handler starts there.
EmptyBlockEdges(blocks, b, handlerOffs) ==
    IF blocks[b].end > blocks[b].start /\ blocks[b].start \notin handlerOffs
    THEN Edge("fall", FindBlockId(blocks, blocks[b].end), 0)
    ELSE <<>>

LastInsnEdges(u, blocks, b, ri) ==
    LET next == FindBlockId(blocks, blocks[b].end)
        taken == FindBlockId(blocks, ri.target)
        p == PayloadOf(u, ri)
    IN  CASE IsReturn(ri.op) \/ IsThrow(ri.op) -> <<>>
          [] IsUnconditionalBranch(ri.op) -> Edge("branch", taken, 0)
          [] IsConditionalBranch(ri.op) -> Edge("false", next, 0) \o Edge("branch", taken, 0)
          [] IsSwitch(ri.op) ->
               Edge("default", next, 0)
               \o IF p.kind \in {"packed", "sparse"} THEN CaseEdges(blocks, ri, p) ELSE <<>>
          [] OTHER -> Edge("fall", next, 0)

ComputeChildEdges(u, ins, blocks, handlerOffs) ==
    [b \in DOMAIN blocks |->
        [blocks[b] EXCEPT !.childs = IF blocks[b].last = 0 THEN EmptyBlockEdges(blocks, b, handlerOffs)
                                     ELSE LastInsnEdges(u, blocks, b, ins[blocks[b].last])]]

-----------------------------------------------------------------------------
(* AttachExceptionHandlers: a block takes the handlers of every try range   *)
(* that covers its start.  (The method-level list it also fills holds       *)
(* HandlersAt of each range, once.)                                         *)

HandlersAt(blocks, t) ==
    LET known == Chosen(t.handlers, {h \in DOMAIN t.handlers : FindBlockId(blocks, t.handlers[h][2]) # 0})
    IN  [k \in DOMAIN known |-> <<known[k][1], FindBlockId(blocks, known[k][2])>>]
HandlersFrom(blocks, b, tries) ==
    LET from[t \in 1..(Len(tries) + 1)] ==
            IF t > Len(tries) THEN <<>>
            ELSE (IF tries[t].start <= blocks[b].start /\ blocks[b].start < tries[t].end
                  THEN HandlersAt(blocks, tries[t]) ELSE <<>>)
                 \o from[t + 1]
    IN  from[1]
AttachExceptionHandlers(blocks, tries) ==
    [b \in DOMAIN blocks |-> [blocks[b] EXCEPT !.handlers = HandlersFrom(blocks, b, tries)]]

\* Build's last stage: the block that holds the first instruction.
EntryBlock(ins, blocks) == IF ins = <<>> THEN 0 ELSE FindBlockId(blocks, ins[1].off)
=============================================================================
