---------------------------- MODULE CodeVerifier ----------------------------
(***************************************************************************)
(* DexVerifier::VerifyCodeItem and VerifyInsns (core_ext/dex_verifier.cpp).*)
(*                                                                         *)
(* A code item is a record:                                                *)
(*   regs, ins, outs   registers_size, ins_size, outs_size                 *)
(*   units             insns[], a sequence of u2                           *)
(*   pad               the u2 between an odd insns[] and the tries         *)
(*   tries             try_items: [start, count, off]                      *)
(*   bytes             the encoded handler list, up to the end of the image*)
(*   ids               the sizes of the id tables of the header            *)
(***************************************************************************)
EXTENDS DexInsns

-----------------------------------------------------------------------------
(* LEB128, over bytes b from position p.  The result is [ok, v, p].  A      *)
(* signed value is exact; an unsigned one of 2^31 or more is Large, which   *)
(* like it is past every table, list and code item.                         *)

Large == 2147483647
Bytes(b, p) == IF p < Len(b) THEN b[p + 1] ELSE 0
\* The length of the encoding at p: up to five bytes, the last without 0x80.
LebEnds(b, p) == {k \in 1..5 : p + k <= Len(b) /\ Bytes(b, p + k - 1) < 128
                               /\ \A j \in 1..(k - 1) : Bytes(b, p + j - 1) >= 128}
\* Bits 0 to 27 of the k bytes at p, and bits 28 to 31: the fifth byte's other
\* bits are shifted out.
LowBits(b, p, k) ==
    LET part(i) == IF i <= k THEN (Bytes(b, p + i - 1) % 128) * 128^(i - 1) ELSE 0
    IN  part(1) + part(2) + part(3) + part(4)
TopBits(b, p, k) == IF k = 5 THEN Bytes(b, p + 4) % 16 ELSE 0
UlebValue(b, p, k) ==
    IF TopBits(b, p, k) >= 8 THEN Large ELSE LowBits(b, p, k) + TopBits(b, p, k) * 268435456
\* Two's complement: five bytes hold bit 31, fewer are extended from the last
\* byte's 0x40.
SlebValue(b, p, k) ==
    IF k = 5 THEN LowBits(b, p, k) + (IF TopBits(b, p, k) >= 8 THEN TopBits(b, p, k) - 16 ELSE TopBits(b, p, k)) * 268435456
    ELSE IF k > 0 /\ (Bytes(b, p + k - 1) \div 64) % 2 = 1 THEN LowBits(b, p, k) - 128^k
    ELSE LowBits(b, p, k)
LebLength(b, p) == CHOOSE k \in LebEnds(b, p) : TRUE
ReadUleb(b, p) ==
    IF LebEnds(b, p) = {} THEN [ok |-> FALSE, v |-> 0, p |-> p]
    ELSE [ok |-> TRUE, v |-> UlebValue(b, p, LebLength(b, p)), p |-> p + LebLength(b, p)]
ReadSleb(b, p) ==
    IF LebEnds(b, p) = {} THEN [ok |-> FALSE, v |-> 0, p |-> p]
    ELSE [ok |-> TRUE, v |-> SlebValue(b, p, LebLength(b, p)), p |-> p + LebLength(b, p)]

-----------------------------------------------------------------------------
(* VerifyInsns. *)

\* The header_units lambda: the units GetWidthFromBytecode reads.
header_units(w) == IF w \in {PackedMark, SparseMark} THEN 2 ELSE IF w = ArrayMark THEN 4 ELSE 1
InsnFits(u, p) ==
    /\ Len(u) - p >= header_units(Unit(u, p))
    /\ GetWidthFromBytecode(u, p) # 0
    /\ Len(u) - p >= GetWidthFromBytecode(u, p)

check_reg(c, v) == v < c.regs
InTable(i, size) == 0 <= i /\ i < size

\* The register operands the verify flags name.
RegistersOk(c, d) ==
    LET f == GetFormatFromOpcode(d.op)
    IN  /\ f \in RegAFormats => check_reg(c, IF d.op \in WideA THEN d.A + 1 ELSE d.A)
        /\ f \in RegBFormats => check_reg(c, IF d.op \in WideB THEN d.B + 1 ELSE d.B)
        /\ f = "23x" => check_reg(c, IF d.op \in WideC THEN d.C + 1 ELSE d.C)
\* Mutant: one argument window for every format.
VarArgsShifted(c, d) ==
    LET f == GetFormatFromOpcode(d.op)
    IN  /\ f \in VarArgFormats => \A k \in 1..5 : k <= d.A => check_reg(c, d.arg[k])
        /\ f \in RangeFormats => d.A = 0 \/ d.C + d.A - 1 < c.regs
\* The argument registers: a 45cc keeps its first in vC and the proto in arg[4].
VarArgsOk(c, d) ==
    LET f == GetFormatFromOpcode(d.op)
        regs == IF f = "45cc" THEN <<d.C>> \o SubSeq(d.arg, 1, 4) ELSE d.arg
    IN  /\ f \in VarArgFormats => \A k \in 1..5 : k <= d.A => check_reg(c, regs[k])
        /\ f \in RangeFormats => d.A = 0 \/ d.C + d.A - 1 < c.regs
IndexOk(c, d) ==
    LET f == GetFormatFromOpcode(d.op)
        ridx == IF f = "22c" THEN d.C ELSE d.B
    IN  /\ f \in {"45cc", "4rcc"} => InTable(d.arg[5], c.ids.proto)
        /\ GetIndexTypeFromOpcode(d.op) # "none" => InTable(ridx, c.ids[GetIndexTypeFromOpcode(d.op)])
\* The relative target by format: <<>> when there is none.
TargetOffset(d) ==
    CASE GetFormatFromOpcode(d.op) \in {"10t", "20t", "30t"} -> <<d.A>>
      [] GetFormatFromOpcode(d.op) \in {"21t", "31t"} -> <<d.B>>
      [] GetFormatFromOpcode(d.op) = "22t" -> <<d.C>>
      [] OTHER -> <<>>
TargetOk(c, p, d) == TargetOffset(d) # <<>> => InTable(p + TargetOffset(d)[1], Len(c.units))

InsnOk(c, p) ==
    LET d == DecodeInstruction(c.units, p)
    IN  IsPayloadMarker(Unit(c.units, p)) \/
        (~d.bad /\ RegistersOk(c, d) /\ VarArgsOk(c, d) /\ IndexOk(c, d) /\ TargetOk(c, p, d))

\* The loop over insns[].
VerifyInsns(c) ==
    LET from[p \in 0..Len(c.units)] ==
            \/ p = Len(c.units)
            \/ /\ InsnFits(c.units, p)
               /\ InsnOk(c, p)
               /\ from[p + GetWidthFromBytecode(c.units, p)]
    IN  from[0]

-----------------------------------------------------------------------------
(* VerifyCodeItem. *)

\* The typed clauses from position begin; the result is the position after them,
\* -1 a failure.
TypedClauses(c, begin, count) ==
    LET after[n \in 0..count] ==
            [p \in 0..Len(c.bytes) |->
                LET type == ReadUleb(c.bytes, p)
                    addr == ReadUleb(c.bytes, type.p)
                IN  IF n = 0 THEN p
                    ELSE IF /\ type.ok /\ type.v < c.ids.type
                            /\ addr.ok /\ addr.v < Len(c.units)
                         THEN after[n - 1][addr.p]
                         ELSE -1]
    IN  after[count][begin]

\* One encoded_catch_handler from p.
VerifyHandler(c, p) ==
    LET size == ReadSleb(c.bytes, p)
        after == TypedClauses(c, size.p, IF size.v < 0 THEN -size.v ELSE size.v)
        all == ReadUleb(c.bytes, after)
    IN  IF ~size.ok \/ size.v < -65536 \/ size.v > 65536 \/ after = -1 THEN -1
        ELSE IF size.v > 0 THEN after
        ELSE IF all.ok /\ all.v < Len(c.units) THEN all.p ELSE -1

\* handler_offsets: where the handlers from position begin on start; -1 ends a
\* bad list.
HandlerOffsets(c, begin, count) ==
    LET offs[n \in 0..count] ==
            [p \in 0..Len(c.bytes) |->
                IF n = 0 THEN <<>>
                ELSE IF VerifyHandler(c, p) = -1 THEN <<-1>>
                ELSE <<p>> \o offs[n - 1][VerifyHandler(c, p)]]
    IN  offs[count][begin]

TriesOk(c, offsets) ==
    \A t \in 1..Len(c.tries) :
        LET last == IF t = 1 THEN 0 ELSE c.tries[t - 1].start + c.tries[t - 1].count
        IN  /\ c.tries[t].start >= last
            /\ c.tries[t].start < Len(c.units)
            /\ \E j \in 1..Len(offsets) : c.tries[t].off = offsets[j]
            /\ c.tries[t].start + c.tries[t].count <= Len(c.units)

VerifyTryTable(c) ==
    LET size == ReadUleb(c.bytes, 0)
        offsets == HandlerOffsets(c, size.p, size.v)
    IN  /\ Len(c.units) % 2 = 1 => c.pad = 0
        /\ size.ok /\ size.v # 0 /\ size.v < 65536
        /\ \A j \in 1..Len(offsets) : offsets[j] # -1
        /\ TriesOk(c, offsets)

\* check_insns is FALSE in the lenient pass.
VerifyCodeItem(c, check_insns) ==
    /\ c.ins <= c.regs
    /\ ~(c.outs > 5 /\ c.outs > c.regs)
    /\ check_insns => VerifyInsns(c)
    /\ c.tries # <<>> => VerifyTryTable(c)
=============================================================================
