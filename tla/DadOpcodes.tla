----------------------------- MODULE DadOpcodes -----------------------------
(***************************************************************************)
(* From decoded instructions to the intermediate representation            *)
(* (native/dad_cpp/opcode_ins.cpp, instruction_dispatch.cpp and            *)
(* BuildNodeFromBlock).  A decoded instruction is a record: `op` the       *)
(* opcode byte, A, B and C the slicer's vA, vB and vC, `args` its arg      *)
(* array, `ref` what the constant pool holds (none if unresolved), `at`    *)
(* the offset.                                                             *)
(*                                                                         *)
(* st is the state the handlers thread: `ps` the parameters vmap starts    *)
(* with (every other name becomes a Variable when first asked for), `ty`   *)
(* the types set so far, `num` and `ret` the GenInvokeRetName, `out` the   *)
(* nodes of the block, `bad` whether a handler threw.                      *)
(***************************************************************************)
EXTENDS DadIr, FiniteSets, FiniteSetsExt

NoReg == -1
NoRef == [kind |-> "none", t |-> "", ps |-> <<>>, name |-> "", cls |-> ""]
Fresh(ps, ty) == [ps |-> ps, ty |-> ty, num |-> 0, ret |-> NoKey, out |-> <<>>, bad |-> FALSE]

GetVariable(st, r) == IF V(r) \in DOMAIN st.ps THEN st.ps[V(r)] ELSE Variable(V(r))
GetVariables(st, rs) == [i \in 1..Len(rs) |-> GetVariable(st, rs[i])]

\* GenInvokeRetName: New() makes the next temporary, SetTo() names a register,
\* Last() is what a move-result takes.
NewRet(st) == [st EXCEPT !.num = @ + 1, !.ret = Tmp(st.num)]
SetTo(st, key) == [st EXCEPT !.ret = key]
LastRet(st) == IF st.ret[1] = "v" THEN GetVariable(st, st.ret[2]) ELSE Variable(st.ret)

Emit(st, n) == [st EXCEPT !.out = Append(@, n)]
Throws(st) == [st EXCEPT !.bad = TRUE]
\* The constructor of an assignment gives the left side the right side's type.
Assign(st, lhs, rhs) ==
    [Emit(st, AssignExpression(lhs, rhs)) EXCEPT
        !.ty = IF lhs = NoKey THEN @ ELSE (lhs :> TypeOf(rhs, st.ty)) @@ @]
AssignReg(st, d, rhs) == Assign(st, V(d.A), rhs)

\* The two's complement reading of the low `bits` bits.
Signed(x, bits) == LET y == x % 2^bits IN IF y >= 2^(bits - 1) THEN y - 2^bits ELSE y

-----------------------------------------------------------------------------
(* Moves, returns, constants. *)

MoveImpl(st, d) ==
    LET rhs == GetVariable(st, d.B)
    IN  [Emit(st, MoveExpression(V(d.A), rhs)) EXCEPT !.ty = (V(d.A) :> TypeOf(rhs, st.ty)) @@ @]
\* A move-result with no result before it throws.
MoveResultImpl(st, d) ==
    IF st.ret = NoKey THEN Throws(st)
    ELSE [Emit(st, MoveResultExpression(V(d.A), LastRet(st))) EXCEPT
             !.ty = (V(d.A) :> TypeOf(LastRet(st), st.ty)) @@ @]
MoveException(st, d, type) ==
    LET t == IF type = "" THEN "Throwable" ELSE type
    IN  [Emit(st, MoveExceptionExpression(GetVariable(st, d.A), d.at, t)) EXCEPT !.ty = (V(d.A) :> t) @@ @]
ReturnImpl(st, d) ==
    Emit(st, ReturnInstruction(IF d.op = 14 THEN <<>> ELSE <<GetVariable(st, d.A)>>, d.at))

\* 2^48 times a short does not fit a TLC integer: the shift stays a mark.
ShiftedConstant(n) == [Constant(n, "J") EXCEPT !.v = <<"c48", n>>, !.x.op = "<<48"]
\* The width each const opcode reads, and the shift const/high16 applies.
ConstImpl(st, d) ==
    AssignReg(st, d,
        CASE d.op = 18 -> Constant(Signed(d.B, 4), "I")
          [] d.op = 19 -> Constant(Signed(d.B, 16), "I")
          [] d.op = 20 -> Constant(d.B, "I")
          [] d.op = 21 -> Constant(Signed(d.B, 16) * 65536, "I")
          [] d.op = 22 -> Constant(Signed(d.B, 16), "J")
          [] d.op \in {23, 24} -> Constant(d.B, "J")
          [] d.op = 25 -> ShiftedConstant(Signed(d.B, 16)))
ConstString(st, d) == AssignReg(st, d, TextConstant(d.ref.name, "String"))
ConstClass(st, d) == AssignReg(st, d, TextConstant(d.ref.t, "Class"))

-----------------------------------------------------------------------------
(* Objects and arrays. *)

CheckCast(st, d) == AssignReg(st, d, CheckCastExpression(GetVariable(st, d.A), d.ref.t))
InstanceOf(st, d) ==
    AssignReg(st, d, BinaryExpression("instanceof", GetVariable(st, d.B), BaseClass(d.ref.t), "Z"))
ArrayLength(st, d) == AssignReg(st, d, ArrayLengthExpression(GetVariable(st, d.B)))
NewInstance_(st, d) == AssignReg(st, d, NewInstance(d.ref.t, d.at))
NewArray(st, d) == AssignReg(st, d, NewArrayExpression(GetVariable(st, d.B), d.ref.t, d.at))

BuildInvokeRegs(d) == [i \in 1..5 |-> IF i <= d.A THEN d.args[i] ELSE NoReg]
\* The registers of invoke-polymorphic are vC and the first four of arg.
BuildPolymorphicRegs(d) == [i \in 1..5 |-> IF i <= d.A THEN (<<d.C>> \o d.args)[i] ELSE NoReg]
BuildRangeRegs(d) == [i \in 1..d.A |-> d.C + i - 1]

FilledInto(st, d, regs) ==
    LET s == NewRet(st)
    IN  Assign(s, s.ret, FilledArrayExpression(GetVariables(st, regs), d.ref.t, d.at))
FilledNewArray(st, d) == FilledInto(st, d, SubSeq(BuildInvokeRegs(d), 1, IF d.A < 5 THEN d.A ELSE 5))
\* The range form passes its first and its last register.
FilledNewArrayRange(st, d) == FilledInto(st, d, <<d.C, d.C + (IF d.A > 0 THEN d.A - 1 ELSE 0)>>)
FillArrayData(st, d) == Emit(st, FillArrayExpression(GetVariable(st, d.A), d.at))
Throw(st, d) == Emit(st, ThrowExpression(GetVariable(st, d.A), d.at))
SwitchImpl(st, d) == Emit(st, SwitchExpression(GetVariable(st, d.A), d.at))

AssignCmp(st, d) ==
    AssignReg(st, d, BinaryExpression("cmp", GetVariable(st, d.B), GetVariable(st, d.C),
                                      <<"F", "F", "D", "D", "J">>[d.op - 44]))
Tests == <<"==", "!=", "<", ">=", ">", "<=">>
IfImpl(st, d) ==
    Emit(st, ConditionalExpression(Tests[d.op - 49], GetVariable(st, d.A), GetVariable(st, d.B), d.at))
IfZImpl(st, d) == Emit(st, ConditionalZExpression(Tests[d.op - 55], GetVariable(st, d.A), d.at))
LoadArrayExp(st, d) ==
    AssignReg(st, d, ArrayLoadExpression(GetVariable(st, d.B), GetVariable(st, d.C)))
StoreArrayInst(st, d) ==
    Emit(st, ArrayStoreInstruction(GetVariable(st, d.A), GetVariable(st, d.B), GetVariable(st, d.C), d.at))
IGetImpl(st, d) == AssignReg(st, d, InstanceExpression(GetVariable(st, d.B), d.ref.name, d.ref.t))
IPutImpl(st, d) ==
    Emit(st, InstanceInstruction(GetVariable(st, d.A), GetVariable(st, d.B), d.ref.name, d.at))
SGetImpl(st, d) == AssignReg(st, d, StaticExpression(d.ref.name, d.ref.t))
SPutImpl(st, d) == Emit(st, StaticInstruction(GetVariable(st, d.A), d.ref.name, d.at))

-----------------------------------------------------------------------------
(* Calls. *)

GetTypeSize(t) == IF t \in {"J", "D"} THEN 2 ELSE 1
\* GetArgs: the registers of the parameters, a wide one taking two; nothing
\* when there are more parameters than registers.
GetArgs(st, ps, largs) ==
    LET start(i) == 1 + MapThenSumSet(LAMBDA j : GetTypeSize(ps[j]), 1..(i - 1))
        fit == {i \in 1..Len(ps) : start(i) <= Len(largs)}
    IN  IF Len(ps) > Len(largs) THEN <<>>
        ELSE [i \in 1..Cardinality(fit) |-> GetVariable(st, largs[start(i)])]

\* What an invoke assigns to: nothing if it is void, else a new temporary.
Returned(st, d) == IF d.ref.t = "V" THEN st ELSE NewRet(st)
InvokeOn(st, d, base, args) ==
    LET s == Returned(st, d)
    IN  Assign(s, IF d.ref.t = "V" THEN NoKey ELSE s.ret,
               InvokeInstruction(d.ref.name, base, args, d.at, d.ref.t))
InvokeVirtual(st, d, regs) ==
    InvokeOn(st, d, GetVariable(st, regs[1]), GetArgs(st, d.ref.ps, Tail(regs)))
InvokeSuper(st, d, regs) == InvokeOn(st, d, BaseClass("super"), GetArgs(st, d.ref.ps, Tail(regs)))
InvokeStatic(st, d, regs) == InvokeOn(st, d, BaseClass(d.ref.cls), GetArgs(st, d.ref.ps, regs))
\* A void invoke-direct (a constructor) defines the register it is called on,
\* unless that is `this`.
InvokeDirect(st, d, regs) ==
    LET base == GetVariable(st, regs[1])
        call == InvokeInstruction(d.ref.name, base, GetArgs(st, d.ref.ps, Tail(regs)), d.at, d.ref.t)
    IN  IF d.ref.t # "V" THEN InvokeVirtual(st, d, regs)
        ELSE IF base.c = "this" THEN Assign(st, NoKey, call)
        ELSE Assign(SetTo(st, base.v), base.v, call)

\* BuildInvokeCustom: the bootstrap chain of the call site, which none of the
\* instruction's registers enters, is the receiver of the final call.
BootstrapChain(d) == BaseClass(d.ref.name)
BuildInvokeCustom(st, d, regs) == InvokeOn(st, d, BootstrapChain(d), GetArgs(st, d.ref.ps, regs))

\* The seven invoke shapes, by the low digit of the opcode.
InvokeKind(st, d, n, regs) ==
    CASE n \in {0, 4} -> InvokeVirtual(st, d, regs)
      [] n = 1 -> InvokeSuper(st, d, regs)
      [] n = 2 -> InvokeDirect(st, d, regs)
      [] n = 3 -> InvokeStatic(st, d, regs)
\* An unresolved method leaves the state alone; an empty register range throws,
\* except in the static form.
DispatchInvoke(st, d) ==
    CASE d.ref.kind # "method" -> Emit(st, NopExpression)
      [] d.op \in 110..114 -> InvokeKind(st, d, d.op - 110, BuildInvokeRegs(d))
      [] d.op \in {116, 117, 118, 120} /\ d.A = 0 -> Throws(st)
      [] d.op \in 116..120 /\ (d.A > 0 \/ d.op = 119) -> InvokeKind(st, d, d.op - 116, BuildRangeRegs(d))
      [] d.op = 250 -> InvokeVirtual(st, d, BuildPolymorphicRegs(d))
      [] d.op = 251 -> IF d.A = 0 THEN Throws(st) ELSE InvokeVirtual(st, d, BuildRangeRegs(d))
\* Only the registers the instruction has are offered to the call site.
DispatchInvokeCustom(st, d) ==
    IF d.ref.kind # "site" THEN Emit(st, NopExpression)
    ELSE BuildInvokeCustom(st, d, IF d.op = 252 THEN SubSeq(d.args, 1, d.A) ELSE BuildRangeRegs(d))

-----------------------------------------------------------------------------
(* Arithmetic. *)

UnaryImpl(st, d) ==
    AssignReg(st, d, UnaryExpression(<<"neg", "not", "neg", "not", "neg", "neg">>[d.op - 122],
                                     GetVariable(st, d.B), <<"I", "I", "J", "J", "F", "D">>[d.op - 122]))
AssignCastExp(st, d) ==
    LET t == <<"J", "F", "D", "I", "F", "D", "I", "J", "D", "I", "J", "F", "B", "C", "S">>[d.op - 128]
    IN  AssignReg(st, d, CastExpression(t, GetVariable(st, d.B), t))

\* The unsigned shift takes the operator of the signed one.
IntOps == <<"+", "-", "*", "/", "%", "&", "|", "^", "<<", ">>", ">>">>
ArithOp(n) == (IntOps \o IntOps \o SubSeq(IntOps, 1, 5) \o SubSeq(IntOps, 1, 5))[n]
ArithType(n) == CASE n \in 1..11 -> "I" [] n \in 12..22 -> "J" [] n \in 23..27 -> "F" [] n \in 28..32 -> "D"
AssignBinaryExp(st, d) ==
    LET n == d.op - 143
    IN  AssignReg(st, d, BinaryExpression(ArithOp(n), GetVariable(st, d.B), GetVariable(st, d.C), ArithType(n)))
AssignBinary2AddrExp(st, d) ==
    LET n == d.op - 175
    IN  AssignReg(st, d, BinaryExpression(ArithOp(n), GetVariable(st, d.A), GetVariable(st, d.B), ArithType(n)))

AssignLit(st, d, op, n) == AssignReg(st, d, BinaryExpression(op, GetVariable(st, d.B), Constant(n, "I"), "I"))
RSubInt(st, d) == AssignReg(st, d, BinaryExpression("-", Constant(d.C, "I"), GetVariable(st, d.B), "I"))
\* add-int/lit8 with a negative literal becomes a subtraction.
AddIntLit8(st, d) == IF d.C < 0 THEN AssignLit(st, d, "-", -d.C) ELSE AssignLit(st, d, "+", d.C)
LitImpl(st, d) ==
    CASE d.op \in {209, 217} -> RSubInt(st, d)
      [] d.op = 216 -> AddIntLit8(st, d)
      [] d.op \in 208..215 \ {209} -> AssignLit(st, d, IntOps[d.op - 207], d.C)
      [] d.op \in 218..226 -> AssignLit(st, d, IntOps[d.op - 215], d.C)

-----------------------------------------------------------------------------
(* Dispatch. *)

\* kInstructionSet, by ranges.
KindOf(o) ==
    CASE o \in 1..9 -> "move" [] o \in 10..12 -> "moveresult" [] o = 13 -> "mex"
      [] o \in 14..17 -> "return" [] o \in 18..25 -> "const" [] o \in 26..27 -> "string"
      [] o = 28 -> "class" [] o \in 29..30 -> "monitor" [] o = 31 -> "checkcast"
      [] o = 32 -> "instanceof" [] o = 33 -> "alen" [] o = 34 -> "new" [] o = 35 -> "newarr"
      [] o = 36 -> "filled" [] o = 37 -> "filledrange" [] o = 38 -> "fill" [] o = 39 -> "throw"
      [] o \in 40..42 -> "goto" [] o \in 43..44 -> "switch" [] o \in 45..49 -> "cmp"
      [] o \in 50..55 -> "if" [] o \in 56..61 -> "ifz" [] o \in 68..74 -> "aget"
      [] o \in 75..81 -> "aput" [] o \in 82..88 -> "iget" [] o \in 89..95 -> "iput"
      [] o \in 96..102 -> "sget" [] o \in 103..109 -> "sput"
      [] o \in (110..114) \cup (116..120) \cup {250, 251} -> "invoke"
      [] o \in 123..128 -> "unary" [] o \in 129..143 -> "cast" [] o \in 144..175 -> "arith"
      [] o \in 176..207 -> "arith2" [] o \in 208..226 -> "lit" [] o \in 252..253 -> "custom"
      [] OTHER -> "nop"

\* The switch's second half: fields, arrays, calls and arithmetic.
DispatchOperand(st, d, k) ==
    CASE k = "aget" -> LoadArrayExp(st, d)
      [] k = "aput" -> StoreArrayInst(st, d)
      [] k = "iget" -> IGetImpl(st, d)
      [] k = "iput" -> IPutImpl(st, d)
      [] k = "sget" -> SGetImpl(st, d)
      [] k = "sput" -> SPutImpl(st, d)
      [] k = "invoke" -> DispatchInvoke(st, d)
      [] k = "custom" -> DispatchInvokeCustom(st, d)
      [] k = "unary" -> UnaryImpl(st, d)
      [] k = "cast" -> AssignCastExp(st, d)
      [] k = "arith" -> AssignBinaryExp(st, d)
      [] k = "arith2" -> AssignBinary2AddrExp(st, d)
      [] k = "lit" -> LitImpl(st, d)
      [] k \in {"nop", "goto"} -> Emit(st, NopExpression)
\* DispatchInstruction; `type` is the exception the block's handler catches.
DispatchInstruction(st, d, type) ==
    LET k == KindOf(d.op)
    IN  CASE k = "move" -> MoveImpl(st, d)
          [] k = "moveresult" -> MoveResultImpl(st, d)
          [] k = "mex" -> MoveException(st, d, type)
          [] k = "return" -> ReturnImpl(st, d)
          [] k = "const" -> ConstImpl(st, d)
          [] k = "string" -> ConstString(st, d)
          [] k = "class" -> ConstClass(st, d)
          [] k = "checkcast" -> CheckCast(st, d)
          [] k = "instanceof" -> InstanceOf(st, d)
          [] k = "alen" -> ArrayLength(st, d)
          [] k = "new" -> NewInstance_(st, d)
          [] k = "newarr" -> NewArray(st, d)
          [] k = "filled" -> FilledNewArray(st, d)
          [] k = "filledrange" -> FilledNewArrayRange(st, d)
          [] k = "fill" -> FillArrayData(st, d)
          [] k = "throw" -> Throw(st, d)
          [] k = "switch" -> SwitchImpl(st, d)
          [] k = "cmp" -> AssignCmp(st, d)
          [] k = "if" -> IfImpl(st, d)
          [] k = "ifz" -> IfZImpl(st, d)
          [] OTHER -> DispatchOperand(st, d, k)

\* BuildNodeFromBlock: monitors emit nothing, and the nop of a closing goto is
\* popped.  The class of the block follows its last opcode.
TranslateBlock(st, code, type) ==
    LET kept == SelectSeq(code, LAMBDA d : KindOf(d.op) # "monitor")
        closed(done) == IF code # <<>> /\ KindOf(Last(code).op) = "goto" /\ done.out # <<>>
                        THEN [done EXCEPT !.out = Front(@)] ELSE done
    IN  closed(FoldLeft(LAMBDA s, d : DispatchInstruction(s, d, type), [st EXCEPT !.out = <<>>], kept))
BlockKind(code) ==
    LET k == IF code = <<>> THEN "nop" ELSE KindOf(Last(code).op)
    IN  CASE k = "return" -> "ret" [] k = "switch" -> "switch"
          [] k \in {"if", "ifz"} -> "cond" [] k = "throw" -> "throw" [] OTHER -> "stmt"
=============================================================================
