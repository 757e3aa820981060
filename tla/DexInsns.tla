------------------------------ MODULE DexInsns ------------------------------
(***************************************************************************)
(* How Dalvik code units decode (slicer's dex_bytecode.cc and its          *)
(* instruction list), as the verifier and the snapshot builder read them.  *)
(*                                                                         *)
(* A code item's insns[] is a sequence of 16-bit units; offsets count code *)
(* units from 0 (the C++ byte offsets are twice these).  A unit past the   *)
(* end reads as 0: whether such a read happens is a property, not an error.*)
(***************************************************************************)
EXTENDS Integers, Sequences, FiniteSets

U1 == {n \in Nat : n < 256}
U2 == {n \in Nat : n < 65536}
Unit(u, i) == IF 0 <= i /\ i < Len(u) THEN u[i + 1] ELSE 0

\* A u2 read as s2, two u2 read as s4, and a nibble or byte read as signed.
Signed(v, bits) == IF v >= 2^(bits - 1) THEN v - 2^bits ELSE v
S4At(u, i) == Unit(u, i) + 65536 * Signed(Unit(u, i + 1), 16)

\* InstA, InstB, InstAA.
InstA(w) == (w \div 256) % 16
InstB(w) == w \div 4096
InstAA(w) == w \div 256
Nibble(w, k) == (w \div 16^k) % 16

PackedMark == 256
SparseMark == 512
ArrayMark == 768
IsPayloadMarker(w) == w \in {PackedMark, SparseMark, ArrayMark}

OpcodeFromBytecode(w) == w % 256

\* The format column of DEX_INSTRUCTION_LIST.
GetFormatFromOpcode(op) ==
    CASE op \in {1, 4, 7, 33} \cup (123..143) \cup (176..207) -> "12x"
      [] op = 18 -> "11n"
      [] op \in (10..13) \cup (15..17) \cup {29, 30, 39} -> "11x"
      [] op = 40 -> "10t"
      [] op = 41 -> "20t"
      [] op = 42 -> "30t"
      [] op \in {2, 5, 8} -> "22x"
      [] op \in {3, 6, 9} -> "32x"
      [] op \in {19, 22} -> "21s"
      [] op \in {20, 23} -> "31i"
      [] op \in {21, 25} -> "21h"
      [] op = 24 -> "51l"
      [] op \in {26, 28, 31, 34, 254, 255} \cup (96..109) -> "21c"
      [] op = 27 -> "31c"
      [] op \in {32, 35} \cup (82..95) \cup (227..232) \cup (235..242) -> "22c"
      [] op \in {36, 233, 252} \cup (110..114) -> "35c"
      [] op \in {37, 234, 253} \cup (116..120) -> "3rc"
      [] op \in {38, 43, 44} -> "31t"
      [] op \in (45..49) \cup (68..81) \cup (144..175) -> "23x"
      [] op \in 50..55 -> "22t"
      [] op \in 56..61 -> "21t"
      [] op \in 208..215 -> "22s"
      [] op \in 216..226 -> "22b"
      [] op = 250 -> "45cc"
      [] op = 251 -> "4rcc"
      [] OTHER -> "10x"

GetWidthFromFormat(f) ==
    CASE f \in {"10x", "12x", "11n", "11x", "10t"} -> 1
      [] f \in {"30t", "31t", "31c", "32x", "31i", "35c", "3rc"} -> 3
      [] f \in {"45cc", "4rcc"} -> 4
      [] f = "51l" -> 5
      [] OTHER -> 2

\* (w * (lo + 2^16 hi) + 1) \div 2 as u4 arithmetic computes it, the product
\* taken modulo 2^32 limb by limb (and + 1 after 2^32 - 1 is 0); TooWide when
\* it is past any code item.
TooWide == 2^29
HalfProductU4(w, lo, hi) ==
    LET w0 == w % 256
        w1 == w \div 256
        low == (w1 * (lo % 256) + w0 * (lo \div 256)) * 256 + w0 * (lo % 256)
        high == (w1 * (lo \div 256) + low \div 65536
                 + ((w1 * hi) % 256) * 256 + w0 * hi) % 65536
    IN  IF high = 65535 /\ low % 65536 = 65535 THEN 0
        ELSE IF high >= 8192 THEN TooWide
        ELSE ((low % 65536) + 65536 * high + 1) \div 2

\* GetWidthFromBytecode: a payload's width comes from its size fields.
GetWidthFromBytecode(u, i) ==
    LET w == Unit(u, i)
    IN  CASE w = PackedMark -> 4 + 2 * Unit(u, i + 1)
          [] w = SparseMark -> 2 + 4 * Unit(u, i + 1)
          [] w = ArrayMark -> 4 + HalfProductU4(Unit(u, i + 1), Unit(u, i + 2), Unit(u, i + 3))
          [] OTHER -> GetWidthFromFormat(GetFormatFromOpcode(OpcodeFromBytecode(w)))

\* DecodeInstruction: the operand fields by format.  `bad` is the SLICER_CHECK
\* on the argument count of a 35c.
Decoded(op, A, B, C, arg, bad) == [op |-> op, A |-> A, B |-> B, C |-> C, arg |-> arg, bad |-> bad]
DecodeOperands(u, i, op, f) ==
    LET w == Unit(u, i)
        w1 == Unit(u, i + 1)
        w2 == Unit(u, i + 2)
        plain(A, B, C) == Decoded(op, A, B, C, <<0, 0, 0, 0, 0>>, FALSE)
    IN  CASE f = "10x" -> plain(0, 0, 0)
          [] f = "12x" -> plain(InstA(w), InstB(w), 0)
          [] f = "11n" -> plain(InstA(w), Signed(InstB(w), 4), 0)
          [] f = "11x" -> plain(InstAA(w), 0, 0)
          [] f = "10t" -> plain(Signed(InstAA(w), 8), 0, 0)
          [] f = "20t" -> plain(Signed(w1, 16), 0, 0)
          [] f \in {"21c", "22x", "21h"} -> plain(InstAA(w), w1, 0)
          [] f \in {"21s", "21t"} -> plain(InstAA(w), Signed(w1, 16), 0)
          [] f = "23x" -> plain(InstAA(w), w1 % 256, w1 \div 256)
          [] f = "22b" -> plain(InstAA(w), w1 % 256, Signed(w1 \div 256, 8))
          [] f \in {"22s", "22t"} -> plain(InstA(w), InstB(w), Signed(w1, 16))
          [] f = "22c" -> plain(InstA(w), InstB(w), w1)
          [] f = "30t" -> plain(S4At(u, i + 1), 0, 0)
          [] f \in {"31t", "31c", "31i"} -> plain(InstAA(w), S4At(u, i + 1), 0)
          [] f = "32x" -> plain(w1, w2, 0)
          [] f = "35c" ->
               LET regs == <<Nibble(w2, 0), Nibble(w2, 1), Nibble(w2, 2), Nibble(w2, 3), InstA(w)>>
                   arg == [k \in 1..5 |-> IF k <= InstB(w) THEN regs[k] ELSE 0]
               IN  Decoded(op, InstB(w), w1, arg[1], arg, InstB(w) > 5)
          [] f = "45cc" ->
               Decoded(op, InstB(w), w1, Nibble(w2, 0),
                       <<Nibble(w2, 1), Nibble(w2, 2), Nibble(w2, 3), InstA(w), Unit(u, i + 3)>>, FALSE)
          [] f = "3rc" -> plain(InstAA(w), w1, w2)
          [] f = "4rcc" -> Decoded(op, InstAA(w), w1, w2, <<0, 0, 0, 0, Unit(u, i + 3)>>, FALSE)
          [] f = "51l" -> plain(InstAA(w), 0, 0)
DecodeInstruction(u, i) ==
    LET op == OpcodeFromBytecode(Unit(u, i)) IN DecodeOperands(u, i, op, GetFormatFromOpcode(op))

\* GetIndexTypeFromOpcode, for the tables the verifier bounds.
GetIndexTypeFromOpcode(op) ==
    CASE op \in {26, 27} -> "string"
      [] op \in {28, 31, 32, 34, 35, 36, 37} -> "type"
      [] op \in 82..109 -> "field"
      [] op \in (110..114) \cup (116..120) \cup {250, 251} -> "method"
      [] OTHER -> "none"

\* The verify-flags column: which fields are registers, and which are the
\* lower half of a pair.
VarArgFormats == {"35c", "45cc"}
RangeFormats == {"3rc", "4rcc"}
RegAFormats == {"12x", "11n", "11x", "22x", "32x", "21s", "31i", "21h", "51l", "21c", "31c", "22c", "31t",
                "23x", "22t", "21t", "22s", "22b"}
RegBFormats == {"12x", "22x", "32x", "22c", "23x", "22t", "22s", "22b"}
WideTwice == {125, 126, 128, 134, 139} \cup (155..165) \cup (171..175) \cup (187..194) \cup (203..207)
WideA == {4, 5, 6, 11, 16, 22, 23, 24, 25, 69, 76, 83, 90, 97, 104, 129, 131, 136, 137, 195, 196, 197, 228, 231}
         \cup WideTwice
WideB == (4..6) \cup (47..49) \cup {132, 133, 138, 140} \cup WideTwice
WideC == (47..49) \cup (155..162) \cup (171..175)
=============================================================================
