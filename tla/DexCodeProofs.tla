---------------------------- MODULE DexCodeProofs ----------------------------
(***************************************************************************)
(* What DexCode's stages compute, for every code item.                     *)
(***************************************************************************)
EXTENDS DexCode, FiniteSetTheorems, NaturalsInduction, WellFoundedInduction, TLAPS

-----------------------------------------------------------------------------
(* Recursion and order. *)

\* A set of numbers has a least one.
LEMMA Least ==
    ASSUME NEW T \in SUBSET Nat, T # {}
    PROVE  \E x \in T : \A y \in T : x <= y
<1> DEFINE R == OpToRel(<, Nat)
<1>1. PICK x \in T : \A y \in T : <<y, x>> \notin R
  <2>1. IsWellFoundedOn(R, Nat)
    BY NatLessThanWellFounded
  <2> HIDE DEF R
  <2> QED BY <2>1, WFMin, Zenon
<1>2. \A y \in T : <<y, x>> \in Nat \X Nat /\ (y < x => <<y, x>> \in R)
  BY DEF OpToRel
<1> HIDE DEF R
<1>3. ASSUME NEW y \in T PROVE x <= y
  <2>1. ~(y < x)
    BY <1>1, <1>2, Zenon
  <2>2. x \in Nat /\ y \in Nat
    OBVIOUS
  <2> QED BY <2>1, <2>2, SMT
<1> QED BY <1>3, Zenon

\* A set holds x as soon as it holds all that measures less.
Inherits(S, m, T) ==
    /\ m \in [S -> Nat] /\ T \in SUBSET S
    /\ \A x \in S : (\A y \in S : m[y] < m[x] => y \in T) => x \in T

\* Induction along a measure: such a set is everything.
LEMMA Descent ==
    ASSUME NEW S, NEW m, NEW T, Inherits(S, m, T)
    PROVE  T = S
<1> /\ m \in [S -> Nat] /\ T \in SUBSET S
    /\ \A x \in S : (\A y \in S : m[y] < m[x] => y \in T) => x \in T
  BY DEF Inherits
<1> DEFINE M == {m[x] : x \in S \ T}
<1>1. SUFFICES ASSUME T # S PROVE FALSE
  OBVIOUS
<1>2. M \in SUBSET Nat /\ M # {}
  BY <1>1
<1>3. PICK k \in M : \A j \in M : k <= j
  <2> HIDE DEF M
  <2> QED BY <1>2, Least
<1>4. PICK x \in S \ T : k = m[x]
  OBVIOUS
<1>5. ASSUME NEW y \in S, m[y] < m[x] PROVE y \in T
  <2>1. y \notin T => m[x] <= m[y]
    BY <1>3, <1>4
  <2>2. m[x] \in Nat /\ m[y] \in Nat
    OBVIOUS
  <2> QED BY <1>5, <2>1, <2>2
<1> QED BY <1>4, <1>5

\* A recursion that calls itself at most once, at something that measures less:
\* where it stops with what, where it goes next and what it makes of the result.
Descends(S, V, N, m, stop, nx, base, G) ==
    /\ N \in Nat /\ m \in [S -> 0..N] /\ stop \in SUBSET S
    /\ nx \in [S -> S] /\ base \in [S -> V] /\ G \in [S -> [V -> V]]
    /\ \A x \in S \ stop : m[nx[x]] < m[x]
Solved(S, V, stop, nx, base, G) ==
    \E f \in [S -> V] : \A x \in S : f[x] = IF x \in stop THEN base[x] ELSE G[x][f[nx[x]]]

\* It has a solution.
LEMMA Recursion ==
    ASSUME NEW S, NEW V, NEW N, NEW m, NEW stop, NEW nx, NEW base, NEW G,
           Descends(S, V, N, m, stop, nx, base, G)
    PROVE  Solved(S, V, stop, nx, base, G)
<1> /\ N \in Nat /\ m \in [S -> 0..N] /\ stop \in SUBSET S
    /\ nx \in [S -> S] /\ base \in [S -> V] /\ G \in [S -> [V -> V]]
    /\ \A x \in S \ stop : m[nx[x]] < m[x]
  BY DEF Descends
<1> DEFINE Step(f, x) == IF x \in stop THEN base[x] ELSE G[x][f[nx[x]]]
           Upto(k) == \E f \in [S -> V] : \A x \in S : m[x] < k => f[x] = Step(f, x)
           T == {k \in 0..(N + 1) : ~Upto(k)}
<1>1. SUFFICES T = {}
  <2>1. N + 1 \notin T /\ N + 1 \in 0..(N + 1)
    <3> HIDE DEF T
    <3> QED BY <1>1
  <2>2. Upto(N + 1)
    BY <2>1
  <2>3. \A x \in S : m[x] < N + 1
    OBVIOUS
  <2>4. PICK f \in [S -> V] : \A x \in S : m[x] < N + 1 => f[x] = Step(f, x)
    BY <2>2
  <2>5. \A x \in S : f[x] = Step(f, x)
    <3> HIDE DEF Step
    <3> QED BY <2>3, <2>4
  <2> QED BY <2>5 DEF Solved
<1>2. SUFFICES ASSUME T # {} PROVE FALSE
  OBVIOUS
<1>3. PICK k \in T : \A j \in T : k <= j
  <2>1. T \in SUBSET Nat
    OBVIOUS
  <2> HIDE DEF T
  <2> QED BY <1>2, <2>1, Least
<1>4. k \in 0..(N + 1) /\ ~Upto(k)
  OBVIOUS
<1>5. ASSUME NEW f \in [S -> V], NEW x \in S PROVE Step(f, x) \in V
  OBVIOUS
<1>6. CASE k = 0
  <2>1. \A x \in S : ~(m[x] < k)
    BY <1>6
  <2>2. Upto(k)
    <3> HIDE DEF Step
    <3> QED BY <2>1
  <2> QED BY <1>4, <2>2
<1>7. CASE k # 0
  <2>1. k - 1 \in 0..(N + 1) /\ k - 1 \notin T
    <3> HIDE DEF T
    <3> QED BY <1>3, <1>4, <1>7
  <2>2. Upto(k - 1)
    BY <2>1
  <2>3. PICK f \in [S -> V] : \A x \in S : m[x] < k - 1 => f[x] = Step(f, x)
    BY <2>2
  <2> DEFINE g == [x \in S |-> IF m[x] < k - 1 THEN f[x] ELSE Step(f, x)]
  <2>4. g \in [S -> V]
    <3> HIDE DEF Step
    <3> QED BY <1>5
  <2>5. \A x \in S : g[x] = Step(f, x)
    <3> HIDE DEF Step
    <3> QED BY <2>3
  <2>6. ASSUME NEW x \in S, m[x] < k PROVE g[x] = Step(g, x)
    <3>1. CASE x \in stop
      <4>1. Step(g, x) = Step(f, x)
        BY <3>1
      <4> HIDE DEF Step
      <4> QED BY <2>5, <4>1
    <3>2. CASE x \notin stop
      <4>1. nx[x] \in S /\ m[nx[x]] < m[x] /\ m[nx[x]] \in Nat /\ m[x] \in Nat /\ k \in Nat
        BY <3>2, <1>4
      <4>2. m[nx[x]] < k - 1
        BY <4>1, <2>6
      <4>3. g[nx[x]] = f[nx[x]]
        BY <4>1, <4>2
      <4>4. Step(g, x) = Step(f, x)
        <5> HIDE DEF g
        <5> QED BY <4>3
      <4> HIDE DEF Step
      <4> QED BY <2>5, <4>4
    <3> QED BY <3>1, <3>2
  <2>7. Upto(k)
    <3> HIDE DEF Step, g
    <3> QED BY <2>4, <2>6
  <2> QED BY <1>4, <2>7
<1> QED BY <1>6, <1>7

\* Counting up to n: a set that holds 0 and with a number the next one holds
\* them all.
LEMMA Upward ==
    ASSUME NEW n \in Nat, NEW T \in SUBSET (0..n), 0 \in T, \A i \in 1..n : i - 1 \in T => i \in T
    PROVE  T = 0..n
<1> DEFINE S == 0..n
           m == [i \in S |-> i]
<1>1. m \in [S -> Nat]
  OBVIOUS
<1>2. ASSUME NEW i \in S, \A j \in S : m[j] < m[i] => j \in T PROVE i \in T
  <2>1. CASE i = 0
    BY <2>1
  <2>2. CASE i # 0
    <3>1. i - 1 \in S /\ m[i - 1] < m[i] /\ i \in 1..n
      BY <2>2
    <3> QED BY <1>2, <3>1
  <2> QED BY <2>1, <2>2
<1> HIDE DEF m, S
<1>3. Inherits(S, m, T)
  BY <1>1, <1>2 DEF Inherits, S
<1> QED BY <1>3, Descent DEF S

\* A recursion that counts down to 0.
Counts(count, V, first, row, g) ==
    g \in [0..count -> V] /\ \A n \in 0..count : g[n] = IF n = 0 THEN first ELSE row[g[n - 1]]
LEMMA CountSolves ==
    ASSUME NEW count \in Nat, NEW V, NEW first \in V, NEW row \in [V -> V]
    PROVE  \E g : Counts(count, V, first, row, g)
<1> DEFINE S == 0..count
           m == [n \in S |-> n]
           stop == {0}
           nx == [n \in S |-> IF n = 0 THEN 0 ELSE n - 1]
           base == [n \in S |-> first]
           G == [n \in S |-> row]
<1>1. m \in [S -> 0..count] /\ stop \in SUBSET S /\ nx \in [S -> S] /\ \A n \in S \ stop : m[nx[n]] < m[n]
  OBVIOUS
<1>2. base \in [S -> V] /\ G \in [S -> [V -> V]]
  OBVIOUS
<1>3. Descends(S, V, count, m, stop, nx, base, G)
  <2> HIDE DEF S, m, stop, nx, base, G
  <2> QED BY <1>1, <1>2 DEF Descends
<1>4. PICK g \in [S -> V] : \A n \in S : g[n] = IF n \in stop THEN base[n] ELSE G[n][g[nx[n]]]
  <2> HIDE DEF S, m, stop, nx, base, G
  <2> QED BY <1>3, Recursion DEF Solved
<1>5. ASSUME NEW n \in S PROVE g[n] = IF n = 0 THEN first ELSE row[g[n - 1]]
  BY <1>4
<1>6. Counts(count, V, first, row, g)
  BY <1>4, <1>5 DEF Counts
<1> QED BY <1>6

-----------------------------------------------------------------------------
(* Instructions. *)

\* Reading a unit always yields a u2.
LEMMA UnitType ==
    ASSUME NEW u \in Seq(U2), NEW i \in Int
    PROVE  Unit(u, i) \in Nat /\ Unit(u, i) <= 65535
<1>1. CASE 0 <= i /\ i < Len(u)
  <2>1. i + 1 \in 1..Len(u)
    BY <1>1
  <2>2. u[i + 1] \in U2
    BY <2>1
  <2> QED BY <1>1, <2>2 DEF Unit, U2
<1> QED BY <1>1 DEF Unit

\* The format column names one of the formats.
Formats == {"10x", "12x", "11n", "11x", "10t", "20t", "30t", "22x", "32x", "21s", "31i", "21h", "51l", "21c",
            "31c", "22c", "35c", "3rc", "31t", "23x", "22t", "21t", "22s", "22b", "45cc", "4rcc"}
LEMMA FormatType == \A op : GetFormatFromOpcode(op) \in Formats
BY DEF GetFormatFromOpcode, Formats

\* A format's width is at most five units and at least one.
LEMMA FormatWidth == \A f : GetWidthFromFormat(f) \in 1..5
BY DEF GetWidthFromFormat

\* The array payload's size, computed in 32 bits.
LEMMA HalfProductType ==
    ASSUME NEW w \in Nat, NEW lo \in Nat, NEW hi \in Nat
    PROVE  HalfProductU4(w, lo, hi) \in Nat
<1> DEFINE w0 == w % 256
           w1 == w \div 256
           low == (w1 * (lo % 256) + w0 * (lo \div 256)) * 256 + w0 * (lo % 256)
           high == (w1 * (lo \div 256) + low \div 65536
                 + ((w1 * hi) % 256) * 256 + w0 * hi) % 65536
<1>1. w0 \in Nat /\ w1 \in Nat /\ lo % 256 \in Nat /\ lo \div 256 \in Nat
  OBVIOUS
<1>2. low \in Nat
  <2> HIDE DEF w0, w1
  <2> QED BY <1>1
<1>3. high \in Nat
  <2>1. w1 * hi \in Nat
    <3> HIDE DEF w1
    <3> QED BY <1>1
  <2>2. (w1 * hi) % 256 \in Nat /\ w0 * hi \in Nat /\ w1 * (lo \div 256) \in Nat /\ low \div 65536 \in Nat
    <3> HIDE DEF w0, w1, low
    <3> QED BY <1>1, <1>2, <2>1
  <2> HIDE DEF w0, w1, low
  <2> QED BY <1>1, <1>2, <2>2
<1>4. ((low % 65536) + 65536 * high + 1) \div 2 \in Nat
  <2> HIDE DEF low, high
  <2> QED BY <1>2, <1>3
<1>5. HalfProductU4(w, lo, hi) = IF high = 65535 /\ low % 65536 = 65535 THEN 0
        ELSE IF high >= 8192 THEN TooWide
        ELSE ((low % 65536) + 65536 * high + 1) \div 2
  BY DEF HalfProductU4
<1>6. TooWide \in Nat
  BY DEF TooWide
<1> HIDE DEF low, high
<1> QED BY <1>4, <1>5, <1>6

\* Every instruction and every payload is at least a unit wide.
LEMMA WidthPositive ==
    ASSUME NEW u \in Seq(U2), NEW p \in Int
    PROVE  GetWidthFromBytecode(u, p) \in Nat /\ GetWidthFromBytecode(u, p) >= 1
<1>1. Unit(u, p + 1) \in Nat /\ Unit(u, p + 2) \in Nat /\ Unit(u, p + 3) \in Nat
  BY UnitType
<1>2. HalfProductU4(Unit(u, p + 1), Unit(u, p + 2), Unit(u, p + 3)) \in Nat
  BY <1>1, HalfProductType
<1>3. GetWidthFromFormat(GetFormatFromOpcode(OpcodeFromBytecode(Unit(u, p)))) \in 1..5
  BY FormatWidth
<1>4. ASSUME NEW n \in Nat PROVE 4 + 2 * n \in Nat /\ 4 + 2 * n >= 1 /\ 2 + 4 * n \in Nat /\ 2 + 4 * n >= 1
                                /\ 4 + n \in Nat /\ 4 + n >= 1
  OBVIOUS
<1>5. \A n \in 1..5 : n \in Nat /\ n >= 1
  OBVIOUS
<1> QED BY <1>1, <1>2, <1>3, <1>4, <1>5 DEF GetWidthFromBytecode

\* The decoder keeps the opcode and fills every field with a number.
LEMMA DecodedTypes ==
    ASSUME NEW u \in Seq(U2), NEW p \in Int
    PROVE  LET d == DecodeInstruction(u, p)
           IN  /\ d.op = OpcodeFromBytecode(Unit(u, p)) /\ d.op \in U1
               /\ d.A \in Int /\ d.B \in Int /\ d.C \in Int
               /\ d.bad \in BOOLEAN
<1> DEFINE w == Unit(u, p)
           w1 == Unit(u, p + 1)
           w2 == Unit(u, p + 2)
           d == DecodeInstruction(u, p)
           f == GetFormatFromOpcode(OpcodeFromBytecode(w))
<1>1. w \in Nat /\ w1 \in Nat /\ w2 \in Nat /\ Unit(u, p + 3) \in Nat
  BY UnitType
<1>2. \A v \in Nat : v % 256 \in U1
  BY DEF U1
<1>3. OpcodeFromBytecode(w) \in U1
  BY <1>1, <1>2 DEF OpcodeFromBytecode
<1>4. f \in Formats
  BY FormatType
<1>5. \A v \in Int : Signed(v, 4) \in Int /\ Signed(v, 8) \in Int /\ Signed(v, 16) \in Int
  BY DEF Signed
<1>6. S4At(u, p + 1) \in Int
  <2>1. Unit(u, p + 1) \in Int /\ Unit(u, p + 1 + 1) \in Int
    BY UnitType
  <2>2. Signed(Unit(u, p + 1 + 1), 16) \in Int
    BY <1>5, <2>1
  <2> QED BY <2>1, <2>2 DEF S4At
<1>7. InstA(w) \in Nat /\ InstB(w) \in Nat /\ InstAA(w) \in Nat
  <2>1. w \div 256 \in Nat /\ w \div 4096 \in Nat
    BY <1>1
  <2>2. (w \div 256) % 16 \in Nat
    BY <2>1
  <2> QED BY <2>1, <2>2 DEF InstA, InstB, InstAA
<1>8. w1 % 256 \in Int /\ w1 \div 256 \in Int
  BY <1>1
<1>9. \A v \in Nat : Nibble(v, 0) \in Int
  BY DEF Nibble
<1> DEFINE op == OpcodeFromBytecode(w)
           plain(A, B, C) == Decoded(op, A, B, C, <<0, 0, 0, 0, 0>>, FALSE)
           Good(x) == x.op = op /\ x.A \in Int /\ x.B \in Int /\ x.C \in Int /\ x.bad \in BOOLEAN
<1>10. Good(d)
  <2>1. CASE f = "10x"
    <3>1. d = plain(0, 0, 0)
      BY <2>1 DEF DecodeInstruction, DecodeOperands
    <3> HIDE DEF d
    <3> QED BY <3>1 DEF Good, Decoded
  <2>2. CASE f = "12x"
    <3>1. d = plain(InstA(w), InstB(w), 0)
      BY <2>2 DEF DecodeInstruction, DecodeOperands
    <3> HIDE DEF d
    <3> QED BY <3>1, <1>7 DEF Good, Decoded
  <2>3. CASE f = "11n"
    <3>1. d = plain(InstA(w), Signed(InstB(w), 4), 0)
      BY <2>3 DEF DecodeInstruction, DecodeOperands
    <3> HIDE DEF d
    <3> QED BY <3>1, <1>5, <1>7 DEF Good, Decoded
  <2>4. CASE f = "11x"
    <3>1. d = plain(InstAA(w), 0, 0)
      BY <2>4 DEF DecodeInstruction, DecodeOperands
    <3> HIDE DEF d
    <3> QED BY <3>1, <1>7 DEF Good, Decoded
  <2>5. CASE f = "10t"
    <3>1. d = plain(Signed(InstAA(w), 8), 0, 0)
      BY <2>5 DEF DecodeInstruction, DecodeOperands
    <3> HIDE DEF d
    <3> QED BY <3>1, <1>5, <1>7 DEF Good, Decoded
  <2>6. CASE f = "20t"
    <3>1. d = plain(Signed(w1, 16), 0, 0)
      BY <2>6 DEF DecodeInstruction, DecodeOperands
    <3> HIDE DEF d
    <3> QED BY <3>1, <1>1, <1>5 DEF Good, Decoded
  <2>7. CASE f \in {"21c", "22x", "21h"}
    <3>1. d = plain(InstAA(w), w1, 0)
      BY <2>7 DEF DecodeInstruction, DecodeOperands
    <3> HIDE DEF d
    <3> QED BY <3>1, <1>1, <1>7 DEF Good, Decoded
  <2>8. CASE f \in {"21s", "21t"}
    <3>1. d = plain(InstAA(w), Signed(w1, 16), 0)
      BY <2>8 DEF DecodeInstruction, DecodeOperands
    <3> HIDE DEF d
    <3> QED BY <3>1, <1>1, <1>5, <1>7 DEF Good, Decoded
  <2>9. CASE f = "23x"
    <3>1. d = plain(InstAA(w), w1 % 256, w1 \div 256)
      BY <2>9 DEF DecodeInstruction, DecodeOperands
    <3> HIDE DEF d
    <3> QED BY <3>1, <1>7, <1>8 DEF Good, Decoded
  <2>10. CASE f = "22b"
    <3>1. d = plain(InstAA(w), w1 % 256, Signed(w1 \div 256, 8))
      BY <2>10 DEF DecodeInstruction, DecodeOperands
    <3> HIDE DEF d
    <3> QED BY <3>1, <1>5, <1>7, <1>8 DEF Good, Decoded
  <2>11. CASE f \in {"22s", "22t"}
    <3>1. d = plain(InstA(w), InstB(w), Signed(w1, 16))
      BY <2>11 DEF DecodeInstruction, DecodeOperands
    <3> HIDE DEF d
    <3> QED BY <3>1, <1>1, <1>5, <1>7 DEF Good, Decoded
  <2>12. CASE f = "22c"
    <3>1. d = plain(InstA(w), InstB(w), w1)
      BY <2>12 DEF DecodeInstruction, DecodeOperands
    <3> HIDE DEF d
    <3> QED BY <3>1, <1>1, <1>7 DEF Good, Decoded
  <2>13. CASE f = "30t"
    <3>1. d = plain(S4At(u, p + 1), 0, 0)
      BY <2>13 DEF DecodeInstruction, DecodeOperands
    <3> HIDE DEF d
    <3> QED BY <3>1, <1>6 DEF Good, Decoded
  <2>14. CASE f \in {"31t", "31c", "31i"}
    <3>1. d = plain(InstAA(w), S4At(u, p + 1), 0)
      BY <2>14 DEF DecodeInstruction, DecodeOperands
    <3> HIDE DEF d
    <3> QED BY <3>1, <1>6, <1>7 DEF Good, Decoded
  <2>15. CASE f = "32x"
    <3>1. d = plain(w1, w2, 0)
      BY <2>15 DEF DecodeInstruction, DecodeOperands
    <3> HIDE DEF d
    <3> QED BY <3>1, <1>1 DEF Good, Decoded
  <2>16. CASE f = "3rc"
    <3>1. d = plain(InstAA(w), w1, w2)
      BY <2>16 DEF DecodeInstruction, DecodeOperands
    <3> HIDE DEF d
    <3> QED BY <3>1, <1>1, <1>7 DEF Good, Decoded
  <2>17. CASE f = "51l"
    <3>1. d = plain(InstAA(w), 0, 0)
      BY <2>17 DEF DecodeInstruction, DecodeOperands
    <3> HIDE DEF d
    <3> QED BY <3>1, <1>7 DEF Good, Decoded
  <2>18. CASE f = "35c"
    <3> DEFINE regs == <<Nibble(w2, 0), Nibble(w2, 1), Nibble(w2, 2), Nibble(w2, 3), InstA(w)>>
               arg == [k \in 1..5 |-> IF k <= InstB(w) THEN regs[k] ELSE 0]
    <3>1. d = Decoded(op, InstB(w), w1, arg[1], arg, InstB(w) > 5)
      BY <2>18 DEF DecodeInstruction, DecodeOperands
    <3>2. arg[1] \in Int
      BY <1>1, <1>9
    <3> HIDE DEF arg
    <3> HIDE DEF d
    <3> QED BY <3>1, <3>2, <1>1, <1>7 DEF Good, Decoded
  <2>19. CASE f = "45cc"
    <3>1. d = Decoded(op, InstB(w), w1, Nibble(w2, 0),
                      <<Nibble(w2, 1), Nibble(w2, 2), Nibble(w2, 3), InstA(w), Unit(u, p + 3)>>, FALSE)
      BY <2>19 DEF DecodeInstruction, DecodeOperands
    <3> HIDE DEF d
    <3> QED BY <3>1, <1>1, <1>7, <1>9 DEF Good, Decoded
  <2>20. CASE f = "4rcc"
    <3>1. d = Decoded(op, InstAA(w), w1, w2, <<0, 0, 0, 0, Unit(u, p + 3)>>, FALSE)
      BY <2>20 DEF DecodeInstruction, DecodeOperands
    <3> HIDE DEF d
    <3> QED BY <3>1, <1>1, <1>7 DEF Good, Decoded
  <2> HIDE DEF f, Good
  <2> QED BY <1>4, <2>1, <2>2, <2>3, <2>4, <2>5, <2>6, <2>7, <2>8, <2>9, <2>10, <2>11, <2>12, <2>13, <2>14, <2>15,
             <2>16, <2>17, <2>18, <2>19, <2>20 DEF Formats
<1> QED BY <1>3, <1>10

\* Where a branch instruction leads is a number.
LEMMA RawTypes ==
    ASSUME NEW u \in Seq(U2), NEW p \in Int
    PROVE  LET r == RawIns(u, p)
           IN  /\ r.off = p /\ r.len = SafeWidth(u, p)
               /\ r.op = OpcodeFromBytecode(Unit(u, p)) /\ r.op \in U1
               /\ r.bad = DecodeInstruction(u, p).bad /\ r.bad \in BOOLEAN
               /\ r.target \in Int /\ r.payload \in Int
<1> DEFINE d == DecodeInstruction(u, p)
<1>1. /\ d.op = OpcodeFromBytecode(Unit(u, p)) /\ d.op \in U1
      /\ d.A \in Int /\ d.B \in Int /\ d.C \in Int /\ d.bad \in BOOLEAN
  BY DecodedTypes
<1>2. TargetOffset(d) \in {<<>>, <<d.A>>, <<d.B>>, <<d.C>>}
  BY DEF TargetOffset
<1> HIDE DEF d
<1>3. ExtractBranchOffset(d) \in Int
  BY <1>1, <1>2 DEF ExtractBranchOffset
<1>4. \A t \in Int : Unsigned(t) \in Int
  BY DEF Unsigned, MaxUnits
<1>5. Unsigned(p + ExtractBranchOffset(d)) \in Int
  BY <1>3, <1>4
<1> QED BY <1>1, <1>5 DEF RawIns, NoTarget, d

\* A width that is not a throw lies inside insns[].
LEMMA SafeWidthFits ==
    ASSUME NEW u \in Seq(U2), NEW p \in Nat
    PROVE  /\ SafeWidth(u, p) \in Nat
           /\ SafeWidth(u, p) # 0 =>
                /\ SafeWidth(u, p) = GetWidthFromBytecode(u, p)
                /\ p + SafeWidth(u, p) <= Len(u)
<1>1. GetWidthFromBytecode(u, p) \in Nat
  BY WidthPositive
<1> QED BY <1>1 DEF SafeWidth

\* The instructions of insns[] from p on: in order, none over the next, none a
\* payload.
InsnList(u, p, s) ==
    /\ s \in Seq({RawIns(u, q) : q \in 0..Len(u)})
    /\ \A i \in 1..Len(s) :
         /\ s[i] = RawIns(u, s[i].off) /\ s[i].off \in Nat /\ p <= s[i].off
         /\ s[i].len \in Nat /\ 1 <= s[i].len /\ s[i].off + s[i].len <= Len(u)
         /\ ~IsPayloadMarker(Unit(u, s[i].off))
    /\ \A i, j \in 1..Len(s) : i < j => s[i].off + s[i].len <= s[j].off

\* One more instruction in front of the list.
LEMMA InsnListGrows ==
    ASSUME NEW u \in Seq(U2), NEW p \in Nat, p < Len(u), SafeWidth(u, p) # 0, ~IsPayloadMarker(Unit(u, p)),
           NEW s, InsnList(u, p + SafeWidth(u, p), s)
    PROVE  InsnList(u, p, <<RawIns(u, p)>> \o s)
<1> DEFINE r == RawIns(u, p)
           R == {RawIns(u, q) : q \in 0..Len(u)}
           t == <<r>> \o s
           q == p + SafeWidth(u, p)
<1>1. r.off = p /\ r.len = SafeWidth(u, p)
  BY RawTypes
<1>2. r.len \in Nat /\ 1 <= r.len /\ q \in Nat /\ q = p + r.len /\ q <= Len(u) /\ p <= q
  <2>1. SafeWidth(u, p) \in Nat /\ q <= Len(u)
    BY SafeWidthFits
  <2> HIDE DEF r
  <2> QED BY <1>1, <2>1
<1>3. r \in R
  OBVIOUS
<1>4. s \in Seq(R)
  BY DEF InsnList
<1> HIDE DEF r, R
<1>5. t \in Seq(R) /\ Len(t) = Len(s) + 1 /\ Len(s) \in Nat
  BY <1>3, <1>4
<1>6. t[1] = r /\ \A i \in 2..Len(t) : i - 1 \in 1..Len(s) /\ t[i] = s[i - 1]
  BY <1>3, <1>4, <1>5
<1> HIDE DEF t, q
<1>7. ASSUME NEW i \in 1..Len(s)
      PROVE  /\ s[i] = RawIns(u, s[i].off) /\ s[i].off \in Nat /\ q <= s[i].off
             /\ s[i].len \in Nat /\ 1 <= s[i].len /\ s[i].off + s[i].len <= Len(u)
             /\ ~IsPayloadMarker(Unit(u, s[i].off))
             /\ \A j \in 1..Len(s) : i < j => s[i].off + s[i].len <= s[j].off
  BY DEF InsnList, q
<1>8. ASSUME NEW i \in 1..Len(t)
      PROVE  /\ t[i] = RawIns(u, t[i].off) /\ t[i].off \in Nat /\ p <= t[i].off
             /\ t[i].len \in Nat /\ 1 <= t[i].len /\ t[i].off + t[i].len <= Len(u)
             /\ ~IsPayloadMarker(Unit(u, t[i].off))
  <2>1. CASE i = 1
    <3>1. t[i] = r
      BY <1>6, <2>1
    <3>2. r = RawIns(u, r.off)
      BY <1>1 DEF r
    <3> QED BY <1>1, <1>2, <3>1, <3>2
  <2>2. CASE i # 1
    <3>1. i \in 2..Len(t)
      BY <1>5, <2>2
    <3>2. i - 1 \in 1..Len(s) /\ t[i] = s[i - 1]
      BY <1>6, <3>1
    <3>3. q <= s[i - 1].off /\ s[i - 1].off \in Nat
      BY <1>7, <3>2
    <3>4. p <= s[i - 1].off
      BY <1>2, <3>3
    <3> QED BY <1>7, <3>2, <3>4
  <2> QED BY <2>1, <2>2
<1>9. ASSUME NEW i \in 1..Len(t), NEW j \in 1..Len(t), i < j
      PROVE  t[i].off + t[i].len <= t[j].off
  <2>1. j \in 2..Len(t)
    BY <1>5, <1>9
  <2>2. j - 1 \in 1..Len(s) /\ t[j] = s[j - 1]
    BY <1>6, <2>1
  <2>3. CASE i = 1
    <3>1. q <= s[j - 1].off
      BY <1>7, <2>2
    <3> QED BY <1>1, <1>2, <1>6, <2>2, <2>3, <3>1
  <2>4. CASE i # 1
    <3>1. i \in 2..Len(t)
      BY <1>5, <2>4
    <3>2. i - 1 \in 1..Len(s) /\ t[i] = s[i - 1]
      BY <1>6, <3>1
    <3>3. i - 1 < j - 1
      BY <1>5, <1>9
    <3>4. s[i - 1].off + s[i - 1].len <= s[j - 1].off
      BY <1>7, <2>2, <3>2, <3>3
    <3> QED BY <2>2, <3>2, <3>4
  <2> QED BY <2>3, <2>4
<1>10. InsnList(u, p, t)
  BY <1>5, <1>8, <1>9 DEF InsnList, R
<1> QED BY <1>10 DEF t, r

\* DecodeAllInsns: the loop has a solution, and its first entry is the result.
LEMMA DecodeSolves ==
    ASSUME NEW u \in Seq(U2)
    PROVE  \E f \in [0..Len(u) -> BOOLEAN \X Seq({RawIns(u, q) : q \in 0..Len(u)})] :
              /\ DecodePass(u) = f[0]
              /\ \A p \in 0..Len(u) :
                   f[p] = IF p = Len(u) THEN <<TRUE, <<>>>>
                          ELSE IF SafeWidth(u, p) = 0 THEN <<FALSE, <<>>>>
                          ELSE IF IsPayloadMarker(Unit(u, p)) THEN f[p + SafeWidth(u, p)]
                          ELSE <<f[p + SafeWidth(u, p)][1] /\ ~RawIns(u, p).bad,
                                 <<RawIns(u, p)>> \o f[p + SafeWidth(u, p)][2]>>
<1> DEFINE n == Len(u)
           S == 0..n
           R == {RawIns(u, q) : q \in 0..n}
           V == BOOLEAN \X Seq(R)
           m == [p \in S |-> n - p]
           stop == {p \in S : p = n \/ SafeWidth(u, p) = 0}
           nx == [p \in S |-> IF p \in stop THEN p ELSE p + SafeWidth(u, p)]
           base == [p \in S |-> <<p = n, <<>>>>]
           G == [p \in S |-> [v \in V |-> IF IsPayloadMarker(Unit(u, p)) THEN v
                                          ELSE <<v[1] /\ ~RawIns(u, p).bad, <<RawIns(u, p)>> \o v[2]>>]]
           Body(f, p) == IF p = n THEN <<TRUE, <<>>>>
                         ELSE IF SafeWidth(u, p) = 0 THEN <<FALSE, <<>>>>
                         ELSE LET rest == f[p + SafeWidth(u, p)]
                                  ri == RawIns(u, p)
                              IN  IF IsPayloadMarker(Unit(u, p)) THEN rest
                                  ELSE <<rest[1] /\ ~ri.bad, <<ri>> \o rest[2]>>
           Is(f) == f = [p \in 0..Len(u) |-> Body(f, p)]
           from == CHOOSE f : Is(f)
<1>1. n \in Nat
  OBVIOUS
<1>2. ASSUME NEW p \in S \ stop PROVE p + SafeWidth(u, p) \in S /\ p + SafeWidth(u, p) > p
  BY <1>1, SafeWidthFits
<1>3. m \in [S -> 0..n] /\ stop \in SUBSET S /\ nx \in [S -> S] /\ \A p \in S \ stop : m[nx[p]] < m[p]
  <2>1. m \in [S -> 0..n] /\ stop \in SUBSET S
    BY <1>1
  <2>2. nx \in [S -> S]
    <3> HIDE DEF stop, S
    <3> QED BY <1>2
  <2>3. ASSUME NEW p \in S \ stop PROVE m[nx[p]] < m[p]
    <3>1. nx[p] = p + SafeWidth(u, p) /\ nx[p] \in S
      BY <1>2
    <3> HIDE DEF stop, nx
    <3> QED BY <1>1, <1>2, <3>1
  <2> HIDE DEF stop, m, nx, S
  <2> QED BY <2>1, <2>2, <2>3
<1>4. base \in [S -> V]
  <2>1. <<>> \in Seq(R)
    OBVIOUS
  <2>2. ASSUME NEW p \in S PROVE <<p = n, <<>>>> \in V
    <3>1. (p = n) \in BOOLEAN
      OBVIOUS
    <3> HIDE DEF R, S, n
    <3> QED BY <2>1, <3>1
  <2> HIDE DEF S, V
  <2> QED BY <2>2
<1>5. G \in [S -> [V -> V]]
  <2>1. ASSUME NEW p \in S, NEW v \in V
        PROVE  (IF IsPayloadMarker(Unit(u, p)) THEN v
                ELSE <<v[1] /\ ~RawIns(u, p).bad, <<RawIns(u, p)>> \o v[2]>>) \in V
    <3>1. RawIns(u, p) \in R /\ v[1] \in BOOLEAN /\ v[2] \in Seq(R)
      OBVIOUS
    <3>2. <<RawIns(u, p)>> \o v[2] \in Seq(R)
      <4> HIDE DEF R
      <4> QED BY <3>1
    <3>3. (v[1] /\ ~RawIns(u, p).bad) \in BOOLEAN
      OBVIOUS
    <3> HIDE DEF R
    <3> QED BY <3>2, <3>3
  <2> HIDE DEF V, S
  <2> QED BY <2>1
<1>6. PICK g \in [S -> V] : \A p \in S : g[p] = IF p \in stop THEN base[p] ELSE G[p][g[nx[p]]]
  <2> HIDE DEF m, stop, nx, base, G, V, S, n
  <2>1. Descends(S, V, n, m, stop, nx, base, G)
    BY <1>1, <1>3, <1>4, <1>5 DEF Descends
  <2>2. Solved(S, V, stop, nx, base, G)
    BY <2>1, Recursion
  <2> QED BY <2>2 DEF Solved
<1>7. ASSUME NEW p \in S PROVE g[p] = Body(g, p)
  <2>1. CASE p \in stop
    <3>1. g[p] = <<p = n, <<>>>>
      BY <1>6, <2>1
    <3>2. p = n \/ SafeWidth(u, p) = 0
      BY <2>1
    <3> QED BY <3>1, <3>2
  <2>2. CASE p \notin stop
    <3>1. g[p] = G[p][g[p + SafeWidth(u, p)]] /\ g[p + SafeWidth(u, p)] \in V
      <4>1. nx[p] = p + SafeWidth(u, p) /\ nx[p] \in S
        BY <1>2, <2>2
      <4>2. g[p] = G[p][g[nx[p]]]
        <5> HIDE DEF G, nx, stop, base
        <5> QED BY <1>6, <2>2
      <4> HIDE DEF G, nx, V
      <4> QED BY <4>1, <4>2
    <3>2. p # n /\ SafeWidth(u, p) # 0
      BY <2>2
    <3> DEFINE v == g[p + SafeWidth(u, p)]
    <3>3. G[p][v] = IF IsPayloadMarker(Unit(u, p)) THEN v
                    ELSE <<v[1] /\ ~RawIns(u, p).bad, <<RawIns(u, p)>> \o v[2]>>
      <4> HIDE DEF v, V
      <4> QED BY <3>1 DEF v
    <3> HIDE DEF G, V
    <3> QED BY <3>1, <3>2, <3>3
  <2> QED BY <2>1, <2>2
<1>8. Is(g)
  <2> HIDE DEF Body
  <2>1. g = [p \in 0..Len(u) |-> g[p]]
    BY <1>6
  <2>2. [p \in 0..Len(u) |-> g[p]] = [p \in 0..Len(u) |-> Body(g, p)]
    BY <1>7
  <2> QED BY <2>1, <2>2
<1>9. Is(from)
  <2> HIDE DEF Is
  <2> QED BY <1>8
<1>10. DecodePass(u) = from[0]
  BY DEF DecodePass
<1>11. \A p \in S : from[p] = Body(from, p)
  <2> HIDE DEF Body, from
  <2> QED BY <1>9
<1>12. from \in [S -> V]
  <2> DEFINE T == {p \in S : from[p] \in V}
             meas == [p \in S |-> n - p]
  <2>1. ASSUME NEW p \in S, \A q \in S : meas[q] < meas[p] => q \in T
        PROVE  p \in T
    <3>1. CASE p \in stop
      <4>1. from[p] = <<p = n, <<>>>>
        <5>1. p = n \/ SafeWidth(u, p) = 0
          BY <3>1
        <5> HIDE DEF from
        <5> QED BY <1>11, <5>1
      <4>2. <<p = n, <<>>>> \in V
        <5>1. base[p] \in V /\ base[p] = <<p = n, <<>>>>
          <6>1. base[p] \in V
            <7> HIDE DEF base, V, S
            <7> QED BY <1>4
          <6> QED BY <6>1
        <5> HIDE DEF base, V
        <5> QED BY <5>1
      <4> HIDE DEF from, V
      <4> QED BY <4>1, <4>2
    <3>2. CASE p \notin stop
      <4> DEFINE q == p + SafeWidth(u, p)
      <4>1. q \in S /\ meas[q] < meas[p]
        BY <1>1, <1>2, <3>2
      <4>2. from[q] \in V
        <5> HIDE DEF V, from
        <5> QED BY <2>1, <4>1
      <4>3. p # n /\ SafeWidth(u, p) # 0
        BY <3>2
      <4>4. from[p] = IF IsPayloadMarker(Unit(u, p)) THEN from[q]
                      ELSE <<from[q][1] /\ ~RawIns(u, p).bad, <<RawIns(u, p)>> \o from[q][2]>>
        <5> HIDE DEF from
        <5> QED BY <1>11, <4>3
      <4>5. from[p] = G[p][from[q]]
        <5> HIDE DEF from, V, q
        <5> QED BY <4>2, <4>4
      <4> HIDE DEF from, V, q, G
      <4> QED BY <1>5, <4>2, <4>5
    <3> QED BY <3>1, <3>2
  <2>2. meas \in [S -> Nat] /\ T \in SUBSET S
    BY <1>1
  <2>3. T = S
    <3> HIDE DEF T, meas, S
    <3>1. Inherits(S, meas, T)
      BY <2>1, <2>2 DEF Inherits
    <3> QED BY <3>1, Descent
  <2>4. from = [p \in S |-> from[p]]
    <3> HIDE DEF Body, from
    <3> QED BY <1>9
  <2> HIDE DEF from, V, S
  <2> QED BY <2>3, <2>4
<1> HIDE DEF from
<1>13. \A p \in S : from[p] = IF p = Len(u) THEN <<TRUE, <<>>>>
                          ELSE IF SafeWidth(u, p) = 0 THEN <<FALSE, <<>>>>
                          ELSE IF IsPayloadMarker(Unit(u, p)) THEN from[p + SafeWidth(u, p)]
                          ELSE <<from[p + SafeWidth(u, p)][1] /\ ~RawIns(u, p).bad,
                                 <<RawIns(u, p)>> \o from[p + SafeWidth(u, p)][2]>>
  BY <1>11
<1> QED BY <1>10, <1>12, <1>13

\* The linear sweep: the loop has a solution.
LEMMA StartsSolves ==
    ASSUME NEW u \in Seq(U2)
    PROVE  \E f : /\ Starts(u) = f[0]
                  /\ \A p \in 0..Len(u) :
                       f[p] = IF p = Len(u) THEN {}
                              ELSE {p} \cup IF p + GetWidthFromBytecode(u, p) > Len(u) THEN {}
                                            ELSE f[p + GetWidthFromBytecode(u, p)]
<1> DEFINE n == Len(u)
           S == 0..n
           V == SUBSET S
           go(p) == p + GetWidthFromBytecode(u, p)
           m == [p \in S |-> n - p]
           stop == {p \in S : p = n \/ go(p) > n}
           nx == [p \in S |-> IF p \in stop THEN p ELSE go(p)]
           base == [p \in S |-> IF p = n THEN {} ELSE {p}]
           G == [p \in S |-> [v \in V |-> {p} \cup v]]
           Body(f, p) == IF p = Len(u) THEN {}
                         ELSE {p} \cup IF p + GetWidthFromBytecode(u, p) > Len(u) THEN {}
                                       ELSE f[p + GetWidthFromBytecode(u, p)]
           Is(f) == f = [p \in 0..Len(u) |-> Body(f, p)]
           from == CHOOSE f : Is(f)
<1>1. n \in Nat
  OBVIOUS
<1>2. ASSUME NEW p \in S \ stop PROVE go(p) \in S /\ go(p) > p
  BY <1>1, WidthPositive
<1>3. Descends(S, V, n, m, stop, nx, base, G)
  <2>1. m \in [S -> 0..n] /\ stop \in SUBSET S
    BY <1>1
  <2>2. nx \in [S -> S]
    <3> HIDE DEF stop, S, go
    <3> QED BY <1>2
  <2>3. ASSUME NEW p \in S \ stop PROVE m[nx[p]] < m[p]
    <3>1. nx[p] = go(p) /\ nx[p] \in S
      BY <1>2
    <3> HIDE DEF stop, nx, go
    <3> QED BY <1>1, <1>2, <3>1
  <2>4. base \in [S -> V] /\ G \in [S -> [V -> V]]
    <3> HIDE DEF S
    <3> QED OBVIOUS
  <2> HIDE DEF stop, m, nx, S, V, base, G, n
  <2> QED BY <1>1, <2>1, <2>2, <2>3, <2>4 DEF Descends
<1>4. PICK g \in [S -> V] : \A p \in S : g[p] = IF p \in stop THEN base[p] ELSE G[p][g[nx[p]]]
  <2> HIDE DEF m, stop, nx, base, G, V, S, n
  <2> QED BY <1>3, Recursion DEF Solved
<1>5. ASSUME NEW p \in S PROVE g[p] = Body(g, p)
  <2>1. CASE p \in stop
    <3>1. g[p] = base[p]
      <4> HIDE DEF base, stop
      <4> QED BY <1>4, <2>1
    <3> HIDE DEF go
    <3> QED BY <2>1, <3>1 DEF go
  <2>2. CASE p \notin stop
    <3>1. nx[p] = go(p) /\ nx[p] \in S /\ p # n /\ ~(go(p) > n)
      BY <1>2, <2>2
    <3>2. g[p] = G[p][g[nx[p]]] /\ g[nx[p]] \in V
      <4> HIDE DEF G, nx, stop, base, V, S
      <4> QED BY <1>4, <2>2, <3>1
    <3>3. g[p] = {p} \cup g[nx[p]]
      <4> HIDE DEF V, S, nx
      <4> QED BY <3>2
    <3> QED BY <3>1, <3>3
  <2> QED BY <2>1, <2>2
<1>6. Is(g)
  <2> HIDE DEF Body
  <2>1. g = [p \in 0..Len(u) |-> g[p]]
    BY <1>4
  <2>2. [p \in 0..Len(u) |-> g[p]] = [p \in 0..Len(u) |-> Body(g, p)]
    BY <1>5
  <2> QED BY <2>1, <2>2
<1>7. Is(from)
  <2> HIDE DEF Is
  <2> QED BY <1>6
<1>8. Starts(u) = from[0]
  BY DEF Starts
<1>9. \A p \in 0..Len(u) : from[p] = Body(from, p)
  <2> HIDE DEF Body, from
  <2> QED BY <1>7
<1> HIDE DEF from
<1> QED BY <1>8, <1>9

\* The gate's loop over insns[] has a solution.
LEMMA VerifySolves ==
    ASSUME NEW c, c.units \in Seq(U2)
    PROVE  \E f : /\ VerifyInsns(c) <=> f[0]
                  /\ \A p \in 0..Len(c.units) :
                       f[p] <=> \/ p = Len(c.units)
                                \/ /\ InsnFits(c.units, p)
                                   /\ InsnOk(c, p)
                                   /\ f[p + GetWidthFromBytecode(c.units, p)]
<1> DEFINE u == c.units
           n == Len(u)
           S == 0..n
           go(p) == p + GetWidthFromBytecode(u, p)
           m == [p \in S |-> n - p]
           stop == {p \in S : p = n \/ ~InsnFits(u, p) \/ ~InsnOk(c, p)}
           nx == [p \in S |-> IF p \in stop THEN p ELSE go(p)]
           base == [p \in S |-> p = n]
           G == [p \in S |-> [v \in BOOLEAN |-> v]]
           Body(f, p) == \/ p = Len(c.units)
                         \/ /\ InsnFits(c.units, p)
                            /\ InsnOk(c, p)
                            /\ f[p + GetWidthFromBytecode(c.units, p)]
           Is(f) == f = [p \in 0..Len(c.units) |-> Body(f, p)]
           from == CHOOSE f : Is(f)
<1>1. n \in Nat
  OBVIOUS
<1>2. ASSUME NEW p \in S \ stop PROVE go(p) \in S /\ go(p) > p
  <2>1. GetWidthFromBytecode(u, p) \in Nat /\ GetWidthFromBytecode(u, p) >= 1
    BY WidthPositive
  <2>2. n - p >= GetWidthFromBytecode(u, p)
    BY DEF InsnFits
  <2> QED BY <1>1, <2>1, <2>2
<1>3. Descends(S, BOOLEAN, n, m, stop, nx, base, G)
  <2>1. m \in [S -> 0..n] /\ stop \in SUBSET S
    BY <1>1
  <2>2. nx \in [S -> S]
    <3> HIDE DEF stop, S, go
    <3> QED BY <1>2
  <2>3. ASSUME NEW p \in S \ stop PROVE m[nx[p]] < m[p]
    <3>1. nx[p] = go(p) /\ nx[p] \in S
      BY <1>2
    <3> HIDE DEF stop, nx, go
    <3> QED BY <1>1, <1>2, <3>1
  <2>4. base \in [S -> BOOLEAN] /\ G \in [S -> [BOOLEAN -> BOOLEAN]]
    <3> HIDE DEF S, n
    <3> QED BY Zenon
  <2> HIDE DEF stop, m, nx, S, base, G, n
  <2> QED BY <1>1, <2>1, <2>2, <2>3, <2>4 DEF Descends
<1>4. PICK g \in [S -> BOOLEAN] : \A p \in S : g[p] = IF p \in stop THEN base[p] ELSE G[p][g[nx[p]]]
  <2> HIDE DEF m, stop, nx, base, G, S, n
  <2> QED BY <1>3, Recursion DEF Solved
<1>5. ASSUME NEW p \in S PROVE g[p] = Body(g, p)
  <2>1. CASE p \in stop
    <3>1. g[p] = (p = n)
      <4>1. g[p] = base[p]
        <5> HIDE DEF base, stop
        <5> QED BY <1>4, <2>1
      <4> QED BY <4>1
    <3>2. Body(g, p) = (p = n)
      <4>1. p = n \/ ~InsnFits(u, p) \/ ~InsnOk(c, p)
        BY <2>1
      <4> QED BY <4>1
    <3> HIDE DEF Body
    <3> QED BY <3>1, <3>2
  <2>2. CASE p \notin stop
    <3>1. nx[p] = go(p) /\ nx[p] \in S /\ p # n /\ InsnFits(u, p) /\ InsnOk(c, p)
      BY <1>2, <2>2
    <3>2. g[p] = G[p][g[nx[p]]] /\ g[nx[p]] \in BOOLEAN
      <4> HIDE DEF G, nx, stop, base, S
      <4> QED BY <1>4, <2>2, <3>1
    <3>3. g[p] = g[nx[p]] /\ g[p] \in BOOLEAN
      <4> HIDE DEF S, nx
      <4> QED BY <3>2
    <3>4. Body(g, p) = g[nx[p]]
      <4> HIDE DEF nx
      <4> QED BY <3>1, <3>2
    <3> HIDE DEF Body
    <3> QED BY <3>3, <3>4
  <2> QED BY <2>1, <2>2
<1>6. Is(g)
  <2> HIDE DEF Body
  <2>1. g = [p \in 0..Len(c.units) |-> g[p]]
    BY <1>4
  <2>2. [p \in 0..Len(c.units) |-> g[p]] = [p \in 0..Len(c.units) |-> Body(g, p)]
    BY <1>5
  <2> QED BY <2>1, <2>2
<1>7. Is(from)
  <2> HIDE DEF Is
  <2> QED BY <1>6
<1>8. VerifyInsns(c) = from[0]
  BY DEF VerifyInsns
<1>9. \A p \in 0..Len(c.units) : from[p] = Body(from, p)
  <2> HIDE DEF Body, from
  <2> QED BY <1>7
<1> HIDE DEF from
<1> QED BY <1>8, <1>9

\* The gate's loop accepts what fits and is in order wherever the sweep stands.
LEMMA VerifyMeans ==
    ASSUME NEW c, c.units \in Seq(U2)
    PROVE  VerifyInsns(c) <=> \A p \in Starts(c.units) : InsnFits(c.units, p) /\ InsnOk(c, p)
<1> DEFINE u == c.units
           n == Len(u)
           S == 0..n
           m == [p \in S |-> n - p]
           w(p) == GetWidthFromBytecode(u, p)
           ok(p) == InsnFits(u, p) /\ InsnOk(c, p)
<1>1. n \in Nat /\ 0 \in S
  OBVIOUS
<1>2. PICK f : /\ Starts(u) = f[0]
               /\ \A p \in S : f[p] = IF p = n THEN {}
                                      ELSE {p} \cup IF p + w(p) > n THEN {} ELSE f[p + w(p)]
  BY StartsSolves
<1>3. PICK v : /\ VerifyInsns(c) <=> v[0]
               /\ \A p \in S : v[p] <=> p = n \/ (ok(p) /\ v[p + w(p)])
  <2>1. PICK g : /\ VerifyInsns(c) <=> g[0]
                 /\ \A p \in 0..Len(c.units) :
                      g[p] <=> \/ p = Len(c.units)
                               \/ /\ InsnFits(c.units, p)
                                  /\ InsnOk(c, p)
                                  /\ g[p + GetWidthFromBytecode(c.units, p)]
    BY VerifySolves, Zenon
  <2>2. ASSUME NEW p \in S PROVE g[p] <=> p = n \/ (ok(p) /\ g[p + w(p)])
    BY <2>1, Zenon
  <2> QED BY <2>1, <2>2, Zenon
<1> DEFINE T == {p \in S : v[p] <=> \A q \in f[p] : ok(q)}
<1>4. ASSUME NEW p \in S, \A q \in S : m[q] < m[p] => q \in T
      PROVE  p \in T
  <2>1. CASE p = n
    <3>1. f[p] = {}
      <4> HIDE DEF w
      <4> QED BY <1>2, <2>1
    <3>2. v[p]
      <4> HIDE DEF w, ok
      <4> QED BY <1>3, <2>1
    <3> QED BY <3>1, <3>2
  <2>2. CASE p # n
    <3>0. w(p) \in Nat /\ w(p) >= 1
      BY WidthPositive
    <3>1. v[p] <=> ok(p) /\ v[p + w(p)]
      <4> HIDE DEF w, ok
      <4> QED BY <1>3, <2>2
    <3>2. CASE p + w(p) > n
      <4>1. f[p] = {p}
        <5> HIDE DEF w
        <5> QED BY <1>2, <2>2, <3>2
      <4>2. ~InsnFits(u, p)
        <5>1. ~(n - p >= w(p))
          <6> HIDE DEF w
          <6> QED BY <1>1, <3>0, <3>2
        <5> QED BY <5>1 DEF InsnFits
      <4>3. ~v[p]
        <5> HIDE DEF w
        <5> QED BY <3>1, <4>2
      <4>4. ~(\A q \in f[p] : ok(q))
        BY <4>1, <4>2
      <4> HIDE DEF ok
      <4> QED BY <4>3, <4>4
    <3>3. CASE ~(p + w(p) > n)
      <4> DEFINE q == p + w(p)
      <4>1. q \in S /\ m[q] < m[p]
        <5> HIDE DEF w
        <5> QED BY <1>1, <3>0, <3>3
      <4>2. v[q] <=> \A x \in f[q] : ok(x)
        <5> HIDE DEF q, ok, m
        <5> QED BY <1>4, <4>1
      <4>3. f[p] = {p} \cup f[q]
        <5> HIDE DEF w
        <5> QED BY <1>2, <2>2, <3>3
      <4>4. (\A x \in f[p] : ok(x)) <=> ok(p) /\ \A x \in f[q] : ok(x)
        <5> HIDE DEF ok, q
        <5> QED BY <4>3
      <4> HIDE DEF ok, w
      <4> QED BY <3>1, <4>2, <4>4
    <3> QED BY <3>2, <3>3
  <2> QED BY <2>1, <2>2
<1>5. m \in [S -> Nat] /\ T \in SUBSET S
  BY <1>1
<1>6. T = S
  <2> HIDE DEF T, m, S
  <2>1. Inherits(S, m, T)
    BY <1>4, <1>5 DEF Inherits
  <2> QED BY <2>1, Descent
<1>7. v[0] <=> \A q \in f[0] : ok(q)
  <2>1. 0 \in T
    <3> HIDE DEF T
    <3> QED BY <1>1, <1>6
  <2> HIDE DEF ok
  <2> QED BY <2>1
<1> HIDE DEF ok
<1>8. VerifyInsns(c) <=> \A q \in Starts(u) : ok(q)
  <2>1. Starts(u) = f[0] /\ (VerifyInsns(c) <=> v[0])
    BY <1>2, <1>3, Zenon
  <2> QED BY <1>7, <2>1, Zenon
<1> QED BY <1>8 DEF ok

\* The sweep stands at units of insns[].
LEMMA StartsInside ==
    ASSUME NEW u \in Seq(U2)
    PROVE  \A p \in Starts(u) : p \in Nat /\ p < Len(u)
<1> DEFINE n == Len(u)
           S == 0..n
           m == [p \in S |-> n - p]
           w(p) == GetWidthFromBytecode(u, p)
<1>1. n \in Nat /\ 0 \in S
  OBVIOUS
<1>2. PICK f : /\ Starts(u) = f[0]
               /\ \A p \in S : f[p] = IF p = n THEN {}
                                      ELSE {p} \cup IF p + w(p) > n THEN {} ELSE f[p + w(p)]
  BY StartsSolves
<1> DEFINE T == {p \in S : \A q \in f[p] : q \in S /\ q # n}
<1>3. ASSUME NEW p \in S, \A q \in S : m[q] < m[p] => q \in T
      PROVE  p \in T
  <2>0. w(p) \in Nat /\ w(p) >= 1
    BY WidthPositive
  <2>1. CASE p = n
    <3>1. f[p] = {}
      <4> HIDE DEF w
      <4> QED BY <1>2, <2>1
    <3> QED BY <3>1
  <2>2. CASE p # n /\ p + w(p) > n
    <3>1. f[p] = {p}
      <4> HIDE DEF w
      <4> QED BY <1>2, <2>2
    <3> QED BY <2>2, <3>1
  <2>3. CASE p # n /\ ~(p + w(p) > n)
    <3> DEFINE q == p + w(p)
    <3>1. q \in S /\ m[q] < m[p]
      <4> HIDE DEF w
      <4> QED BY <1>1, <2>0, <2>3
    <3>2. \A x \in f[q] : x \in S /\ x # n
      <4> HIDE DEF q, m
      <4> QED BY <1>3, <3>1
    <3>3. f[p] = {p} \cup f[q]
      <4> HIDE DEF w
      <4> QED BY <1>2, <2>3
    <3> HIDE DEF w, q, S, n
    <3> QED BY <2>3, <3>2, <3>3
  <2> QED BY <2>1, <2>2, <2>3
<1>5. m \in [S -> Nat] /\ T \in SUBSET S
  BY <1>1
<1>6. T = S
  <2> HIDE DEF T, m, S
  <2>1. Inherits(S, m, T)
    BY <1>3, <1>5 DEF Inherits
  <2> QED BY <2>1, Descent
<1>7. \A q \in f[0] : q \in S /\ q # n
  <2>1. 0 \in T
    <3> HIDE DEF T
    <3> QED BY <1>1, <1>6
  <2> HIDE DEF S, n
  <2> QED BY <2>1
<1> QED BY <1>1, <1>2, <1>7

\* The decoder lists the instructions where the sweep stands, in order, and
\* throws only where the gate would not have let the code pass.
LEMMA DecodeMeans ==
    ASSUME NEW u \in Seq(U2)
    PROVE  /\ DecodePass(u) = <<DecodePass(u)[1], DecodePass(u)[2]>>
           /\ DecodePass(u)[1] \in BOOLEAN
           /\ InsnList(u, 0, DecodePass(u)[2])
           /\ \A i \in 1..Len(DecodePass(u)[2]) : DecodePass(u)[2][i].off \in Starts(u)
           /\ (\A p \in Starts(u) :
                 InsnFits(u, p) /\ (IsPayloadMarker(Unit(u, p)) \/ ~RawIns(u, p).bad)) => DecodePass(u)[1]
<1> DEFINE n == Len(u)
           S == 0..n
           R == {RawIns(u, q) : q \in 0..Len(u)}
           m == [p \in S |-> n - p]
           w(p) == GetWidthFromBytecode(u, p)
           good(p) == InsnFits(u, p) /\ (IsPayloadMarker(Unit(u, p)) \/ ~RawIns(u, p).bad)
<1>1. n \in Nat /\ 0 \in S
  OBVIOUS
<1>2. PICK f : /\ Starts(u) = f[0]
               /\ \A p \in S : f[p] = IF p = n THEN {}
                                      ELSE {p} \cup IF p + w(p) > n THEN {} ELSE f[p + w(p)]
  BY StartsSolves
<1>3. PICK d \in [S -> BOOLEAN \X Seq(R)] :
              /\ DecodePass(u) = d[0]
              /\ \A p \in S :
                   d[p] = IF p = n THEN <<TRUE, <<>>>>
                          ELSE IF SafeWidth(u, p) = 0 THEN <<FALSE, <<>>>>
                          ELSE IF IsPayloadMarker(Unit(u, p)) THEN d[p + SafeWidth(u, p)]
                          ELSE <<d[p + SafeWidth(u, p)][1] /\ ~RawIns(u, p).bad,
                                 <<RawIns(u, p)>> \o d[p + SafeWidth(u, p)][2]>>
  BY DecodeSolves
<1> HIDE DEF R, w
<1> DEFINE Lists(p) == /\ InsnList(u, p, d[p][2])
                       /\ \A i \in 1..Len(d[p][2]) : d[p][2][i].off \in f[p]
                       /\ (\A q \in f[p] : good(q)) => d[p][1]
           T == {p \in S : Lists(p)}
<1> HIDE DEF good
<1>4. ASSUME NEW p \in S PROVE InsnList(u, p, <<>>)
  BY DEF InsnList
<1>5. ASSUME NEW p \in S, \A q \in S : m[q] < m[p] => q \in T
      PROVE  p \in T
  <2>0. /\ w(p) \in Nat /\ w(p) >= 1 /\ SafeWidth(u, p) \in Nat
        /\ SafeWidth(u, p) # 0 => SafeWidth(u, p) = w(p) /\ p + SafeWidth(u, p) <= n
    BY WidthPositive, SafeWidthFits DEF w
  <2>1. CASE p = n
    <3>1. d[p] = <<TRUE, <<>>>>
      BY <1>3, <2>1
    <3>2. d[p][2] = <<>> /\ d[p][1] = TRUE /\ Len(d[p][2]) = 0
      <4> HIDE DEF n
      <4> QED BY <3>1
    <3> HIDE DEF n
    <3> QED BY <1>4, <3>2
  <2>2. CASE p # n /\ SafeWidth(u, p) = 0
    <3>1. d[p] = <<FALSE, <<>>>>
      BY <1>3, <2>2
    <3>2. p \in f[p]
      BY <1>2, <2>2
    <3>3. ~InsnFits(u, p)
      <4>1. n - p >= w(p) => p + w(p) <= n
        BY <1>1, <2>0
      <4>2. SafeWidth(u, p) = IF p + PayloadHeaderUnits(Unit(u, p)) > n \/ p + w(p) > n THEN 0 ELSE w(p)
        BY DEF SafeWidth, w
      <4>3. p + PayloadHeaderUnits(Unit(u, p)) > n \/ p + w(p) > n
        BY <2>0, <2>2, <4>2
      <4>4. PayloadHeaderUnits(Unit(u, p)) = header_units(Unit(u, p)) /\ header_units(Unit(u, p)) \in Nat
        BY DEF PayloadHeaderUnits, header_units
      <4>5. ~(n - p >= header_units(Unit(u, p))) \/ ~(n - p >= w(p))
        BY <1>1, <2>0, <4>3, <4>4
      <4> QED BY <4>5 DEF InsnFits, w
    <3>4. ~good(p)
      BY <3>3 DEF good
    <3> QED BY <1>4, <3>1, <3>2, <3>4
  <2>3. CASE p # n /\ SafeWidth(u, p) # 0
    <3> DEFINE q == p + w(p)
    <3>1. q \in S /\ m[q] < m[p] /\ q = p + SafeWidth(u, p) /\ ~(q > n) /\ p < n
      BY <1>1, <2>0, <2>3
    <3>2. Lists(q)
      <4> HIDE DEF q, m, Lists
      <4> QED BY <1>5, <3>1
    <3>3. f[p] = {p} \cup f[q]
      BY <1>2, <2>3, <3>1
    <3>4. d[q][1] \in BOOLEAN /\ d[q][2] \in Seq(R)
      <4> HIDE DEF q
      <4> QED BY <1>3, <3>1
    <3>5. CASE IsPayloadMarker(Unit(u, p))
      <4>1. d[p] = d[q]
        <5> HIDE DEF q
        <5> QED BY <1>3, <2>3, <3>1, <3>5
      <4>2. InsnList(u, p, d[q][2])
        <5>1. InsnList(u, q, d[q][2])
          BY <3>2
        <5>2. p <= q /\ p \in Nat /\ q \in Nat
          BY <1>1, <2>0
        <5> HIDE DEF q, R
        <5>3. \A x \in Nat : q <= x => p <= x
          BY <5>2
        <5> QED BY <5>1, <5>3 DEF InsnList
      <4> HIDE DEF q
      <4> QED BY <3>2, <3>3, <4>1, <4>2
    <3>6. CASE ~IsPayloadMarker(Unit(u, p))
      <4> DEFINE r == RawIns(u, p)
      <4>1. d[p] = <<d[q][1] /\ ~r.bad, <<r>> \o d[q][2]>>
        <5> HIDE DEF q
        <5> QED BY <1>3, <2>3, <3>1, <3>6
      <4>2. InsnList(u, p, <<r>> \o d[q][2])
        <5> HIDE DEF q
        <5> QED BY <2>3, <3>1, <3>2, <3>6, InsnListGrows
      <4>3. ASSUME NEW i \in 1..Len(<<r>> \o d[q][2]) PROVE (<<r>> \o d[q][2])[i].off \in f[p]
        <5> HIDE DEF q, r
        <5>1. CASE i = 1
          <6>1. (<<r>> \o d[q][2])[i] = r
            BY <3>4, <5>1
          <6> QED BY <3>3, <6>1, RawTypes DEF r
        <5>2. CASE i # 1
          <6>1. i - 1 \in 1..Len(d[q][2]) /\ (<<r>> \o d[q][2])[i] = d[q][2][i - 1]
            BY <3>4, <5>2
          <6> QED BY <3>2, <3>3, <6>1
        <5> QED BY <5>1, <5>2
      <4>4. (\A x \in f[p] : good(x)) => d[q][1] /\ ~r.bad
        <5> SUFFICES ASSUME \A x \in f[p] : good(x) PROVE d[q][1] /\ ~r.bad
          OBVIOUS
        <5>1. good(p) /\ \A x \in f[q] : good(x)
          BY <3>3
        <5>2. ~r.bad
          BY <3>6, <5>1 DEF good
        <5> HIDE DEF q, r
        <5> QED BY <3>2, <5>1, <5>2
      <4>5. d[p][1] = (d[q][1] /\ ~r.bad) /\ d[p][2] = <<r>> \o d[q][2]
        <5> HIDE DEF q, r
        <5> QED BY <4>1
      <4> HIDE DEF q, r
      <4> QED BY <4>2, <4>3, <4>4, <4>5
    <3> QED BY <3>5, <3>6
  <2> QED BY <2>1, <2>2, <2>3
<1>6. m \in [S -> Nat] /\ T \in SUBSET S
  BY <1>1
<1>7. T = S
  <2> HIDE DEF T, m, S
  <2>1. Inherits(S, m, T)
    BY <1>5, <1>6 DEF Inherits
  <2> QED BY <2>1, Descent
<1>8. Lists(0)
  <2>1. 0 \in T
    <3> HIDE DEF T
    <3> QED BY <1>1, <1>7
  <2> HIDE DEF Lists, S
  <2> QED BY <2>1
<1>9. d[0] = <<d[0][1], d[0][2]>> /\ d[0][1] \in BOOLEAN
  BY <1>1, <1>3
<1> QED BY <1>2, <1>3, <1>8, <1>9 DEF good

-----------------------------------------------------------------------------
(* Payloads. *)

\* A payload's declared size is clamped to what insns[] still holds.
LEMMA PayloadInside ==
    ASSUME NEW u \in Seq(U2), NEW p \in Int
    PROVE  ParsePayloadAt(u, p).read <= Len(u)
<1> DEFINE n == Len(u)
<1>1. n \in Nat /\ Unit(u, p + 1) \in Nat /\ Unit(u, p + 2) \in Nat
  BY UnitType
<1>2. NoPayload.read <= n
  BY <1>1 DEF NoPayload
<1>3. ParsePackedSwitchPayload(u, p).read <= n
  <2> DEFINE avail == (n - (p + 4)) \div 2
             k == Smaller(Unit(u, p + 1), avail)
  <2>1. CASE p + 4 > n
    BY <1>2, <2>1 DEF ParsePackedSwitchPayload
  <2>2. CASE ~(p + 4 > n)
    <3>1. avail \in Int /\ p + 4 + 2 * avail <= n
      BY <1>1
    <3>2. k \in Int /\ k <= avail
      <4> HIDE DEF avail
      <4> QED BY <1>1, <3>1 DEF Smaller
    <3>3. p + 4 + 2 * k <= n
      <4> HIDE DEF avail, k
      <4> QED BY <1>1, <3>1, <3>2
    <3>4. ParsePackedSwitchPayload(u, p).read = p + 4 + 2 * k
      BY <2>2 DEF ParsePackedSwitchPayload
    <3> HIDE DEF k
    <3> QED BY <3>3, <3>4
  <2> QED BY <2>1, <2>2
<1>4. ParseSparseSwitchPayload(u, p).read <= n
  <2> DEFINE avail == (n - (p + 2)) \div 2
             half == avail \div 2
             k == Smaller(Unit(u, p + 1), half)
  <2>1. CASE p + 4 > n
    BY <1>2, <2>1 DEF ParseSparseSwitchPayload
  <2>2. CASE ~(p + 4 > n)
    <3>1. avail \in Int /\ p + 2 + 2 * avail <= n
      BY <1>1
    <3>2. half \in Int /\ 2 * half <= avail
      <4> HIDE DEF avail
      <4> QED BY <3>1
    <3>3. k \in Int /\ k <= half
      <4> HIDE DEF half
      <4> QED BY <1>1, <3>2 DEF Smaller
    <3>4. p + 2 + 4 * k <= n
      <4> HIDE DEF avail, half, k
      <4> QED BY <1>1, <3>1, <3>2, <3>3
    <3>5. ParseSparseSwitchPayload(u, p).read = p + 2 + 4 * k
      BY <2>2 DEF ParseSparseSwitchPayload
    <3> HIDE DEF k
    <3> QED BY <3>4, <3>5
  <2> QED BY <2>1, <2>2
<1>5. ParseFillArrayPayload(u, p).read <= n
  <2> DEFINE avail == 2 * (n - (p + 4))
             w == Unit(u, p + 1)
             x == Unit(u, p + 2)
             large == Unit(u, p + 3) # 0 \/ x > avail \/ w > avail
             total == IF w = 0 \/ (x = 0 /\ Unit(u, p + 3) = 0) THEN 0
                      ELSE IF large THEN avail ELSE Smaller(w * x, avail)
  <2>1. CASE p + 4 > n
    BY <1>2, <2>1 DEF ParseFillArrayPayload
  <2>2. CASE ~(p + 4 > n)
    <3>1. avail \in Nat
      BY <1>1, <2>2
    <3>2. w * x \in Int
      <4> HIDE DEF w, x
      <4> QED BY <1>1 DEF w, x
    <3>3. total \in Int /\ total <= avail
      <4> HIDE DEF avail, w, x
      <4> QED BY <3>1, <3>2 DEF Smaller
    <3>4. p + 4 + (total + 1) \div 2 <= n
      <4> HIDE DEF total
      <4> QED BY <1>1, <2>2, <3>3
    <3>5. ParseFillArrayPayload(u, p).read = p + 4 + (total + 1) \div 2
      BY <2>2 DEF ParseFillArrayPayload
    <3> HIDE DEF total
    <3> QED BY <3>4, <3>5
  <2> QED BY <2>1, <2>2
<1> HIDE DEF n
<1>6. ParsePayloadAt(u, p) \in {NoPayload, ParsePackedSwitchPayload(u, p), ParseSparseSwitchPayload(u, p),
                                ParseFillArrayPayload(u, p)}
  <2>1. \/ p + 1 > Len(u) \/ (p + 1 <= Len(u) /\ Unit(u, p) = PackedMark)
        \/ (p + 1 <= Len(u) /\ Unit(u, p) = SparseMark) \/ (p + 1 <= Len(u) /\ Unit(u, p) = ArrayMark)
        \/ (p + 1 <= Len(u) /\ Unit(u, p) \notin {PackedMark, SparseMark, ArrayMark})
    <3>1. Len(u) \in Nat
      OBVIOUS
    <3> QED BY <3>1
  <2> QED BY <2>1 DEF ParsePayloadAt, PackedMark, SparseMark, ArrayMark
<1> QED BY <1>2, <1>3, <1>4, <1>5, <1>6 DEF n

\* So it is with the payload of every instruction.
LEMMA PayloadOfInside ==
    ASSUME NEW u \in Seq(U2), NEW ri, ri.payload \in Int
    PROVE  PayloadOf(u, ri).read <= Len(u)
<1>1. NoPayload.read <= Len(u)
  <2>1. Len(u) \in Nat
    OBVIOUS
  <2> QED BY <2>1 DEF NoPayload
<1> QED BY <1>1, PayloadInside DEF PayloadOf

\* Two u2 make an s4.
LEMMA S4Type ==
    ASSUME NEW u \in Seq(U2), NEW i \in Int
    PROVE  S4At(u, i) \in Int
<1>1. Unit(u, i) \in Nat /\ Unit(u, i + 1) \in Nat
  BY UnitType
<1>2. Signed(Unit(u, i + 1), 16) \in Int
  BY <1>1 DEF Signed
<1> QED BY <1>1, <1>2 DEF S4At

\* A payload's keys and targets are numbers, one of each to a case.
LEMMA PayloadTypes ==
    ASSUME NEW u \in Seq(U2), NEW p \in Int
    PROVE  LET q == ParsePayloadAt(u, p)
           IN  q.kind \in {"packed", "sparse"} =>
                 /\ q.keys \in Seq(Int) /\ q.targets \in Seq(Int) /\ Len(q.keys) = Len(q.targets)
<1> DEFINE n == Len(u)
           Good(q) == q.kind \in {"packed", "sparse"} =>
                        /\ q.keys \in Seq(Int) /\ q.targets \in Seq(Int) /\ Len(q.keys) = Len(q.targets)
<1>1. n \in Nat /\ Unit(u, p + 1) \in Nat
  BY UnitType
<1>2. Good(NoPayload)
  BY DEF NoPayload
<1>3. \A k \in Int : p + k \in Int /\ p + 2 + 2 * k \in Int /\ p + 2 * k \in Int
  OBVIOUS
<1>4. Good(ParsePackedSwitchPayload(u, p))
  <2> DEFINE avail == (n - (p + 4)) \div 2
             k == Smaller(Unit(u, p + 1), avail)
             keys == [i \in 1..k |-> S4At(u, p + 2) + i - 1]
             targets == [i \in 1..k |-> S4At(u, p + 2 + 2 * i)]
  <2>1. CASE p + 4 > n
    BY <1>2, <2>1 DEF ParsePackedSwitchPayload
  <2>2. CASE ~(p + 4 > n)
    <3>1. avail \in Nat
      BY <1>1, <2>2
    <3>2. k \in Nat
      <4> HIDE DEF avail
      <4> QED BY <1>1, <3>1 DEF Smaller
    <3>3. ParsePackedSwitchPayload(u, p).keys = keys /\ ParsePackedSwitchPayload(u, p).targets = targets
      BY <2>2 DEF ParsePackedSwitchPayload
    <3> HIDE DEF k
    <3>4. keys \in Seq(Int) /\ Len(keys) = k
      <4>1. S4At(u, p + 2) \in Int
        BY S4Type
      <4>2. \A i \in 1..k : S4At(u, p + 2) + i - 1 \in Int
        BY <4>1
      <4> QED BY <3>2, <4>2
    <3>5. targets \in Seq(Int) /\ Len(targets) = k
      <4>1. \A i \in 1..k : S4At(u, p + 2 + 2 * i) \in Int
        BY <1>3, S4Type
      <4> QED BY <3>2, <4>1
    <3> HIDE DEF keys, targets
    <3> QED BY <3>3, <3>4, <3>5
  <2> QED BY <2>1, <2>2
<1>5. Good(ParseSparseSwitchPayload(u, p))
  <2> DEFINE avail == (n - (p + 2)) \div 2
             half == avail \div 2
             k == Smaller(Unit(u, p + 1), half)
             keys == [i \in 1..k |-> S4At(u, p + 2 * i)]
             targets == [i \in 1..k |-> S4At(u, p + 2 * k + 2 * i)]
  <2>1. CASE p + 4 > n
    BY <1>2, <2>1 DEF ParseSparseSwitchPayload
  <2>2. CASE ~(p + 4 > n)
    <3>1. avail \in Nat
      BY <1>1, <2>2
    <3>2. half \in Nat
      <4> HIDE DEF avail
      <4> QED BY <3>1
    <3>3. k \in Nat
      <4> HIDE DEF half
      <4> QED BY <1>1, <3>2 DEF Smaller
    <3>4. ParseSparseSwitchPayload(u, p).keys = keys /\ ParseSparseSwitchPayload(u, p).targets = targets
      BY <2>2 DEF ParseSparseSwitchPayload
    <3> HIDE DEF k
    <3>5. keys \in Seq(Int) /\ Len(keys) = k
      <4>1. \A i \in 1..k : S4At(u, p + 2 * i) \in Int
        BY <1>3, S4Type
      <4> QED BY <3>3, <4>1
    <3>6. targets \in Seq(Int) /\ Len(targets) = k
      <4>1. \A i \in 1..k : p + 2 * k + 2 * i \in Int
        BY <3>3
      <4>2. \A i \in 1..k : S4At(u, p + 2 * k + 2 * i) \in Int
        BY <4>1, S4Type
      <4> QED BY <3>3, <4>2
    <3> HIDE DEF keys, targets
    <3> QED BY <3>4, <3>5, <3>6
  <2> QED BY <2>1, <2>2
<1>6. Good(ParseFillArrayPayload(u, p))
  <2>1. ParseFillArrayPayload(u, p).kind \notin {"packed", "sparse"}
    BY DEF ParseFillArrayPayload, NoPayload
  <2> QED BY <2>1
<1> HIDE DEF n, Good
<1>7. Good(ParsePayloadAt(u, p))
  <2>1. \/ p + 1 > Len(u) \/ (p + 1 <= Len(u) /\ Unit(u, p) = PackedMark)
        \/ (p + 1 <= Len(u) /\ Unit(u, p) = SparseMark) \/ (p + 1 <= Len(u) /\ Unit(u, p) = ArrayMark)
        \/ (p + 1 <= Len(u) /\ Unit(u, p) \notin {PackedMark, SparseMark, ArrayMark})
    <3>1. Len(u) \in Nat
      OBVIOUS
    <3> QED BY <3>1
  <2>2. ParsePayloadAt(u, p) \in {NoPayload, ParsePackedSwitchPayload(u, p), ParseSparseSwitchPayload(u, p),
                                  ParseFillArrayPayload(u, p)}
    BY <2>1 DEF ParsePayloadAt, PackedMark, SparseMark, ArrayMark
  <2> QED BY <1>2, <1>4, <1>5, <1>6, <2>2
<1> QED BY <1>7 DEF Good

-----------------------------------------------------------------------------
(* Numbers in order. *)

Below(S, x) == {y \in S : y < x}

\* The numbers of a finite set are told apart by how many lie below them.
LEMMA Ranks ==
    ASSUME NEW S \in SUBSET Int, IsFiniteSet(S)
    PROVE  /\ Cardinality(S) \in Nat
           /\ \A x \in S : Cardinality(Below(S, x)) \in 0..(Cardinality(S) - 1)
           /\ \A x, y \in S : x < y => Cardinality(Below(S, x)) < Cardinality(Below(S, y))
           /\ \A d \in 0..(Cardinality(S) - 1) : \E x \in S : Cardinality(Below(S, x)) = d
<1> DEFINE c == Cardinality(S)
           r(x) == Cardinality(Below(S, x))
<1>1. c \in Nat
  BY FS_CardinalityType
<1>2. ASSUME NEW x \in S PROVE IsFiniteSet(Below(S, x)) /\ r(x) \in 0..(c - 1)
  <2>1. Below(S, x) \in SUBSET S /\ x \notin Below(S, x)
    BY DEF Below
  <2>2. IsFiniteSet(Below(S, x)) /\ r(x) <= c /\ r(x) # c
    BY <2>1, FS_Subset
  <2>3. r(x) \in Nat
    BY <2>2, FS_CardinalityType
  <2> HIDE DEF c, r
  <2> QED BY <1>1, <2>2, <2>3
<1>3. ASSUME NEW x \in S, NEW y \in S, x < y PROVE r(x) < r(y)
  <2>1. Below(S, x) \in SUBSET Below(S, y) /\ x \in Below(S, y) /\ x \notin Below(S, x)
    <3>0. x \in Int /\ y \in Int /\ \A z \in S : z \in Int
      OBVIOUS
    <3>1. \A z \in S : z < x => z < y
      BY <1>3, <3>0
    <3>2. ~(x < x)
      BY <3>0
    <3> QED BY <1>3, <3>1, <3>2 DEF Below
  <2>2. r(x) <= r(y) /\ r(x) # r(y)
    BY <1>2, <2>1, FS_Subset
  <2>3. r(x) \in Int /\ r(y) \in Int
    <3> HIDE DEF r, c
    <3> QED BY <1>2
  <2> HIDE DEF r
  <2> QED BY <2>2, <2>3
<1>4. ASSUME NEW d \in 0..(c - 1) PROVE \E x \in S : r(x) = d
  <2> DEFINE D == 0..(c - 1)
             f == [x \in S |-> r(x)]
  <2>1. IsFiniteSet(D) /\ Cardinality(D) = c
    BY <1>1, FS_Interval
  <2>2. \A x \in S : r(x) \in D
    BY <1>2
  <2>3. \A x, y \in S : r(x) = r(y) => x = y
    <3> SUFFICES ASSUME NEW x \in S, NEW y \in S, r(x) = r(y), x # y PROVE FALSE
      OBVIOUS
    <3>1. x < y \/ y < x
      OBVIOUS
    <3>2. r(x) \in Int
      <4> HIDE DEF r, c
      <4> QED BY <1>2
    <3> HIDE DEF r
    <3> QED BY <1>3, <3>1, <3>2
  <2>4. f \in Injection(S, D)
    <3> HIDE DEF r, D
    <3> QED BY <2>2, <2>3 DEF Injection, IsInjective
  <2>5. f \in Surjection(S, D)
    <3> HIDE DEF D, f
    <3> QED BY <1>1, <2>1, <2>4, FS_Injection
  <2> HIDE DEF r
  <2> QED BY <2>5 DEF Surjection
<1> QED BY <1>1, <1>2, <1>3, <1>4

\* Asc lists a finite set of numbers, each once and in order.
LEMMA AscOrder ==
    ASSUME NEW S \in SUBSET Int, IsFiniteSet(S)
    PROVE  /\ Cardinality(S) \in Nat /\ Asc(S) \in [1..Cardinality(S) -> S] /\ Asc(S) \in Seq(S)
           /\ Len(Asc(S)) = Cardinality(S)
           /\ \A i, j \in 1..Cardinality(S) : i < j => Asc(S)[i] < Asc(S)[j]
           /\ \A x \in S : \E i \in 1..Cardinality(S) : Asc(S)[i] = x
<1> DEFINE c == Cardinality(S)
           r(x) == Cardinality({y \in S : y < x})
           at == Asc(S)
<1>1. c \in Nat /\ \A x \in S : Below(S, x) = {y \in S : y < x}
  BY FS_CardinalityType DEF Below
<1>2. /\ \A x \in S : r(x) \in 0..(c - 1)
      /\ \A x, y \in S : x < y => r(x) < r(y)
      /\ \A d \in 0..(c - 1) : \E x \in S : r(x) = d
  <2>1. /\ \A x \in S : Cardinality(Below(S, x)) \in 0..(c - 1)
        /\ \A x, y \in S : x < y => Cardinality(Below(S, x)) < Cardinality(Below(S, y))
        /\ \A d \in 0..(c - 1) : \E x \in S : Cardinality(Below(S, x)) = d
    BY Ranks
  <2> QED BY <1>1, <2>1
<1>3. at = [i \in 1..c |-> CHOOSE x \in S : r(x) = i - 1]
  BY DEF Asc
<1> HIDE DEF r, at, c
<1>4. ASSUME NEW i \in 1..c PROVE at[i] \in S /\ r(at[i]) = i - 1
  <2>1. i - 1 \in 0..(c - 1)
    BY <1>1
  <2>2. \E x \in S : r(x) = i - 1
    BY <1>2, <2>1
  <2>3. at[i] = CHOOSE x \in S : r(x) = i - 1
    BY <1>3
  <2> QED BY <2>2, <2>3
<1>5. at \in [1..c -> S]
  BY <1>3, <1>4
<1>6. at \in Seq(S) /\ Len(at) = c
  BY <1>1, <1>5
<1>7. ASSUME NEW i \in 1..c, NEW j \in 1..c, i < j PROVE at[i] < at[j]
  <2>1. at[i] \in S /\ at[j] \in S /\ r(at[i]) = i - 1 /\ r(at[j]) = j - 1
    BY <1>4
  <2>2. at[j] < at[i] => r(at[j]) < r(at[i])
    BY <1>2, <2>1
  <2>3. ~(j - 1 < i - 1) /\ i - 1 # j - 1
    BY <1>1, <1>7
  <2>4. at[i] # at[j] /\ ~(at[j] < at[i])
    BY <2>1, <2>2, <2>3
  <2>5. at[i] \in Int /\ at[j] \in Int
    BY <2>1
  <2> QED BY <2>4, <2>5
<1>8. ASSUME NEW x \in S PROVE \E i \in 1..c : at[i] = x
  <2>1. r(x) \in 0..(c - 1)
    BY <1>2
  <2>2. r(x) + 1 \in 1..c /\ (r(x) + 1) - 1 = r(x)
    BY <1>1, <2>1
  <2> DEFINE i == r(x) + 1
  <2>3. at[i] \in S /\ r(at[i]) = r(x)
    BY <1>4, <2>2
  <2>4. ~(at[i] < x) /\ ~(x < at[i])
    <3>1. ~(r(x) < r(x))
      <4>1. r(x) \in Int
        BY <1>1, <2>1
      <4> QED BY <4>1
    <3>2. at[i] < x => r(at[i]) < r(x)
      BY <1>2, <2>3
    <3>3. x < at[i] => r(x) < r(at[i])
      BY <1>2, <2>3
    <3> HIDE DEF i
    <3> QED BY <2>3, <3>1, <3>2, <3>3
  <2>5. at[i] \in Int /\ x \in Int
    BY <2>3
  <2>6. at[i] = x
    <3> HIDE DEF i
    <3> QED BY <2>4, <2>5
  <2> QED BY <2>2, <2>6
<1> QED BY <1>1, <1>5, <1>6, <1>7, <1>8 DEF c, at

\* The chosen entries of a list are just those, none other and none lost.
LEMMA Chosens ==
    ASSUME NEW V, NEW s \in Seq(V), NEW K \in SUBSET (DOMAIN s)
    PROVE  /\ Chosen(s, K) \in Seq(V)
           /\ \A i \in DOMAIN Chosen(s, K) : \E k \in K : Chosen(s, K)[i] = s[k]
           /\ \A k \in K : \E i \in DOMAIN Chosen(s, K) : Chosen(s, K)[i] = s[k]
<1>1. IsFiniteSet(K) /\ K \in SUBSET Int
  <2>1. DOMAIN s = 1..Len(s) /\ Len(s) \in Nat
    OBVIOUS
  <2>2. IsFiniteSet(1..Len(s))
    BY <2>1, FS_Interval
  <2> QED BY <2>1, <2>2, FS_Subset
<1> DEFINE at == Asc(K)
           c == Cardinality(K)
<1>2. /\ c \in Nat /\ at \in [1..c -> K]
      /\ \A k \in K : \E i \in 1..c : at[i] = k
  BY <1>1, AscOrder
<1>3. Chosen(s, K) = [i \in 1..c |-> s[at[i]]]
  BY <1>2 DEF Chosen
<1> HIDE DEF at, c
<1>4. \A i \in 1..c : at[i] \in K /\ at[i] \in DOMAIN s
  BY <1>2
<1>5. \A i \in 1..c : s[at[i]] \in V
  BY <1>4
<1>6. Chosen(s, K) \in [1..c -> V]
  BY <1>3, <1>5
<1>7. Chosen(s, K) \in Seq(V) /\ DOMAIN Chosen(s, K) = 1..c
  BY <1>2, <1>6
<1>8. \A i \in 1..c : Chosen(s, K)[i] = s[at[i]]
  BY <1>3
<1>9. ASSUME NEW k \in K PROVE \E i \in 1..c : Chosen(s, K)[i] = s[k]
  <2>1. PICK i \in 1..c : at[i] = k
    BY <1>2
  <2> QED BY <1>8, <2>1
<1> QED BY <1>4, <1>7, <1>8, <1>9

-----------------------------------------------------------------------------
(* Try tables. *)

\* A byte list read past its end yields 0.
LEMMA ByteType ==
    ASSUME NEW b \in Seq(U1), NEW p \in Nat
    PROVE  Bytes(b, p) \in Nat
<1>1. CASE p < Len(b)
  <2>1. p + 1 \in 1..Len(b)
    BY <1>1
  <2>2. b[p + 1] \in U1
    BY <2>1
  <2> QED BY <1>1, <2>2 DEF Bytes, U1
<1>2. CASE ~(p < Len(b))
  BY <1>2 DEF Bytes
<1> QED BY <1>1, <1>2

\* The value of a leb128 is a number, whatever its length.
LEMMA LebValueTypes ==
    ASSUME NEW b \in Seq(U1), NEW p \in Nat, NEW k \in 0..5
    PROVE  UlebValue(b, p, k) \in Nat /\ SlebValue(b, p, k) \in Int
<1> DEFINE part(i) == IF i <= k THEN (Bytes(b, p + i - 1) % 128) * 128^(i - 1) ELSE 0
           low == LowBits(b, p, k)
           top == TopBits(b, p, k)
<1>1. 128^0 \in Nat /\ 128^1 \in Nat /\ 128^2 \in Nat /\ 128^3 \in Nat /\ 128^4 \in Nat /\ 128^5 \in Nat
  OBVIOUS
<1>2. ASSUME NEW i \in 1..4 PROVE part(i) \in Nat
  <2>1. Bytes(b, p + i - 1) \in Nat
    BY ByteType
  <2>2. i - 1 \in {0, 1, 2, 3}
    OBVIOUS
  <2> DEFINE x == Bytes(b, p + i - 1) % 128
             y == 128^(i - 1)
  <2>3. x \in Nat /\ y \in Nat
    <3>1. x \in Nat
      BY <2>1
    <3> DEFINE e == i - 1
    <3>2. e \in {0, 1, 2, 3}
      BY <2>2
    <3> HIDE DEF e
    <3>3. 128^e \in Nat
      BY <1>1, <3>2
    <3> QED BY <3>1, <3>3 DEF e
  <2>4. x * y \in Nat
    <3> HIDE DEF x, y
    <3> QED BY <2>3
  <2>5. part(i) = IF i <= k THEN x * y ELSE 0
    OBVIOUS
  <2> HIDE DEF x, y
  <2> QED BY <2>4, <2>5
<1>3. low \in Nat
  <2>1. part(1) \in Nat /\ part(2) \in Nat /\ part(3) \in Nat /\ part(4) \in Nat
    <3> HIDE DEF part
    <3> QED BY <1>2
  <2>2. low = part(1) + part(2) + part(3) + part(4)
    BY DEF LowBits
  <2> HIDE DEF part, low
  <2> QED BY <2>1, <2>2
<1>4. top \in Nat
  <2>1. Bytes(b, p + 4) \in Nat
    BY ByteType
  <2> QED BY <2>1 DEF TopBits
<1>5. 128^k \in Nat
  <2>1. k \in {0, 1, 2, 3, 4, 5}
    OBVIOUS
  <2> QED BY <1>1, <2>1
<1>6. UlebValue(b, p, k) = IF top >= 8 THEN Large ELSE low + top * 268435456
  BY DEF UlebValue
<1> DEFINE e == 128^k
           bit == k > 0 /\ (Bytes(b, p + k - 1) \div 64) % 2 = 1
<1>7. SlebValue(b, p, k) =
        IF k = 5 THEN low + (IF top >= 8 THEN top - 16 ELSE top) * 268435456
        ELSE IF bit THEN low - e ELSE low
  BY DEF SlebValue
<1> HIDE DEF part, low, top, bit, e
<1>8. e \in Nat
  BY <1>5 DEF e
<1>9. UlebValue(b, p, k) \in Nat
  BY <1>3, <1>4, <1>6 DEF Large
<1>10. SlebValue(b, p, k) \in Int
  BY <1>3, <1>4, <1>7, <1>8
<1> QED BY <1>9, <1>10

\* A complete leb128 at p has one to five bytes, all of them there.
LEMMA LebLengthType ==
    ASSUME NEW b \in Seq(U1), NEW p \in 0..Len(b), LebEnds(b, p) # {}
    PROVE  LebLength(b, p) \in 1..5 /\ p + LebLength(b, p) \in 0..Len(b) /\ p < Len(b)
<1>0. Len(b) \in Nat /\ p \in Nat
  OBVIOUS
<1> DEFINE k == LebLength(b, p)
<1>1. k \in LebEnds(b, p)
  BY DEF LebLength
<1> HIDE DEF k
<1>2. k \in 1..5 /\ p + k <= Len(b)
  BY <1>1 DEF LebEnds
<1>3. k \in 1..5 /\ p + k \in 0..Len(b) /\ p < Len(b)
  BY <1>0, <1>2
<1> QED BY <1>3 DEF k

\* The builder's readers stay in the handler list.
LEMMA LebTypes ==
    ASSUME NEW b \in Seq(U1), NEW p \in 0..Len(b)
    PROVE  /\ ReadUleb128(b, p).v \in Int /\ ReadUleb128(b, p).p \in 0..Len(b)
           /\ ReadSleb128(b, p).v \in Int /\ ReadSleb128(b, p).p \in 0..Len(b)
<1>0. Len(b) \in Nat /\ p \in Nat
  OBVIOUS
<1>1. CASE LebEnds(b, p) = {}
  <2> DEFINE k == Available(b, p)
  <2>1. k \in 0..5 /\ p + k \in 0..Len(b)
    BY <1>0 DEF Smaller, Available
  <2>2. UlebValue(b, p, k) \in Nat /\ SlebValue(b, p, k) \in Int
    <3> HIDE DEF k
    <3> QED BY <1>0, <2>1, LebValueTypes
  <2>3. /\ ReadUleb128(b, p) = [ok |-> FALSE, v |-> UlebValue(b, p, k), p |-> p + k]
        /\ ReadSleb128(b, p) = [ok |-> FALSE, v |-> SlebValue(b, p, k), p |-> p + k]
    BY <1>1 DEF ReadUleb128, ReadSleb128
  <2> HIDE DEF k
  <2> QED BY <2>1, <2>2, <2>3
<1>2. CASE LebEnds(b, p) # {}
  <2> DEFINE k == LebLength(b, p)
  <2>1. k \in 1..5 /\ p + k \in 0..Len(b)
    BY <1>2, LebLengthType
  <2>2. UlebValue(b, p, k) \in Nat /\ SlebValue(b, p, k) \in Int
    <3> HIDE DEF k
    <3>1. k \in 0..5
      BY <2>1
    <3> QED BY <1>0, <3>1, LebValueTypes
  <2>3. /\ ReadUleb128(b, p) = [ok |-> TRUE, v |-> UlebValue(b, p, k), p |-> p + k]
        /\ ReadSleb128(b, p) = [ok |-> TRUE, v |-> SlebValue(b, p, k), p |-> p + k]
    BY <1>2 DEF ReadUleb, ReadSleb, ReadUleb128, ReadSleb128
  <2> HIDE DEF k
  <2> QED BY <2>1, <2>2, <2>3
<1> QED BY <1>1, <1>2

\* The verifier's readers fail where the builder's stop; where they do not, both
\* read the same, and inside the handler list.
LEMMA ReadersAgree ==
    ASSUME NEW b \in Seq(U1), NEW p \in 0..Len(b)
    PROVE  /\ ReadUleb(b, p).p \in 0..Len(b) /\ ReadSleb(b, p).p \in 0..Len(b)
           /\ ReadUleb(b, p).v \in Nat /\ ReadSleb(b, p).v \in Int
           /\ ReadUleb(b, p).ok \in BOOLEAN /\ ReadSleb(b, p).ok \in BOOLEAN
           /\ ReadUleb(b, p).ok => p < Len(b) /\ ReadUleb128(b, p) = ReadUleb(b, p)
           /\ ReadSleb(b, p).ok => p < Len(b) /\ ReadSleb128(b, p) = ReadSleb(b, p)
<1>0. Len(b) \in Nat /\ p \in Nat
  OBVIOUS
<1>1. CASE LebEnds(b, p) = {}
  <2>1. ReadUleb(b, p) = [ok |-> FALSE, v |-> 0, p |-> p] /\ ReadSleb(b, p) = [ok |-> FALSE, v |-> 0, p |-> p]
    BY <1>1 DEF ReadUleb, ReadSleb
  <2> QED BY <2>1
<1>2. CASE LebEnds(b, p) # {}
  <2> DEFINE k == LebLength(b, p)
  <2>1. k \in 1..5 /\ p + k \in 0..Len(b) /\ p < Len(b)
    BY <1>2, LebLengthType
  <2>2. UlebValue(b, p, k) \in Nat /\ SlebValue(b, p, k) \in Int
    <3> HIDE DEF k
    <3>1. k \in 0..5
      BY <2>1
    <3> QED BY <1>0, <3>1, LebValueTypes
  <2>3. /\ ReadUleb(b, p) = [ok |-> TRUE, v |-> UlebValue(b, p, k), p |-> p + k]
        /\ ReadSleb(b, p) = [ok |-> TRUE, v |-> SlebValue(b, p, k), p |-> p + k]
    BY <1>2 DEF ReadUleb, ReadSleb
  <2>4. ReadUleb128(b, p) = ReadUleb(b, p) /\ ReadSleb128(b, p) = ReadSleb(b, p)
    BY <1>2 DEF ReadUleb128, ReadSleb128
  <2> HIDE DEF k
  <2> QED BY <2>1, <2>2, <2>3, <2>4
<1> QED BY <1>1, <1>2

\* What ParseHandler may yield: a list of <<type, address>>.
Clauses == Seq(Int \X Int)

\* The builder's clauses, by the number of them still to read.
ReadRow(b, v) ==
    [p \in 0..Len(b) |->
        IF p = Len(b) THEN <<p, <<>>>>
        ELSE LET type == ReadUleb128(b, p)
                 addr == ReadUleb128(b, type.p)
             IN  <<v[addr.p][1], <<<<type.v, addr.v>>>> \o v[addr.p][2]>>]
ReadRows(b, count, g) ==
    /\ g \in [0..count -> [0..Len(b) -> (0..Len(b)) \X Clauses]]
    /\ \A p \in 0..Len(b) : g[0][p] = <<p, <<>>>>
    /\ \A n \in 1..count : g[n] = ReadRow(b, g[n - 1])
LEMMA ReadClausesSolves ==
    ASSUME NEW b \in Seq(U1), NEW count \in Nat
    PROVE  \E g : ReadRows(b, count, g) /\ \A begin : ReadClauses(b, begin, count) = g[count][begin]
<1> DEFINE N == 0..Len(b)
           W == N \X Clauses
           V == [N -> W]
           first == [p \in N |-> <<p, <<>>>>]
           row == [v \in V |-> ReadRow(b, v)]
           S == 0..count
           Body(f, n) == [p \in 0..Len(b) |->
                IF n = 0 \/ p = Len(b) THEN <<p, <<>>>>
                ELSE LET type == ReadUleb128(b, p)
                         addr == ReadUleb128(b, type.p)
                         rest == f[n - 1][addr.p]
                     IN  <<rest[1], <<<<type.v, addr.v>>>> \o rest[2]>>]
           Is(f) == f = [n \in 0..count |-> Body(f, n)]
           read == CHOOSE f : Is(f)
<1>0. <<>> \in Clauses
  BY DEF Clauses
<1>1. first \in V
  <2>1. \A p \in N : <<p, <<>>>> \in W
    <3> HIDE DEF N
    <3> QED BY <1>0
  <2> HIDE DEF N, W
  <2> QED BY <2>1
<1>2. ASSUME NEW v \in V PROVE ReadRow(b, v) \in V
  <2> DEFINE addr(p) == ReadUleb128(b, ReadUleb128(b, p).p)
             caught(p) == <<ReadUleb128(b, p).v, addr(p).v>>
  <2>1. ASSUME NEW p \in N PROVE addr(p).p \in N /\ caught(p) \in Int \X Int
    <3>1. ReadUleb128(b, p).v \in Int /\ ReadUleb128(b, p).p \in N
      BY LebTypes
    <3>2. addr(p).v \in Int /\ addr(p).p \in N
      BY <3>1, LebTypes
    <3> QED BY <3>1, <3>2
  <2>2. ReadRow(b, v) = [p \in N |-> IF p = Len(b) THEN <<p, <<>>>>
                                     ELSE <<v[addr(p).p][1], <<caught(p)>> \o v[addr(p).p][2]>>]
    BY DEF ReadRow
  <2> HIDE DEF addr, caught
  <2>3. ASSUME NEW p \in N PROVE <<v[addr(p).p][1], <<caught(p)>> \o v[addr(p).p][2]>> \in W
    <3>1. v[addr(p).p] \in W
      <4> HIDE DEF N, W
      <4> QED BY <2>1
    <3>2. v[addr(p).p][1] \in N /\ v[addr(p).p][2] \in Clauses
      <4> HIDE DEF N
      <4> QED BY <3>1
    <3>3. <<caught(p)>> \o v[addr(p).p][2] \in Clauses
      BY <2>1, <3>2 DEF Clauses
    <3> HIDE DEF N
    <3> QED BY <3>2, <3>3
  <2>4. ASSUME NEW p \in N PROVE <<p, <<>>>> \in W
    <3> HIDE DEF N
    <3> QED BY <1>0
  <2> HIDE DEF N, W
  <2> QED BY <2>2, <2>3, <2>4
<1>3. row \in [V -> V]
  <2> HIDE DEF V
  <2> QED BY <1>2
<1>4. PICK h : Counts(count, V, first, row, h)
  <2> HIDE DEF V, first, row
  <2> QED BY <1>1, <1>3, CountSolves
<1>5. h \in [S -> V] /\ h[0] = first /\ \A n \in 1..count : h[n] = ReadRow(b, h[n - 1])
  <2> HIDE DEF first, V, N
  <2>1. h \in [S -> V] /\ h[0] = first /\ \A n \in 1..count : h[n] = row[h[n - 1]]
    <3> HIDE DEF row
    <3> QED BY <1>4 DEF Counts
  <2>2. \A n \in 1..count : h[n - 1] \in V
    BY <2>1
  <2> QED BY <2>1, <2>2
<1>6. ASSUME NEW f, NEW n \in 1..count PROVE Body(f, n) = ReadRow(b, f[n - 1])
  BY DEF ReadRow
<1>7. \A f : Body(f, 0) = first
  OBVIOUS
<1>8. Is(h)
  <2> HIDE DEF Body, first, V, N
  <2>1. \A n \in 0..count : h[n] = Body(h, n)
    <3> SUFFICES ASSUME NEW n \in 0..count PROVE h[n] = Body(h, n)
      OBVIOUS
    <3>1. n = 0 \/ n \in 1..count
      OBVIOUS
    <3> QED BY <1>5, <1>6, <1>7, <3>1
  <2>2. h = [n \in 0..count |-> h[n]]
    BY <1>5
  <2> QED BY <2>1, <2>2
<1>9. Is(read)
  <2> HIDE DEF Is
  <2> QED BY <1>8
<1>10. \A begin : ReadClauses(b, begin, count) = read[count][begin]
  BY DEF ReadClauses
<1> HIDE DEF read
<1>11. read[0] = first /\ \A n \in 1..count : read[n] = ReadRow(b, read[n - 1])
  <2> HIDE DEF Body, first
  <2>1. \A n \in 0..count : read[n] = Body(read, n)
    BY <1>9
  <2>2. 0 \in 0..count /\ \A n \in 1..count : n \in 0..count
    OBVIOUS
  <2> QED BY <1>6, <1>7, <2>1, <2>2
<1>12. \A n \in S : read[n] \in V
  <2> DEFINE T == {n \in S : read[n] \in V}
  <2> HIDE DEF V, first, Body, Is
  <2>1. 0 \in T
    BY <1>1, <1>11
  <2>2. ASSUME NEW i \in 1..count, i - 1 \in T PROVE i \in T
    BY <1>2, <1>11, <2>2
  <2>3. T \in SUBSET (0..count)
    OBVIOUS
  <2> HIDE DEF T
  <2>4. T = 0..count
    BY <2>1, <2>2, <2>3, Upward
  <2> QED BY <2>4 DEF T
<1>13. read \in [S -> V]
  <2> HIDE DEF V, Body
  <2>1. read = [n \in 0..count |-> Body(read, n)]
    BY <1>9
  <2> QED BY <1>12, <2>1
<1>14. ReadRows(b, count, read)
  BY <1>11, <1>13 DEF ReadRows
<1> QED BY <1>10, <1>14

\* The builder's typed clauses: a list of them, and a place in the bytes.
LEMMA ReadClausesType ==
    ASSUME NEW b \in Seq(U1), NEW begin \in 0..Len(b), NEW count \in Nat
    PROVE  ReadClauses(b, begin, count) \in (0..Len(b)) \X Clauses
<1> DEFINE W == (0..Len(b)) \X Clauses
<1>1. PICK g : ReadRows(b, count, g) /\ \A x : ReadClauses(b, x, count) = g[count][x]
  BY ReadClausesSolves
<1>2. g[count] \in [0..Len(b) -> W]
  <2>1. count \in 0..count
    OBVIOUS
  <2> HIDE DEF W
  <2> QED BY <1>1, <2>1 DEF ReadRows, W
<1> HIDE DEF W
<1>3. g[count][begin] \in W
  BY <1>2
<1> QED BY <1>1, <1>3 DEF W

\* A handler list is a list of clauses, wherever it is read.
LEMMA ParseHandlerType ==
    ASSUME NEW b \in Seq(U1), NEW p \in 0..Len(b)
    PROVE  ParseHandler(b, p) \in Clauses
<1> DEFINE size == ReadSleb128(b, p)
           count == IF size.v < 0 THEN -size.v ELSE size.v
           typed == ReadClauses(b, size.p, count)
           rest == IF size.v <= 0 THEN <<<<CatchAll, ReadUleb128(b, typed[1]).v>>>> ELSE <<>>
<1>1. size.v \in Int /\ size.p \in 0..Len(b)
  BY LebTypes
<1>2. count \in Nat
  <2> HIDE DEF size
  <2> QED BY <1>1
<1>3. typed \in (0..Len(b)) \X Clauses
  <2> HIDE DEF size, count
  <2> QED BY <1>1, <1>2, ReadClausesType
<1>4. typed[1] \in 0..Len(b) /\ typed[2] \in Clauses
  <2> HIDE DEF typed
  <2> QED BY <1>3
<1>5. ReadUleb128(b, typed[1]).v \in Int
  <2> HIDE DEF typed
  <2> QED BY <1>4, LebTypes
<1>6. rest \in Clauses
  <2> DEFINE v == ReadUleb128(b, typed[1]).v
             one == <<<<CatchAll, v>>>>
  <2>1. v \in Int
    BY <1>5
  <2>2. rest \in {one, <<>>}
    <3> HIDE DEF one, size
    <3> QED BY DEF one
  <2> HIDE DEF v, rest
  <2>3. one \in Clauses /\ <<>> \in Clauses
    BY <2>1 DEF Clauses, CatchAll
  <2> QED BY <2>2, <2>3
<1>7. ParseHandler(b, p) = typed[2] \o rest
  BY DEF ParseHandler
<1> HIDE DEF typed, rest
<1> QED BY <1>4, <1>6, <1>7 DEF Clauses

TryItems == [start : Nat, count : Nat, off : Nat]
ParsedTries == Seq([start : Nat, end : Nat, handlers : Clauses])

\* ParseExceptions yields ranges with clauses.
LEMMA ParseExceptionsType ==
    ASSUME NEW c, c.bytes \in Seq(U1), c.tries \in Seq(TryItems)
    PROVE  ParseExceptions(c) \in ParsedTries
<1> DEFINE K == {t \in DOMAIN c.tries : c.tries[t].off < Len(c.bytes)}
           known == Chosen(c.tries, K)
           R == [start : Nat, end : Nat, handlers : Clauses]
<1>1. /\ known \in Seq(TryItems)
      /\ \A i \in DOMAIN known : \E k \in K : known[i] = c.tries[k]
  <2>1. K \in SUBSET (DOMAIN c.tries)
    OBVIOUS
  <2> HIDE DEF K
  <2> QED BY <2>1, Chosens
<1>2. ParseExceptions(c) = [t \in DOMAIN known |->
           [start |-> known[t].start, end |-> known[t].start + known[t].count,
            handlers |-> ParseHandler(c.bytes, known[t].off)]]
  BY DEF ParseExceptions
<1> HIDE DEF known
<1>3. ASSUME NEW t \in DOMAIN known
      PROVE  [start |-> known[t].start, end |-> known[t].start + known[t].count,
              handlers |-> ParseHandler(c.bytes, known[t].off)] \in R
  <2>1. known[t] \in TryItems
    BY <1>1
  <2>2. known[t].start \in Nat /\ known[t].count \in Nat /\ known[t].off \in Nat
    BY <2>1 DEF TryItems
  <2>3. known[t].off < Len(c.bytes)
    BY <1>1
  <2>4. known[t].off \in 0..Len(c.bytes)
    <3>1. Len(c.bytes) \in Nat
      OBVIOUS
    <3> QED BY <2>2, <2>3, <3>1
  <2>5. ParseHandler(c.bytes, known[t].off) \in Clauses
    BY <2>4, ParseHandlerType
  <2> QED BY <2>2, <2>5
<1>4. DOMAIN known = 1..Len(known) /\ Len(known) \in Nat
  BY <1>1
<1> HIDE DEF R
<1>5. ParseExceptions(c) \in [1..Len(known) -> R]
  BY <1>2, <1>3, <1>4
<1>6. ParseExceptions(c) \in Seq(R)
  BY <1>4, <1>5
<1> QED BY <1>6 DEF ParsedTries, R

\* What a list holds is finite.
LEMMA ListFinite ==
    ASSUME NEW n \in Nat, NEW f, DOMAIN f = 1..n
    PROVE  IsFiniteSet({f[i] : i \in 1..n})
<1> DEFINE T == {f[i] : i \in 1..n}
           g == [i \in 1..n |-> f[i]]
<1>1. g \in Surjection(1..n, T)
  BY DEF Surjection
<1>2. IsFiniteSet(1..n)
  BY FS_Interval
<1> HIDE DEF T, g
<1> QED BY <1>1, <1>2, FS_Surjection DEF T

\* Where handlers and ranges begin.
LEMMA ExceptionLeadersFinite ==
    ASSUME NEW ts \in ParsedTries
    PROVE  /\ HandlerOffs(ts) \in SUBSET Int /\ IsFiniteSet(HandlerOffs(ts))
           /\ ExceptionLeaders(ts) \in SUBSET Int /\ IsFiniteSet(ExceptionLeaders(ts))
<1> DEFINE n == Len(ts)
           of(t) == {ts[t].handlers[h][2] : h \in DOMAIN ts[t].handlers}
<1>1. n \in Nat /\ DOMAIN ts = 1..n
  BY DEF ParsedTries
<1>2. ASSUME NEW t \in 1..n PROVE ts[t].start \in Nat /\ ts[t].handlers \in Clauses
  <2>1. ts[t] \in [start : Nat, end : Nat, handlers : Clauses]
    <3> DEFINE R == [start : Nat, end : Nat, handlers : Clauses]
    <3>1. ts \in Seq(R)
      BY DEF ParsedTries
    <3> HIDE DEF R
    <3>2. ts[t] \in R
      BY <1>2, <3>1
    <3> QED BY <3>2 DEF R
  <2> QED BY <2>1
<1> HIDE DEF n
<1>3. ASSUME NEW t \in 1..n PROVE of(t) \in SUBSET Int /\ IsFiniteSet(of(t))
  <2> DEFINE hs == ts[t].handlers
             k == Len(hs)
             f == [h \in 1..k |-> hs[h][2]]
  <2>1. hs \in Seq(Int \X Int)
    BY <1>2 DEF Clauses
  <2> HIDE DEF hs
  <2>2. k \in Nat /\ DOMAIN hs = 1..k /\ \A h \in 1..k : hs[h] \in Int \X Int
    BY <2>1
  <2>3. \A h \in 1..k : hs[h][2] \in Int
    BY <2>2
  <2>4. of(t) = {f[h] : h \in 1..k}
    BY <2>2 DEF hs
  <2>5. IsFiniteSet({f[h] : h \in 1..k})
    <3> HIDE DEF f, k
    <3>1. DOMAIN f = 1..k
      BY DEF f
    <3> QED BY <2>2, <3>1, ListFinite
  <2>6. {f[h] : h \in 1..k} \in SUBSET Int
    BY <2>3
  <2> HIDE DEF f, k
  <2> QED BY <2>4, <2>5, <2>6
<1>4. HandlerOffs(ts) = UNION {of(t) : t \in 1..n}
  BY <1>1 DEF HandlerOffs
<1> HIDE DEF of
<1>5. IsFiniteSet({of(t) : t \in 1..n})
  <2> DEFINE f == [t \in 1..n |-> of(t)]
  <2>1. {of(t) : t \in 1..n} = {f[t] : t \in 1..n} /\ DOMAIN f = 1..n
    OBVIOUS
  <2> HIDE DEF f
  <2>2. IsFiniteSet({f[t] : t \in 1..n})
    BY <1>1, <2>1, ListFinite
  <2> QED BY <2>1, <2>2
<1>6. HandlerOffs(ts) \in SUBSET Int /\ IsFiniteSet(HandlerOffs(ts))
  <2>1. \A T \in {of(t) : t \in 1..n} : IsFiniteSet(T)
    BY <1>3
  <2>2. IsFiniteSet(UNION {of(t) : t \in 1..n})
    BY <1>5, <2>1, FS_UNION
  <2> QED BY <1>3, <1>4, <2>2
<1>7. {ts[t].start : t \in DOMAIN ts} \in SUBSET Int /\ IsFiniteSet({ts[t].start : t \in DOMAIN ts})
  <2> DEFINE f == [t \in 1..n |-> ts[t].start]
  <2>1. {ts[t].start : t \in DOMAIN ts} = {f[t] : t \in 1..n} /\ DOMAIN f = 1..n
    BY <1>1
  <2>2. {f[t] : t \in 1..n} \in SUBSET Int
    BY <1>2
  <2> HIDE DEF f
  <2>3. IsFiniteSet({f[t] : t \in 1..n})
    BY <1>1, <2>1, ListFinite
  <2> QED BY <2>1, <2>2, <2>3
<1>8. ExceptionLeaders(ts) = {ts[t].start : t \in DOMAIN ts} \cup HandlerOffs(ts)
  BY DEF ExceptionLeaders
<1> QED BY <1>6, <1>7, <1>8, FS_Union

\* Where instructions begin a block.
LEMMA LeadersFinite ==
    ASSUME NEW u \in Seq(U2), NEW s, InsnList(u, 0, s)
    PROVE  ComputeLeaders(u, s) \in SUBSET Int /\ IsFiniteSet(ComputeLeaders(u, s))
<1> DEFINE n == Len(s)
           first == {s[i].off : i \in {1} \cap DOMAIN s}
           after == {s[i + 1].off : i \in {k \in 1..(n - 1) : EndsBlock(s[k].op)}}
           offs == {s[i].off : i \in 1..n}
           targets == {s[i].target : i \in 1..n}
           cases == UNION {CaseLeaders(u, s[i]) : i \in DOMAIN s}
<1>1. n \in Nat /\ DOMAIN s = 1..n /\ Len(u) \in Nat
  BY DEF InsnList
<1>2. ASSUME NEW i \in 1..n PROVE s[i].off \in Int /\ s[i].target \in Int
  <2>1. s[i].off \in Nat /\ s[i] = RawIns(u, s[i].off)
    BY DEF InsnList
  <2>2. RawIns(u, s[i].off).target \in Int
    BY <2>1, RawTypes
  <2> QED BY <2>1, <2>2
<1> HIDE DEF n
<1>3. offs \in SUBSET Int /\ IsFiniteSet(offs)
  <2> DEFINE f == [i \in 1..n |-> s[i].off]
  <2>1. offs = {f[i] : i \in 1..n} /\ DOMAIN f = 1..n
    OBVIOUS
  <2>2. offs \in SUBSET Int
    BY <1>2
  <2> HIDE DEF f
  <2>3. IsFiniteSet({f[i] : i \in 1..n})
    BY <1>1, <2>1, ListFinite
  <2> QED BY <2>1, <2>2, <2>3
<1>4. targets \in SUBSET Int /\ IsFiniteSet(targets)
  <2> DEFINE f == [i \in 1..n |-> s[i].target]
  <2>1. targets = {f[i] : i \in 1..n} /\ DOMAIN f = 1..n
    OBVIOUS
  <2>2. targets \in SUBSET Int
    BY <1>2
  <2> HIDE DEF f
  <2>3. IsFiniteSet({f[i] : i \in 1..n})
    BY <1>1, <2>1, ListFinite
  <2> QED BY <2>1, <2>2, <2>3
<1>5. cases \in SUBSET (0..Len(u)) /\ IsFiniteSet(cases)
  <2>1. ASSUME NEW i \in DOMAIN s PROVE CaseLeaders(u, s[i]) \in SUBSET (0..Len(u))
    <3> DEFINE p == PayloadOf(u, s[i])
               pair == p.kind \in {"packed", "sparse"}
               S == {s[i].off + p.targets[k] : k \in 1..Len(p.targets)}
    <3>0. CaseLeaders(u, s[i]) = IF pair THEN {t \in S : 0 <= t /\ t < Len(u)} ELSE {}
      BY DEF CaseLeaders
    <3>1. ASSUME NEW t \in S, 0 <= t, t < Len(u), pair PROVE t \in 0..Len(u)
      <4>1. PICK k \in 1..Len(p.targets) : t = s[i].off + p.targets[k]
        OBVIOUS
      <4>2. p.targets \in Seq(Int)
        <5>1. s[i].payload \in Int
          <6>1. s[i].off \in Nat /\ s[i] = RawIns(u, s[i].off)
            BY <1>1 DEF InsnList, n
          <6> QED BY <6>1, RawTypes
        <5>2. p = NoPayload \/ p = ParsePayloadAt(u, s[i].payload)
          BY DEF PayloadOf
        <5>3. NoPayload.kind \notin {"packed", "sparse"}
          BY DEF NoPayload
        <5> HIDE DEF p
        <5> QED BY <3>1, <5>1, <5>2, <5>3, PayloadTypes
      <4>3. t \in Int
        <5> HIDE DEF p
        <5> QED BY <1>1, <1>2, <4>1, <4>2
      <4> QED BY <1>1, <3>1, <4>3
    <3> HIDE DEF S, pair
    <3> QED BY <3>0, <3>1
  <2>2. cases \in SUBSET (0..Len(u))
    BY <2>1
  <2>3. IsFiniteSet(0..Len(u))
    BY <1>1, FS_Interval
  <2> HIDE DEF cases
  <2> QED BY <2>2, <2>3, FS_Subset
<1>6. first \in SUBSET offs /\ after \in SUBSET offs /\ targets \ {NoTarget} \in SUBSET targets
  <2>1. \A i \in 1..(n - 1) : i + 1 \in 1..n
    BY <1>1
  <2> QED BY <1>1, <2>1
<1>7. IsFiniteSet(first) /\ IsFiniteSet(after) /\ IsFiniteSet(targets \ {NoTarget})
  <2> HIDE DEF first, after, targets, offs
  <2> QED BY <1>3, <1>4, <1>6, FS_Subset
<1>8. ComputeLeaders(u, s) = first \cup after \cup (targets \ {NoTarget}) \cup cases
  <2>1. {s[i].target : i \in DOMAIN s} = targets
    BY <1>1
  <2> QED BY <2>1 DEF ComputeLeaders, n
<1> HIDE DEF first, after, targets, offs, cases
<1>9. IsFiniteSet(first \cup after) /\ IsFiniteSet((first \cup after) \cup (targets \ {NoTarget}))
  BY <1>7, FS_Union
<1>10. IsFiniteSet(((first \cup after) \cup (targets \ {NoTarget})) \cup cases)
  BY <1>5, <1>9, FS_Union
<1>11. \A S \in SUBSET (0..Len(u)) : S \in SUBSET Int
  BY <1>1
<1>12. first \in SUBSET Int /\ after \in SUBSET Int /\ targets \ {NoTarget} \in SUBSET Int /\ cases \in SUBSET Int
  BY <1>3, <1>4, <1>5, <1>6, <1>11
<1> QED BY <1>8, <1>10, <1>12

-----------------------------------------------------------------------------
(* Blocks. *)

\* What Build needs to know of its leaders: a finite set of offsets, the first
\* instruction's among them.
LeadersOf(u, s, L) ==
    /\ InsnList(u, 0, s)
    /\ L \in SUBSET Int /\ IsFiniteSet(L)
    /\ s # <<>> => s[1].off \in L

\* The blocks as split; the later stages add edges and handlers to these.
SplitLike(u, s, L, bs) ==
    LET split == SplitIntoBlocks(s, L, Len(u))
    IN  /\ DOMAIN bs = DOMAIN split
        /\ \A b \in DOMAIN split :
             /\ bs[b].start = split[b].start /\ bs[b].end = split[b].end
             /\ bs[b].first = split[b].first /\ bs[b].last = split[b].last

\* The first and the last of some instructions, 0 for none.
FirstOf(span) == IF span = {} THEN 0 ELSE CHOOSE i \in span : \A j \in span : i <= j
LastOf(span) == IF span = {} THEN 0 ELSE CHOOSE i \in span : \A j \in span : i >= j

\* A block begins at its leader and ends at the next, the last one at the end of
\* insns[].
LEMMA BlockBounds ==
    ASSUME NEW u \in Seq(U2), NEW s, NEW L, LeadersOf(u, s, L), NEW bs, SplitLike(u, s, L, bs)
    PROVE  /\ Cardinality(L) \in Nat /\ DOMAIN bs = 1..Cardinality(L)
           /\ \A b \in DOMAIN bs :
                /\ bs[b].start \in L /\ bs[b].start \in Int /\ bs[b].end \in Int
                /\ bs[b].end = IF b < Cardinality(L) THEN bs[b + 1].start ELSE Len(u)
                /\ bs[b].first = FirstOf(SpanFrom(s, bs[b].start, bs[b].end))
                /\ bs[b].last = LastOf(SpanFrom(s, bs[b].start, bs[b].end))
           /\ \A b, d \in DOMAIN bs : b < d => bs[b].start < bs[d].start
           /\ \A x \in L : \E b \in DOMAIN bs : bs[b].start = x
<1> DEFINE c == Cardinality(L)
           at == Asc(L)
           split == SplitIntoBlocks(s, L, Len(u))
           end(b) == IF b < Len(at) THEN at[b + 1] ELSE Len(u)
           span(b) == SpanFrom(s, at[b], end(b))
           low(b) == FirstOf(span(b))
           high(b) == LastOf(span(b))
<1>1. /\ c \in Nat /\ at \in [1..c -> L] /\ Len(at) = c /\ DOMAIN at = 1..c
      /\ \A i, j \in 1..c : i < j => at[i] < at[j]
      /\ \A x \in L : \E i \in 1..c : at[i] = x
  <2>1. L \in SUBSET Int /\ IsFiniteSet(L)
    BY DEF LeadersOf
  <2> QED BY <2>1, AscOrder
<1> HIDE DEF at, c
<1>2. DOMAIN split = 1..c /\ \A b \in 1..c : /\ split[b].start = at[b] /\ split[b].end = end(b)
                                             /\ split[b].first = low(b) /\ split[b].last = high(b)
  BY <1>1 DEF SplitIntoBlocks, FirstOf, LastOf, at
<1> HIDE DEF low, high, span, end, split
<1>3. DOMAIN bs = 1..c /\ \A b \in 1..c : /\ bs[b].start = at[b] /\ bs[b].end = end(b)
                                          /\ bs[b].first = low(b) /\ bs[b].last = high(b)
  BY <1>2 DEF SplitLike, split
<1>4. ASSUME NEW b \in 1..c
      PROVE  /\ bs[b].start \in L /\ bs[b].start \in Int /\ bs[b].end \in Int
             /\ bs[b].end = IF b < c THEN bs[b + 1].start ELSE Len(u)
  <2>1. at[b] \in L /\ \A x \in L : x \in Int
    BY <1>1 DEF LeadersOf
  <2>2. b < c => b + 1 \in 1..c
    BY <1>1
  <2>3. end(b) = IF b < c THEN bs[b + 1].start ELSE Len(u)
    BY <1>1, <1>3, <2>2 DEF end
  <2>4. b < c => bs[b + 1].start \in L
    BY <1>1, <1>3, <2>2
  <2>5. end(b) \in Int
    <3>1. Len(u) \in Int
      OBVIOUS
    <3> QED BY <2>1, <2>3, <2>4, <3>1
  <2> QED BY <1>3, <2>1, <2>3, <2>5
<1>5. ASSUME NEW b \in 1..c
      PROVE  /\ bs[b].first = FirstOf(SpanFrom(s, bs[b].start, bs[b].end))
             /\ bs[b].last = LastOf(SpanFrom(s, bs[b].start, bs[b].end))
  <2>1. span(b) = SpanFrom(s, bs[b].start, bs[b].end)
    BY <1>3 DEF span
  <2>2. bs[b].first = low(b) /\ bs[b].last = high(b)
    BY <1>3
  <2> QED BY <2>1, <2>2 DEF low, high
<1>6. \A b, d \in 1..c : b < d => bs[b].start < bs[d].start
  BY <1>1, <1>3
<1>7. \A x \in L : \E b \in 1..c : bs[b].start = x
  BY <1>1, <1>3
<1> QED BY <1>1, <1>3, <1>4, <1>5, <1>6, <1>7 DEF c

\* The instructions of a block are those that begin inside it, without a gap.
LEMMA BlockHolds ==
    ASSUME NEW u \in Seq(U2), NEW s, NEW L, LeadersOf(u, s, L), NEW bs, SplitLike(u, s, L, bs), NEW b \in DOMAIN bs
    PROVE  /\ bs[b].first \in 0..Len(s) /\ bs[b].last \in 0..Len(s) /\ (bs[b].first = 0 <=> bs[b].last = 0)
           /\ \A i \in 1..Len(s) : (bs[b].first # 0 /\ bs[b].first <= i /\ i <= bs[b].last)
                                   <=> (bs[b].start <= s[i].off /\ s[i].off < bs[b].end)
           /\ bs[b].first # 0 => bs[b].first <= bs[b].last
<1> DEFINE n == Len(s)
           lo == bs[b].start
           hi == bs[b].end
           span == SpanFrom(s, lo, hi)
<1>1. n \in Nat /\ DOMAIN s = 1..n /\ \A i \in 1..n : s[i].off \in Nat
  BY DEF LeadersOf, InsnList
<1>2. \A i, j \in 1..n : i < j => s[i].off < s[j].off
  <2> SUFFICES ASSUME NEW i \in 1..n, NEW j \in 1..n, i < j PROVE s[i].off < s[j].off
    OBVIOUS
  <2>1. /\ s[i].len \in Nat /\ 1 <= s[i].len /\ s[i].off + s[i].len <= s[j].off
    BY DEF LeadersOf, InsnList
  <2>2. s[i].off \in Nat /\ s[j].off \in Nat
    BY <1>1
  <2> QED BY <2>1, <2>2
<1>3. /\ lo \in Int /\ hi \in Int
      /\ bs[b].first = FirstOf(span) /\ bs[b].last = LastOf(span)
  BY BlockBounds
<1> HIDE DEF n, lo, hi
<1>4. span = {i \in 1..n : lo <= s[i].off /\ s[i].off < hi}
  BY <1>1 DEF SpanFrom
<1>5. CASE span = {}
  <2>1. bs[b].first = 0 /\ bs[b].last = 0
    BY <1>3, <1>5 DEF FirstOf, LastOf
  <2>2. \A i \in 1..n : ~(lo <= s[i].off /\ s[i].off < hi)
    BY <1>4, <1>5
  <2>3. 0 \in 0..n
    BY <1>1
  <2> QED BY <2>1, <2>2, <2>3 DEF n, lo, hi
<1>6. CASE span # {}
  <2> DEFINE f == CHOOSE i \in span : \A j \in span : i <= j
             l == CHOOSE i \in span : \A j \in span : i >= j
  <2>1. span \in SUBSET Nat /\ span \in SUBSET (1..n)
    BY <1>4
  <2>2. f \in span /\ \A j \in span : f <= j
    <3>1. \E i \in span : \A j \in span : i <= j
      <4> HIDE DEF span
      <4> QED BY <1>6, <2>1, Least
    <3> HIDE DEF span
    <3> QED BY <3>1
  <2>3. l \in span /\ \A j \in span : l >= j
    <3> DEFINE M == {n - i : i \in span}
    <3>1. M \in SUBSET Nat /\ M # {}
      <4>1. \A i \in span : i \in 1..n
        BY <2>1
      <4> HIDE DEF span
      <4>2. \A i \in span : n - i \in Nat
        BY <1>1, <4>1
      <4> QED BY <1>6, <4>2
    <3>2. PICK m \in M : \A k \in M : m <= k
      <4> HIDE DEF M
      <4> QED BY <3>1, Least
    <3>3. PICK i \in span : m = n - i
      OBVIOUS
    <3>4. ASSUME NEW j \in span PROVE i >= j
      <4>1. n - i <= n - j
        BY <3>2, <3>3
      <4>2. i \in 1..n /\ j \in 1..n
        BY <2>1
      <4> HIDE DEF span
      <4> QED BY <1>1, <4>1, <4>2
    <3>5. \E k \in span : \A j \in span : k >= j
      BY <3>4
    <3> HIDE DEF span
    <3> QED BY <3>5
  <2>4. bs[b].first = f /\ bs[b].last = l
    BY <1>3, <1>6 DEF FirstOf, LastOf
  <2> HIDE DEF f, l, span
  <2>5. f \in 1..n /\ l \in 1..n /\ f <= l /\ f # 0 /\ l # 0
    <3>1. f \in 1..n /\ l \in 1..n
      BY <2>1, <2>2, <2>3
    <3> QED BY <1>1, <2>2, <2>3, <3>1
  <2>6. ASSUME NEW i \in 1..n PROVE (f <= i /\ i <= l) <=> i \in span
    <3>1. i \in span => f <= i /\ i <= l
      <4>1. i \in Int /\ l \in Int
        BY <2>5
      <4> QED BY <2>2, <2>3, <4>1
    <3>2. ASSUME f <= i, i <= l PROVE i \in span
      <4>1. lo <= s[f].off /\ s[l].off < hi
        BY <1>4, <2>2, <2>3
      <4>2. s[f].off <= s[i].off /\ s[i].off <= s[l].off
        <5>1. f < i => s[f].off < s[i].off
          BY <1>2, <2>5
        <5>2. i < l => s[i].off < s[l].off
          BY <1>2, <2>5
        <5>3. s[f].off \in Int /\ s[i].off \in Int /\ s[l].off \in Int
          BY <1>1, <2>5
        <5>4. (f < i \/ f = i) /\ (i < l \/ i = l)
          BY <2>5, <3>2
        <5> QED BY <5>1, <5>2, <5>3, <5>4
      <4>3. lo <= s[i].off /\ s[i].off < hi
        <5>1. s[f].off \in Int /\ s[i].off \in Int /\ s[l].off \in Int
          BY <1>1, <2>5
        <5> QED BY <1>3, <4>1, <4>2, <5>1
      <4> QED BY <1>4, <4>3
    <3> QED BY <3>1, <3>2
  <2>7. \A i \in 1..n : i \in span <=> (lo <= s[i].off /\ s[i].off < hi)
    BY <1>4
  <2>8. f \in 0..n /\ l \in 0..n
    BY <1>1, <2>5
  <2> QED BY <2>4, <2>5, <2>6, <2>7, <2>8 DEF n, lo, hi
<1> QED BY <1>5, <1>6

\* Offsets from the first leader on lie in one block: the last that begins at or
\* before them.
LEMMA BlockAt ==
    ASSUME NEW u \in Seq(U2), NEW s, NEW L, LeadersOf(u, s, L), NEW bs, SplitLike(u, s, L, bs),
           NEW x \in Int, x < Len(u), NEW a \in DOMAIN bs, bs[a].start <= x
    PROVE  \E b \in DOMAIN bs : /\ a <= b /\ bs[b].start <= x /\ x < bs[b].end
                                /\ \A d \in DOMAIN bs : bs[d].start <= x /\ x < bs[d].end => d = b
<1> DEFINE c == Cardinality(L)
           M == {c - b : b \in {d \in DOMAIN bs : bs[d].start <= x}}
<1>1. /\ c \in Nat /\ DOMAIN bs = 1..c
      /\ \A b \in 1..c : /\ bs[b].start \in Int /\ bs[b].end \in Int
                         /\ bs[b].end = IF b < c THEN bs[b + 1].start ELSE Len(u)
      /\ \A b, d \in 1..c : b < d => bs[b].start < bs[d].start
  BY BlockBounds
<1> HIDE DEF c
<1>2. M \in SUBSET Nat /\ M # {}
  <2>1. \A b \in DOMAIN bs : c - b \in Nat
    BY <1>1
  <2> QED BY <2>1
<1>3. PICK m \in M : \A k \in M : m <= k
  <2> HIDE DEF M
  <2> QED BY <1>2, Least
<1>4. PICK b \in DOMAIN bs : bs[b].start <= x /\ m = c - b
  OBVIOUS
<1>5. ASSUME NEW d \in DOMAIN bs, bs[d].start <= x PROVE d <= b
  <2>1. c - b <= c - d
    BY <1>3, <1>4, <1>5
  <2>2. b \in Int /\ d \in Int
    BY <1>1
  <2> QED BY <1>1, <2>1, <2>2
<1>6. x < bs[b].end
  <2>1. CASE b < c
    <3>1. b + 1 \in 1..c /\ ~(b + 1 <= b)
      BY <1>1, <2>1
    <3>2. ~(bs[b + 1].start <= x)
      BY <1>1, <1>5, <3>1
    <3>3. bs[b].end = bs[b + 1].start /\ bs[b + 1].start \in Int
      BY <1>1, <2>1, <3>1
    <3> QED BY <3>2, <3>3
  <2>2. CASE ~(b < c)
    BY <1>1, <2>2
  <2> QED BY <2>1, <2>2
<1>7. ASSUME NEW d \in DOMAIN bs, bs[d].start <= x, x < bs[d].end PROVE d = b
  <2>1. d <= b /\ d \in 1..c /\ b \in 1..c
    BY <1>1, <1>5, <1>7
  <2>2. ASSUME d < b PROVE FALSE
    <3>1. d < c /\ d + 1 \in 1..c /\ (d + 1 = b \/ d + 1 < b)
      BY <1>1, <2>1, <2>2
    <3>2. bs[d].end = bs[d + 1].start /\ bs[d + 1].start \in Int
      BY <1>1, <2>1, <3>1
    <3>3. bs[d + 1].start <= bs[b].start
      <4>1. bs[b].start \in Int
        BY <1>1
      <4> QED BY <1>1, <2>1, <3>1, <3>2, <4>1
    <3>4. bs[b].start \in Int
      BY <1>1
    <3> QED BY <1>4, <1>7, <3>2, <3>3, <3>4
  <2> QED BY <2>1, <2>2
<1>8. a <= b
  BY <1>5
<1> QED BY <1>4, <1>6, <1>7, <1>8

\* Wherever the leaders fall, every instruction is in just one block.
LEMMA OneBlock ==
    ASSUME NEW u \in Seq(U2), NEW s, NEW L, LeadersOf(u, s, L), NEW bs, SplitLike(u, s, L, bs),
           NEW i \in 1..Len(s)
    PROVE  \E b \in DOMAIN bs : {d \in DOMAIN bs : bs[d].first # 0 /\ bs[d].first <= i /\ i <= bs[d].last} = {b}
<1> DEFINE x == s[i].off
<1>1. Len(s) \in Nat /\ 1 \in 1..Len(s) /\ s # <<>> /\ Len(u) \in Nat
  BY DEF LeadersOf, InsnList
<1>2. x \in Nat /\ x < Len(u) /\ s[1].off \in Nat /\ s[1].off <= x
  <2>1. /\ \A j \in 1..Len(s) : s[j].off \in Nat /\ s[j].len \in Nat /\ 1 <= s[j].len /\ s[j].off + s[j].len <= Len(u)
        /\ \A j, k \in 1..Len(s) : j < k => s[j].off + s[j].len <= s[k].off
    BY DEF LeadersOf, InsnList
  <2>2. x \in Nat /\ s[i].len \in Nat /\ 1 <= s[i].len /\ x + s[i].len <= Len(u)
    BY <2>1
  <2>3. x < Len(u)
    <3> HIDE DEF x
    <3> QED BY <1>1, <2>2
  <2>4. s[1].off \in Nat /\ s[1].len \in Nat
    BY <1>1, <2>1
  <2>5. 1 < i => s[1].off + s[1].len <= x
    BY <1>1, <2>1
  <2>6. s[1].off <= x
    <3>1. i = 1 \/ 1 < i
      BY <1>1
    <3> QED BY <2>2, <2>4, <2>5, <3>1
  <2> QED BY <2>2, <2>3, <2>4, <2>6
<1>3. PICK a \in DOMAIN bs : bs[a].start = s[1].off
  <2>1. s[1].off \in L
    BY <1>1 DEF LeadersOf
  <2>2. \A y \in L : \E b \in DOMAIN bs : bs[b].start = y
    BY BlockBounds
  <2> QED BY <2>1, <2>2
<1>4. PICK b \in DOMAIN bs : /\ bs[b].start <= x /\ x < bs[b].end
                             /\ \A d \in DOMAIN bs : bs[d].start <= x /\ x < bs[d].end => d = b
  <2> HIDE DEF x
  <2>1. x \in Int /\ bs[a].start <= x
    BY <1>2, <1>3
  <2>2. \E b \in DOMAIN bs : /\ a <= b /\ bs[b].start <= x /\ x < bs[b].end
                                /\ \A d \in DOMAIN bs : bs[d].start <= x /\ x < bs[d].end => d = b
    BY <1>2, <2>1, BlockAt
  <2> QED BY <2>2
<1>5. ASSUME NEW d \in DOMAIN bs
      PROVE  (bs[d].first # 0 /\ bs[d].first <= i /\ i <= bs[d].last) <=> (bs[d].start <= x /\ x < bs[d].end)
  BY BlockHolds
<1> HIDE DEF x
<1>6. \A d \in DOMAIN bs : (bs[d].first # 0 /\ bs[d].first <= i /\ i <= bs[d].last) <=> d = b
  BY <1>4, <1>5
<1>7. {d \in DOMAIN bs : bs[d].first # 0 /\ bs[d].first <= i /\ i <= bs[d].last} = {b}
  BY <1>6
<1> QED BY <1>7

\* A leader names its block, and nothing else names one.
LEMMA FindsBlock ==
    ASSUME NEW u \in Seq(U2), NEW s, NEW L, LeadersOf(u, s, L), NEW bs, SplitLike(u, s, L, bs), NEW x
    PROVE  /\ x \in L => FindBlockId(bs, x) \in DOMAIN bs /\ bs[FindBlockId(bs, x)].start = x
           /\ x \notin L => FindBlockId(bs, x) = 0
<1> DEFINE at == {b \in DOMAIN bs : bs[b].start = x}
<1>1. /\ \A b \in DOMAIN bs : bs[b].start \in L
      /\ \A y \in L : \E b \in DOMAIN bs : bs[b].start = y
  BY BlockBounds
<1>2. x \in L <=> at # {}
  BY <1>1
<1>3. FindBlockId(bs, x) = IF at = {} THEN 0 ELSE CHOOSE b \in at : TRUE
  BY DEF FindBlockId
<1>4. at # {} => (CHOOSE b \in at : TRUE) \in at
  <2> HIDE DEF at
  <2> QED OBVIOUS
<1>5. at # {} => FindBlockId(bs, x) \in at
  <2> HIDE DEF at
  <2> QED BY <1>3, <1>4
<1> QED BY <1>2, <1>3, <1>5

\* The block of the first instruction begins with it.
LEMMA EntryHoldsFirst ==
    ASSUME NEW u \in Seq(U2), NEW s, s # <<>>, NEW L, LeadersOf(u, s, L), NEW bs, SplitLike(u, s, L, bs)
    PROVE  EntryBlock(s, bs) \in DOMAIN bs /\ EntryBlock(s, bs) # 0 /\ bs[EntryBlock(s, bs)].first = 1
<1> DEFINE e == EntryBlock(s, bs)
<1>1. e = FindBlockId(bs, s[1].off) /\ s[1].off \in L
  BY DEF EntryBlock, LeadersOf
<1>2. e \in DOMAIN bs /\ bs[e].start = s[1].off
  BY <1>1, FindsBlock
<1>3. e # 0
  <2>1. DOMAIN bs = 1..Cardinality(L) /\ Cardinality(L) \in Nat
    BY BlockBounds
  <2> HIDE DEF e
  <2> QED BY <1>2, <2>1
<1> HIDE DEF e
<1>4. Len(s) \in Nat /\ 1 \in 1..Len(s)
  BY DEF LeadersOf, InsnList
<1>5. s[1].off < bs[e].end /\ s[1].off \in Nat
  <2>1. /\ \A j \in 1..Len(s) : s[j].off \in Nat /\ s[j].len \in Nat /\ 1 <= s[j].len /\ s[j].off + s[j].len <= Len(u)
    BY DEF LeadersOf, InsnList
  <2>2. s[1].off \in Nat /\ s[1].len \in Nat /\ 1 <= s[1].len /\ s[1].off + s[1].len <= Len(u)
    BY <1>4, <2>1
  <2>3. /\ Cardinality(L) \in Nat /\ DOMAIN bs = 1..Cardinality(L)
        /\ \A b \in DOMAIN bs : /\ bs[b].start \in Int
                                /\ bs[b].end = IF b < Cardinality(L) THEN bs[b + 1].start ELSE Len(u)
        /\ \A b, d \in DOMAIN bs : b < d => bs[b].start < bs[d].start
    BY BlockBounds
  <2>4. CASE e < Cardinality(L)
    <3>1. e + 1 \in DOMAIN bs /\ e < e + 1
      BY <1>2, <2>3, <2>4
    <3>2. bs[e].start < bs[e + 1].start /\ bs[e].end = bs[e + 1].start
      BY <1>2, <2>3, <2>4, <3>1
    <3> QED BY <1>2, <2>2, <3>2
  <2>5. CASE ~(e < Cardinality(L))
    <3>1. bs[e].end = Len(u) /\ Len(u) \in Nat
      BY <1>2, <2>3, <2>5
    <3> QED BY <2>2, <3>1
  <2> QED BY <2>4, <2>5
<1>6. /\ bs[e].first # 0 /\ bs[e].first <= 1 /\ bs[e].first \in 0..Len(s)
  <2>1. bs[e].start <= s[1].off
    BY <1>2, <1>5
  <2>2. /\ bs[e].first \in 0..Len(s)
        /\ \A i \in 1..Len(s) : (bs[e].first # 0 /\ bs[e].first <= i /\ i <= bs[e].last)
                                   <=> (bs[e].start <= s[i].off /\ s[i].off < bs[e].end)
    BY <1>2, BlockHolds
  <2> QED BY <1>4, <1>5, <2>1, <2>2
<1>7. bs[e].first = 1
  BY <1>4, <1>6
<1> QED BY <1>2, <1>3, <1>7 DEF e

\* What the strict gate passed decodes without a throw.
LEMMA StrictDecodes ==
    ASSUME NEW c, c.units \in Seq(U2), VerifyInsns(c)
    PROVE  DecodePass(c.units)[1]
<1>1. \A p \in Starts(c.units) : InsnFits(c.units, p) /\ InsnOk(c, p)
  BY VerifyMeans
<1>2. ASSUME NEW p \in Starts(c.units)
      PROVE  InsnFits(c.units, p) /\ (IsPayloadMarker(Unit(c.units, p)) \/ ~RawIns(c.units, p).bad)
  <2>1. p \in Int
    <3>1. p \in Nat
      BY StartsInside
    <3> QED BY <3>1
  <2>2. RawIns(c.units, p).bad = DecodeInstruction(c.units, p).bad
    BY <2>1, RawTypes
  <2>3. IsPayloadMarker(Unit(c.units, p)) \/ ~DecodeInstruction(c.units, p).bad
    BY <1>1 DEF InsnOk
  <2> QED BY <1>1, <2>2, <2>3
<1> QED BY <1>2, DecodeMeans

\* The leaders of a body's instructions and try ranges are those Build needs.
LEMMA BuildLeaders ==
    ASSUME NEW u \in Seq(U2), NEW s, InsnList(u, 0, s), NEW ts \in ParsedTries
    PROVE  LeadersOf(u, s, ComputeLeaders(u, s) \cup ExceptionLeaders(ts))
<1>1. /\ ComputeLeaders(u, s) \in SUBSET Int /\ IsFiniteSet(ComputeLeaders(u, s))
      /\ ExceptionLeaders(ts) \in SUBSET Int /\ IsFiniteSet(ExceptionLeaders(ts))
  BY LeadersFinite, ExceptionLeadersFinite
<1>2. s # <<>> => s[1].off \in ComputeLeaders(u, s)
  <2>1. Len(s) \in Nat /\ DOMAIN s = 1..Len(s) /\ (s # <<>> => 1 \in DOMAIN s)
    BY DEF InsnList
  <2>2. {s[i].off : i \in {1} \cap DOMAIN s} \in SUBSET ComputeLeaders(u, s)
    BY DEF ComputeLeaders
  <2> QED BY <2>1, <2>2
<1> QED BY <1>1, <1>2, FS_Union DEF LeadersOf

\* The later stages add edges and handlers and move no block.
LEMMA StagesKeepBlocks ==
    ASSUME NEW u, NEW s, NEW L, NEW hs, NEW ts
    PROVE  LET split == SplitIntoBlocks(s, L, Len(u))
               connected == ComputeChildEdges(u, s, split, hs)
           IN  SplitLike(u, s, L, split) /\ SplitLike(u, s, L, connected)
               /\ SplitLike(u, s, L, AttachExceptionHandlers(connected, ts))
<1> DEFINE split == SplitIntoBlocks(s, L, Len(u))
           connected == ComputeChildEdges(u, s, split, hs)
           attached == AttachExceptionHandlers(connected, ts)
<1>1. SplitLike(u, s, L, split)
  BY DEF SplitLike
<1> DEFINE D == {"start", "end", "first", "last", "off", "childs", "handlers"}
           Same(r, q) == r.start = q.start /\ r.end = q.end /\ r.first = q.first /\ r.last = q.last
<1>2. ASSUME NEW b \in DOMAIN split PROVE DOMAIN split[b] = D
  <2>1. \E x1, x2, x3, x4, x5 :
           split[b] = [start |-> x1, end |-> x2, first |-> x3, last |-> x4, off |-> x5,
                       childs |-> <<>>, handlers |-> <<>>]
    BY DEF SplitIntoBlocks
  <2> HIDE DEF split
  <2> QED BY <2>1
<1> HIDE DEF split
<1>3. DOMAIN connected = DOMAIN split
      /\ \A b \in DOMAIN split : \E x : connected[b] = [split[b] EXCEPT !.childs = x]
  BY DEF ComputeChildEdges
<1> HIDE DEF connected
<1>4. ASSUME NEW b \in DOMAIN split PROVE DOMAIN connected[b] = D /\ Same(connected[b], split[b])
  <2>1. PICK x : connected[b] = [split[b] EXCEPT !.childs = x]
    BY <1>3
  <2>2. DOMAIN split[b] = D
    BY <1>2
  <2> QED BY <2>1, <2>2
<1>5. DOMAIN attached = DOMAIN split
      /\ \A b \in DOMAIN split : \E x : attached[b] = [connected[b] EXCEPT !.handlers = x]
  BY <1>3 DEF AttachExceptionHandlers
<1> HIDE DEF attached
<1>6. ASSUME NEW b \in DOMAIN split PROVE Same(connected[b], split[b]) /\ Same(attached[b], split[b])
  <2>1. PICK x : attached[b] = [connected[b] EXCEPT !.handlers = x]
    BY <1>5
  <2>2. DOMAIN connected[b] = D /\ Same(connected[b], split[b])
    BY <1>4
  <2> QED BY <2>1, <2>2
<1>7. SplitLike(u, s, L, connected) /\ SplitLike(u, s, L, attached)
  BY <1>3, <1>5, <1>6 DEF SplitLike, split
<1> QED BY <1>1, <1>7 DEF split, connected, attached

-----------------------------------------------------------------------------
(* Where control goes. *)

\* The first instruction at or after t, 0 for none.
From(s, t) == {i \in 1..Len(s) : s[i].off >= t}
Landing(s, t) == FirstOf(From(s, t))

\* The instructions' offsets ascend, inside insns[].
LEMMA InsnOrder ==
    ASSUME NEW u \in Seq(U2), NEW s, InsnList(u, 0, s)
    PROVE  /\ Len(s) \in Nat /\ DOMAIN s = 1..Len(s)
           /\ \A i \in 1..Len(s) : s[i].off \in Nat /\ s[i].len \in Nat /\ 1 <= s[i].len /\ s[i].off < Len(u)
           /\ \A i, j \in 1..Len(s) : i < j => s[i].off < s[j].off /\ s[i].off + s[i].len <= s[j].off
<1>1. /\ Len(s) \in Nat /\ DOMAIN s = 1..Len(s)
      /\ \A i \in 1..Len(s) : s[i].off \in Nat /\ s[i].len \in Nat /\ 1 <= s[i].len /\ s[i].off + s[i].len <= Len(u)
      /\ \A i, j \in 1..Len(s) : i < j => s[i].off + s[i].len <= s[j].off
  BY DEF InsnList
<1>2. ASSUME NEW i \in 1..Len(s) PROVE s[i].off < Len(u)
  <2>1. s[i].off \in Nat /\ s[i].len \in Nat /\ 1 <= s[i].len /\ s[i].off + s[i].len <= Len(u) /\ Len(u) \in Nat
    BY <1>1
  <2> QED BY <2>1
<1>3. ASSUME NEW i \in 1..Len(s), NEW j \in 1..Len(s), i < j PROVE s[i].off < s[j].off
  <2>1. s[i].off \in Nat /\ s[i].len \in Nat /\ 1 <= s[i].len /\ s[i].off + s[i].len <= s[j].off /\ s[j].off \in Nat
    BY <1>1, <1>3
  <2> QED BY <2>1
<1> QED BY <1>1, <1>2, <1>3

\* What Landing finds.
LEMMA LandingFinds ==
    ASSUME NEW s, Len(s) \in Nat, NEW t
    PROVE  \/ Landing(s, t) = 0 /\ \A i \in 1..Len(s) : ~(s[i].off >= t)
           \/ /\ Landing(s, t) \in 1..Len(s) /\ s[Landing(s, t)].off >= t
              /\ \A i \in 1..Len(s) : s[i].off >= t => Landing(s, t) <= i
<1> DEFINE S == From(s, t)
           k == Landing(s, t)
<1>1. S \in SUBSET (1..Len(s)) /\ \A i \in 1..Len(s) : i \in S <=> s[i].off >= t
  BY DEF From
<1>2. S = {} => k = 0
  BY DEF Landing, FirstOf
<1>3. ASSUME S # {} PROVE k \in S /\ \A j \in S : k <= j
  <2>1. S \in SUBSET Nat
    BY <1>1
  <2>2. k = CHOOSE i \in S : \A j \in S : i <= j
    BY <1>3 DEF Landing, FirstOf
  <2>3. \E i \in S : \A j \in S : i <= j
    <3> HIDE DEF S
    <3> QED BY <1>3, <2>1, Least
  <2> HIDE DEF S, k
  <2> QED BY <2>2, <2>3
<1> HIDE DEF S
<1>4. CASE S = {}
  BY <1>1, <1>2, <1>4
<1>5. CASE S # {}
  BY <1>1, <1>3, <1>5
<1> QED BY <1>4, <1>5

\* Landing is what it finds.
LEMMA LandingIs ==
    ASSUME NEW s, Len(s) \in Nat, NEW t, NEW k \in 1..Len(s), s[k].off >= t,
           \A i \in 1..Len(s) : s[i].off >= t => k <= i
    PROVE  Landing(s, t) = k
<1>1. Landing(s, t) \in 1..Len(s) /\ s[Landing(s, t)].off >= t
      /\ \A i \in 1..Len(s) : s[i].off >= t => Landing(s, t) <= i
  BY LandingFinds
<1>2. Landing(s, t) <= k /\ k <= Landing(s, t)
  BY <1>1
<1> QED BY <1>1, <1>2

\* Past insns[] there is nothing.
LEMMA LandingPast ==
    ASSUME NEW u \in Seq(U2), NEW s, InsnList(u, 0, s), NEW t \in Int, Len(u) <= t
    PROVE  Landing(s, t) = 0
<1>1. Len(s) \in Nat /\ \A i \in 1..Len(s) : s[i].off \in Nat /\ s[i].off < Len(u)
  BY InsnOrder
<1>2. ASSUME NEW i \in 1..Len(s), s[i].off >= t PROVE FALSE
  <2>1. s[i].off \in Int /\ Len(u) \in Int /\ s[i].off < Len(u)
    BY <1>1
  <2> QED BY <1>2, <2>1
<1> QED BY <1>1, <1>2, LandingFinds

\* Behind an instruction comes the next one, or none.
LEMMA LandingNext ==
    ASSUME NEW u \in Seq(U2), NEW s, InsnList(u, 0, s), NEW i \in 1..Len(s)
    PROVE  Landing(s, s[i].off + s[i].len) = IF i < Len(s) THEN i + 1 ELSE 0
<1> DEFINE t == s[i].off + s[i].len
<1>1. /\ Len(s) \in Nat
      /\ \A j \in 1..Len(s) : s[j].off \in Nat /\ s[j].len \in Nat /\ 1 <= s[j].len
      /\ \A j, k \in 1..Len(s) : j < k => s[j].off < s[k].off /\ s[j].off + s[j].len <= s[k].off
  BY InsnOrder
<1>2. t \in Nat /\ s[i].off < t /\ s[i].off \in Nat
  BY <1>1
<1>3. ASSUME NEW j \in 1..Len(s), s[j].off >= t PROVE i < j
  <2>1. s[j].off \in Nat /\ s[i].off < s[j].off
    <3>1. s[j].off \in Nat
      BY <1>1
    <3> HIDE DEF t
    <3> QED BY <1>2, <1>3, <3>1
  <2>2. ~(j < i) /\ j # i
    <3>1. j < i => s[j].off < s[i].off
      BY <1>1
    <3> QED BY <1>2, <2>1, <3>1
  <2> QED BY <2>2
<1>4. CASE i < Len(s)
  <2>1. i + 1 \in 1..Len(s) /\ i < i + 1
    BY <1>1, <1>4
  <2>2. s[i + 1].off >= t /\ s[i + 1].off \in Nat
    <3>1. t <= s[i + 1].off /\ s[i + 1].off \in Nat
      BY <1>1, <2>1
    <3> HIDE DEF t
    <3> QED BY <1>2, <3>1
  <2>3. \A j \in 1..Len(s) : s[j].off >= t => i + 1 <= j
    BY <1>3
  <2> HIDE DEF t
  <2>4. Landing(s, t) = i + 1
    BY <1>1, <2>1, <2>2, <2>3, LandingIs
  <2> QED BY <1>4, <2>4 DEF t
<1>5. CASE ~(i < Len(s))
  <2>1. \A j \in 1..Len(s) : ~(s[j].off >= t)
    BY <1>1, <1>3, <1>5
  <2> HIDE DEF t
  <2>2. Landing(s, t) = 0
    BY <1>1, <2>1, LandingFinds
  <2> QED BY <1>5, <2>2 DEF t
<1> QED BY <1>4, <1>5

\* A block begins with the instruction its start lands on, or passes on to its
\* end; behind its last instruction comes what its end lands on.
LEMMA BlockLands ==
    ASSUME NEW u \in Seq(U2), NEW s, NEW L, LeadersOf(u, s, L), NEW bs, SplitLike(u, s, L, bs), NEW b \in DOMAIN bs
    PROVE  /\ bs[b].first # 0 => /\ bs[b].first = Landing(s, bs[b].start)
                                 /\ bs[b].last \in 1..Len(s)
                                 /\ Landing(s, s[bs[b].last].off + s[bs[b].last].len) = Landing(s, bs[b].end)
           /\ bs[b].first = 0 => Landing(s, bs[b].start) = Landing(s, bs[b].end)
<1> DEFINE lo == bs[b].start
           hi == bs[b].end
           n == Len(s)
<1>1. /\ n \in Nat /\ Len(u) \in Nat /\ InsnList(u, 0, s)
      /\ \A i \in 1..n : s[i].off \in Nat /\ s[i].len \in Nat /\ 1 <= s[i].len /\ s[i].off < Len(u)
      /\ \A i, j \in 1..n : i < j => s[i].off < s[j].off /\ s[i].off + s[i].len <= s[j].off
  BY InsnOrder DEF LeadersOf
<1>2. lo \in Int /\ hi \in Int /\ (lo < hi \/ hi = Len(u))
  <2>1. /\ Cardinality(L) \in Nat /\ DOMAIN bs = 1..Cardinality(L)
        /\ bs[b].start \in Int /\ bs[b].end \in Int
        /\ bs[b].end = IF b < Cardinality(L) THEN bs[b + 1].start ELSE Len(u)
        /\ \A a, d \in DOMAIN bs : a < d => bs[a].start < bs[d].start
    BY BlockBounds
  <2>2. b < Cardinality(L) => b + 1 \in DOMAIN bs /\ b < b + 1
    BY <2>1
  <2> QED BY <2>1, <2>2
<1>3. /\ bs[b].first \in 0..n /\ bs[b].last \in 0..n /\ (bs[b].first = 0 <=> bs[b].last = 0)
      /\ \A i \in 1..n : (bs[b].first # 0 /\ bs[b].first <= i /\ i <= bs[b].last)
                            <=> (lo <= s[i].off /\ s[i].off < hi)
      /\ bs[b].first # 0 => bs[b].first <= bs[b].last
  BY BlockHolds
<1> HIDE DEF lo, hi, n
<1>4. CASE bs[b].first = 0
  <2>1. ASSUME NEW i \in 1..n PROVE s[i].off >= lo <=> s[i].off >= hi
    <3>1. ~(lo <= s[i].off /\ s[i].off < hi) /\ s[i].off \in Int /\ s[i].off < Len(u)
      BY <1>1, <1>3, <1>4
    <3> QED BY <1>1, <1>2, <3>1
  <2>2. From(s, lo) = From(s, hi)
    BY <2>1 DEF From, n
  <2> QED BY <1>4, <2>2 DEF Landing, lo, hi
<1>5. CASE bs[b].first # 0
  <2> DEFINE f == bs[b].first
             l == bs[b].last
  <2>1. f \in 1..n /\ l \in 1..n /\ f <= l
    BY <1>1, <1>3, <1>5
  <2>2. \A i \in 1..n : (f <= i /\ i <= l) <=> (lo <= s[i].off /\ s[i].off < hi)
    BY <1>3, <1>5
  <2> HIDE DEF f, l
  <2>3. lo <= s[f].off /\ s[f].off < hi /\ lo <= s[l].off /\ s[l].off < hi
    BY <1>1, <2>1, <2>2
  <2>4. /\ s[f].off \in Nat /\ s[l].off \in Nat /\ s[l].len \in Nat /\ 1 <= s[l].len
    BY <1>1, <2>1
  <2>5. Landing(s, lo) = f
    <3>1. ASSUME NEW i \in 1..n, s[i].off >= lo PROVE f <= i
      <4>1. SUFFICES ASSUME i < f PROVE FALSE
        BY <2>1
      <4>2. s[i].off < s[f].off /\ s[i].off \in Int
        BY <1>1, <2>1, <4>1
      <4>3. lo <= s[i].off /\ s[i].off < hi
        BY <1>2, <2>3, <2>4, <3>1, <4>2
      <4> QED BY <2>1, <2>2, <4>1, <4>3
    <3>2. s[f].off >= lo
      BY <1>2, <2>3, <2>4
    <3> QED BY <1>1, <2>1, <3>1, <3>2, LandingIs DEF n
  <2>6. From(s, s[l].off + s[l].len) = From(s, hi)
    <3>1. ASSUME NEW i \in 1..n PROVE s[i].off >= s[l].off + s[l].len <=> s[i].off >= hi
      <4>1. s[i].off \in Int
        BY <1>1
      <4>2. ASSUME l < i PROVE s[i].off >= s[l].off + s[l].len /\ s[i].off >= hi
        <5>1. s[l].off < s[i].off /\ s[l].off + s[l].len <= s[i].off
          BY <1>1, <2>1, <4>2
        <5>2. ~(lo <= s[i].off /\ s[i].off < hi)
          BY <2>1, <2>2, <4>2
        <5> QED BY <1>2, <2>3, <2>4, <4>1, <5>1, <5>2
      <4>3. ASSUME i < l PROVE ~(s[i].off >= s[l].off + s[l].len) /\ ~(s[i].off >= hi)
        <5>1. s[i].off < s[l].off
          BY <1>1, <2>1, <4>3
        <5> QED BY <1>2, <2>3, <2>4, <4>1, <5>1
      <4>4. ~(s[l].off >= s[l].off + s[l].len) /\ ~(s[l].off >= hi)
        BY <1>2, <2>3, <2>4
      <4>5. l < i \/ i < l \/ i = l
        BY <2>1
      <4> QED BY <4>2, <4>3, <4>4, <4>5
    <3> QED BY <3>1 DEF From, n
  <2> QED BY <1>5, <2>1, <2>5, <2>6 DEF Landing, lo, hi, n, f, l
<1> QED BY <1>4, <1>5 DEF lo, hi, n

\* The block after b starts where b ends, and no block starts at the end of
\* insns[] when the last one ends there and not before its start.
LEMMA EndBlock ==
    ASSUME NEW u \in Seq(U2), NEW s, NEW L, LeadersOf(u, s, L), NEW bs, SplitLike(u, s, L, bs), NEW b \in DOMAIN bs
    PROVE  \/ /\ b + 1 \in DOMAIN bs /\ bs[b + 1].start = bs[b].end /\ bs[b].start < bs[b].end
              /\ bs[b].end \in L /\ FindBlockId(bs, bs[b].end) = b + 1
           \/ /\ bs[b].end = Len(u)
              /\ bs[b].start < bs[b].end => FindBlockId(bs, bs[b].end) = 0
<1> DEFINE c == Cardinality(L)
           d == FindBlockId(bs, bs[b].end)
<1>1. /\ c \in Nat /\ DOMAIN bs = 1..c /\ b \in 1..c
      /\ \A a \in DOMAIN bs : bs[a].start \in L /\ bs[a].start \in Int /\ bs[a].end \in Int
      /\ bs[b].end = IF b < c THEN bs[b + 1].start ELSE Len(u)
      /\ \A a, e \in DOMAIN bs : a < e => bs[a].start < bs[e].start
      /\ \A x \in L : \E a \in DOMAIN bs : bs[a].start = x
  BY BlockBounds
<1>2. /\ bs[b].end \in L => d \in DOMAIN bs /\ bs[d].start = bs[b].end
      /\ bs[b].end \notin L => d = 0
  BY FindsBlock
<1> HIDE DEF c
<1>3. CASE b < c
  <2>1. b + 1 \in DOMAIN bs /\ b < b + 1 /\ bs[b + 1].start = bs[b].end
    BY <1>1, <1>3
  <2>2. bs[b].start < bs[b].end /\ bs[b].end \in L
    BY <1>1, <2>1
  <2>3. d \in DOMAIN bs /\ bs[d].start = bs[b + 1].start
    BY <1>2, <2>1, <2>2
  <2>4. d = b + 1
    <3> HIDE DEF d
    <3>1. ~(d < b + 1) /\ ~(b + 1 < d)
      <4>1. bs[d].start \in Int /\ bs[b + 1].start \in Int
        BY <1>1, <2>1, <2>3
      <4>2. d < b + 1 => bs[d].start < bs[b + 1].start
        BY <1>1, <2>1, <2>3
      <4>3. b + 1 < d => bs[b + 1].start < bs[d].start
        BY <1>1, <2>1, <2>3
      <4> QED BY <2>3, <4>1, <4>2, <4>3
    <3>2. d \in 1..c /\ b + 1 \in 1..c
      BY <1>1, <2>1, <2>3
    <3> QED BY <1>1, <3>1, <3>2
  <2> QED BY <2>1, <2>2, <2>4
<1>4. CASE ~(b < c)
  <2>1. bs[b].end = Len(u) /\ b = c
    BY <1>1, <1>4
  <2>2. ASSUME bs[b].start < bs[b].end, bs[b].end \in L PROVE FALSE
    <3>1. PICK a \in DOMAIN bs : bs[a].start = bs[b].end
      BY <1>1, <2>2
    <3>2. a < b \/ a = b
      BY <1>1, <2>1, <3>1
    <3>3. bs[a].start \in Int /\ bs[b].start \in Int
      BY <1>1
    <3>4. a < b => bs[a].start < bs[b].start
      BY <1>1, <3>1
    <3> QED BY <2>2, <3>1, <3>2, <3>3, <3>4
  <2> QED BY <1>2, <2>1, <2>2
<1> QED BY <1>3, <1>4

\* A block without instructions leads to the next one, or to nothing when there
\* is nothing behind it.
LEMMA EmptyLeadsOn ==
    ASSUME NEW u \in Seq(U2), NEW s, NEW L, LeadersOf(u, s, L), NEW bs, SplitLike(u, s, L, bs), NEW b \in DOMAIN bs,
           NEW H, \A h \in H : \E i \in 1..Len(s) : s[i].off = h,
           bs[b].first = 0
    PROVE  LET e == EmptyBlockEdges(bs, b, H)
           IN  \/ e = <<>> /\ Landing(s, bs[b].end) = 0
               \/ e # <<>> /\ b + 1 \in DOMAIN bs /\ bs[b + 1].start = bs[b].end /\ e[1].to = b + 1
<1> DEFINE e == EmptyBlockEdges(bs, b, H)
           lo == bs[b].start
           hi == bs[b].end
<1>1. lo \in Int /\ hi \in Int /\ b \in Nat
  <2>1. Cardinality(L) \in Nat /\ DOMAIN bs = 1..Cardinality(L)
    BY BlockBounds
  <2> QED BY <2>1, BlockBounds
<1>2. \/ b + 1 \in DOMAIN bs /\ bs[b + 1].start = hi /\ lo < hi /\ FindBlockId(bs, hi) = b + 1
      \/ hi = Len(u) /\ (lo < hi => FindBlockId(bs, hi) = 0)
  BY EndBlock
<1>3. hi = Len(u) => Landing(s, hi) = 0
  <2>1. InsnList(u, 0, s)
    BY DEF LeadersOf
  <2>2. hi = Len(u) => hi \in Int /\ Len(u) <= hi
    BY <1>1
  <2> QED BY <2>1, <2>2, LandingPast
<1>4. e = IF hi > lo /\ lo \notin H THEN Edge("fall", FindBlockId(bs, hi), 0) ELSE <<>>
  BY DEF EmptyBlockEdges
<1>5. ~(lo \in H /\ lo < hi)
  <2> SUFFICES ASSUME lo \in H, lo < hi PROVE FALSE
    OBVIOUS
  <2>1. PICK i \in 1..Len(s) : s[i].off = lo
    OBVIOUS
  <2>2. (bs[b].first # 0 /\ bs[b].first <= i /\ i <= bs[b].last) <=> (lo <= s[i].off /\ s[i].off < hi)
    BY BlockHolds
  <2>3. lo <= s[i].off /\ s[i].off < hi
    BY <1>1, <2>1
  <2> QED BY <2>2, <2>3
<1> HIDE DEF e, lo, hi
<1>6. CASE lo < hi
  <2>1. e = Edge("fall", FindBlockId(bs, hi), 0)
    BY <1>1, <1>4, <1>5, <1>6
  <2>2. CASE b + 1 \in DOMAIN bs /\ bs[b + 1].start = hi /\ FindBlockId(bs, hi) = b + 1
    <3>1. e = <<[kind |-> "fall", to |-> b + 1, label |-> 0]>>
      BY <1>1, <2>1, <2>2 DEF Edge
    <3> QED BY <2>2, <3>1 DEF e, hi
  <2>3. CASE hi = Len(u) /\ FindBlockId(bs, hi) = 0
    <3>1. e = <<>>
      BY <2>1, <2>3 DEF Edge
    <3> QED BY <1>3, <2>3, <3>1 DEF e, hi
  <2> QED BY <1>2, <1>6, <2>2, <2>3
<1>7. CASE ~(lo < hi)
  <2>1. e = <<>> /\ hi = Len(u)
    BY <1>1, <1>2, <1>4, <1>7
  <2> QED BY <1>3, <2>1 DEF e, hi
<1> QED BY <1>6, <1>7

\* What FirstIn is of some blocks.
Behind(bs) ==
    CHOOSE f : f = [b \in DOMAIN bs |-> IF bs[b].first # 0 THEN bs[b].first
                                        ELSE IF bs[b].childs = <<>> THEN 0 ELSE f[bs[b].childs[1].to]]

\* Control that enters a block continues where its start lands.
LEMMA BehindLands ==
    ASSUME NEW u \in Seq(U2), NEW s, NEW L, LeadersOf(u, s, L), NEW bs, SplitLike(u, s, L, bs),
           \A b \in DOMAIN bs : bs[b].first = 0 =>
               \/ bs[b].childs = <<>> /\ Landing(s, bs[b].end) = 0
               \/ /\ bs[b].childs # <<>> /\ b + 1 \in DOMAIN bs /\ bs[b + 1].start = bs[b].end
                  /\ bs[b].childs[1].to = b + 1
    PROVE  \A b \in DOMAIN bs : Behind(bs)[b] = Landing(s, bs[b].start)
<1> DEFINE c == Cardinality(L)
           F == [b \in DOMAIN bs |-> Landing(s, bs[b].start)]
           Body(f, b) == IF bs[b].first # 0 THEN bs[b].first
                         ELSE IF bs[b].childs = <<>> THEN 0 ELSE f[bs[b].childs[1].to]
           Is(f) == f = [b \in DOMAIN bs |-> Body(f, b)]
           f == CHOOSE g : Is(g)
<1>1. c \in Nat /\ DOMAIN bs = 1..c
  BY BlockBounds
<1>2. \A b \in DOMAIN bs : /\ bs[b].first # 0 => bs[b].first = Landing(s, bs[b].start)
                           /\ bs[b].first = 0 => Landing(s, bs[b].start) = Landing(s, bs[b].end)
  BY BlockLands
<1> HIDE DEF c
<1>3. ASSUME NEW b \in DOMAIN bs PROVE F[b] = Body(F, b)
  <2>1. CASE bs[b].first # 0
    BY <1>2, <2>1
  <2>2. CASE bs[b].first = 0 /\ bs[b].childs = <<>> /\ Landing(s, bs[b].end) = 0
    BY <1>2, <2>2
  <2>3. CASE bs[b].first = 0 /\ bs[b].childs # <<>> /\ b + 1 \in DOMAIN bs /\ bs[b + 1].start = bs[b].end
             /\ bs[b].childs[1].to = b + 1
    <3>1. F[b] = Landing(s, bs[b].end)
      BY <1>2, <2>3
    <3>2. F[b + 1] = Landing(s, bs[b].end)
      BY <2>3
    <3> QED BY <2>3, <3>1, <3>2
  <2> QED BY <2>1, <2>2, <2>3
<1>4. Is(F)
  <2> HIDE DEF Body
  <2> QED BY <1>3
<1>5. Is(f)
  <2> HIDE DEF Is
  <2> QED BY <1>4
<1>6. f = Behind(bs)
  BY DEF Behind
<1> HIDE DEF f
<1>7. \A b \in DOMAIN bs : f[b] = Body(f, b)
  <2> HIDE DEF Body
  <2> QED BY <1>5
<1> DEFINE T == {c - b : b \in {d \in DOMAIN bs : f[d] # F[d]}}
<1> HIDE DEF F, Is
<1>8. T = {}
  <2> SUFFICES ASSUME T # {} PROVE FALSE
    OBVIOUS
  <2>1. T \in SUBSET Nat
    <3>1. \A b \in DOMAIN bs : c - b \in Nat
      BY <1>1
    <3> QED BY <3>1
  <2>2. PICK m \in T : \A k \in T : m <= k
    <3> HIDE DEF T
    <3> QED BY <2>1, Least
  <2>3. PICK b \in DOMAIN bs : f[b] # F[b] /\ m = c - b
    OBVIOUS
  <2>4. CASE bs[b].first = 0 /\ bs[b].childs # <<>> /\ b + 1 \in DOMAIN bs /\ bs[b].childs[1].to = b + 1
    <3>1. f[b] = f[b + 1] /\ F[b] = F[b + 1]
      BY <1>3, <1>7, <2>4
    <3>2. f[b + 1] = F[b + 1]
      <4> SUFFICES ASSUME f[b + 1] # F[b + 1] PROVE FALSE
        OBVIOUS
      <4>1. c - (b + 1) \in T
        BY <2>4
      <4>2. m <= c - (b + 1)
        BY <2>2, <4>1
      <4> HIDE DEF T
      <4>3. b \in Int
        BY <1>1
      <4> QED BY <1>1, <2>3, <4>2, <4>3
    <3> QED BY <2>3, <3>1, <3>2
  <2>5. CASE bs[b].first # 0 \/ bs[b].childs = <<>>
    <3>1. Body(f, b) = Body(F, b)
      BY <2>5
    <3> QED BY <1>3, <1>7, <2>3, <3>1
  <2> QED BY <2>4, <2>5
<1>9. ASSUME NEW b \in DOMAIN bs PROVE f[b] = Landing(s, bs[b].start)
  <2>1. f[b] = F[b]
    <3>1. f[b] # F[b] => c - b \in T
      OBVIOUS
    <3> QED BY <1>8, <3>1
  <2> QED BY <2>1 DEF F
<1> QED BY <1>6, <1>9

\* The instruction a target's block hands control to.
Into(bs, F, t) == IF FindBlockId(bs, t) = 0 THEN 0 ELSE F[FindBlockId(bs, t)]

\* A leader's block, and the block behind another, hand control to where it
\* lands; a target past insns[] hands it to none.
LEMMA IntoLands ==
    ASSUME NEW u \in Seq(U2), NEW s, NEW L, LeadersOf(u, s, L), NEW bs, SplitLike(u, s, L, bs),
           NEW F, \A b \in DOMAIN bs : F[b] = Landing(s, bs[b].start)
    PROVE  /\ \A t \in L : Into(bs, F, t) = Landing(s, t)
           /\ \A t \in Int : Len(u) <= t => Into(bs, F, t) = 0
           /\ \A b \in DOMAIN bs : bs[b].start < bs[b].end => Into(bs, F, bs[b].end) = Landing(s, bs[b].end)
<1>1. InsnList(u, 0, s) /\ 0 \notin DOMAIN bs
  <2>1. Cardinality(L) \in Nat /\ DOMAIN bs = 1..Cardinality(L)
    BY BlockBounds
  <2>2. InsnList(u, 0, s)
    BY DEF LeadersOf
  <2> QED BY <2>1, <2>2
<1>2. ASSUME NEW t \in L PROVE Into(bs, F, t) = Landing(s, t)
  <2>1. FindBlockId(bs, t) \in DOMAIN bs /\ bs[FindBlockId(bs, t)].start = t
    BY FindsBlock
  <2> QED BY <1>1, <2>1 DEF Into
<1>3. ASSUME NEW t \in Int, Len(u) <= t PROVE Into(bs, F, t) = 0
  <2>1. Landing(s, t) = 0
    BY <1>1, <1>3, LandingPast
  <2>2. t \notin L => FindBlockId(bs, t) = 0
    BY FindsBlock
  <2> QED BY <1>2, <2>1, <2>2 DEF Into
<1>4. ASSUME NEW b \in DOMAIN bs PROVE bs[b].start < bs[b].end => Into(bs, F, bs[b].end) = Landing(s, bs[b].end)
  <2>1. bs[b].end \in Int /\ Len(u) \in Int
    BY BlockBounds
  <2>2. bs[b].end \in L \/ bs[b].end = Len(u)
    BY EndBlock
  <2>3. CASE bs[b].end \in L
    BY <1>2, <2>3
  <2>4. CASE bs[b].end = Len(u)
    <3>1. Len(u) <= bs[b].end
      BY <2>1, <2>4
    <3>2. Landing(s, bs[b].end) = 0
      BY <1>1, <2>1, <3>1, LandingPast
    <3> QED BY <1>3, <2>1, <3>1, <3>2
  <2> QED BY <2>2, <2>3, <2>4
<1> QED BY <1>2, <1>3, <1>4

\* The edges of a list that arrive at an instruction.
EdgeKinds == {"fall", "branch", "false", "default", "case"}
EdgeRecords == [kind : EdgeKinds, to : Nat, label : Int]
Arriving(S) == {e \in S : e[3] # 0}
Out(q, F) == Arriving({<<q[k].kind, q[k].label, F[q[k].to]>> : k \in DOMAIN q})

\* No edge leads anywhere.
LEMMA OutNone == \A F : Out(<<>>, F) = {}
<1> SUFFICES ASSUME NEW F PROVE Out(<<>>, F) = {}
  OBVIOUS
<1>1. DOMAIN <<>> = {}
  OBVIOUS
<1>2. {<<<<>>[k].kind, <<>>[k].label, F[<<>>[k].to]>> : k \in DOMAIN <<>>} = {}
  BY <1>1
<1> QED BY <1>2 DEF Out, Arriving

\* An edge arrives where its block hands control to; one without a block is none.
LEMMA OutEdge ==
    ASSUME NEW kind \in EdgeKinds, NEW to \in Nat, NEW label \in Int, NEW F
    PROVE  /\ Edge(kind, to, label) \in Seq(EdgeRecords)
           /\ Out(Edge(kind, to, label), F) = Arriving({<<kind, label, IF to = 0 THEN 0 ELSE F[to]>>})
<1>1. CASE to = 0
  <2>1. Edge(kind, to, label) = <<>>
    BY <1>1 DEF Edge
  <2>2. Arriving({<<kind, label, 0>>}) = {}
    <3>1. <<kind, label, 0>>[3] = 0
      OBVIOUS
    <3> QED BY <3>1 DEF Arriving
  <2>3. Out(<<>>, F) = {}
    BY OutNone
  <2>4. <<>> \in Seq(EdgeRecords)
    OBVIOUS
  <2> QED BY <1>1, <2>1, <2>2, <2>3, <2>4
<1>2. CASE to # 0
  <2> DEFINE r == [kind |-> kind, to |-> to, label |-> label]
  <2>1. Edge(kind, to, label) = <<r>> /\ r \in EdgeRecords /\ r.kind = kind /\ r.to = to /\ r.label = label
    BY <1>2 DEF Edge, EdgeRecords
  <2> HIDE DEF r
  <2>2. <<r>> \in Seq(EdgeRecords) /\ DOMAIN <<r>> = {1} /\ <<r>>[1] = r
    BY <2>1
  <2>3. {<<<<r>>[k].kind, <<r>>[k].label, F[<<r>>[k].to]>> : k \in DOMAIN <<r>>} = {<<kind, label, F[to]>>}
    BY <2>1, <2>2
  <2> QED BY <1>2, <2>1, <2>2, <2>3 DEF Out
<1> QED BY <1>1, <1>2

\* Two lists of edges lead where each of them does.
LEMMA OutBoth ==
    ASSUME NEW p \in Seq(EdgeRecords), NEW q \in Seq(EdgeRecords), NEW F
    PROVE  Out(p \o q, F) = Out(p, F) \cup Out(q, F)
<1> DEFINE V == EdgeRecords
<1>1. /\ Len(p) \in Nat /\ DOMAIN p = 1..Len(p) /\ Len(q) \in Nat /\ DOMAIN q = 1..Len(q)
  OBVIOUS
<1> DEFINE pq == p \o q
           of(x) == <<x.kind, x.label, F[x.to]>>
<1>2. /\ DOMAIN pq = 1..(Len(p) + Len(q))
      /\ \A k \in 1..Len(p) : pq[k] = p[k]
      /\ \A k \in 1..Len(q) : pq[k + Len(p)] = q[k]
  OBVIOUS
<1> HIDE DEF pq
<1>3. {of(pq[k]) : k \in DOMAIN pq} = {of(p[k]) : k \in DOMAIN p} \cup {of(q[k]) : k \in DOMAIN q}
  <2> HIDE DEF of
  <2>1. ASSUME NEW k \in DOMAIN pq PROVE of(pq[k]) \in {of(p[i]) : i \in DOMAIN p} \cup {of(q[i]) : i \in DOMAIN q}
    <3>1. k \in 1..Len(p) \/ (k - Len(p) \in 1..Len(q) /\ k = (k - Len(p)) + Len(p))
      BY <1>1, <1>2
    <3>2. CASE k \in 1..Len(p)
      BY <1>1, <1>2, <3>2
    <3>3. CASE k - Len(p) \in 1..Len(q) /\ k = (k - Len(p)) + Len(p)
      <4>1. pq[k] = q[k - Len(p)]
        BY <1>2, <3>3
      <4> QED BY <1>1, <3>3, <4>1
    <3> QED BY <3>1, <3>2, <3>3
  <2>2. ASSUME NEW k \in DOMAIN p PROVE of(p[k]) \in {of(pq[i]) : i \in DOMAIN pq}
    <3>1. k \in DOMAIN pq /\ pq[k] = p[k]
      BY <1>1, <1>2
    <3> QED BY <3>1
  <2>3. ASSUME NEW k \in DOMAIN q PROVE of(q[k]) \in {of(pq[i]) : i \in DOMAIN pq}
    <3>1. k + Len(p) \in DOMAIN pq /\ pq[k + Len(p)] = q[k]
      BY <1>1, <1>2
    <3> QED BY <3>1
  <2> QED BY <2>1, <2>2, <2>3
<1> QED BY <1>3 DEF Out, Arriving, pq

\* The case edges lead where the cases' targets do; the ones that name no block
\* are those that arrive nowhere.
CasesInto(bs, F, ri, p) ==
    {<<"case", p.keys[k], Into(bs, F, Unsigned(ri.off + p.targets[k]))>> : k \in 1..Len(p.targets)}
LEMMA OutCases ==
    ASSUME NEW bs, 0 \notin DOMAIN bs, DOMAIN bs \in SUBSET Nat,
           \A x : FindBlockId(bs, x) = 0 \/ FindBlockId(bs, x) \in DOMAIN bs,
           NEW ri, NEW p, p.keys \in Seq(Int), p.targets \in Seq(Int), Len(p.keys) = Len(p.targets), NEW F
    PROVE  /\ CaseEdges(bs, ri, p) \in Seq(EdgeRecords)
           /\ Out(CaseEdges(bs, ri, p), F) = Arriving(CasesInto(bs, F, ri, p))
<1> DEFINE n == Len(p.targets)
           to == [k \in 1..n |-> FindBlockId(bs, Unsigned(ri.off + p.targets[k]))]
           K == {k \in 1..n : to[k] # 0}
           known == Asc(K)
           e(j) == [kind |-> "case", to |-> to[known[j]], label |-> p.keys[known[j]]]
           q == CaseEdges(bs, ri, p)
<1>1. n \in Nat /\ DOMAIN p.keys = 1..n
  OBVIOUS
<1>2. q = [j \in DOMAIN known |-> e(j)]
  BY DEF CaseEdges
<1>3. \A k \in K : to[k] \in Nat /\ p.keys[k] \in Int /\ k \in 1..n
  <2>1. ASSUME NEW k \in K PROVE to[k] \in Nat
    <3>1. k \in 1..n /\ to[k] # 0
      OBVIOUS
    <3>2. to[k] = FindBlockId(bs, Unsigned(ri.off + p.targets[k]))
      BY <3>1
    <3> HIDE DEF to
    <3> QED BY <3>1, <3>2
  <2> QED BY <1>1, <2>1
<1>4. /\ Cardinality(K) \in Nat /\ known \in [1..Cardinality(K) -> K] /\ DOMAIN known = 1..Cardinality(K)
      /\ \A k \in K : \E j \in 1..Cardinality(K) : known[j] = k
  <2>1. K \in SUBSET Int /\ IsFiniteSet(K)
    <3>1. IsFiniteSet(1..n)
      BY <1>1, FS_Interval
    <3>2. K \in SUBSET (1..n)
      OBVIOUS
    <3> HIDE DEF K
    <3>3. IsFiniteSet(K)
      BY <3>1, <3>2, FS_Subset
    <3> QED BY <1>1, <3>2, <3>3
  <2> HIDE DEF K
  <2> QED BY <2>1, AscOrder
<1> HIDE DEF known
<1>5. \A j \in DOMAIN known : /\ e(j) \in EdgeRecords /\ e(j).kind = "case" /\ e(j).to = to[known[j]]
                              /\ e(j).label = p.keys[known[j]] /\ known[j] \in K
  <2>1. ASSUME NEW j \in DOMAIN known PROVE known[j] \in K
    <3> HIDE DEF K
    <3> QED BY <1>4
  <2>2. ASSUME NEW j \in DOMAIN known PROVE to[known[j]] \in Nat /\ p.keys[known[j]] \in Int
    BY <1>3, <2>1
  <2> HIDE DEF K, to
  <2>3. ASSUME NEW j \in DOMAIN known
        PROVE  e(j) \in EdgeRecords /\ e(j).kind = "case" /\ e(j).to = to[known[j]] /\ e(j).label = p.keys[known[j]]
    <3> DEFINE t == to[known[j]]
               l == p.keys[known[j]]
    <3>1. t \in Nat /\ l \in Int
      BY <2>2
    <3> HIDE DEF t, l
    <3>2. [kind |-> "case", to |-> t, label |-> l] \in EdgeRecords
      BY <3>1 DEF EdgeRecords, EdgeKinds
    <3> QED BY <3>2 DEF t, l
  <2> HIDE DEF e
  <2> QED BY <2>1, <2>3
<1> HIDE DEF q, e, K, to, n
<1>6. q \in Seq(EdgeRecords) /\ DOMAIN q = DOMAIN known /\ \A j \in DOMAIN q : q[j] = e(j)
  <2>1. DOMAIN q = 1..Cardinality(K) /\ \A j \in 1..Cardinality(K) : q[j] = e(j) /\ q[j] \in EdgeRecords
    BY <1>2, <1>4, <1>5
  <2>2. q = [j \in 1..Cardinality(K) |-> e(j)]
    BY <1>2, <1>4
  <2>3. q \in [1..Cardinality(K) -> EdgeRecords]
    BY <1>4, <1>5, <2>2
  <2> QED BY <1>4, <2>1, <2>3
<1>7. {<<q[j].kind, q[j].label, F[q[j].to]>> : j \in DOMAIN q} = {<<"case", p.keys[k], F[to[k]]>> : k \in K}
  <2>1. ASSUME NEW j \in DOMAIN q
        PROVE <<q[j].kind, q[j].label, F[q[j].to]>> \in {<<"case", p.keys[k], F[to[k]]>> : k \in K}
    <3>1. q[j].kind = "case" /\ q[j].label = p.keys[known[j]] /\ q[j].to = to[known[j]] /\ known[j] \in K
      BY <1>5, <1>6
    <3> QED BY <3>1
  <2>2. ASSUME NEW k \in K
        PROVE <<"case", p.keys[k], F[to[k]]>> \in {<<q[j].kind, q[j].label, F[q[j].to]>> : j \in DOMAIN q}
    <3>1. PICK j \in DOMAIN q : known[j] = k
      BY <1>4, <1>6
    <3>2. q[j].kind = "case" /\ q[j].label = p.keys[k] /\ q[j].to = to[k]
      BY <1>5, <1>6, <3>1
    <3> QED BY <3>2
  <2> QED BY <2>1, <2>2
<1>8. ASSUME NEW k \in 1..n
      PROVE Into(bs, F, Unsigned(ri.off + p.targets[k])) = IF to[k] = 0 THEN 0 ELSE F[to[k]]
  BY DEF Into, to, n
<1> DEFINE v(k) == Into(bs, F, Unsigned(ri.off + p.targets[k]))
<1>9. Arriving({<<"case", p.keys[k], F[to[k]]>> : k \in K}) = Arriving({<<"case", p.keys[k], v(k)>> : k \in 1..n})
  <2>1. \A k \in K : k \in 1..n /\ v(k) = F[to[k]]
    BY <1>8 DEF K
  <2>2. \A k \in 1..n : k \notin K => v(k) = 0
    BY <1>8 DEF K
  <2> HIDE DEF v
  <2> QED BY <2>1, <2>2 DEF Arriving
<1> QED BY <1>6, <1>7, <1>9 DEF Out, q, n, CasesInto

\* Blocks that begin and end alike are found alike and pass control alike.
LEMMA SameBlocks ==
    ASSUME NEW u, NEW s, NEW L, NEW bs, SplitLike(u, s, L, bs), NEW cs, SplitLike(u, s, L, cs)
    PROVE  /\ DOMAIN bs = DOMAIN cs
           /\ \A b \in DOMAIN bs : bs[b].first = cs[b].first /\ bs[b].last = cs[b].last
           /\ \A b \in DOMAIN bs : \A H : EmptyBlockEdges(bs, b, H) = EmptyBlockEdges(cs, b, H)
           /\ \A b \in DOMAIN bs : \A ri : LastInsnEdges(u, bs, b, ri) = LastInsnEdges(u, cs, b, ri)
<1>1. /\ DOMAIN bs = DOMAIN cs
      /\ \A b \in DOMAIN bs : /\ bs[b].start = cs[b].start /\ bs[b].end = cs[b].end
                              /\ bs[b].first = cs[b].first /\ bs[b].last = cs[b].last
  BY DEF SplitLike
<1>2. ASSUME NEW x PROVE FindBlockId(bs, x) = FindBlockId(cs, x)
  <2> DEFINE A == {b \in DOMAIN bs : bs[b].start = x}
             B == {b \in DOMAIN cs : cs[b].start = x}
  <2>1. A = B
    BY <1>1
  <2>2. /\ FindBlockId(bs, x) = IF A = {} THEN 0 ELSE CHOOSE b \in A : TRUE
        /\ FindBlockId(cs, x) = IF B = {} THEN 0 ELSE CHOOSE b \in B : TRUE
    BY DEF FindBlockId
  <2> HIDE DEF A, B
  <2> QED BY <2>1, <2>2
<1>3. ASSUME NEW ri, NEW p PROVE CaseEdges(bs, ri, p) = CaseEdges(cs, ri, p)
  <2> DEFINE tb == [k \in 1..Len(p.targets) |-> FindBlockId(bs, Unsigned(ri.off + p.targets[k]))]
             tc == [k \in 1..Len(p.targets) |-> FindBlockId(cs, Unsigned(ri.off + p.targets[k]))]
  <2>1. tb = tc
    BY <1>2
  <2>2. CaseEdges(bs, ri, p) = [j \in DOMAIN Asc({k \in 1..Len(p.targets) : tb[k] # 0}) |->
                                  [kind |-> "case", to |-> tb[Asc({k \in 1..Len(p.targets) : tb[k] # 0})[j]],
                                   label |-> p.keys[Asc({k \in 1..Len(p.targets) : tb[k] # 0})[j]]]]
    BY DEF CaseEdges
  <2>3. CaseEdges(cs, ri, p) = [j \in DOMAIN Asc({k \in 1..Len(p.targets) : tc[k] # 0}) |->
                                  [kind |-> "case", to |-> tc[Asc({k \in 1..Len(p.targets) : tc[k] # 0})[j]],
                                   label |-> p.keys[Asc({k \in 1..Len(p.targets) : tc[k] # 0})[j]]]]
    BY DEF CaseEdges
  <2> HIDE DEF tb, tc
  <2> QED BY <2>1, <2>2, <2>3
<1>4. ASSUME NEW b \in DOMAIN bs, NEW H PROVE EmptyBlockEdges(bs, b, H) = EmptyBlockEdges(cs, b, H)
  BY <1>1, <1>2 DEF EmptyBlockEdges
<1>5. ASSUME NEW b \in DOMAIN bs, NEW ri PROVE LastInsnEdges(u, bs, b, ri) = LastInsnEdges(u, cs, b, ri)
  <2>1. bs[b].end = cs[b].end
    BY <1>1
  <2>2. FindBlockId(bs, bs[b].end) = FindBlockId(cs, cs[b].end)
    BY <1>2, <2>1
  <2>3. FindBlockId(bs, ri.target) = FindBlockId(cs, ri.target)
    BY <1>2
  <2>4. CaseEdges(bs, ri, PayloadOf(u, ri)) = CaseEdges(cs, ri, PayloadOf(u, ri))
    BY <1>3
  <2> QED BY <2>2, <2>3, <2>4 DEF LastInsnEdges
<1> QED BY <1>1, <1>4, <1>5

\* The edges of the finished blocks are those ComputeChildEdges gave them.
LEMMA FinishedChilds ==
    ASSUME NEW u, NEW s, NEW L, NEW hs, NEW ts
    PROVE  LET split == SplitIntoBlocks(s, L, Len(u))
               bs == AttachExceptionHandlers(ComputeChildEdges(u, s, split, hs), ts)
           IN  \A b \in DOMAIN bs :
                 bs[b].childs = IF bs[b].last = 0 THEN EmptyBlockEdges(bs, b, hs)
                                ELSE LastInsnEdges(u, bs, b, s[bs[b].last])
<1> DEFINE split == SplitIntoBlocks(s, L, Len(u))
           connected == ComputeChildEdges(u, s, split, hs)
           bs == AttachExceptionHandlers(connected, ts)
           D == {"start", "end", "first", "last", "off", "childs", "handlers"}
           edges(b) == IF split[b].last = 0 THEN EmptyBlockEdges(split, b, hs)
                       ELSE LastInsnEdges(u, split, b, s[split[b].last])
<1>1. SplitLike(u, s, L, split) /\ SplitLike(u, s, L, bs)
  BY StagesKeepBlocks
<1>2. ASSUME NEW b \in DOMAIN split PROVE "childs" \in DOMAIN split[b]
  <2>1. \E x1, x2, x3, x4, x5 :
           split[b] = [start |-> x1, end |-> x2, first |-> x3, last |-> x4, off |-> x5,
                       childs |-> <<>>, handlers |-> <<>>]
    BY DEF SplitIntoBlocks
  <2> HIDE DEF split
  <2> QED BY <2>1
<1> HIDE DEF split
<1>3. DOMAIN connected = DOMAIN split
      /\ \A b \in DOMAIN split : connected[b] = [split[b] EXCEPT !.childs = edges(b)]
  BY DEF ComputeChildEdges
<1> HIDE DEF connected, edges
<1>4. ASSUME NEW b \in DOMAIN split PROVE connected[b].childs = edges(b)
  BY <1>2, <1>3
<1>5. DOMAIN bs = DOMAIN split
      /\ \A b \in DOMAIN split : \E x : bs[b] = [connected[b] EXCEPT !.handlers = x]
  BY <1>3 DEF AttachExceptionHandlers
<1> HIDE DEF bs
<1>6. ASSUME NEW b \in DOMAIN bs
      PROVE  bs[b].childs = IF bs[b].last = 0 THEN EmptyBlockEdges(bs, b, hs)
                            ELSE LastInsnEdges(u, bs, b, s[bs[b].last])
  <2>1. bs[b].childs = edges(b)
    <3>1. PICK x : bs[b] = [connected[b] EXCEPT !.handlers = x]
      BY <1>5, <1>6
    <3>2. connected[b].childs = edges(b) /\ "childs" \in DOMAIN connected[b]
      <4>1. DOMAIN connected[b] = DOMAIN split[b]
        BY <1>3, <1>5
      <4> QED BY <1>2, <1>4, <1>5, <4>1
    <3> QED BY <3>1, <3>2
  <2>2. b \in DOMAIN split /\ split[b].last = bs[b].last
    BY <1>1, <1>5, SameBlocks
  <2>3. EmptyBlockEdges(split, b, hs) = EmptyBlockEdges(bs, b, hs)
    BY <1>1, <2>2, SameBlocks
  <2>4. LastInsnEdges(u, split, b, s[bs[b].last]) = LastInsnEdges(u, bs, b, s[bs[b].last])
    BY <1>1, <2>2, SameBlocks
  <2> QED BY <2>1, <2>2, <2>3, <2>4 DEF edges
<1> QED BY <1>6 DEF bs, connected, split

\* The edges an instruction has by its opcode, and a switch's as its payload is read.
EdgesOf(op, out, next, to, cases) ==
    /\ op \in (14..17) \cup {39} => out = {}
    /\ op \in 40..42 => out = Arriving({<<"branch", 0, to>>})
    /\ op \in 50..61 => out = Arriving({<<"false", 0, next>>, <<"branch", 0, to>>})
    /\ op \in {43, 44} => out = Arriving({<<"default", 0, next>>} \cup cases)
    /\ op \notin (14..17) \cup {39} \cup (40..42) \cup (50..61) \cup {43, 44} =>
         out = Arriving({<<"fall", 0, next>>})
ReadInto(bs, F, x, q) == IF q.kind \in {"packed", "sparse"} THEN CasesInto(bs, F, x, q) ELSE {}

\* Where the last instruction's edges lead.
LEMMA LastLeads ==
    ASSUME NEW u \in Seq(U2), NEW s, NEW L, LeadersOf(u, s, L), NEW bs, SplitLike(u, s, L, bs), NEW b \in DOMAIN bs,
           NEW ri, ri.op \in U1, ri.payload \in Int, NEW F
    PROVE  EdgesOf(ri.op, Out(LastInsnEdges(u, bs, b, ri), F), Into(bs, F, bs[b].end), Into(bs, F, ri.target),
                   ReadInto(bs, F, ri, PayloadOf(u, ri)))
<1> DEFINE e == LastInsnEdges(u, bs, b, ri)
           nb == FindBlockId(bs, bs[b].end)
           tb == FindBlockId(bs, ri.target)
           next == Into(bs, F, bs[b].end)
           to == Into(bs, F, ri.target)
           p == PayloadOf(u, ri)
           cases == IF p.kind \in {"packed", "sparse"} THEN CasesInto(bs, F, ri, p) ELSE {}
           ce == IF p.kind \in {"packed", "sparse"} THEN CaseEdges(bs, ri, p) ELSE <<>>
           o == ri.op
<1>1. 0 \notin DOMAIN bs /\ DOMAIN bs \in SUBSET Nat
      /\ \A x : FindBlockId(bs, x) = 0 \/ FindBlockId(bs, x) \in DOMAIN bs
  <2>1. Cardinality(L) \in Nat /\ DOMAIN bs = 1..Cardinality(L)
    BY BlockBounds
  <2> QED BY <2>1, FindsBlock
<1>2. nb \in Nat /\ tb \in Nat
  BY <1>1
<1>3. next = (IF nb = 0 THEN 0 ELSE F[nb]) /\ to = (IF tb = 0 THEN 0 ELSE F[tb])
  BY DEF Into
<1>4. e = CASE o \in 14..17 \/ o = 39 -> <<>>
            [] o \in 40..42 -> Edge("branch", tb, 0)
            [] o \in 50..61 -> Edge("false", nb, 0) \o Edge("branch", tb, 0)
            [] o \in {43, 44} -> Edge("default", nb, 0) \o ce
            [] OTHER -> Edge("fall", nb, 0)
  BY DEF LastInsnEdges, IsReturn, IsThrow, IsUnconditionalBranch, IsConditionalBranch, IsSwitch
<1>5. ce \in Seq(EdgeRecords) /\ Out(ce, F) = Arriving(cases)
  <2>1. CASE p.kind \in {"packed", "sparse"}
    <3>1. p.keys \in Seq(Int) /\ p.targets \in Seq(Int) /\ Len(p.keys) = Len(p.targets)
      <4>1. p = NoPayload \/ p = ParsePayloadAt(u, ri.payload)
        BY DEF PayloadOf
      <4>2. NoPayload.kind \notin {"packed", "sparse"}
        BY DEF NoPayload
      <4> HIDE DEF p
      <4>3. p = ParsePayloadAt(u, ri.payload)
        BY <2>1, <4>1, <4>2
      <4> QED BY <2>1, <4>3, PayloadTypes
    <3>2. ce = CaseEdges(bs, ri, p)
          /\ cases = CasesInto(bs, F, ri, p)
      BY <2>1
    <3> HIDE DEF p, ce, cases
    <3>3. /\ CaseEdges(bs, ri, p) \in Seq(EdgeRecords)
          /\ Out(CaseEdges(bs, ri, p), F) = Arriving(CasesInto(bs, F, ri, p))
      BY <1>1, <3>1, OutCases
    <3> QED BY <3>2, <3>3
  <2>2. CASE p.kind \notin {"packed", "sparse"}
    <3>1. ce = <<>> /\ cases = {}
      BY <2>2
    <3>4. Out(<<>>, F) = {} /\ Arriving({}) = {}
      BY OutNone DEF Arriving
    <3>5. <<>> \in Seq(EdgeRecords)
      OBVIOUS
    <3> HIDE DEF ce, cases
    <3> QED BY <3>1, <3>4, <3>5
  <2> QED BY <2>1, <2>2
<1>6. o \in Int
  BY DEF U1
<1> HIDE DEF e, nb, tb, next, to, ce, cases, p, o
<1>7. /\ Edge("branch", tb, 0) \in Seq(EdgeRecords) /\ Out(Edge("branch", tb, 0), F) = Arriving({<<"branch", 0, to>>})
      /\ Edge("false", nb, 0) \in Seq(EdgeRecords) /\ Out(Edge("false", nb, 0), F) = Arriving({<<"false", 0, next>>})
      /\ Edge("default", nb, 0) \in Seq(EdgeRecords) /\ Out(Edge("default", nb, 0), F) = Arriving({<<"default", 0, next>>})
      /\ Out(Edge("fall", nb, 0), F) = Arriving({<<"fall", 0, next>>})
  <2>1. /\ "fall" \in EdgeKinds /\ "branch" \in EdgeKinds /\ "false" \in EdgeKinds /\ "default" \in EdgeKinds
    BY DEF EdgeKinds
  <2>2. 0 \in Int
    OBVIOUS
  <2>3. \A k \in EdgeKinds : /\ Edge(k, tb, 0) \in Seq(EdgeRecords) /\ Out(Edge(k, tb, 0), F) = Arriving({<<k, 0, to>>})
                              /\ Edge(k, nb, 0) \in Seq(EdgeRecords) /\ Out(Edge(k, nb, 0), F) = Arriving({<<k, 0, next>>})
    BY <1>2, <1>3, <2>2, OutEdge
  <2> QED BY <2>1, <2>3
<1>8. ASSUME NEW S, NEW T PROVE Arriving(S) \cup Arriving(T) = Arriving(S \cup T)
  BY DEF Arriving
<1>9. o \in (14..17) \cup {39} => Out(e, F) = {}
  <2> SUFFICES ASSUME o \in (14..17) \cup {39} PROVE Out(e, F) = {}
    OBVIOUS
  <2>1. o \notin 40..42 /\ o \notin 50..61 /\ o \notin {43, 44} /\ (o \in 14..17 \/ o = 39)
    OBVIOUS
  <2>2. e = <<>>
    BY <1>4, <2>1
  <2> QED BY <2>2, OutNone
<1>10. o \in 40..42 => Out(e, F) = Arriving({<<"branch", 0, to>>})
  <2> SUFFICES ASSUME o \in 40..42 PROVE e = Edge("branch", tb, 0)
    BY <1>7
  <2>1. ~(o \in 14..17 \/ o = 39) /\ o \notin 50..61 /\ o \notin {43, 44}
    OBVIOUS
  <2> QED BY <1>4, <2>1
<1>11. o \in 50..61 => Out(e, F) = Arriving({<<"false", 0, next>>, <<"branch", 0, to>>})
  <2> SUFFICES ASSUME o \in 50..61 PROVE Out(e, F) = Arriving({<<"false", 0, next>>, <<"branch", 0, to>>})
    OBVIOUS
  <2>1. ~(o \in 14..17 \/ o = 39) /\ o \notin 40..42 /\ o \notin {43, 44}
    OBVIOUS
  <2>2. e = Edge("false", nb, 0) \o Edge("branch", tb, 0)
    BY <1>4, <2>1
  <2>3. Out(e, F) = Out(Edge("false", nb, 0), F) \cup Out(Edge("branch", tb, 0), F)
    BY <1>7, <2>2, OutBoth
  <2>4. Out(e, F) = Arriving({<<"false", 0, next>>} \cup {<<"branch", 0, to>>})
    BY <1>7, <1>8, <2>3
  <2>5. {<<"false", 0, next>>} \cup {<<"branch", 0, to>>} = {<<"false", 0, next>>, <<"branch", 0, to>>}
    OBVIOUS
  <2> QED BY <2>4, <2>5
<1>12. o \in {43, 44} => Out(e, F) = Arriving({<<"default", 0, next>>} \cup cases)
  <2> SUFFICES ASSUME o \in {43, 44} PROVE Out(e, F) = Arriving({<<"default", 0, next>>} \cup cases)
    OBVIOUS
  <2>1. ~(o \in 14..17 \/ o = 39) /\ o \notin 40..42 /\ o \notin 50..61
    OBVIOUS
  <2>2. e = Edge("default", nb, 0) \o ce
    BY <1>4, <2>1
  <2>3. Out(e, F) = Out(Edge("default", nb, 0), F) \cup Out(ce, F)
    BY <1>5, <1>7, <2>2, OutBoth
  <2> QED BY <1>5, <1>7, <1>8, <2>3
<1>13. o \notin (14..17) \cup {39} \cup (40..42) \cup (50..61) \cup {43, 44} =>
         Out(e, F) = Arriving({<<"fall", 0, next>>})
  <2> SUFFICES ASSUME o \notin (14..17) \cup {39} \cup (40..42) \cup (50..61) \cup {43, 44}
               PROVE  e = Edge("fall", nb, 0)
    BY <1>7
  <2>1. ~(o \in 14..17 \/ o = 39) /\ o \notin 40..42 /\ o \notin 50..61 /\ o \notin {43, 44}
    BY <1>6
  <2> QED BY <1>4, <2>1
<1> QED BY <1>9, <1>10, <1>11, <1>12, <1>13 DEF EdgesOf, ReadInto, e, next, to, p, cases, o

-----------------------------------------------------------------------------
(* What the strict gate leaves of the instructions. *)

\* A branch and a switch name a unit of insns[].
BranchFormats == {"10t", "20t", "30t", "21t", "22t", "31t"}
\* The branch opcodes are those whose format carries a branch offset.
LEMMA BranchFormat ==
    ASSUME NEW op \in U1, IsBranchOpcode(op)
    PROVE  GetFormatFromOpcode(op) \in BranchFormats
<1>1. op \in Int /\ op \in (40..42) \cup (50..61) \cup {43, 44, 38}
  BY DEF U1, IsBranchOpcode, IsUnconditionalBranch, IsConditionalBranch, IsSwitch, FillArrayData
<1>2. CASE op = 40
  BY <1>2 DEF GetFormatFromOpcode, BranchFormats
<1>3. CASE op = 41
  BY <1>3 DEF GetFormatFromOpcode, BranchFormats
<1>4. CASE op = 42
  BY <1>4 DEF GetFormatFromOpcode, BranchFormats
<1>5. CASE op \in 50..55
  BY <1>1, <1>5 DEF GetFormatFromOpcode, BranchFormats
<1>6. CASE op \in 56..61
  BY <1>1, <1>6 DEF GetFormatFromOpcode, BranchFormats
<1>7. CASE op \in {43, 44, 38}
  BY <1>1, <1>7 DEF GetFormatFromOpcode, BranchFormats
<1> QED BY <1>1, <1>2, <1>3, <1>4, <1>5, <1>6, <1>7

\* Offsets inside insns[] survive the cast; a wrapped one is another number.
LEMMA UnsignedKeeps ==
    ASSUME NEW t \in Int
    PROVE  /\ Unsigned(t) \in Int
           /\ 0 <= t /\ t <= MaxUnits => Unsigned(t) = t
           /\ t < 0 \/ t > MaxUnits => Unsigned(t) # t
<1>1. MaxUnits \in Nat
  BY DEF MaxUnits
<1> QED BY <1>1 DEF Unsigned

\* A branch of a verified body keeps its target, a unit of insns[], as its
\* target or as its payload.
LEMMA BranchInside ==
    ASSUME NEW c, c.units \in Seq(U2), Len(c.units) <= MaxUnits, VerifyInsns(c),
           NEW p \in Starts(c.units), ~IsPayloadMarker(Unit(c.units, p)),
           IsBranchOpcode(OpcodeFromBytecode(Unit(c.units, p)))
    PROVE  LET to == p + ExtractBranchOffset(DecodeInstruction(c.units, p))
               ri == RawIns(c.units, p)
           IN  /\ to \in Nat /\ to < Len(c.units)
               /\ IsSwitch(ri.op) \/ ri.op = FillArrayData => ri.payload = to /\ ri.target = NoTarget
               /\ ~(IsSwitch(ri.op) \/ ri.op = FillArrayData) => ri.target = to /\ ri.payload = NoTarget
<1> DEFINE u == c.units
           d == DecodeInstruction(u, p)
           to == p + ExtractBranchOffset(d)
           ri == RawIns(u, p)
           off == TargetOffset(d)
<1>1. p \in Int /\ u \in Seq(U2)
  <2>1. p \in Nat
    BY StartsInside
  <2> QED BY <2>1
<1>2. TargetOk(c, p, d)
  BY VerifyMeans DEF InsnOk
<1>3. d.op = OpcodeFromBytecode(Unit(u, p)) /\ d.op \in U1 /\ d.A \in Int /\ d.B \in Int /\ d.C \in Int
  BY <1>1, DecodedTypes
<1>4. GetFormatFromOpcode(d.op) \in BranchFormats
  BY <1>3, BranchFormat
<1>5. \E x \in Int : off = <<x>>
  <2> HIDE DEF d
  <2>1. off \in {<<d.A>>, <<d.B>>, <<d.C>>}
    BY <1>4 DEF TargetOffset, BranchFormats
  <2> HIDE DEF off
  <2> QED BY <1>3, <2>1
<1>6. PICK x \in Int : off = <<x>>
  BY <1>5
<1>7. ExtractBranchOffset(d) = IF off = <<>> THEN 0 ELSE off[1]
  BY DEF ExtractBranchOffset
<1>8. off # <<>> => 0 <= p + off[1] /\ p + off[1] < Len(u)
  BY <1>2 DEF TargetOk, InTable
<1>9. off # <<>> /\ off[1] = x
  <2> HIDE DEF off
  <2> QED BY <1>6
<1> HIDE DEF off, d, u
<1>10. to = p + x /\ to \in Int /\ 0 <= to /\ to < Len(u)
  BY <1>1, <1>6, <1>7, <1>8, <1>9
<1>11. Unsigned(to) = to
  <2>1. MaxUnits \in Nat
    BY DEF MaxUnits
  <2>2. to <= MaxUnits
    <3>1. Len(u) \in Nat /\ Len(u) <= MaxUnits
      BY <1>1 DEF u
    <3> HIDE DEF to
    <3> QED BY <1>10, <2>1, <3>1
  <2> HIDE DEF to
  <2> QED BY <1>10, <2>2, UnsignedKeeps
<1> DEFINE loads == IsSwitch(d.op) \/ d.op = FillArrayData
<1>12. /\ ri.op = d.op
       /\ ri.target = IF IsBranchOpcode(d.op) /\ ~loads THEN Unsigned(to) ELSE NoTarget
       /\ ri.payload = IF loads THEN Unsigned(to) ELSE NoTarget
  BY DEF RawIns, d
<1>13. IsBranchOpcode(d.op)
  BY <1>3 DEF u
<1> HIDE DEF ri, to
<1>14. /\ to \in Nat /\ to < Len(u)
       /\ IsSwitch(ri.op) \/ ri.op = FillArrayData => ri.payload = to /\ ri.target = NoTarget
       /\ ~(IsSwitch(ri.op) \/ ri.op = FillArrayData) => ri.target = to /\ ri.payload = NoTarget
  BY <1>10, <1>11, <1>12, <1>13
<1> QED BY <1>14 DEF ri, to, d, u

\* A payload that fits is parsed as declared.
CasesOf(q) == {<<q.keys[k], q.targets[k]>> : k \in 1..Len(q.targets)}
DeclaredCases(u, p) ==
    LET n == Unit(u, p + 1)
    IN  CASE Unit(u, p) = PackedMark -> {<<S4At(u, p + 2) + k, S4At(u, p + 4 + 2 * k)>> : k \in 0..(n - 1)}
          [] Unit(u, p) = SparseMark -> {<<S4At(u, p + 2 + 2 * k), S4At(u, p + 2 + 2 * n + 2 * k)>> : k \in 0..(n - 1)}
          [] OTHER -> {}
\* A packed payload that fits.
LEMMA PackedExact ==
    ASSUME NEW u \in Seq(U2), NEW p \in Nat, Unit(u, p) = PackedMark, p + GetWidthFromBytecode(u, p) <= Len(u)
    PROVE  LET q == ParsePayloadAt(u, p) IN q.kind = "packed" /\ CasesOf(q) = DeclaredCases(u, p)
<1> DEFINE n == Unit(u, p + 1)
           avail == (Len(u) - (p + 4)) \div 2
           f == S4At(u, p + 2)
           t(k) == S4At(u, p + 2 + 2 * k)
           q == [kind |-> "packed", first |-> f, keys |-> [k \in 1..n |-> f + k - 1],
                 targets |-> [k \in 1..n |-> t(k)], read |-> p + 4 + 2 * n]
<1>1. n \in Nat /\ Len(u) \in Nat /\ f \in Int
  <2>1. p + 1 \in Int /\ p + 2 \in Int /\ Len(u) \in Nat
    OBVIOUS
  <2>2. Unit(u, p + 1) \in Nat
    BY <2>1, UnitType
  <2>3. S4At(u, p + 2) \in Int
    BY <2>1, S4Type
  <2> QED BY <2>1, <2>2, <2>3
<1>2. GetWidthFromBytecode(u, p) = 4 + 2 * n
  BY DEF GetWidthFromBytecode, PackedMark, SparseMark, ArrayMark
<1> HIDE DEF n, f
<1>3. p + 4 + 2 * n <= Len(u) /\ p + 4 <= Len(u) /\ p + 1 <= Len(u)
  BY <1>1, <1>2
<1>4. n <= avail /\ avail \in Int
  BY <1>1, <1>3
<1>5. Smaller(n, avail) = n
  <2> HIDE DEF avail
  <2> QED BY <1>1, <1>4 DEF Smaller
<1>6. ParsePayloadAt(u, p) = ParsePackedSwitchPayload(u, p)
  BY <1>3 DEF ParsePayloadAt, PackedMark, SparseMark, ArrayMark
<1>7. ParsePackedSwitchPayload(u, p) = q
  <2>1. ~(p + 4 > Len(u))
    BY <1>1, <1>3
  <2> HIDE DEF avail
  <2>2. ParsePackedSwitchPayload(u, p) = [kind |-> "packed", first |-> S4At(u, p + 2),
              keys |-> [k \in 1..Smaller(n, avail) |-> S4At(u, p + 2) + k - 1],
              targets |-> [k \in 1..Smaller(n, avail) |-> S4At(u, p + 2 + 2 * k)], read |-> p + 4 + 2 * Smaller(n, avail)]
    BY <2>1 DEF ParsePackedSwitchPayload, n, avail
  <2> QED BY <1>5, <2>2 DEF f
<1>8. q.kind = "packed" /\ q.keys = [k \in 1..n |-> f + k - 1] /\ q.targets = [k \in 1..n |-> t(k)]
  OBVIOUS
<1> HIDE DEF q
<1>9. Len(q.targets) = n /\ \A k \in 1..n : q.keys[k] = f + k - 1 /\ q.targets[k] = t(k)
  <2>1. Len([k \in 1..n |-> t(k)]) = n
    <3> HIDE DEF t
    <3> QED BY <1>1
  <2> HIDE DEF t
  <2> QED BY <1>8, <2>1
<1> DEFINE D == {<<f + k, S4At(u, p + 4 + 2 * k)>> : k \in 0..(n - 1)}
<1>10. CasesOf(q) = D
  <2>1. ASSUME NEW k \in 1..n PROVE <<q.keys[k], q.targets[k]>> \in D
    <3>1. k - 1 \in 0..(n - 1) /\ f + k - 1 = f + (k - 1) /\ p + 2 + 2 * k = p + 4 + 2 * (k - 1)
      BY <1>1
    <3>2. <<f + (k - 1), S4At(u, p + 4 + 2 * (k - 1))>> \in D
      BY <3>1
    <3> HIDE DEF D
    <3> QED BY <1>9, <3>1, <3>2
  <2>2. ASSUME NEW j \in 0..(n - 1) PROVE \E k \in 1..n : <<f + j, S4At(u, p + 4 + 2 * j)>> = <<q.keys[k], q.targets[k]>>
    <3>1. j + 1 \in 1..n /\ f + (j + 1) - 1 = f + j /\ p + 2 + 2 * (j + 1) = p + 4 + 2 * j
      BY <1>1
    <3>2. q.keys[j + 1] = f + j /\ q.targets[j + 1] = S4At(u, p + 4 + 2 * j)
      BY <1>9, <3>1
    <3> QED BY <3>1, <3>2
  <2>3. CasesOf(q) = {<<q.keys[k], q.targets[k]>> : k \in 1..n}
    BY <1>9 DEF CasesOf
  <2>4. {<<q.keys[k], q.targets[k]>> : k \in 1..n} \in SUBSET D
    <3> HIDE DEF D
    <3> QED BY <2>1
  <2>5. D \in SUBSET {<<q.keys[k], q.targets[k]>> : k \in 1..n}
    BY <2>2
  <2> HIDE DEF D
  <2> QED BY <2>3, <2>4, <2>5
<1>11. DeclaredCases(u, p) = D
  BY DEF DeclaredCases, PackedMark, SparseMark, n, f
<1> HIDE DEF D
<1> QED BY <1>6, <1>7, <1>8, <1>10, <1>11

\* A sparse payload that fits; one that ends insns[] declares no case.
LEMMA SparseExact ==
    ASSUME NEW u \in Seq(U2), NEW p \in Nat, Unit(u, p) = SparseMark, p + GetWidthFromBytecode(u, p) <= Len(u)
    PROVE  LET q == ParsePayloadAt(u, p)
           IN  \/ q.kind = "sparse" /\ CasesOf(q) = DeclaredCases(u, p)
               \/ q.kind = "none" /\ DeclaredCases(u, p) = {}
<1> DEFINE n == Unit(u, p + 1)
           avail == (Len(u) - (p + 2)) \div 2
           key(k) == S4At(u, p + 2 * k)
           t(k) == S4At(u, p + 2 * n + 2 * k)
           q == [kind |-> "sparse", first |-> 0, keys |-> [k \in 1..n |-> key(k)],
                 targets |-> [k \in 1..n |-> t(k)], read |-> p + 2 + 4 * n]
           D == {<<S4At(u, p + 2 + 2 * k), S4At(u, p + 2 + 2 * n + 2 * k)>> : k \in 0..(n - 1)}
<1>1. n \in Nat /\ Len(u) \in Nat
  <2>1. p + 1 \in Int /\ Len(u) \in Nat
    OBVIOUS
  <2> QED BY <2>1, UnitType
<1>2. GetWidthFromBytecode(u, p) = 2 + 4 * n
  BY DEF GetWidthFromBytecode, PackedMark, SparseMark, ArrayMark
<1>3. DeclaredCases(u, p) = D
  BY DEF DeclaredCases, PackedMark, SparseMark
<1>4. ParsePayloadAt(u, p) = ParseSparseSwitchPayload(u, p)
  <2>1. p + 1 <= Len(u)
    <3> HIDE DEF n
    <3> QED BY <1>1, <1>2
  <2> QED BY <2>1 DEF ParsePayloadAt, PackedMark, SparseMark, ArrayMark
<1> HIDE DEF n
<1>5. CASE p + 4 > Len(u)
  <2>1. n = 0
    BY <1>1, <1>2, <1>5
  <2>2. D = {}
    <3>1. 0..(n - 1) = {}
      BY <2>1
    <3> QED BY <3>1
  <2>3. ParsePayloadAt(u, p) = NoPayload
    BY <1>4, <1>5 DEF ParseSparseSwitchPayload
  <2>4. NoPayload.kind = "none"
    BY DEF NoPayload
  <2> QED BY <1>3, <2>2, <2>3, <2>4
<1>6. CASE ~(p + 4 > Len(u))
  <2>1. n <= avail \div 2 /\ avail \in Int /\ avail \div 2 \in Int
    BY <1>1, <1>2
  <2>2. Smaller(n, avail \div 2) = n
    <3> HIDE DEF avail
    <3> QED BY <1>1, <2>1 DEF Smaller
  <2>3. ParseSparseSwitchPayload(u, p) = q
    <3> HIDE DEF avail
    <3>1. ParseSparseSwitchPayload(u, p) = [kind |-> "sparse", first |-> 0,
              keys |-> [k \in 1..Smaller(n, avail \div 2) |-> S4At(u, p + 2 * k)],
              targets |-> [k \in 1..Smaller(n, avail \div 2) |->
                             S4At(u, p + 2 * Smaller(n, avail \div 2) + 2 * k)],
              read |-> p + 2 + 4 * Smaller(n, avail \div 2)]
      BY <1>6 DEF ParseSparseSwitchPayload, n, avail
    <3> QED BY <2>2, <3>1
  <2>4. q.kind = "sparse" /\ q.keys = [k \in 1..n |-> key(k)] /\ q.targets = [k \in 1..n |-> t(k)]
    OBVIOUS
  <2> HIDE DEF q
  <2>5. Len(q.targets) = n /\ \A k \in 1..n : q.keys[k] = key(k) /\ q.targets[k] = t(k)
    <3>1. Len([k \in 1..n |-> t(k)]) = n
      <4> HIDE DEF t
      <4> QED BY <1>1
    <3> HIDE DEF t, key
    <3> QED BY <2>4, <3>1
  <2>6. CasesOf(q) = D
    <3>1. ASSUME NEW k \in 1..n PROVE <<q.keys[k], q.targets[k]>> \in D
      <4>1. k - 1 \in 0..(n - 1) /\ p + 2 * k = p + 2 + 2 * (k - 1)
            /\ p + 2 * n + 2 * k = p + 2 + 2 * n + 2 * (k - 1)
        BY <1>1
      <4>2. <<S4At(u, p + 2 + 2 * (k - 1)), S4At(u, p + 2 + 2 * n + 2 * (k - 1))>> \in D
        BY <4>1
      <4> HIDE DEF D
      <4> QED BY <2>5, <4>1, <4>2
    <3>2. ASSUME NEW j \in 0..(n - 1)
          PROVE  \E k \in 1..n : <<S4At(u, p + 2 + 2 * j), S4At(u, p + 2 + 2 * n + 2 * j)>> = <<q.keys[k], q.targets[k]>>
      <4>1. j + 1 \in 1..n /\ p + 2 * (j + 1) = p + 2 + 2 * j /\ p + 2 * n + 2 * (j + 1) = p + 2 + 2 * n + 2 * j
        BY <1>1
      <4>2. q.keys[j + 1] = S4At(u, p + 2 + 2 * j) /\ q.targets[j + 1] = S4At(u, p + 2 + 2 * n + 2 * j)
        BY <2>5, <4>1
      <4> QED BY <4>1, <4>2
    <3>3. CasesOf(q) = {<<q.keys[k], q.targets[k]>> : k \in 1..n}
      BY <2>5 DEF CasesOf
    <3>4. {<<q.keys[k], q.targets[k]>> : k \in 1..n} \in SUBSET D
      <4> HIDE DEF D
      <4> QED BY <3>1
    <3>5. D \in SUBSET {<<q.keys[k], q.targets[k]>> : k \in 1..n}
      BY <3>2
    <3> HIDE DEF D
    <3> QED BY <3>3, <3>4, <3>5
  <2> HIDE DEF D
  <2> QED BY <1>3, <1>4, <2>3, <2>4, <2>6
<1> QED BY <1>5, <1>6

\* The cases a switch's payload is read as.
ReadCases(q) == IF q.kind \in {"packed", "sparse"} THEN CasesOf(q) ELSE {}
\* Parsing a payload that fits yields its cases, and other units none.
LEMMA PayloadExact ==
    ASSUME NEW u \in Seq(U2), NEW p \in Nat, p < Len(u),
           \/ Unit(u, p) \notin {PackedMark, SparseMark}
           \/ p + GetWidthFromBytecode(u, p) <= Len(u)
    PROVE  ReadCases(ParsePayloadAt(u, p)) = DeclaredCases(u, p)
<1>1. CASE Unit(u, p) = PackedMark
  <2>1. p + GetWidthFromBytecode(u, p) <= Len(u)
    BY <1>1
  <2> QED BY <1>1, <2>1, PackedExact DEF ReadCases
<1>2. CASE Unit(u, p) = SparseMark
  <2>1. p + GetWidthFromBytecode(u, p) <= Len(u)
    BY <1>2
  <2> QED BY <1>2, <2>1, SparseExact DEF ReadCases
<1>3. CASE Unit(u, p) \notin {PackedMark, SparseMark}
  <2>1. DeclaredCases(u, p) = {}
    BY <1>3 DEF DeclaredCases, PackedMark, SparseMark
  <2>2. ParsePayloadAt(u, p) \in {NoPayload, ParseFillArrayPayload(u, p)}
    BY <1>3 DEF ParsePayloadAt
  <2>3. NoPayload.kind \notin {"packed", "sparse"}
    BY DEF NoPayload
  <2>4. ParseFillArrayPayload(u, p).kind \notin {"packed", "sparse"}
    BY DEF ParseFillArrayPayload, NoPayload
  <2> QED BY <2>1, <2>2, <2>3, <2>4 DEF ReadCases
<1> QED BY <1>1, <1>2, <1>3

\* Where control that enters at t continues, t computed in 64 bits.
LandAt(s, t) == IF t < 0 THEN 0 ELSE Landing(s, t)

\* A case's target, cast and looked up among the blocks, leads where the case
\* does unless the cast wraps it into insns[].
LEMMA CaseLands ==
    ASSUME NEW u \in Seq(U2), Len(u) <= MaxUnits, NEW s, NEW L, LeadersOf(u, s, L),
           NEW bs, SplitLike(u, s, L, bs), NEW F, \A b \in DOMAIN bs : F[b] = Landing(s, bs[b].start),
           NEW t \in Int, 0 <= t /\ t < Len(u) => t \in L,
           Unsigned(t) < Len(u) => Unsigned(t) = t
    PROVE  Into(bs, F, Unsigned(t)) = LandAt(s, t)
<1> DEFINE n == Len(u)
           v == Unsigned(t)
           m == MaxUnits
<1>1. n \in Nat /\ m \in Nat /\ n <= m
  <2>1. MaxUnits \in Nat
    BY DEF MaxUnits
  <2> QED BY <2>1
<1>2. v \in Int /\ (0 <= t /\ t <= m => v = t) /\ (t < 0 \/ t > m => v # t)
  BY UnsignedKeeps
<1>3. InsnList(u, 0, s)
  BY DEF LeadersOf
<1>4. n <= t => Landing(s, t) = 0
  BY <1>3, LandingPast
<1>5. /\ \A x \in L : Into(bs, F, x) = Landing(s, x)
      /\ \A x \in Int : n <= x => Into(bs, F, x) = 0
  <2> HIDE DEF v, m
  <2>1. \A x \in L : Into(bs, F, x) = Landing(s, x)
    BY IntoLands
  <2>2. \A x \in Int : Len(u) <= x => Into(bs, F, x) = 0
    BY IntoLands
  <2> QED BY <2>1, <2>2
<1> HIDE DEF v, n, m
<1>6. CASE v < n
  <2>1. v = t
    BY <1>6 DEF v, n
  <2>2. 0 <= t /\ t < n
    BY <1>1, <1>2, <1>6, <2>1
  <2>3. t \in L /\ ~(t < 0)
    BY <2>2 DEF n
  <2> QED BY <1>5, <2>1, <2>3 DEF LandAt, v
<1>7. CASE ~(v < n)
  <2>1. Into(bs, F, v) = 0
    BY <1>1, <1>2, <1>5, <1>7
  <2>2. t < 0 \/ n <= t
    BY <1>1, <1>2, <1>7
  <2> QED BY <1>4, <2>1, <2>2 DEF LandAt, v
<1> QED BY <1>6, <1>7

\* Where a switch's cases lead, as declared, and what makes them read so.
LandedCases(u, s, x) == {<<"case", k[1], LandAt(s, x.off + k[2])>> : k \in DeclaredCases(u, x.payload)}
CasesKept(u, x) ==
    /\ \/ Unit(u, x.payload) \notin {PackedMark, SparseMark}
       \/ x.payload + GetWidthFromBytecode(u, x.payload) <= Len(u)
    /\ \A k \in DeclaredCases(u, x.payload) :
         Unsigned(x.off + k[2]) < Len(u) => Unsigned(x.off + k[2]) = x.off + k[2]

\* So the edges of a switch's cases lead where its cases do.
LEMMA CasesLand ==
    ASSUME NEW u \in Seq(U2), Len(u) <= MaxUnits, NEW s, NEW L, LeadersOf(u, s, L),
           NEW bs, SplitLike(u, s, L, bs), NEW F, \A b \in DOMAIN bs : F[b] = Landing(s, bs[b].start),
           NEW x, x.off \in Nat, x.payload \in Nat, x.payload < Len(u), CaseLeaders(u, x) \in SUBSET L,
           CasesKept(u, x)
    PROVE  ReadInto(bs, F, x, PayloadOf(u, x)) = LandedCases(u, s, x)
<1> DEFINE p == x.payload
           o == x.off
           q == PayloadOf(u, x)
           C == DeclaredCases(u, p)
           land(k) == <<"case", k[1], LandAt(s, o + k[2])>>
<1>1. q = ParsePayloadAt(u, p)
  <2>1. p # NoTarget
    BY DEF NoTarget
  <2> QED BY <2>1 DEF PayloadOf
<1>2. ReadCases(q) = C
  <2>1. \/ Unit(u, p) \notin {PackedMark, SparseMark}
        \/ p + GetWidthFromBytecode(u, p) <= Len(u)
    BY DEF CasesKept
  <2> HIDE DEF p
  <2>2. p \in Nat /\ p < Len(u)
    BY DEF p
  <2> HIDE DEF q
  <2> QED BY <1>1, <2>1, <2>2, PayloadExact
<1>3. CASE q.kind \notin {"packed", "sparse"}
  <2>1. C = {}
    BY <1>2, <1>3 DEF ReadCases
  <2> HIDE DEF C, q
  <2> QED BY <1>3, <2>1 DEF C, q, p, ReadInto, LandedCases
<1>4. CASE q.kind \in {"packed", "sparse"}
  <2>1. /\ q.keys \in Seq(Int) /\ q.targets \in Seq(Int) /\ Len(q.keys) = Len(q.targets)
    <3>1. p \in Int
      OBVIOUS
    <3> HIDE DEF q, p
    <3> QED BY <1>1, <1>4, <3>1, PayloadTypes
  <2>2. CasesOf(q) = C
    BY <1>2, <1>4 DEF ReadCases
  <2>3. CaseLeaders(u, x) = {t \in {o + q.targets[k] : k \in 1..Len(q.targets)} : 0 <= t /\ t < Len(u)}
    BY <1>4 DEF CaseLeaders
  <2> DEFINE n == Len(q.targets)
  <2> HIDE DEF q, p, C
  <2>4. o \in Int /\ \A k \in 1..n : q.targets[k] \in Int
    BY <2>1
  <2> HIDE DEF o
  <2>5. ASSUME NEW k \in 1..n
        PROVE  Into(bs, F, Unsigned(o + q.targets[k])) = LandAt(s, o + q.targets[k])
    <3> DEFINE t == o + q.targets[k]
    <3>1. t \in Int
      BY <2>4
    <3>2. 0 <= t /\ t < Len(u) => t \in L
      <4>1. 0 <= t /\ t < Len(u) => t \in CaseLeaders(u, x)
        BY <2>3
      <4> QED BY <4>1
    <3>3. Unsigned(t) < Len(u) => Unsigned(t) = t
      <4>1. <<q.keys[k], q.targets[k]>> \in C
        BY <2>2 DEF CasesOf
      <4>2. <<q.keys[k], q.targets[k]>>[2] = q.targets[k]
        OBVIOUS
      <4>3. \A y \in C : Unsigned(o + y[2]) < Len(u) => Unsigned(o + y[2]) = o + y[2]
        BY DEF CasesKept, C, o, p
      <4> QED BY <4>1, <4>2, <4>3
    <3> HIDE DEF t
    <3>4. Into(bs, F, Unsigned(t)) = LandAt(s, t)
      BY <3>1, <3>2, <3>3, CaseLands
    <3> QED BY <3>4 DEF t
  <2>6. CasesInto(bs, F, x, q) = {<<"case", q.keys[k], Into(bs, F, Unsigned(o + q.targets[k]))>> : k \in 1..n}
    BY DEF CasesInto, o
  <2>7. CasesInto(bs, F, x, q) = {<<"case", q.keys[k], LandAt(s, o + q.targets[k])>> : k \in 1..n}
    BY <2>5, <2>6
  <2>8. C = {<<q.keys[k], q.targets[k]>> : k \in 1..n}
    BY <2>2 DEF CasesOf
  <2>9. {land(k) : k \in C} = {<<"case", q.keys[k], LandAt(s, o + q.targets[k])>> : k \in 1..n}
    <3> DEFINE lead(k) == LandAt(s, o + k)
               c(k) == <<q.keys[k], q.targets[k]>>
    <3>1. \A k \in 1..n : land(c(k)) = <<"case", q.keys[k], lead(q.targets[k])>>
      OBVIOUS
    <3> HIDE DEF lead, land, c
    <3>2. C = {c(k) : k \in 1..n}
      BY <2>8 DEF c
    <3>3. {land(k) : k \in C} = {land(c(k)) : k \in 1..n}
      BY <3>2
    <3>4. {land(k) : k \in C} = {<<"case", q.keys[k], lead(q.targets[k])>> : k \in 1..n}
      BY <3>1, <3>3
    <3> QED BY <3>4 DEF lead
  <2>10. LandedCases(u, s, x) = {land(k) : k \in C}
    BY DEF LandedCases, C, p, o
  <2>11. ReadInto(bs, F, x, q) = CasesInto(bs, F, x, q)
    BY <1>4 DEF ReadInto
  <2> HIDE DEF land
  <2> QED BY <2>7, <2>9, <2>10, <2>11 DEF q
<1> QED BY <1>3, <1>4

\* Where an instruction passes control.
Leads(u, s, x) ==
    LET next == LandAt(s, x.off + x.len)
        to == LandAt(s, x.off + ExtractBranchOffset(DecodeInstruction(u, x.off)))
    IN  CASE x.op \in (14..17) \cup {39} -> {}
          [] x.op \in 40..42 -> {<<"branch", 0, to>>}
          [] x.op \in 50..61 -> {<<"false", 0, next>>, <<"branch", 0, to>>}
          [] x.op \in {43, 44} ->
               {<<"default", 0, next>>} \cup LandedCases(u, s, x)
          [] OTHER -> {<<"fall", 0, next>>}

\* Leaders among an instruction's targets, and behind one that ends a block.
LEMMA TargetsLead ==
    ASSUME NEW u \in Seq(U2), NEW s, InsnList(u, 0, s), NEW L, ComputeLeaders(u, s) \in SUBSET L, NEW i \in 1..Len(s)
    PROVE  /\ s[i].target # NoTarget => s[i].target \in L
           /\ CaseLeaders(u, s[i]) \in SUBSET L
           /\ i < Len(s) /\ EndsBlock(s[i].op) => s[i + 1].off \in L
<1>1. Len(s) \in Nat /\ DOMAIN s = 1..Len(s)
  BY InsnOrder
<1> DEFINE A == {s[k + 1].off : k \in {j \in 1..(Len(s) - 1) : EndsBlock(s[j].op)}}
           B == {s[k].target : k \in DOMAIN s} \ {NoTarget}
           C == UNION {CaseLeaders(u, s[k]) : k \in DOMAIN s}
<1>2. A \in SUBSET L /\ B \in SUBSET L /\ C \in SUBSET L
  BY DEF ComputeLeaders
<1>3. s[i].target # NoTarget => s[i].target \in B
  BY <1>1
<1>4. CaseLeaders(u, s[i]) \in SUBSET C
  BY <1>1
<1>5. i < Len(s) /\ EndsBlock(s[i].op) => s[i + 1].off \in A
  <2> SUFFICES ASSUME i < Len(s), EndsBlock(s[i].op) PROVE s[i + 1].off \in A
    OBVIOUS
  <2>1. i \in 1..(Len(s) - 1)
    BY <1>1
  <2> QED BY <2>1
<1> HIDE DEF A, B, C
<1> QED BY <1>2, <1>3, <1>4, <1>5

\* Inside a block an instruction passes control to the next one.
LEMMA InsideFallsThrough ==
    ASSUME NEW u \in Seq(U2), NEW s, NEW L, LeadersOf(u, s, L), ComputeLeaders(u, s) \in SUBSET L,
           NEW bs, SplitLike(u, s, L, bs), NEW b \in DOMAIN bs, bs[b].first # 0,
           NEW i \in bs[b].first..(bs[b].last - 1)
    PROVE  i \in 1..Len(s) /\ Arriving(Leads(u, s, s[i])) = {<<"fall", 0, i + 1>>}
<1> DEFINE n == Len(s)
           c == Cardinality(L)
           lo == bs[b].start
           hi == bs[b].end
<1>1. /\ InsnList(u, 0, s) /\ n \in Nat
      /\ \A j \in 1..n : s[j].off \in Nat /\ s[j].len \in Nat
      /\ \A j, k \in 1..n : j < k => s[j].off < s[k].off
  BY InsnOrder DEF LeadersOf
<1>2. /\ bs[b].first \in 0..n /\ bs[b].last \in 0..n
      /\ \A j \in 1..n : (bs[b].first # 0 /\ bs[b].first <= j /\ j <= bs[b].last)
                            <=> (lo <= s[j].off /\ s[j].off < hi)
  BY BlockHolds
<1>3. i \in 1..n /\ i + 1 \in 1..n /\ i < n /\ i < i + 1
  BY <1>1, <1>2
<1>4. lo <= s[i].off /\ s[i + 1].off < hi
  <2>1. bs[b].first <= i /\ i <= bs[b].last /\ bs[b].first <= i + 1 /\ i + 1 <= bs[b].last
    BY <1>1, <1>2
  <2> QED BY <1>2, <1>3, <2>1
<1>5. /\ c \in Nat /\ DOMAIN bs = 1..c
      /\ \A a \in DOMAIN bs : bs[a].start \in Int /\ bs[a].end \in Int
      /\ hi = IF b < c THEN bs[b + 1].start ELSE Len(u)
      /\ \A a, e \in DOMAIN bs : a < e => bs[a].start < bs[e].start
      /\ \A x \in L : \E a \in DOMAIN bs : bs[a].start = x
  BY BlockBounds
<1> HIDE DEF c
<1>6. s[i + 1].off \notin L
  <2> SUFFICES ASSUME s[i + 1].off \in L PROVE FALSE
    OBVIOUS
  <2> DEFINE x == s[i + 1].off
  <2>1. x \in Nat /\ s[i].off \in Nat /\ s[i].off < x
    BY <1>1, <1>3
  <2>2. PICK d \in DOMAIN bs : bs[d].start = x
    BY <1>5
  <2>3. lo \in Int /\ hi \in Int /\ lo < x /\ x < hi
    BY <1>4, <1>5, <2>1
  <2> HIDE DEF x
  <2>4. ~(d < b) /\ d # b
    <3>1. d < b => bs[d].start < bs[b].start
      BY <1>5
    <3> QED BY <2>1, <2>2, <2>3, <3>1
  <2>5. b < d /\ b < c /\ b + 1 \in DOMAIN bs /\ (b + 1 < d \/ b + 1 = d)
    BY <1>5, <2>4
  <2>6. b + 1 < d => bs[b + 1].start < bs[d].start
    BY <1>5, <2>5
  <2>7. hi = bs[b + 1].start
    BY <1>5, <2>5
  <2> HIDE DEF hi, lo
  <2> QED BY <2>1, <2>2, <2>3, <2>5, <2>6, <2>7
<1>7. ~EndsBlock(s[i].op)
  BY <1>1, <1>3, <1>6, TargetsLead
<1>8. LandAt(s, s[i].off + s[i].len) = i + 1
  <2>1. Landing(s, s[i].off + s[i].len) = i + 1
    BY <1>1, <1>3, LandingNext
  <2>2. s[i].off \in Nat /\ s[i].len \in Nat
    BY <1>1, <1>3
  <2>3. ~(s[i].off + s[i].len < 0)
    BY <2>2
  <2> QED BY <2>1, <2>3 DEF LandAt
<1>9. Leads(u, s, s[i]) = {<<"fall", 0, i + 1>>}
  <2>1. /\ s[i].op \notin (14..17) \cup {39} /\ s[i].op \notin 40..42 /\ s[i].op \notin 50..61 /\ s[i].op \notin {43, 44}
    BY <1>7 DEF EndsBlock, IsBlockTerminator, IsReturn, IsThrow, IsUnconditionalBranch, IsConditionalBranch, IsSwitch
  <2> QED BY <1>8, <2>1 DEF Leads
<1>10. Arriving({<<"fall", 0, i + 1>>}) = {<<"fall", 0, i + 1>>}
  <2>1. <<"fall", 0, i + 1>>[3] = i + 1
    OBVIOUS
  <2>2. i + 1 # 0
    BY <1>3
  <2> QED BY <2>1, <2>2 DEF Arriving
<1> QED BY <1>3, <1>9, <1>10

\* What Build made of a verified body.
Built(c, s, L, bs, F) ==
    /\ c.units \in Seq(U2) /\ Len(c.units) <= MaxUnits /\ VerifyInsns(c)
    /\ \A i \in 1..Len(s) : s[i].off \in Starts(c.units)
    /\ LeadersOf(c.units, s, L) /\ ComputeLeaders(c.units, s) \in SUBSET L
    /\ SplitLike(c.units, s, L, bs)
    /\ \A b \in DOMAIN bs : F[b] = Landing(s, bs[b].start)

\* The edges of a verified body's block lead where its last instruction does.
LEMMA LastMatches ==
    ASSUME NEW c, NEW s, NEW L, NEW bs, NEW F, Built(c, s, L, bs, F),
           NEW b \in DOMAIN bs, bs[b].first # 0,
           IsSwitch(s[bs[b].last].op) => CasesKept(c.units, s[bs[b].last])
    PROVE  Out(LastInsnEdges(c.units, bs, b, s[bs[b].last]), F) = Arriving(Leads(c.units, s, s[bs[b].last]))
<1> DEFINE u == c.units
           i == bs[b].last
           x == s[i]
           o == x.op
           p == x.off
           to == p + ExtractBranchOffset(DecodeInstruction(u, p))
           next == Into(bs, F, bs[b].end)
           taken == Into(bs, F, x.target)
           cases == ReadInto(bs, F, x, PayloadOf(u, x))
           out == Out(LastInsnEdges(u, bs, b, x), F)
<1>0. /\ c.units \in Seq(U2) /\ Len(c.units) <= MaxUnits /\ VerifyInsns(c)
      /\ \A j \in 1..Len(s) : s[j].off \in Starts(c.units)
      /\ LeadersOf(c.units, s, L) /\ ComputeLeaders(c.units, s) \in SUBSET L
      /\ SplitLike(c.units, s, L, bs)
      /\ \A d \in DOMAIN bs : F[d] = Landing(s, bs[d].start)
  BY DEF Built
<1> USE <1>0
<1>1. InsnList(u, 0, s) /\ u \in Seq(U2)
  BY DEF LeadersOf
<1>2. i \in 1..Len(s) /\ Landing(s, p + x.len) = Landing(s, bs[b].end)
  BY <1>1, BlockLands
<1>3. /\ x = RawIns(u, p) /\ p \in Nat /\ p \in Int /\ x.len \in Nat /\ ~IsPayloadMarker(Unit(u, p)) /\ p \in Starts(u)
  BY <1>1, <1>2 DEF InsnList
<1>4. o = OpcodeFromBytecode(Unit(u, p)) /\ o \in U1 /\ o \in Int /\ x.payload \in Int /\ x.target \in Int
  <2>1. LET r == RawIns(u, p)
        IN  r.op = OpcodeFromBytecode(Unit(u, p)) /\ r.op \in U1 /\ r.target \in Int /\ r.payload \in Int
    BY <1>1, <1>3, RawTypes
  <2>2. \A v \in U1 : v \in Int
    BY DEF U1
  <2> HIDE DEF x, u, p
  <2> QED BY <1>3, <2>1, <2>2 DEF o
<1>5. next = LandAt(s, p + x.len)
  <2>1. bs[b].start < bs[b].end
    <3>1. bs[b].start <= p /\ p < bs[b].end
      <4>1. /\ bs[b].first <= i
            /\ (bs[b].first # 0 /\ bs[b].first <= i /\ i <= bs[b].last) <=> (bs[b].start <= p /\ p < bs[b].end)
        BY <1>1, <1>2, BlockHolds
      <4>2. i <= bs[b].last
        BY <1>2
      <4> QED BY <4>1, <4>2
    <3>2. bs[b].start \in Int /\ bs[b].end \in Int
      BY <1>1, BlockBounds
    <3> HIDE DEF p
    <3> QED BY <1>3, <3>1, <3>2
  <2>2. next = Landing(s, bs[b].end)
    BY <1>1, <2>1, IntoLands
  <2>3. ~(p + x.len < 0)
    <3> HIDE DEF p, x
    <3> QED BY <1>3
  <2> QED BY <1>2, <2>2, <2>3 DEF LandAt
<1>6. IsBranchOpcode(o) =>
        /\ to \in Nat /\ to < Len(u)
        /\ IsSwitch(o) \/ o = FillArrayData => x.payload = to
        /\ ~(IsSwitch(o) \/ o = FillArrayData) => x.target = to
  <2> SUFFICES ASSUME IsBranchOpcode(o)
               PROVE  /\ to \in Nat /\ to < Len(u)
                      /\ IsSwitch(o) \/ o = FillArrayData => x.payload = to
                      /\ ~(IsSwitch(o) \/ o = FillArrayData) => x.target = to
    OBVIOUS
  <2>1. IsBranchOpcode(OpcodeFromBytecode(Unit(u, p)))
    BY <1>4
  <2> HIDE DEF p, x
  <2>2. LET ri == RawIns(u, p)
        IN  /\ to \in Nat /\ to < Len(u)
            /\ IsSwitch(ri.op) \/ ri.op = FillArrayData => ri.payload = to /\ ri.target = NoTarget
            /\ ~(IsSwitch(ri.op) \/ ri.op = FillArrayData) => ri.target = to /\ ri.payload = NoTarget
    BY <1>1, <1>3, <2>1, BranchInside
  <2> HIDE DEF to, u
  <2> QED BY <1>3, <2>2
<1>7. /\ x.target # NoTarget => x.target \in L
      /\ CaseLeaders(u, x) \in SUBSET L
  <2>1. \A j \in 1..Len(s) : /\ s[j].target # NoTarget => s[j].target \in L
                             /\ CaseLeaders(u, s[j]) \in SUBSET L
    <3>1. ComputeLeaders(u, s) \in SUBSET L
      OBVIOUS
    <3> HIDE DEF u
    <3> QED BY <1>1, <3>1, TargetsLead
  <2> HIDE DEF u, i
  <2> QED BY <1>2, <2>1
<1>8. /\ o \in (14..17) \cup {39} => out = {}
      /\ o \in 40..42 => out = Arriving({<<"branch", 0, taken>>})
      /\ o \in 50..61 => out = Arriving({<<"false", 0, next>>, <<"branch", 0, taken>>})
      /\ o \in {43, 44} => out = Arriving({<<"default", 0, next>>} \cup cases)
      /\ o \notin (14..17) \cup {39} \cup (40..42) \cup (50..61) \cup {43, 44} =>
           out = Arriving({<<"fall", 0, next>>})
  <2>1. LeadersOf(u, s, L) /\ SplitLike(u, s, L, bs) /\ x.op \in U1 /\ x.payload \in Int
    BY <1>4
  <2> HIDE DEF u, x
  <2>2. EdgesOf(x.op, Out(LastInsnEdges(u, bs, b, x), F), Into(bs, F, bs[b].end), Into(bs, F, x.target),
                ReadInto(bs, F, x, PayloadOf(u, x)))
    BY <1>1, <2>1, LastLeads
  <2> QED BY <2>2 DEF EdgesOf
<1>9. o \in 40..42 \/ o \in 50..61 => taken = LandAt(s, to)
  <2> SUFFICES ASSUME o \in 40..42 \/ o \in 50..61 PROVE taken = LandAt(s, to)
    OBVIOUS
  <2>1. IsBranchOpcode(o) /\ ~(IsSwitch(o) \/ o = FillArrayData)
    <3> HIDE DEF o
    <3> QED BY <1>4 DEF IsBranchOpcode, IsUnconditionalBranch, IsConditionalBranch, IsSwitch, FillArrayData
  <2>2. to \in Nat /\ x.target = to
    BY <1>6, <2>1
  <2>3. x.target \in L
    <3>1. x.target # NoTarget
      <4> HIDE DEF to, x
      <4> QED BY <2>2 DEF NoTarget
    <3> QED BY <1>7, <3>1
  <2>4. taken = Landing(s, x.target)
    BY <1>1, <2>3, IntoLands
  <2>5. ~(to < 0)
    <3> HIDE DEF to
    <3> QED BY <2>2
  <2> QED BY <2>2, <2>4, <2>5 DEF LandAt
<1>10. o \in {43, 44} => cases = LandedCases(u, s, x)
  <2> SUFFICES ASSUME o \in {43, 44} PROVE cases = LandedCases(u, s, x)
    OBVIOUS
  <2>1. IsSwitch(o) /\ IsBranchOpcode(o)
    <3> HIDE DEF o
    <3> QED BY DEF IsSwitch, IsBranchOpcode
  <2>2. x.payload \in Nat /\ x.payload < Len(u)
    BY <1>6, <2>1
  <2>3. CasesKept(u, x)
    BY <2>1
  <2> HIDE DEF x, u
  <2>4. Len(u) <= MaxUnits /\ LeadersOf(u, s, L) /\ SplitLike(u, s, L, bs)
    BY DEF u
  <2>5. x.off \in Nat
    BY <1>3
  <2> QED BY <1>1, <1>3, <1>7, <2>2, <2>3, <2>4, <2>5, CasesLand
<1> DEFINE all == Leads(u, s, x)
           ln == LandAt(s, p + x.len)
           lt == LandAt(s, to)
           lc == LandedCases(u, s, x)
<1>11. all = CASE o \in (14..17) \cup {39} -> {}
               [] o \in 40..42 -> {<<"branch", 0, lt>>}
               [] o \in 50..61 -> {<<"false", 0, ln>>, <<"branch", 0, lt>>}
               [] o \in {43, 44} -> {<<"default", 0, ln>>} \cup lc
               [] OTHER -> {<<"fall", 0, ln>>}
  BY DEF Leads
<1>12. Arriving({}) = {}
  BY DEF Arriving
<1>13. next = ln /\ (o \in 40..42 \/ o \in 50..61 => taken = lt) /\ (o \in {43, 44} => cases = lc)
  BY <1>5, <1>9, <1>10
<1> HIDE DEF out, all, ln, lt, lc, next, taken, cases, o
<1>14. CASE o \in (14..17) \cup {39}
  <2>1. o \notin 40..42 /\ o \notin 50..61 /\ o \notin {43, 44}
    <3>1. \A y \in (14..17) \cup {39} : y \notin 40..42 /\ y \notin 50..61 /\ y \notin {43, 44}
      OBVIOUS
    <3> QED BY <1>14, <3>1
  <2>2. all = {}
    BY <1>11, <1>14, <2>1
  <2> QED BY <1>8, <1>12, <1>14, <2>2 DEF out, all
<1>15. CASE o \in 40..42
  <2>1. o \notin (14..17) \cup {39} /\ o \notin 50..61 /\ o \notin {43, 44}
    <3>1. \A y \in 40..42 : y \notin (14..17) \cup {39} /\ y \notin 50..61 /\ y \notin {43, 44}
      OBVIOUS
    <3> QED BY <1>15, <3>1
  <2>2. all = {<<"branch", 0, lt>>}
    BY <1>11, <1>15, <2>1
  <2> QED BY <1>8, <1>13, <1>15, <2>2 DEF out, all
<1>16. CASE o \in 50..61
  <2>1. o \notin (14..17) \cup {39} /\ o \notin 40..42 /\ o \notin {43, 44}
    <3>1. \A y \in 50..61 : y \notin (14..17) \cup {39} /\ y \notin 40..42 /\ y \notin {43, 44}
      OBVIOUS
    <3> QED BY <1>16, <3>1
  <2>2. all = {<<"false", 0, ln>>, <<"branch", 0, lt>>}
    BY <1>11, <1>16, <2>1
  <2> QED BY <1>8, <1>13, <1>16, <2>2 DEF out, all
<1>17. CASE o \in {43, 44}
  <2>1. o \notin (14..17) \cup {39} /\ o \notin 40..42 /\ o \notin 50..61
    BY <1>17
  <2>2. all = {<<"default", 0, ln>>} \cup lc
    BY <1>11, <1>17, <2>1
  <2> QED BY <1>8, <1>13, <1>17, <2>2 DEF out, all
<1>18. CASE o \notin (14..17) \cup {39} \cup (40..42) \cup (50..61) \cup {43, 44}
  <2>1. o \notin (14..17) \cup {39} /\ o \notin 40..42 /\ o \notin 50..61 /\ o \notin {43, 44}
    BY <1>18
  <2>2. all = {<<"fall", 0, ln>>}
    BY <1>11, <2>1
  <2> QED BY <1>8, <1>13, <1>18, <2>2 DEF out, all
<1> QED BY <1>14, <1>15, <1>16, <1>17, <1>18 DEF out, all

-----------------------------------------------------------------------------
(* The gate's verdict. *)

\* The unsigned fields of an instruction.
LEMMA FieldTypes ==
    ASSUME NEW u \in Seq(U2), NEW p \in Int
    PROVE  /\ InstA(Unit(u, p)) \in Nat /\ InstB(Unit(u, p)) \in Nat /\ InstAA(Unit(u, p)) \in Nat
           /\ Unit(u, p) \in Nat /\ Unit(u, p + 1) \in Nat /\ Unit(u, p + 2) \in Nat
<1> DEFINE w == Unit(u, p)
<1>1. w \in Nat /\ Unit(u, p + 1) \in Nat /\ Unit(u, p + 2) \in Nat
  BY UnitType
<1> HIDE DEF w
<1>2. w \div 256 \in Nat /\ w \div 4096 \in Nat
  BY <1>1
<1>3. (w \div 256) % 16 \in Nat
  BY <1>2
<1>4. InstA(w) \in Nat /\ InstB(w) \in Nat /\ InstAA(w) \in Nat
  BY <1>2, <1>3 DEF InstA, InstB, InstAA
<1> QED BY <1>1, <1>4 DEF w

\* A register operand is a register's number, whatever its width.
LEMMA RegisterFields ==
    ASSUME NEW u \in Seq(U2), NEW p \in Int, NEW d, d = DecodeInstruction(u, p),
           NEW f, f = GetFormatFromOpcode(d.op)
    PROVE  /\ f = GetFormatFromOpcode(OpcodeFromBytecode(Unit(u, p)))
           /\ f \in RegAFormats => d.A \in Nat
           /\ f \in RegBFormats => d.B \in Nat
           /\ f = "23x" => d.C \in Nat
           /\ f \in RangeFormats => d.A = InstAA(Unit(u, p)) /\ d.C = Unit(u, p + 2)
<1> DEFINE w == Unit(u, p)
           w1 == Unit(u, p + 1)
           w2 == Unit(u, p + 2)
           op == OpcodeFromBytecode(w)
           plain(A, B, C) == Decoded(op, A, B, C, <<0, 0, 0, 0, 0>>, FALSE)
<1>1. f = GetFormatFromOpcode(op)
  BY DecodedTypes
<1>2. w \in Nat /\ w1 \in Nat /\ w2 \in Nat
  BY FieldTypes
<1>3. InstA(w) \in Nat /\ InstB(w) \in Nat /\ InstAA(w) \in Nat
  BY FieldTypes
<1>4. w1 % 256 \in Nat /\ w1 \div 256 \in Nat
  BY <1>2
<1>5. d = DecodeOperands(u, p, op, f)
  BY <1>1 DEF DecodeInstruction
<1> HIDE DEF w, w1, w2, op
<1> DEFINE Good == /\ f \in RegAFormats => d.A \in Nat
                   /\ f \in RegBFormats => d.B \in Nat
                   /\ f = "23x" => d.C \in Nat
                   /\ f \in RangeFormats => d.A = InstAA(w) /\ d.C = w2
<1>6. Good
  <2>1. CASE f = "12x"
    <3>1. d = plain(InstA(w), InstB(w), 0)
      BY <1>5, <2>1 DEF DecodeOperands, w, w1, w2
    <3> QED BY <1>2, <1>3, <1>4, <2>1, <3>1 DEF Decoded, RegAFormats, RegBFormats, RangeFormats
  <2>2. CASE f = "11n"
    <3>1. d = plain(InstA(w), Signed(InstB(w), 4), 0)
      BY <1>5, <2>2 DEF DecodeOperands, w, w1, w2
    <3> QED BY <1>2, <1>3, <1>4, <2>2, <3>1 DEF Decoded, RegAFormats, RegBFormats, RangeFormats
  <2>3. CASE f \in {"11x", "51l"}
    <3>1. d = plain(InstAA(w), 0, 0)
      BY <1>5, <2>3 DEF DecodeOperands, w, w1, w2
    <3> QED BY <1>2, <1>3, <1>4, <2>3, <3>1 DEF Decoded, RegAFormats, RegBFormats, RangeFormats
  <2>4. CASE f \in {"21c", "22x", "21h"}
    <3>1. d = plain(InstAA(w), w1, 0)
      BY <1>5, <2>4 DEF DecodeOperands, w, w1, w2
    <3> QED BY <1>2, <1>3, <1>4, <2>4, <3>1 DEF Decoded, RegAFormats, RegBFormats, RangeFormats
  <2>5. CASE f \in {"21s", "21t"}
    <3>1. d = plain(InstAA(w), Signed(w1, 16), 0)
      BY <1>5, <2>5 DEF DecodeOperands, w, w1, w2
    <3> QED BY <1>2, <1>3, <1>4, <2>5, <3>1 DEF Decoded, RegAFormats, RegBFormats, RangeFormats
  <2>6. CASE f = "23x"
    <3>1. d = plain(InstAA(w), w1 % 256, w1 \div 256)
      BY <1>5, <2>6 DEF DecodeOperands, w, w1, w2
    <3> QED BY <1>2, <1>3, <1>4, <2>6, <3>1 DEF Decoded, RegAFormats, RegBFormats, RangeFormats
  <2>7. CASE f = "22b"
    <3>1. d = plain(InstAA(w), w1 % 256, Signed(w1 \div 256, 8))
      BY <1>5, <2>7 DEF DecodeOperands, w, w1, w2
    <3> QED BY <1>2, <1>3, <1>4, <2>7, <3>1 DEF Decoded, RegAFormats, RegBFormats, RangeFormats
  <2>8. CASE f \in {"22s", "22t"}
    <3>1. d = plain(InstA(w), InstB(w), Signed(w1, 16))
      BY <1>5, <2>8 DEF DecodeOperands, w, w1, w2
    <3> QED BY <1>2, <1>3, <1>4, <2>8, <3>1 DEF Decoded, RegAFormats, RegBFormats, RangeFormats
  <2>9. CASE f = "22c"
    <3>1. d = plain(InstA(w), InstB(w), w1)
      BY <1>5, <2>9 DEF DecodeOperands, w, w1, w2
    <3> QED BY <1>2, <1>3, <1>4, <2>9, <3>1 DEF Decoded, RegAFormats, RegBFormats, RangeFormats
  <2>10. CASE f \in {"31t", "31c", "31i"}
    <3>1. d = plain(InstAA(w), S4At(u, p + 1), 0)
      BY <1>5, <2>10 DEF DecodeOperands, w, w1, w2
    <3> QED BY <1>2, <1>3, <1>4, <2>10, <3>1 DEF Decoded, RegAFormats, RegBFormats, RangeFormats
  <2>11. CASE f = "32x"
    <3>1. d = plain(w1, w2, 0)
      BY <1>5, <2>11 DEF DecodeOperands, w, w1, w2
    <3> QED BY <1>2, <1>3, <1>4, <2>11, <3>1 DEF Decoded, RegAFormats, RegBFormats, RangeFormats
  <2>12. CASE f = "3rc"
    <3>1. d = plain(InstAA(w), w1, w2)
      BY <1>5, <2>12 DEF DecodeOperands, w, w1, w2
    <3> QED BY <1>2, <1>3, <1>4, <2>12, <3>1 DEF Decoded, RegAFormats, RegBFormats, RangeFormats
  <2>13. CASE f = "4rcc"
    <3>1. d = Decoded(op, InstAA(w), w1, w2, <<0, 0, 0, 0, Unit(u, p + 3)>>, FALSE)
      BY <1>5, <2>13 DEF DecodeOperands, w, w1, w2
    <3> QED BY <2>13, <3>1 DEF Decoded, RegAFormats, RegBFormats, RangeFormats
  <2>14. CASE f \notin RegAFormats \cup RangeFormats
    BY <2>14 DEF RegAFormats, RegBFormats, RangeFormats
  <2> HIDE DEF Good
  <2> QED BY <2>1, <2>2, <2>3, <2>4, <2>5, <2>6, <2>7, <2>8, <2>9, <2>10, <2>11, <2>12,
             <2>13, <2>14 DEF RegAFormats, RangeFormats
<1> QED BY <1>1, <1>6 DEF w, w2, op

\* A nibble is a number.
LEMMA NibbleType ==
    ASSUME NEW v \in Nat
    PROVE  Nibble(v, 0) \in Nat /\ Nibble(v, 1) \in Nat /\ Nibble(v, 2) \in Nat /\ Nibble(v, 3) \in Nat
<1>1. v \div (16^0) \in Nat /\ v \div (16^1) \in Nat /\ v \div (16^2) \in Nat /\ v \div (16^3) \in Nat
  OBVIOUS
<1>2. \A x \in Int : x % 16 \in Nat
  OBVIOUS
<1> QED BY <1>1, <1>2 DEF Nibble

\* The nibbles that name an invoke's registers.
ArgumentList(u, p) ==
    <<Nibble(Unit(u, p + 2), 0), Nibble(Unit(u, p + 2), 1), Nibble(Unit(u, p + 2), 2),
      Nibble(Unit(u, p + 2), 3), InstA(Unit(u, p))>>
LEMMA ArgumentTypes ==
    ASSUME NEW u \in Seq(U2), NEW p \in Int, NEW k \in 1..5
    PROVE  ArgumentList(u, p)[k] \in Nat
<1> DEFINE v == Unit(u, p + 2)
<1>1. v \in Nat /\ InstA(Unit(u, p)) \in Nat
  BY FieldTypes
<1> HIDE DEF v
<1>2. Nibble(v, 0) \in Nat /\ Nibble(v, 1) \in Nat /\ Nibble(v, 2) \in Nat /\ Nibble(v, 3) \in Nat
  BY <1>1, NibbleType
<1> QED BY <1>1, <1>2 DEF ArgumentList, v

\* The gate finds them where the decoder put them: a 45cc keeps its first in vC.
ArgRegs(d) == IF GetFormatFromOpcode(d.op) = "45cc" THEN <<d.C>> \o SubSeq(d.arg, 1, 4) ELSE d.arg
LEMMA Arguments ==
    ASSUME NEW u \in Seq(U2), NEW p \in Int, NEW d, d = DecodeInstruction(u, p),
           GetFormatFromOpcode(d.op) \in VarArgFormats
    PROVE  /\ d.A = InstB(Unit(u, p))
           /\ \A k \in 1..5 : k <= d.A => ArgRegs(d)[k] = ArgumentList(u, p)[k]
<1> DEFINE f == GetFormatFromOpcode(d.op)
           regs == ArgRegs(d)
           w == Unit(u, p)
           w2 == Unit(u, p + 2)
           op == OpcodeFromBytecode(w)
<1>1. f = GetFormatFromOpcode(op) /\ d = DecodeOperands(u, p, op, f)
  <2>1. f = GetFormatFromOpcode(op)
    BY DecodedTypes
  <2> QED BY <2>1 DEF DecodeInstruction
<1> HIDE DEF op
<1>2. CASE f = "35c"
  <2> DEFINE list == ArgumentList(u, p)
             arg == [k \in 1..5 |-> IF k <= InstB(w) THEN list[k] ELSE 0]
  <2>1. d = Decoded(op, InstB(w), Unit(u, p + 1), arg[1], arg, InstB(w) > 5)
    BY <1>1, <1>2 DEF DecodeOperands, ArgumentList
  <2> HIDE DEF arg
  <2>2. d.A = InstB(w) /\ d.arg = arg
    BY <2>1 DEF Decoded
  <2>3. regs = arg
    BY <1>2, <2>2 DEF ArgRegs
  <2> HIDE DEF list, w
  <2> QED BY <2>2, <2>3 DEF arg, list, w
<1>3. CASE f = "45cc"
  <2> DEFINE n(k) == Nibble(w2, k)
             arg == <<n(1), n(2), n(3), InstA(w), Unit(u, p + 3)>>
  <2>1. d = Decoded(op, InstB(w), Unit(u, p + 1), n(0), arg, FALSE)
    BY <1>1, <1>3 DEF DecodeOperands
  <2> HIDE DEF arg, n
  <2>2. d.A = InstB(w) /\ d.arg = arg /\ d.C = n(0)
    BY <2>1 DEF Decoded
  <2>3. regs = <<n(0)>> \o SubSeq(arg, 1, 4)
    BY <1>3, <2>2 DEF ArgRegs
  <2>4. /\ arg \in Seq({n(1), n(2), n(3), InstA(w), Unit(u, p + 3)}) /\ Len(arg) = 5
        /\ arg[1] = n(1) /\ arg[2] = n(2) /\ arg[3] = n(3) /\ arg[4] = InstA(w)
    BY DEF arg
  <2> DEFINE sub == SubSeq(arg, 1, 4)
  <2>5. /\ sub \in Seq({n(1), n(2), n(3), InstA(w), Unit(u, p + 3)}) /\ Len(sub) = 4
        /\ sub[1] = n(1) /\ sub[2] = n(2) /\ sub[3] = n(3) /\ sub[4] = InstA(w)
    BY <2>4
  <2> HIDE DEF sub
  <2>6. /\ regs[1] = n(0) /\ regs[2] = sub[1] /\ regs[3] = sub[2] /\ regs[4] = sub[3] /\ regs[5] = sub[4]
    BY <2>3, <2>5 DEF sub
  <2>7. \A k \in 1..5 : regs[k] = ArgumentList(u, p)[k]
    BY <2>5, <2>6 DEF ArgumentList, n
  <2> QED BY <2>2, <2>7
<1> QED BY <1>2, <1>3 DEF VarArgFormats

\* The registers one operand field names, two for the lower half of a pair.
FieldRegs(f, F, v, op, W) == IF f \in F THEN {v} \cup {x \in {v + 1} : op \in W} ELSE {}
FieldOk(f, F, v, op, W, n) == f \in F => (IF op \in W THEN v + 1 ELSE v) < n
LEMMA FieldMeans ==
    ASSUME NEW f, NEW F, NEW v, f \in F => v \in Nat, NEW op, NEW W, NEW n \in Nat
    PROVE  FieldRegs(f, F, v, op, W) \subseteq 0..(n - 1) <=> FieldOk(f, F, v, op, W, n)
<1>1. CASE f \notin F
  BY <1>1 DEF FieldRegs, FieldOk
<1>2. CASE f \in F /\ op \in W
  <2>1. FieldRegs(f, F, v, op, W) = {v, v + 1}
    BY <1>2 DEF FieldRegs
  <2>2. v \in Nat
    BY <1>2
  <2>3. {v, v + 1} \subseteq 0..(n - 1) <=> v + 1 < n
    BY <2>2
  <2> QED BY <1>2, <2>1, <2>3 DEF FieldOk
<1>3. CASE f \in F /\ op \notin W
  <2>1. FieldRegs(f, F, v, op, W) = {v}
    BY <1>3 DEF FieldRegs
  <2>2. v \in Nat
    BY <1>3
  <2>3. {v} \subseteq 0..(n - 1) <=> v < n
    BY <2>2
  <2> QED BY <1>3, <2>1, <2>3 DEF FieldOk
<1> QED BY <1>1, <1>2, <1>3

\* The gate's register checks hold just when every register the instruction
\* names is one of the method's.
LEMMA RegistersMean ==
    ASSUME NEW c, c.regs \in Nat, NEW u \in Seq(U2), u = c.units, NEW p \in Int,
           NEW d, d = DecodeInstruction(u, p)
    PROVE  RegistersOk(c, d) /\ VarArgsOk(c, d) <=> RegistersAt(u, p) \subseteq 0..(c.regs - 1)
<1> DEFINE n == c.regs
           w == Unit(u, p)
           f == GetFormatFromOpcode(d.op)
           regs == ArgRegs(d)
<1>1. /\ f \in RegAFormats => d.A \in Nat
      /\ f \in RegBFormats => d.B \in Nat
      /\ f = "23x" => d.C \in Nat
      /\ f \in RangeFormats => d.A = InstAA(w) /\ d.C = Unit(u, p + 2)
  BY RegisterFields
<1>2. InstB(w) \in Nat /\ InstAA(w) \in Nat /\ Unit(u, p + 2) \in Nat
  <2> HIDE DEF regs, n, f
  <2> QED BY FieldTypes
<1>4. CASE f \in VarArgFormats
  <2> DEFINE list == ArgumentList(u, p)
             m == Smaller(InstB(w), 5)
  <2>1. d.A = InstB(w) /\ \A k \in 1..5 : k <= d.A => regs[k] = list[k]
    <3>1. GetFormatFromOpcode(d.op) \in VarArgFormats
      BY <1>4
    <3> QED BY <3>1, Arguments
  <2>2. RegistersAt(u, p) = {list[k] : k \in 1..m}
    <3>1. RegistersAt(u, p) = {ArgumentList(u, p)[k] : k \in 1..Smaller(InstB(Unit(u, p)), 5)}
      <4> DEFINE e == DecodeInstruction(u, p)
                 g == GetFormatFromOpcode(e.op)
                 X == {ArgumentList(u, p)[k] : k \in 1..Smaller(InstB(Unit(u, p)), 5)}
                 Y == Unit(u, p + 2)..(Unit(u, p + 2) + InstAA(Unit(u, p)) - 1)
                 Z == (IF g \in RegAFormats THEN {e.A} \cup {x \in {e.A + 1} : e.op \in WideA} ELSE {})
                      \cup (IF g \in RegBFormats THEN {e.B} \cup {x \in {e.B + 1} : e.op \in WideB} ELSE {})
                      \cup (IF g = "23x" THEN {e.C} \cup {x \in {e.C + 1} : e.op \in WideC} ELSE {})
      <4>1. RegistersAt(u, p) = CASE g \in VarArgFormats -> X [] g \in RangeFormats -> Y [] OTHER -> Z
        BY Zenon DEF RegistersAt, ArgumentList
      <4>2. g \in VarArgFormats /\ g \notin RangeFormats
        <5>1. g = f
          OBVIOUS
        <5> HIDE DEF g
        <5> QED BY <1>4, <5>1 DEF VarArgFormats, RangeFormats
      <4> HIDE DEF X, Y, Z, g
      <4>3. RegistersAt(u, p) = X
        BY <4>1, <4>2
      <4> QED BY <4>3 DEF X
    <3> QED BY <3>1
  <2>3. RegistersOk(c, d)
    BY <1>4 DEF RegistersOk, VarArgFormats, RegAFormats, RegBFormats
  <2>4. VarArgsOk(c, d) <=> \A k \in 1..5 : k <= d.A => regs[k] < n
    BY <1>4 DEF VarArgsOk, VarArgFormats, RangeFormats, check_reg, ArgRegs
  <2>5. \A k \in 1..5 : list[k] \in Nat
    BY ArgumentTypes
  <2>6. \A k \in Int : k \in 1..m <=> k \in 1..5 /\ k <= InstB(w)
    <3> HIDE DEF w
    <3> QED BY <1>2 DEF Smaller
  <2> HIDE DEF m, list, regs
  <2>7. \A k \in 1..5 : k <= InstB(w) => (list[k] < n <=> list[k] \in 0..(n - 1))
    BY <2>5
  <2>8. RegistersAt(u, p) \subseteq 0..(n - 1) <=> \A k \in 1..m : list[k] \in 0..(n - 1)
    <3> HIDE DEF n
    <3> QED BY <2>2
  <2>9. (\A k \in 1..5 : k <= d.A => regs[k] < n) <=> \A k \in 1..m : list[k] \in 0..(n - 1)
    <3> HIDE DEF n, w
    <3>1. \A k \in 1..5 : k <= InstB(w) => (regs[k] < n <=> list[k] \in 0..(n - 1))
      BY <2>1, <2>7
    <3>2. d.A = InstB(w) /\ \A k \in 1..m : k \in 1..5 /\ k <= InstB(w)
      BY <2>1, <2>6
    <3>3. \A k \in 1..5 : k <= InstB(w) => k \in 1..m
      BY <2>6
    <3> HIDE DEF f
    <3> QED BY <3>1, <3>2, <3>3
  <2> HIDE DEF f, w
  <2> QED BY <2>3, <2>4, <2>8, <2>9
<1>5. CASE f \in RangeFormats
  <2> DEFINE a == Unit(u, p + 2)
             k == InstAA(w)
  <2>1. RegistersAt(u, p) = a..(a + k - 1)
    <3>1. f \notin VarArgFormats
      BY <1>5 DEF VarArgFormats, RangeFormats
    <3> QED BY <1>5, <3>1 DEF RegistersAt
  <2>2. RegistersOk(c, d)
    BY <1>5 DEF RegistersOk, RangeFormats, RegAFormats, RegBFormats
  <2>3. VarArgsOk(c, d) <=> d.A = 0 \/ d.C + d.A - 1 < n
    BY <1>5 DEF VarArgsOk, VarArgFormats, RangeFormats
  <2>4. d.A = k /\ d.C = a /\ a \in Nat /\ k \in Nat
    BY <1>1, <1>2, <1>5
  <2> HIDE DEF a, k, f, w
  <2>5. a..(a + k - 1) \subseteq 0..(n - 1) <=> k = 0 \/ a + k - 1 < n
    <3>1. CASE k = 0
      BY <2>4, <3>1
    <3>2. CASE k # 0
      <4>1. a + k - 1 \in a..(a + k - 1) /\ a + k - 1 \in Nat
        BY <2>4, <3>2
      <4> QED BY <2>4, <3>2, <4>1
    <3> QED BY <3>1, <3>2
  <2> QED BY <2>1, <2>2, <2>3, <2>4, <2>5
<1>6. CASE f \notin VarArgFormats /\ f \notin RangeFormats
  <2> DEFINE op == d.op
             C23 == {"23x"}
  <2>1. RegistersAt(u, p) = FieldRegs(f, RegAFormats, d.A, op, WideA) \cup FieldRegs(f, RegBFormats, d.B, op, WideB)
                            \cup FieldRegs(f, C23, d.C, op, WideC)
    <3>1. RegistersAt(u, p) =
            (IF f \in RegAFormats THEN {d.A} \cup {x \in {d.A + 1} : d.op \in WideA} ELSE {})
            \cup (IF f \in RegBFormats THEN {d.B} \cup {x \in {d.B + 1} : d.op \in WideB} ELSE {})
            \cup (IF f = "23x" THEN {d.C} \cup {x \in {d.C + 1} : d.op \in WideC} ELSE {})
      BY <1>6 DEF RegistersAt
    <3>2. f \in C23 <=> f = "23x"
      OBVIOUS
    <3> HIDE DEF f, C23
    <3> QED BY <3>1, <3>2 DEF FieldRegs
  <2>2. RegistersOk(c, d) <=> /\ FieldOk(f, RegAFormats, d.A, op, WideA, n)
                              /\ FieldOk(f, RegBFormats, d.B, op, WideB, n)
                              /\ FieldOk(f, C23, d.C, op, WideC, n)
    BY DEF RegistersOk, check_reg, FieldOk
  <2>3. VarArgsOk(c, d)
    BY <1>6 DEF VarArgsOk
  <2>4. f \in C23 => d.C \in Nat
    BY <1>1
  <2> HIDE DEF f, op, C23, n
  <2>5. n \in Nat
    BY DEF n
  <2>6. /\ FieldRegs(f, RegAFormats, d.A, op, WideA) \subseteq 0..(n - 1) <=> FieldOk(f, RegAFormats, d.A, op, WideA, n)
        /\ FieldRegs(f, RegBFormats, d.B, op, WideB) \subseteq 0..(n - 1) <=> FieldOk(f, RegBFormats, d.B, op, WideB, n)
        /\ FieldRegs(f, C23, d.C, op, WideC) \subseteq 0..(n - 1) <=> FieldOk(f, C23, d.C, op, WideC, n)
    BY <1>1, <2>4, <2>5, FieldMeans
  <2>7. \A X, Y, Z, W : (X \cup Y \cup Z) \subseteq W <=> X \subseteq W /\ Y \subseteq W /\ Z \subseteq W
    OBVIOUS
  <2> QED BY <2>1, <2>2, <2>3, <2>6, <2>7 DEF n
<1> QED BY <1>4, <1>5, <1>6

\* One instruction: what the gate checks is what makes it legal.
LegalAt(c, p) ==
    LET d == DecodeInstruction(c.units, p)
    IN  /\ p + header_units(Unit(c.units, p)) <= Len(c.units)
        /\ p + GetWidthFromBytecode(c.units, p) <= Len(c.units)
        /\ ~IsPayloadMarker(Unit(c.units, p)) =>
             /\ ~d.bad
             /\ RegistersAt(c.units, p) \subseteq 0..(c.regs - 1)
             /\ IndexOk(c, d)
             /\ TargetOk(c, p, d)
LEMMA InsnMeans ==
    ASSUME NEW c, c.units \in Seq(U2), c.regs \in Nat, NEW p \in Nat
    PROVE  InsnFits(c.units, p) /\ InsnOk(c, p) <=> LegalAt(c, p)
<1> DEFINE u == c.units
           d == DecodeInstruction(u, p)
           h == header_units(Unit(u, p))
           v == GetWidthFromBytecode(u, p)
<1>1. v \in Nat /\ v >= 1 /\ h \in Nat /\ Len(u) \in Nat
  <2>1. h \in Nat
    BY DEF header_units
  <2> QED BY <2>1, WidthPositive
<1>2. InsnFits(u, p) <=> p + h <= Len(u) /\ p + v <= Len(u)
  <2>1. InsnFits(u, p) <=> Len(u) - p >= h /\ v # 0 /\ Len(u) - p >= v
    BY DEF InsnFits
  <2> HIDE DEF h, v
  <2> QED BY <1>1, <2>1
<1>3. RegistersOk(c, d) /\ VarArgsOk(c, d) <=> RegistersAt(u, p) \subseteq 0..(c.regs - 1)
  <2> HIDE DEF d
  <2> QED BY RegistersMean DEF d
<1>4. InsnOk(c, p) <=> \/ IsPayloadMarker(Unit(u, p))
                       \/ ~d.bad /\ RegistersOk(c, d) /\ VarArgsOk(c, d) /\ IndexOk(c, d) /\ TargetOk(c, p, d)
  BY DEF InsnOk
<1>5. LegalAt(c, p) <=>
        /\ p + h <= Len(u) /\ p + v <= Len(u)
        /\ ~IsPayloadMarker(Unit(u, p)) =>
             ~d.bad /\ RegistersAt(u, p) \subseteq 0..(c.regs - 1) /\ IndexOk(c, d) /\ TargetOk(c, p, d)
  BY DEF LegalAt
<1> HIDE DEF u, d, h, v
<1> QED BY <1>2, <1>3, <1>4, <1>5 DEF u

\* The gate's loop accepts exactly the legal instructions.
LEMMA VerdictOnInsns ==
    ASSUME NEW c, c.units \in Seq(U2), c.regs \in Nat
    PROVE  VerifyInsns(c) <=> LegalInsns(c)
<1>1. VerifyInsns(c) <=> \A p \in Starts(c.units) : InsnFits(c.units, p) /\ InsnOk(c, p)
  BY VerifyMeans
<1>2. \A p \in Starts(c.units) : InsnFits(c.units, p) /\ InsnOk(c, p) <=> LegalAt(c, p)
  <2> SUFFICES ASSUME NEW p \in Starts(c.units) PROVE InsnFits(c.units, p) /\ InsnOk(c, p) <=> LegalAt(c, p)
    OBVIOUS
  <2>1. p \in Nat
    BY StartsInside
  <2> QED BY <2>1, InsnMeans
<1>3. LegalInsns(c) <=> \A p \in Starts(c.units) : LegalAt(c, p)
  BY DEF LegalInsns, LegalAt
<1> QED BY <1>1, <1>2, <1>3

-----------------------------------------------------------------------------
(* Handlers. *)

\* Choosing every entry of a list leaves the list.
LEMMA ChosenAll ==
    ASSUME NEW V, NEW s \in Seq(V)
    PROVE  Chosen(s, DOMAIN s) = s
<1> DEFINE n == Len(s)
           K == 1..n
<1>1. n \in Nat /\ DOMAIN s = K
  OBVIOUS
<1>2. IsFiniteSet(K) /\ Cardinality(K) = n
  BY <1>1, FS_Interval
<1>3. ASSUME NEW x \in K PROVE Cardinality({y \in K : y < x}) = x - 1
  <2>1. {y \in K : y < x} = 1..(x - 1)
    BY <1>1
  <2>2. x - 1 \in Nat
    BY <1>1
  <2>3. Cardinality(1..(x - 1)) = x - 1
    <3> HIDE DEF K
    <3>1. 1 \in Int /\ x - 1 \in Int
      BY <2>2
    <3>2. Cardinality(1..(x - 1)) = IF 1 > x - 1 THEN 0 ELSE (x - 1) - 1 + 1
      BY <3>1, FS_Interval
    <3> QED BY <2>2, <3>2
  <2> QED BY <2>1, <2>3
<1>4. Asc(K) = [i \in 1..n |-> CHOOSE x \in K : Cardinality({y \in K : y < x}) = i - 1]
  BY <1>2 DEF Asc
<1>5. ASSUME NEW i \in 1..n PROVE Asc(K)[i] = i
  <2>1. Asc(K)[i] = CHOOSE x \in K : Cardinality({y \in K : y < x}) = i - 1
    BY <1>4
  <2>2. Cardinality({y \in K : y < i}) = i - 1
    BY <1>3
  <2>3. \A x \in K : Cardinality({y \in K : y < x}) = i - 1 => x = i
    <3> SUFFICES ASSUME NEW x \in K, Cardinality({y \in K : y < x}) = i - 1 PROVE x = i
      OBVIOUS
    <3>1. x - 1 = i - 1
      BY <1>3
    <3> QED BY <1>1, <3>1
  <2> DEFINE P(x) == Cardinality({y \in K : y < x}) = i - 1
  <2>4. i \in K /\ P(i) /\ \A x \in K : P(x) => x = i
    BY <2>2, <2>3
  <2>5. (CHOOSE x \in K : P(x)) = i
    <3> HIDE DEF P, K
    <3> QED BY <2>4
  <2> QED BY <2>1, <2>5
<1>6. Chosen(s, K) = [i \in DOMAIN Asc(K) |-> s[Asc(K)[i]]]
  BY DEF Chosen
<1>7. DOMAIN Asc(K) = 1..n
  BY <1>4
<1> HIDE DEF n
<1>8. Chosen(s, K) = [i \in 1..n |-> s[i]]
  <2> HIDE DEF K
  <2> QED BY <1>5, <1>6, <1>7
<1>9. s = [i \in 1..n |-> s[i]]
  BY <1>1
<1> QED BY <1>1, <1>8, <1>9

\* The chosen entries keep their order.
LEMMA ChosenOrder ==
    ASSUME NEW V, NEW s \in Seq(V), NEW K \in SUBSET (DOMAIN s)
    PROVE  \A i, j \in DOMAIN Chosen(s, K) : i < j =>
             \E k, l \in K : k < l /\ Chosen(s, K)[i] = s[k] /\ Chosen(s, K)[j] = s[l]
<1>1. IsFiniteSet(K) /\ K \in SUBSET Int
  <2>1. DOMAIN s = 1..Len(s) /\ Len(s) \in Nat
    OBVIOUS
  <2>2. IsFiniteSet(1..Len(s))
    BY <2>1, FS_Interval
  <2> QED BY <2>1, <2>2, FS_Subset
<1> DEFINE at == Asc(K)
           c == Cardinality(K)
<1>2. /\ c \in Nat /\ at \in [1..c -> K]
      /\ \A i, j \in 1..c : i < j => at[i] < at[j]
  BY <1>1, AscOrder
<1>3. Chosen(s, K) = [i \in 1..c |-> s[at[i]]]
  BY <1>2 DEF Chosen
<1> HIDE DEF at, c
<1> SUFFICES ASSUME NEW i \in 1..c, NEW j \in 1..c, i < j
             PROVE  \E k, l \in K : k < l /\ Chosen(s, K)[i] = s[k] /\ Chosen(s, K)[j] = s[l]
  BY <1>3
<1>4. at[i] \in K /\ at[j] \in K /\ at[i] < at[j] /\ Chosen(s, K)[i] = s[at[i]] /\ Chosen(s, K)[j] = s[at[j]]
  BY <1>2, <1>3
<1> QED BY <1>4

\* The ranges the gate accepts lie one after another.
LEMMA RangesAscend ==
    ASSUME NEW c, c.tries \in Seq(TryItems), NEW offsets, TriesOk(c, offsets)
    PROVE  \A t, d \in 1..Len(c.tries) : t < d => c.tries[t].start + c.tries[t].count <= c.tries[d].start
<1> DEFINE n == Len(c.tries)
           s(t) == c.tries[t].start
           e(t) == c.tries[t].start + c.tries[t].count
<1>1. n \in Nat /\ \A t \in 1..n : s(t) \in Nat /\ e(t) \in Nat /\ s(t) <= e(t)
  <2>1. \A t \in 1..n : c.tries[t] \in TryItems
    OBVIOUS
  <2>2. \A x \in TryItems : x.start \in Nat /\ x.count \in Nat
    BY DEF TryItems
  <2>3. \A t \in 1..n : c.tries[t].start \in Nat /\ c.tries[t].count \in Nat
    BY <2>1, <2>2
  <2> QED BY <2>3
<1>2. \A t \in 1..n : t # 1 => e(t - 1) <= s(t)
  <2> SUFFICES ASSUME NEW t \in 1..n, t # 1 PROVE e(t - 1) <= s(t)
    OBVIOUS
  <2>1. s(t) >= e(t - 1)
    BY DEF TriesOk
  <2>2. t - 1 \in 1..n
    BY <1>1
  <2>3. s(t) \in Nat /\ e(t - 1) \in Nat
    BY <1>1, <2>2
  <2> HIDE DEF s, e
  <2> QED BY <2>1, <2>3
<1> HIDE DEF s, e, n
<1> SUFFICES ASSUME NEW t \in 1..n PROVE \A d \in 1..n : t < d => e(t) <= s(d)
  BY DEF s, e, n
<1> DEFINE T == {d \in 1..n : t < d /\ ~(e(t) <= s(d))}
<1>3. SUFFICES ASSUME T # {} PROVE FALSE
  OBVIOUS
<1>4. PICK d \in T : \A x \in T : d <= x
  <2>1. T \in SUBSET Nat
    BY <1>1
  <2> HIDE DEF T
  <2> QED BY <1>3, <2>1, Least
<1>5. d \in 1..n /\ t < d /\ ~(e(t) <= s(d)) /\ d - 1 \in 1..n /\ d # 1 /\ ~(d <= d - 1)
  BY <1>1
<1>6. e(d - 1) <= s(d)
  BY <1>2, <1>5
<1>7. CASE d - 1 = t
  BY <1>5, <1>6, <1>7
<1>8. CASE d - 1 # t
  <2>1. t < d - 1
    BY <1>1, <1>5, <1>8
  <2>2. d - 1 \notin T
    <3> HIDE DEF T
    <3> QED BY <1>4, <1>5
  <2>3. e(t) <= s(d - 1)
    BY <1>5, <2>1, <2>2
  <2> HIDE DEF T
  <2>4. e(t) \in Nat /\ s(d - 1) \in Nat /\ e(d - 1) \in Nat /\ s(d) \in Nat /\ s(d - 1) <= e(d - 1)
    BY <1>1, <1>5
  <2> QED BY <1>5, <1>6, <2>3, <2>4
<1> QED BY <1>7, <1>8

\* So do the ranges the builder keeps of them.
LEMMA ParsedAscend ==
    ASSUME NEW c, c.tries \in Seq(TryItems), NEW offsets, TriesOk(c, offsets)
    PROVE  LET ts == ParseExceptions(c)
           IN  \A t, d \in DOMAIN ts : t < d => ts[t].end <= ts[d].start
<1> DEFINE ts == ParseExceptions(c)
           K == {t \in DOMAIN c.tries : c.tries[t].off < Len(c.bytes)}
           known == Chosen(c.tries, K)
<1>1. \A i, j \in DOMAIN known : i < j =>
         \E k, l \in K : k < l /\ known[i] = c.tries[k] /\ known[j] = c.tries[l]
  <2>1. K \in SUBSET (DOMAIN c.tries)
    OBVIOUS
  <2> HIDE DEF K
  <2> QED BY <2>1, ChosenOrder
<1>2. /\ DOMAIN ts = DOMAIN known
      /\ \A t \in DOMAIN known : ts[t].start = known[t].start /\ ts[t].end = known[t].start + known[t].count
  BY DEF ParseExceptions
<1>3. \A k \in K : k \in 1..Len(c.tries)
  OBVIOUS
<1>4. \A k, l \in 1..Len(c.tries) : k < l => c.tries[k].start + c.tries[k].count <= c.tries[l].start
  BY RangesAscend
<1> HIDE DEF ts, known, K
<1>5. ASSUME NEW t \in DOMAIN ts, NEW d \in DOMAIN ts, t < d PROVE ts[t].end <= ts[d].start
  <2>1. PICK k \in K, l \in K : k < l /\ known[t] = c.tries[k] /\ known[d] = c.tries[l]
    BY <1>1, <1>2, <1>5
  <2>2. c.tries[k].start + c.tries[k].count <= c.tries[l].start
    BY <1>3, <1>4, <2>1
  <2> QED BY <1>2, <2>1, <2>2
<1> QED BY <1>5 DEF ts

\* What a range gives a block: its handlers when it covers the block's start.
OwnHandlers(bs, x, r) == IF r.start <= x /\ x < r.end THEN HandlersAt(bs, r) ELSE <<>>

\* The handlers of a list of ranges, one range after another.
Gathered(bs, b, ts, V) ==
    \E f : /\ HandlersFrom(bs, b, ts) = f[1]
          /\ \A t \in 1..(Len(ts) + 1) :
               /\ f[t] \in V
               /\ f[t] = IF t > Len(ts) THEN <<>>
                         ELSE OwnHandlers(bs, bs[b].start, ts[t]) \o f[t + 1]
LEMMA HandlersFromSolves ==
    ASSUME NEW bs, NEW b, NEW ts, Len(ts) \in Nat, NEW V, <<>> \in V, \A v, w \in V : v \o w \in V,
           \A t \in 1..Len(ts) : OwnHandlers(bs, bs[b].start, ts[t]) \in V
    PROVE  Gathered(bs, b, ts, V)
<1> DEFINE n == Len(ts)
           own(t) == OwnHandlers(bs, bs[b].start, ts[t])
           S == 1..(n + 1)
           m == [t \in S |-> (n + 1) - t]
           stop == {n + 1}
           nx == [t \in S |-> IF t = n + 1 THEN t ELSE t + 1]
           base == [t \in S |-> <<>>]
           G == [t \in S |-> [v \in V |-> IF t = n + 1 THEN <<>> ELSE own(t) \o v]]
           Body(f, t) == IF t > Len(ts) THEN <<>> ELSE own(t) \o f[t + 1]
           Is(f) == f = [t \in 1..(Len(ts) + 1) |-> Body(f, t)]
           from == CHOOSE f : Is(f)
<1>1. n \in Nat /\ n + 1 \in S /\ 1 \in S
  OBVIOUS
<1>2. \A t \in 1..n : own(t) \in V
  OBVIOUS
<1> HIDE DEF own
<1>3. Descends(S, V, n + 1, m, stop, nx, base, G)
  <2>1. m \in [S -> 0..(n + 1)] /\ stop \in SUBSET S
    <3> HIDE DEF n
    <3> QED BY <1>1
  <2>2. nx \in [S -> S] /\ \A t \in S \ stop : m[nx[t]] < m[t]
    <3> HIDE DEF n
    <3> QED BY <1>1
  <2>3. base \in [S -> V]
    OBVIOUS
  <2>4. G \in [S -> [V -> V]]
    <3>1. ASSUME NEW t \in S, NEW v \in V PROVE (IF t = n + 1 THEN <<>> ELSE own(t) \o v) \in V
      <4>1. t # n + 1 => t \in 1..n
        <5> HIDE DEF n
        <5> QED BY <1>1
      <4> HIDE DEF n
      <4> QED BY <1>2, <4>1
    <3> HIDE DEF S, n
    <3> QED BY <3>1
  <2> HIDE DEF S, m, stop, nx, base, G, n
  <2>5. n + 1 \in Nat
    BY <1>1
  <2> QED BY <2>1, <2>2, <2>3, <2>4, <2>5 DEF Descends
<1>4. PICK g \in [S -> V] : \A t \in S : g[t] = IF t \in stop THEN base[t] ELSE G[t][g[nx[t]]]
  <2> HIDE DEF S, m, stop, nx, base, G, n
  <2> QED BY <1>3, Recursion DEF Solved
<1>5. ASSUME NEW t \in S PROVE g[t] = Body(g, t)
  <2>1. CASE t = n + 1
    <3>1. g[t] = <<>>
      <4>1. t \in stop /\ base[t] = <<>>
        BY <2>1
      <4> HIDE DEF base, stop, G, nx
      <4> QED BY <1>4, <4>1
    <3>2. t > n
      BY <1>1, <2>1
    <3> QED BY <3>1, <3>2
  <2>2. CASE t # n + 1
    <3>1. t + 1 \in S /\ ~(t > n) /\ t \notin stop /\ nx[t] = t + 1
      <4> HIDE DEF n
      <4> QED BY <1>1, <2>2
    <3>2. g[t] = G[t][g[t + 1]] /\ g[t + 1] \in V
      <4> HIDE DEF G, nx, stop, base, S, n
      <4> QED BY <1>4, <3>1
    <3>3. G[t][g[t + 1]] = own(t) \o g[t + 1]
      <4> HIDE DEF S, n
      <4> QED BY <2>2, <3>2
    <3> QED BY <3>1, <3>2, <3>3
  <2> QED BY <2>1, <2>2
<1>6. Is(g)
  <2> HIDE DEF Body
  <2>1. g = [t \in 1..(Len(ts) + 1) |-> g[t]]
    BY <1>4
  <2>2. [t \in 1..(Len(ts) + 1) |-> g[t]] = [t \in 1..(Len(ts) + 1) |-> Body(g, t)]
    BY <1>5
  <2> QED BY <2>1, <2>2
<1>7. Is(from)
  <2> HIDE DEF Is
  <2> QED BY <1>6
<1>8. HandlersFrom(bs, b, ts) = from[1]
  BY DEF HandlersFrom, OwnHandlers, own
<1>9. \A t \in S : from[t] = Body(from, t)
  <2> HIDE DEF Body, from
  <2> QED BY <1>7
<1>10. \A t \in S : from[t] \in V
  <2> DEFINE T == {t \in S : from[t] \in V}
  <2>1. ASSUME NEW t \in S, \A q \in S : m[q] < m[t] => q \in T PROVE t \in T
    <3>1. CASE t = n + 1
      <4>1. from[t] = <<>>
        <5>1. t > Len(ts)
          BY <1>1, <3>1
        <5> HIDE DEF from
        <5> QED BY <1>9, <5>1
      <4> QED BY <4>1
    <3>2. CASE t # n + 1
      <4>1. t + 1 \in S /\ m[t + 1] < m[t] /\ ~(t > n) /\ t \in 1..n
        <5> HIDE DEF n
        <5> QED BY <1>1, <3>2
      <4>2. from[t + 1] \in V
        <5> HIDE DEF m, from, S
        <5> QED BY <2>1, <4>1
      <4>3. from[t] = own(t) \o from[t + 1]
        <5> HIDE DEF from
        <5> QED BY <1>9, <4>1
      <4> HIDE DEF from
      <4> QED BY <1>2, <4>1, <4>2, <4>3
    <3> QED BY <3>1, <3>2
  <2>2. m \in [S -> Nat] /\ T \in SUBSET S
    <3> HIDE DEF from, n
    <3> QED BY <1>1
  <2>3. T = S
    <3> HIDE DEF T, m, S
    <3>1. Inherits(S, m, T)
      BY <2>1, <2>2 DEF Inherits
    <3> QED BY <3>1, Descent
  <2> HIDE DEF from, S
  <2> QED BY <2>3
<1> HIDE DEF from
<1> QED BY <1>8, <1>9, <1>10 DEF own, Gathered

\* When one range alone covers it, that range's handlers are the block's.
CoveredBy(bs, x, ts, r) ==
    \A t \in 1..Len(ts) : /\ OwnHandlers(bs, x, ts[t]) \in Seq(Int \X Int)
                          /\ t # r => OwnHandlers(bs, x, ts[t]) = <<>>
LEMMA OneRange ==
    ASSUME NEW bs, NEW b, NEW ts, Len(ts) \in Nat, NEW r \in 1..Len(ts), CoveredBy(bs, bs[b].start, ts, r)
    PROVE  HandlersFrom(bs, b, ts) = OwnHandlers(bs, bs[b].start, ts[r])
<1> DEFINE n == Len(ts)
           V == Seq(Int \X Int)
           own(t) == OwnHandlers(bs, bs[b].start, ts[t])
           S == 1..(n + 1)
           m == [t \in S |-> (n + 1) - t]
<1>1. n \in Nat /\ <<>> \in V /\ (\A v, w \in V : v \o w \in V) /\ \A v \in V : v \o <<>> = v /\ <<>> \o v = v
  OBVIOUS
<1>0. /\ \A t \in 1..n : own(t) \in V
      /\ \A t \in 1..n : t # r => own(t) = <<>>
  BY Zenon DEF CoveredBy
<1>2. PICK f : /\ HandlersFrom(bs, b, ts) = f[1]
               /\ \A t \in S : /\ f[t] \in V
                               /\ f[t] = IF t > n THEN <<>> ELSE own(t) \o f[t + 1]
  <2>1. \A t \in 1..Len(ts) : OwnHandlers(bs, bs[b].start, ts[t]) \in V
    BY <1>0
  <2>2. <<>> \in V /\ \A v, w \in V : v \o w \in V
    BY <1>1
  <2> HIDE DEF V
  <2>3. Gathered(bs, b, ts, V)
    BY <2>1, <2>2, HandlersFromSolves
  <2> QED BY <2>3 DEF Gathered
<1>3. own(r) \in V /\ \A t \in 1..n : t # r => own(t) = <<>>
  BY <1>0
<1> DEFINE T == {t \in S : f[t] = IF t <= r THEN own(r) ELSE <<>>}
<1> HIDE DEF own, V
<1>4. ASSUME NEW t \in S, \A q \in S : m[q] < m[t] => q \in T PROVE t \in T
  <2>1. CASE t = n + 1
    <3>1. t > n /\ ~(t <= r)
      BY <1>1, <2>1
    <3>2. f[t] = <<>>
      BY <1>2, <3>1
    <3> QED BY <3>1, <3>2
  <2>2. CASE t # n + 1
    <3>1. t + 1 \in S /\ m[t + 1] < m[t] /\ ~(t > n) /\ t \in 1..n
      <4> HIDE DEF n
      <4> QED BY <1>1, <2>2
    <3>2. f[t + 1] = IF t + 1 <= r THEN own(r) ELSE <<>>
      <4>1. t + 1 \in T
        <5> HIDE DEF T, m, S
        <5> QED BY <1>4, <3>1
      <4> QED BY <4>1
    <3>3. f[t] = own(t) \o f[t + 1]
      <4> HIDE DEF n
      <4> QED BY <1>2, <3>1
    <3>4. t + 1 <= r => t # r /\ t <= r
      BY <3>1
    <3>5. t = r => ~(t + 1 <= r)
      BY <3>1
    <3>6. ~(t + 1 <= r) /\ t # r => ~(t <= r)
      BY <3>1
    <3>7. f[t] = IF t <= r THEN own(r) ELSE <<>>
      <4>1. CASE t + 1 <= r
        BY <1>1, <1>3, <3>1, <3>2, <3>3, <3>4, <4>1
      <4>2. CASE t = r
        <5>1. t <= r
          BY <4>2
        <5> QED BY <1>1, <1>3, <3>2, <3>3, <3>5, <4>2, <5>1
      <4>3. CASE ~(t + 1 <= r) /\ t # r
        <5>1. own(t) = <<>> /\ f[t + 1] = <<>> /\ ~(t <= r)
          BY <1>3, <3>1, <3>2, <3>6, <4>3
        <5> QED BY <1>1, <3>3, <5>1
      <4> QED BY <4>1, <4>2, <4>3
    <3> QED BY <3>7
  <2> QED BY <2>1, <2>2
<1>5. m \in [S -> Nat] /\ T \in SUBSET S
  <2> HIDE DEF n
  <2> QED BY <1>1
<1>6. T = S
  <2> HIDE DEF T, m, S
  <2>1. Inherits(S, m, T)
    BY <1>4, <1>5 DEF Inherits
  <2> QED BY <2>1, Descent
<1>7. 1 \in S /\ 1 <= r
  BY <1>1
<1>8. f[1] = own(r)
  <2>1. 1 \in T
    <3> HIDE DEF T, S
    <3> QED BY <1>6, <1>7
  <2> QED BY <1>7, <2>1
<1> QED BY <1>2, <1>8 DEF own

\* The handlers of the finished blocks are those AttachExceptionHandlers gathered.
LEMMA FinishedHandlers ==
    ASSUME NEW u, NEW s, NEW L, NEW hs, NEW ts
    PROVE  LET connected == ComputeChildEdges(u, s, SplitIntoBlocks(s, L, Len(u)), hs)
               bs == AttachExceptionHandlers(connected, ts)
           IN  /\ DOMAIN bs = DOMAIN connected
               /\ \A b \in DOMAIN bs : bs[b].handlers = HandlersFrom(connected, b, ts)
<1> DEFINE split == SplitIntoBlocks(s, L, Len(u))
           connected == ComputeChildEdges(u, s, split, hs)
           bs == AttachExceptionHandlers(connected, ts)
<1>1. ASSUME NEW b \in DOMAIN split PROVE "handlers" \in DOMAIN split[b]
  <2>1. \E x1, x2, x3, x4, x5 :
           split[b] = [start |-> x1, end |-> x2, first |-> x3, last |-> x4, off |-> x5,
                       childs |-> <<>>, handlers |-> <<>>]
    BY DEF SplitIntoBlocks
  <2> HIDE DEF split
  <2> QED BY <2>1
<1> HIDE DEF split
<1>2. DOMAIN connected = DOMAIN split
      /\ \A b \in DOMAIN split : \E x : connected[b] = [split[b] EXCEPT !.childs = x]
  BY DEF ComputeChildEdges
<1> HIDE DEF connected
<1>3. ASSUME NEW b \in DOMAIN connected PROVE "handlers" \in DOMAIN connected[b]
  <2>1. PICK x : connected[b] = [split[b] EXCEPT !.childs = x]
    BY <1>2
  <2>2. DOMAIN connected[b] = DOMAIN split[b]
    BY <2>1
  <2> QED BY <1>1, <1>2, <2>2
<1>4. DOMAIN bs = DOMAIN connected
      /\ \A b \in DOMAIN connected : bs[b] = [connected[b] EXCEPT !.handlers = HandlersFrom(connected, b, ts)]
  BY DEF AttachExceptionHandlers
<1> HIDE DEF bs
<1>5. ASSUME NEW b \in DOMAIN bs PROVE bs[b].handlers = HandlersFrom(connected, b, ts)
  <2>1. bs[b] = [connected[b] EXCEPT !.handlers = HandlersFrom(connected, b, ts)] /\ "handlers" \in DOMAIN connected[b]
    BY <1>3, <1>4
  <2> QED BY <2>1
<1> QED BY <1>4, <1>5 DEF bs, connected, split

\* Ranges whose handlers all have a block keep every clause, in order.
Kept(bs, hs) == [k \in 1..Len(hs) |-> <<hs[k][1], FindBlockId(bs, hs[k][2])>>]
LEMMA EveryClauseKept ==
    ASSUME NEW bs, NEW r, r.handlers \in Clauses,
           \A k \in 1..Len(r.handlers) : FindBlockId(bs, r.handlers[k][2]) # 0
    PROVE  HandlersAt(bs, r) = Kept(bs, r.handlers)
<1> DEFINE hs == r.handlers
           K == {h \in DOMAIN hs : FindBlockId(bs, hs[h][2]) # 0}
           known == Chosen(hs, K)
<1>1. DOMAIN hs = 1..Len(hs) /\ hs \in Seq(Int \X Int)
  BY DEF Clauses
<1>2. K = DOMAIN hs
  BY <1>1
<1> HIDE DEF K
<1>3. known = hs
  BY <1>1, <1>2, ChosenAll
<1>4. HandlersAt(bs, r) = [k \in DOMAIN known |-> <<known[k][1], FindBlockId(bs, known[k][2])>>]
  BY DEF HandlersAt, K
<1> HIDE DEF known, hs
<1> QED BY <1>1, <1>3, <1>4 DEF Kept, hs

\* A block with an instruction in a range begins in that range, once the
\* range's start is a leader.
LEMMA BeginsInRange ==
    ASSUME NEW u \in Seq(U2), NEW s, NEW L, LeadersOf(u, s, L), NEW bs, SplitLike(u, s, L, bs),
           NEW lo \in L, NEW b \in DOMAIN bs, NEW i, i \in bs[b].first..bs[b].last, i # 0, lo <= s[i].off
    PROVE  /\ s[i].off \in Int /\ bs[b].start \in Int /\ lo \in Int
           /\ lo <= bs[b].start /\ bs[b].start <= s[i].off
<1> DEFINE x == s[i].off
<1>1. /\ bs[b].first \in 0..Len(s) /\ bs[b].last \in 0..Len(s) /\ (bs[b].first = 0 <=> bs[b].last = 0)
      /\ \A j \in 1..Len(s) : (bs[b].first # 0 /\ bs[b].first <= j /\ j <= bs[b].last)
                                   <=> (bs[b].start <= s[j].off /\ s[j].off < bs[b].end)
  BY BlockHolds
<1>2. Len(s) \in Nat /\ Len(u) \in Nat /\ \A j \in 1..Len(s) : s[j].off \in Nat
  BY DEF LeadersOf, InsnList
<1>3. i \in 1..Len(s) /\ bs[b].first # 0 /\ bs[b].first <= i /\ i <= bs[b].last
  BY <1>1, <1>2
<1>4. bs[b].start <= x /\ x < bs[b].end /\ x \in Int
  BY <1>1, <1>2, <1>3
<1>5. /\ DOMAIN bs = 1..Cardinality(L) /\ Cardinality(L) \in Nat
      /\ \A d \in DOMAIN bs : bs[d].start \in Int
      /\ \A a, d \in DOMAIN bs : a < d => bs[a].start < bs[d].start
      /\ \E a \in DOMAIN bs : bs[a].start = lo
  BY BlockBounds
<1>6. PICK a \in DOMAIN bs : bs[a].start = lo
  BY <1>5
<1>7. x < Len(u)
  <2>1. s[i].len \in Nat /\ 1 <= s[i].len /\ s[i].off + s[i].len <= Len(u)
    BY <1>3 DEF LeadersOf, InsnList
  <2> QED BY <1>2, <1>4, <2>1
<1> HIDE DEF x
<1>8. bs[a].start <= x
  BY <1>6 DEF x
<1>9. PICK d \in DOMAIN bs : /\ a <= d
                             /\ \A e \in DOMAIN bs : bs[e].start <= x /\ x < bs[e].end => e = d
  <2>1. \E d \in DOMAIN bs : /\ a <= d /\ bs[d].start <= x /\ x < bs[d].end
                             /\ \A e \in DOMAIN bs : bs[e].start <= x /\ x < bs[e].end => e = d
    BY <1>4, <1>7, <1>8, BlockAt
  <2> QED BY <2>1
<1>10. a <= b
  BY <1>4, <1>9
<1>11. bs[a].start <= bs[b].start
  <2>1. a = b \/ a < b
    BY <1>5, <1>10
  <2> QED BY <1>5, <2>1
<1>12. bs[b].start \in Int /\ lo \in Int
  BY <1>5, <1>6
<1> QED BY <1>4, <1>6, <1>11, <1>12 DEF x

\* The ranges of an accepted table, and blocks that begin where they say.
RangesRead(c, ts) ==
    /\ c.tries \in Seq(TryItems) /\ (\E offsets : TriesOk(c, offsets))
    /\ ts = ParseExceptions(c) /\ ts \in ParsedTries
BlocksLed(ts, u, s, L, bs) ==
    u \in Seq(U2) /\ LeadersOf(u, s, L) /\ ExceptionLeaders(ts) \in SUBSET L /\ SplitLike(u, s, L, bs)
Covers(ts, t, s, i, bs, b) ==
    /\ t \in DOMAIN ts /\ b \in DOMAIN bs /\ i \in bs[b].first..bs[b].last /\ i # 0
    /\ ts[t].start <= s[i].off /\ s[i].off < ts[t].end
KeptWhole(bs, b, ts, t) ==
    /\ HandlersFrom(bs, b, ts) = Kept(bs, ts[t].handlers)
    /\ \A k \in 1..Len(ts[t].handlers) :
         /\ FindBlockId(bs, ts[t].handlers[k][2]) \in DOMAIN bs
         /\ bs[FindBlockId(bs, ts[t].handlers[k][2])].start = ts[t].handlers[k][2]

\* Every instruction a range covers is in a block with just the range's clauses,
\* each leading to the block of its address.
LEMMA CoveredKept ==
    ASSUME NEW c, NEW ts, RangesRead(c, ts), NEW u, NEW s, NEW L, NEW bs, BlocksLed(ts, u, s, L, bs),
           NEW t, NEW i, NEW b, Covers(ts, t, s, i, bs, b)
    PROVE  KeptWhole(bs, b, ts, t)
<1> /\ c.tries \in Seq(TryItems) /\ ts = ParseExceptions(c) /\ ts \in ParsedTries
    /\ u \in Seq(U2) /\ LeadersOf(u, s, L) /\ ExceptionLeaders(ts) \in SUBSET L /\ SplitLike(u, s, L, bs)
    /\ t \in DOMAIN ts /\ b \in DOMAIN bs /\ i \in bs[b].first..bs[b].last /\ i # 0
    /\ ts[t].start <= s[i].off /\ s[i].off < ts[t].end
  BY DEF RangesRead, BlocksLed, Covers
<1>0. PICK offsets : TriesOk(c, offsets)
  BY DEF RangesRead
<1> DEFINE n == Len(ts)
           x == bs[b].start
<1>1. n \in Nat /\ DOMAIN ts = 1..n
  BY DEF ParsedTries
<1>2. \A r \in 1..n : ts[r].start \in Int /\ ts[r].end \in Int /\ ts[r].handlers \in Clauses
  <2> DEFINE R == [start : Nat, end : Nat, handlers : Clauses]
  <2>1. ts \in Seq(R)
    BY DEF ParsedTries
  <2>2. \A r \in R : r.start \in Int /\ r.end \in Int /\ r.handlers \in Clauses
    OBVIOUS
  <2> HIDE DEF R
  <2>3. \A r \in 1..n : ts[r] \in R
    BY <2>1
  <2> QED BY <2>2, <2>3
<1>3. \A r \in 1..n : ts[r].start \in L /\ \A k \in DOMAIN ts[r].handlers : ts[r].handlers[k][2] \in L
  <2>1. \A r \in DOMAIN ts : /\ ts[r].start \in ExceptionLeaders(ts)
                             /\ \A k \in DOMAIN ts[r].handlers : ts[r].handlers[k][2] \in ExceptionLeaders(ts)
    BY DEF ExceptionLeaders, HandlerOffs
  <2> QED BY <1>1, <2>1
<1>4. /\ s[i].off \in Int /\ x \in Int /\ ts[t].start \in Int
      /\ ts[t].start <= x /\ x <= s[i].off
  <2>1. ts[t].start \in L
    BY <1>1, <1>3
  <2> QED BY <2>1, BeginsInRange
<1>5. ts[t].start <= x /\ x < ts[t].end
  <2>1. ts[t].end \in Int
    BY <1>1, <1>2
  <2> HIDE DEF x
  <2> QED BY <1>4, <2>1
<1>6. \A r, q \in 1..n : r < q => ts[r].end <= ts[q].start
  BY <1>0, <1>1, ParsedAscend
<1>7. ASSUME NEW r \in 1..n, r # t PROVE ~(ts[r].start <= x /\ x < ts[r].end)
  <2>0. t \in 1..n /\ x \in Int /\ ts[r].start \in Int /\ ts[r].end \in Int /\ ts[t].start \in Int /\ ts[t].end \in Int
    BY <1>1, <1>2, <1>4
  <2> HIDE DEF x
  <2>1. CASE r < t
    <3>1. ts[r].end <= ts[t].start
      BY <1>6, <2>0, <2>1
    <3> QED BY <1>5, <2>0, <3>1
  <2>2. CASE t < r
    <3>1. ts[t].end <= ts[r].start
      BY <1>6, <2>0, <2>2
    <3> QED BY <1>5, <2>0, <3>1
  <2> QED BY <1>1, <1>7, <2>0, <2>1, <2>2
<1>8. ASSUME NEW y \in L PROVE FindBlockId(bs, y) \in DOMAIN bs /\ bs[FindBlockId(bs, y)].start = y /\ FindBlockId(bs, y) # 0
  <2>1. FindBlockId(bs, y) \in DOMAIN bs /\ bs[FindBlockId(bs, y)].start = y
    BY FindsBlock
  <2>2. DOMAIN bs = 1..Cardinality(L) /\ Cardinality(L) \in Nat
    BY BlockBounds
  <2> QED BY <2>1, <2>2
<1>9. ASSUME NEW r \in 1..n
      PROVE  /\ \A k \in 1..Len(ts[r].handlers) : FindBlockId(bs, ts[r].handlers[k][2]) # 0
             /\ HandlersAt(bs, ts[r]) = Kept(bs, ts[r].handlers)
             /\ Kept(bs, ts[r].handlers) \in Seq(Int \X Int)
  <2> DEFINE hs == ts[r].handlers
  <2>1. hs \in Clauses /\ hs \in Seq(Int \X Int) /\ DOMAIN hs = 1..Len(hs) /\ Len(hs) \in Nat
    BY <1>2 DEF Clauses
  <2>2. \A k \in 1..Len(hs) : FindBlockId(bs, hs[k][2]) # 0 /\ FindBlockId(bs, hs[k][2]) \in DOMAIN bs
    BY <1>3, <1>8, <2>1
  <2>3. HandlersAt(bs, ts[r]) = Kept(bs, hs)
    BY <2>1, <2>2, EveryClauseKept
  <2>4. DOMAIN bs = 1..Cardinality(L) /\ Cardinality(L) \in Nat
    BY BlockBounds
  <2>5. \A k \in 1..Len(hs) : hs[k][1] \in Int /\ FindBlockId(bs, hs[k][2]) \in Int
    <3>1. \A k \in 1..Len(hs) : hs[k] \in Int \X Int
      BY <2>1
    <3>2. \A d \in DOMAIN bs : d \in Int
      BY <2>4
    <3> HIDE DEF hs
    <3> QED BY <2>2, <3>1, <3>2
  <2>6. Kept(bs, hs) \in Seq(Int \X Int)
    <3> HIDE DEF hs
    <3> QED BY <2>1, <2>5 DEF Kept
  <2> QED BY <2>2, <2>3, <2>6
<1>10. \A r \in 1..n : OwnHandlers(bs, x, ts[r]) \in Seq(Int \X Int)
  <2> SUFFICES ASSUME NEW r \in 1..n PROVE OwnHandlers(bs, x, ts[r]) \in Seq(Int \X Int)
    OBVIOUS
  <2>1. HandlersAt(bs, ts[r]) \in Seq(Int \X Int) /\ <<>> \in Seq(Int \X Int)
    BY <1>9
  <2> QED BY <2>1 DEF OwnHandlers
<1>11. \A r \in 1..n : r # t => OwnHandlers(bs, x, ts[r]) = <<>>
  BY <1>7 DEF OwnHandlers
<1>12. HandlersFrom(bs, b, ts) = OwnHandlers(bs, x, ts[t])
  <2>1. CoveredBy(bs, bs[b].start, ts, t)
    BY <1>10, <1>11 DEF CoveredBy
  <2> QED BY <1>1, <2>1, OneRange
<1>13. OwnHandlers(bs, x, ts[t]) = Kept(bs, ts[t].handlers)
  BY <1>1, <1>5, <1>9 DEF OwnHandlers
<1>14. ASSUME NEW k \in 1..Len(ts[t].handlers)
       PROVE  /\ FindBlockId(bs, ts[t].handlers[k][2]) \in DOMAIN bs
              /\ bs[FindBlockId(bs, ts[t].handlers[k][2])].start = ts[t].handlers[k][2]
  <2>1. k \in DOMAIN ts[t].handlers
    BY <1>1, <1>2 DEF Clauses
  <2> QED BY <1>1, <1>3, <1>8, <2>1
<1> QED BY <1>12, <1>13, <1>14 DEF KeptWhole

-----------------------------------------------------------------------------
(* The try table. *)

\* A clause that refers to a type and an offset that exist.
Legal(c, x) == x[1] < c.ids.type /\ x[2] < Len(c.units)
\* The clause at p, and whether it can be read.
Caught(b, p) == <<ReadUleb(b, p).v, ReadUleb(b, ReadUleb(b, p).p).v>>
Readable(b, p) == ReadUleb(b, p).ok /\ ReadUleb(b, ReadUleb(b, p).p).ok
AfterClause(b, p) == ReadUleb(b, ReadUleb(b, p).p).p

LEMMA CaughtTypes ==
    ASSUME NEW b \in Seq(U1), NEW p \in 0..Len(b)
    PROVE  Caught(b, p) \in Int \X Int /\ AfterClause(b, p) \in 0..Len(b) /\ Readable(b, p) \in BOOLEAN
<1> DEFINE q == ReadUleb(b, p).p
<1>1. ReadUleb(b, p).v \in Int /\ q \in 0..Len(b) /\ ReadUleb(b, p).ok \in BOOLEAN
  BY ReadersAgree
<1>2. ReadUleb(b, q).v \in Int /\ ReadUleb(b, q).p \in 0..Len(b) /\ ReadUleb(b, q).ok \in BOOLEAN
  <2> HIDE DEF q
  <2> QED BY <1>1, ReadersAgree
<1> QED BY <1>1, <1>2 DEF Caught, AfterClause, Readable

LEMMA ClauseIs ==
    ASSUME NEW b, NEW p, NEW x, NEW q
    PROVE  ClauseAt(b, p, x, q) <=> Readable(b, p) /\ x = Caught(b, p) /\ q = AfterClause(b, p)
BY DEF ClauseAt, Readable, Caught, AfterClause

\* The positions the verifier's loop over typed clauses goes through.
TypedRow(c, v) ==
    [p \in 0..Len(c.bytes) |->
        IF Readable(c.bytes, p) /\ Legal(c, Caught(c.bytes, p)) THEN v[AfterClause(c.bytes, p)] ELSE -1]
TypedRows(c, count, g) ==
    /\ g \in [0..count -> [0..Len(c.bytes) -> (0..Len(c.bytes)) \cup {-1}]]
    /\ \A p \in 0..Len(c.bytes) : g[0][p] = p
    /\ \A n \in 1..count : g[n] = TypedRow(c, g[n - 1])
LEMMA TypedSolves ==
    ASSUME NEW c, c.bytes \in Seq(U1), NEW count \in Nat
    PROVE  \E g : TypedRows(c, count, g) /\ \A begin : TypedClauses(c, begin, count) = g[count][begin]
<1> DEFINE b == c.bytes
           N == 0..Len(b)
           V == [N -> N \cup {-1}]
           first == [p \in N |-> p]
           row == [v \in V |-> TypedRow(c, v)]
           S == 0..count
           Body(f, n) == [p \in 0..Len(c.bytes) |->
                LET type == ReadUleb(c.bytes, p)
                    addr == ReadUleb(c.bytes, type.p)
                IN  IF n = 0 THEN p
                    ELSE IF /\ type.ok /\ type.v < c.ids.type
                            /\ addr.ok /\ addr.v < Len(c.units)
                         THEN f[n - 1][addr.p]
                         ELSE -1]
           Is(f) == f = [n \in 0..count |-> Body(f, n)]
           after == CHOOSE f : Is(f)
<1>1. first \in V
  OBVIOUS
<1>2. ASSUME NEW v \in V PROVE TypedRow(c, v) \in V
  <2>1. ASSUME NEW p \in N
        PROVE  (IF Readable(b, p) /\ Legal(c, Caught(b, p)) THEN v[AfterClause(b, p)] ELSE -1) \in N \cup {-1}
    <3>1. AfterClause(b, p) \in N
      BY CaughtTypes
    <3> HIDE DEF N
    <3> QED BY <3>1
  <2>2. TypedRow(c, v) = [p \in N |-> IF Readable(b, p) /\ Legal(c, Caught(b, p)) THEN v[AfterClause(b, p)] ELSE -1]
    BY DEF TypedRow
  <2> HIDE DEF N
  <2> QED BY <2>1, <2>2
<1>3. row \in [V -> V]
  <2> HIDE DEF V
  <2> QED BY <1>2
<1>4. PICK h : Counts(count, V, first, row, h)
  <2> HIDE DEF V, first, row
  <2> QED BY <1>1, <1>3, CountSolves
<1>5. h \in [S -> V] /\ h[0] = first /\ \A n \in 1..count : h[n] = TypedRow(c, h[n - 1])
  <2> HIDE DEF first, V, N
  <2>1. h \in [S -> V] /\ h[0] = first /\ \A n \in 1..count : h[n] = row[h[n - 1]]
    <3> HIDE DEF row
    <3> QED BY <1>4 DEF Counts
  <2>2. \A n \in 1..count : h[n - 1] \in V
    BY <2>1
  <2> QED BY <2>1, <2>2
\* A function that satisfies the loop's equation has the rows.
<1>6. ASSUME NEW f, NEW n \in 1..count PROVE Body(f, n) = TypedRow(c, f[n - 1])
  <2>1. ASSUME NEW p \in N
        PROVE  LET type == ReadUleb(b, p)
                   addr == ReadUleb(b, type.p)
               IN  (IF n = 0 THEN p
                    ELSE IF /\ type.ok /\ type.v < c.ids.type
                            /\ addr.ok /\ addr.v < Len(c.units)
                         THEN f[n - 1][addr.p]
                         ELSE -1)
                   = IF Readable(b, p) /\ Legal(c, Caught(b, p)) THEN f[n - 1][AfterClause(b, p)] ELSE -1
    BY DEF Readable, Caught, AfterClause, Legal
  <2> QED BY <2>1 DEF TypedRow
<1>7. \A f : Body(f, 0) = first
  OBVIOUS
<1>8. Is(h)
  <2> HIDE DEF Body, first, V, N
  <2>1. \A n \in 0..count : h[n] = Body(h, n)
    <3> SUFFICES ASSUME NEW n \in 0..count PROVE h[n] = Body(h, n)
      OBVIOUS
    <3>1. n = 0 \/ n \in 1..count
      OBVIOUS
    <3> QED BY <1>5, <1>6, <1>7, <3>1
  <2>2. h = [n \in 0..count |-> h[n]]
    BY <1>5
  <2> QED BY <2>1, <2>2
<1>9. Is(after)
  <2> HIDE DEF Is
  <2> QED BY <1>8
<1>10. \A begin : TypedClauses(c, begin, count) = after[count][begin]
  BY DEF TypedClauses
<1> HIDE DEF after
<1>11. after[0] = first /\ \A n \in 1..count : after[n] = TypedRow(c, after[n - 1])
  <2> HIDE DEF Body, first
  <2>1. \A n \in 0..count : after[n] = Body(after, n)
    BY <1>9
  <2>2. 0 \in 0..count /\ \A n \in 1..count : n \in 0..count
    OBVIOUS
  <2> QED BY <1>6, <1>7, <2>1, <2>2
<1>12. \A n \in S : after[n] \in V
  <2> DEFINE T == {n \in S : after[n] \in V}
  <2> HIDE DEF V, first, Body, Is
  <2>1. 0 \in T
    BY <1>1, <1>11
  <2>2. ASSUME NEW i \in 1..count, i - 1 \in T PROVE i \in T
    BY <1>2, <1>11, <2>2
  <2>3. T \in SUBSET (0..count)
    OBVIOUS
  <2> HIDE DEF T
  <2>4. T = 0..count
    BY <2>1, <2>2, <2>3, Upward
  <2> QED BY <2>4 DEF T
<1>13. after \in [S -> V]
  <2> HIDE DEF V, Body
  <2>1. after = [n \in 0..count |-> Body(after, n)]
    BY <1>9
  <2> QED BY <1>12, <2>1
<1>14. TypedRows(c, count, after)
  BY <1>11, <1>13 DEF TypedRows
<1> QED BY <1>10, <1>14

\* Through the first clauses of a list, the verifier's loop goes from place to
\* place, unless one of them is illegal.
LEMMA TypedFollow ==
    ASSUME NEW c, c.bytes \in Seq(U1), NEW l, l \in HandlerLists, NEW n \in Nat, ListBegins(c.bytes, l, n),
           NEW count \in Nat, n <= count, NEW g, TypedRows(c, count, g)
    PROVE  g[count][l.places[1]] =
             IF \A k \in 1..n : Legal(c, l.handlers[k]) THEN g[count - n][l.places[n + 1]] ELSE -1
<1> DEFINE b == c.bytes
           w == l.places
           h == l.handlers
           got(i) == IF \A k \in 1..i : Legal(c, h[k]) THEN g[count - i][w[i + 1]] ELSE -1
           T == {i \in 0..n : g[count][w[1]] = got(i)}
<1>1. /\ w \in Seq(Nat) /\ Len(w) \in Nat /\ Len(w) > n /\ DOMAIN w = 1..Len(w)
      /\ \A k \in 1..Len(w) : w[k] \in 0..Len(b)
  <2>1. w \in Seq(Nat)
    BY DEF HandlerLists
  <2>2. Len(w) > n /\ \A k \in DOMAIN w : w[k] <= Len(b)
    BY DEF ListBegins
  <2> HIDE DEF w
  <2>3. DOMAIN w = 1..Len(w) /\ Len(w) \in Nat /\ \A k \in DOMAIN w : w[k] \in Nat
    BY <2>1
  <2>4. Len(b) \in Nat
    OBVIOUS
  <2> HIDE DEF b
  <2>5. \A k \in 1..Len(w) : w[k] \in 0..Len(b)
    BY <2>2, <2>3, <2>4
  <2> QED BY <2>1, <2>2, <2>3, <2>5
<1>2. \A k \in 1..n : Readable(b, w[k]) /\ h[k] = Caught(b, w[k]) /\ w[k + 1] = AfterClause(b, w[k])
  BY ClauseIs DEF ListBegins
<1> HIDE DEF w, h
<1>3. 0 \in T
  <2>1. got(0) = g[count][w[1]]
    OBVIOUS
  <2> HIDE DEF got
  <2> QED BY <2>1
<1>4. ASSUME NEW i \in 1..n, i - 1 \in T PROVE i \in T
  <2>1. g[count][w[1]] = got(i - 1)
    BY <1>4
  <2>2. (count - (i - 1)) \in 1..count /\ (count - (i - 1)) - 1 = count - i /\ (i - 1) + 1 = i
    OBVIOUS
  <2>3. g[count - (i - 1)] = TypedRow(c, g[count - i])
    BY <2>2 DEF TypedRows
  <2>4. w[i] \in 0..Len(b)
    BY <1>1
  <2>5. g[count - (i - 1)][w[i]] = IF Legal(c, h[i]) THEN g[count - i][w[i + 1]] ELSE -1
    BY <1>2, <2>3, <2>4 DEF TypedRow
  <2>6. got(i - 1) = IF \A k \in 1..(i - 1) : Legal(c, h[k]) THEN g[count - (i - 1)][w[i]] ELSE -1
    BY <2>2
  <2>7. (\A k \in 1..i : Legal(c, h[k])) <=> (\A k \in 1..(i - 1) : Legal(c, h[k])) /\ Legal(c, h[i])
    <3>1. \A k : k \in 1..i <=> k \in 1..(i - 1) \/ k = i
      OBVIOUS
    <3> QED BY <3>1
  <2>8. got(i - 1) = got(i)
    BY <2>5, <2>6, <2>7
  <2> HIDE DEF got
  <2> QED BY <2>1, <2>8
<1>5. T \in SUBSET (0..n)
  OBVIOUS
<1> HIDE DEF T
<1>6. n \in T
  BY <1>3, <1>4, <1>5, Upward
<1> QED BY <1>6 DEF T, w, h

\* A handler list's verdict: -1, or where the list ends.
HandlerVerdict(c, p, count, after) ==
    LET all == ReadUleb(c.bytes, after)
    IN  IF ~ReadSleb(c.bytes, p).ok \/ count > 65536 \/ after = -1 THEN -1
        ELSE IF ReadSleb(c.bytes, p).v > 0 THEN after
        ELSE IF all.ok /\ all.v < Len(c.units) THEN all.p ELSE -1
SizeAt(b, p) == IF ReadSleb(b, p).v < 0 THEN -ReadSleb(b, p).v ELSE ReadSleb(b, p).v
LEMMA HandlerIs ==
    ASSUME NEW c, c.bytes \in Seq(U1), NEW p \in 0..Len(c.bytes)
    PROVE  /\ SizeAt(c.bytes, p) \in Nat
           /\ \E g : /\ TypedRows(c, SizeAt(c.bytes, p), g)
                     /\ VerifyHandler(c, p) =
                          HandlerVerdict(c, p, SizeAt(c.bytes, p), g[SizeAt(c.bytes, p)][ReadSleb(c.bytes, p).p])
<1> DEFINE size == ReadSleb(c.bytes, p)
           count == SizeAt(c.bytes, p)
<1>1. size.v \in Int
  BY ReadersAgree
<1>2. count \in Nat /\ (size.v < -65536 \/ size.v > 65536 <=> count > 65536)
  <2> HIDE DEF size
  <2> QED BY <1>1 DEF SizeAt, size
<1>3. PICK g : TypedRows(c, count, g) /\ \A begin : TypedClauses(c, begin, count) = g[count][begin]
  <2> HIDE DEF count
  <2> QED BY <1>2, TypedSolves
<1> DEFINE after == TypedClauses(c, size.p, count)
           all == ReadUleb(c.bytes, after)
<1>4. VerifyHandler(c, p) =
        IF ~size.ok \/ size.v < -65536 \/ size.v > 65536 \/ after = -1 THEN -1
        ELSE IF size.v > 0 THEN after
        ELSE IF all.ok /\ all.v < Len(c.units) THEN all.p ELSE -1
  BY DEF VerifyHandler, SizeAt
<1>5. after = g[count][size.p]
  BY <1>3
<1>6. VerifyHandler(c, p) = HandlerVerdict(c, p, count, after)
  <2> HIDE DEF after, count
  <2> QED BY <1>2, <1>4 DEF HandlerVerdict
<1> HIDE DEF after, count
<1> QED BY <1>2, <1>3, <1>5, <1>6 DEF count

\* It is a place in the handler list, or -1.
LEMMA HandlerRange ==
    ASSUME NEW c, c.bytes \in Seq(U1), NEW p \in 0..Len(c.bytes)
    PROVE  VerifyHandler(c, p) \in (0..Len(c.bytes)) \cup {-1}
<1> DEFINE count == SizeAt(c.bytes, p)
           N == 0..Len(c.bytes)
<1>1. PICK g : TypedRows(c, count, g) /\ count \in Nat
               /\ VerifyHandler(c, p) = HandlerVerdict(c, p, count, g[count][ReadSleb(c.bytes, p).p])
  BY HandlerIs
<1> DEFINE after == g[count][ReadSleb(c.bytes, p).p]
<1> HIDE DEF count
<1>2. after \in N \cup {-1}
  <2>1. ReadSleb(c.bytes, p).p \in N
    BY ReadersAgree
  <2>2. g[count] \in [N -> N \cup {-1}]
    BY <1>1 DEF TypedRows
  <2> HIDE DEF N
  <2> QED BY <2>1, <2>2
<1>3. after # -1 => ReadUleb(c.bytes, after).p \in N
  <2> HIDE DEF after
  <2> QED BY <1>2, ReadersAgree
<1>4. VerifyHandler(c, p) = HandlerVerdict(c, p, count, after)
  BY <1>1
<1> HIDE DEF after, N
<1> QED BY <1>2, <1>3, <1>4 DEF HandlerVerdict, N

\* The two bounds on a list's size are one on the number of its typed clauses.
LEMMA SizesBounded ==
    ASSUME NEW b \in Seq(U1), NEW l, l.at \in 0..Len(b)
    PROVE  SizeInRange(b, l) <=> TypedCount(b, l) <= 65536
<1> DEFINE v == ReadSleb(b, l.at).v
<1>1. v \in Int
  BY ReadersAgree
<1>2. /\ SizeInRange(b, l) <=> -65536 <= v /\ v <= 65536
      /\ TypedCount(b, l) = IF v < 0 THEN -v ELSE v
  BY DEF SizeInRange, TypedCount
<1> HIDE DEF v
<1> QED BY <1>1, <1>2

LegalList(c, l) == \A h \in DOMAIN l.handlers : Legal(c, l.handlers[h])
LEMMA WholeVerdict ==
    ASSUME NEW c, c.bytes \in Seq(U1), c.ids.type \in Nat, NEW l, l \in HandlerLists, WholeList(c.bytes, l)
    PROVE  /\ l.at \in 0..Len(c.bytes)
           /\ l.places[Len(l.places)] \in 0..Len(c.bytes)
           /\ VerifyHandler(c, l.at) = IF LegalList(c, l) THEN l.places[Len(l.places)] ELSE -1
<1> DEFINE b == c.bytes
           n == TypedCount(b, l)
           size == ReadSleb(b, l.at)
           rest == IF size.v > 0 THEN 0 ELSE 1
           w == l.places
           h == l.handlers
           all == ReadUleb(b, w[n + 1])
<1>1. ListBegins(b, l, n) /\ Len(h) = n + rest /\ Len(w) = n + rest + 1
      /\ (rest = 1 => all.ok /\ h[n + 1] = <<CatchAll, all.v>> /\ w[n + 2] = all.p)
  BY DEF WholeList
<1>2. l.at \in Nat /\ l.at <= Len(b) /\ Len(b) \in Nat /\ l.at \in 0..Len(b)
  BY <1>1 DEF HandlerLists, ListBegins
<1>3. n = SizeAt(b, l.at)
  BY DEF TypedCount, SizeAt
<1>4. PICK g : TypedRows(c, n, g) /\ n \in Nat /\ VerifyHandler(c, l.at) = HandlerVerdict(c, l.at, n, g[n][size.p])
  <2> HIDE DEF n, size
  <2> QED BY <1>2, <1>3, HandlerIs DEF size
<1>5. w \in Seq(Nat) /\ h \in Seq(Int \X Nat)
  BY DEF HandlerLists
<1>6. /\ size.ok /\ n <= 65536 /\ w[1] = size.p /\ \A k \in DOMAIN w : w[k] <= Len(b)
  <2>1. SizeInRange(b, l) <=> n <= 65536
    <3> HIDE DEF n
    <3> QED BY <1>2, SizesBounded DEF n
  <2> QED BY <1>1, <2>1 DEF ListBegins
<1>7. rest \in {0, 1} /\ (rest = 0 <=> size.v > 0)
  <2> HIDE DEF size
  <2> QED OBVIOUS
<1> HIDE DEF n, size, rest, w, h
<1>8. /\ DOMAIN w = 1..(n + rest + 1) /\ DOMAIN h = 1..(n + rest)
      /\ \A k \in 1..(n + rest + 1) : w[k] \in 0..Len(b)
  <2>1. n + rest + 1 \in Nat /\ n + rest \in Nat
    BY <1>4, <1>7
  <2>2. DOMAIN w = 1..(n + rest + 1) /\ DOMAIN h = 1..(n + rest)
    BY <1>1, <1>5, <2>1
  <2>3. \A k \in DOMAIN w : w[k] \in Nat
    BY <1>5
  <2>4. \A k \in DOMAIN w : w[k] \in 0..Len(b)
    BY <1>2, <1>6, <2>3
  <2> QED BY <2>2, <2>4
<1> DEFINE legal == \A k \in 1..n : Legal(c, h[k])
<1>9. g[n][size.p] = IF legal THEN w[n + 1] ELSE -1
  <2>1. g[n][w[1]] = IF legal THEN g[n - n][w[n + 1]] ELSE -1
    BY <1>1, <1>4, TypedFollow DEF h, w
  <2>2. g[n - n][w[n + 1]] = w[n + 1]
    <3>1. n - n = 0 /\ w[n + 1] \in 0..Len(b)
      BY <1>4, <1>7, <1>8
    <3> QED BY <1>4, <3>1 DEF TypedRows
  <2> HIDE DEF legal
  <2> QED BY <1>6, <2>1, <2>2
<1>10. Len(w) = n + rest + 1 /\ w[Len(w)] \in 0..Len(b)
  BY <1>1, <1>4, <1>7, <1>8
<1>11. w[n + 1] # -1
  BY <1>4, <1>7, <1>8
<1>12. CASE rest = 0
  <2>1. LegalList(c, l) <=> legal
    <3>1. DOMAIN h = 1..n
      BY <1>4, <1>8, <1>12
    <3> QED BY <3>1 DEF LegalList, h
  <2>2. w[Len(w)] = w[n + 1]
    BY <1>4, <1>10, <1>12
  <2>3. VerifyHandler(c, l.at) = IF legal THEN w[n + 1] ELSE -1
    <3>1. size.v > 0 /\ ~(n > 65536)
      BY <1>4, <1>6, <1>7, <1>12
    <3> HIDE DEF legal
    <3> QED BY <1>4, <1>6, <1>9, <1>11, <3>1 DEF HandlerVerdict, size
  <2> HIDE DEF legal
  <2> QED BY <1>2, <1>10, <2>1, <2>2, <2>3 DEF w
<1>13. CASE rest = 1
  <2>1. all.ok /\ h[n + 1] = <<CatchAll, all.v>> /\ w[n + 2] = all.p
    BY <1>1, <1>13
  <2> HIDE DEF all
  <2>2. LegalList(c, l) <=> legal /\ all.v < Len(c.units)
    <3>1. \A k : k \in 1..(n + 1) <=> k \in 1..n \/ k = n + 1
      BY <1>4
    <3>2. DOMAIN h = 1..(n + 1)
      BY <1>8, <1>13
    <3>3. LegalList(c, l) <=> legal /\ Legal(c, h[n + 1])
      BY <3>1, <3>2 DEF LegalList, h
    <3>4. Legal(c, h[n + 1]) <=> all.v < Len(c.units)
      <4>1. CatchAll < c.ids.type
        BY DEF CatchAll
      <4> QED BY <2>1, <4>1 DEF Legal
    <3> QED BY <3>3, <3>4
  <2>3. w[Len(w)] = all.p
    <3>1. Len(w) = n + 2
      BY <1>4, <1>10, <1>13
    <3> QED BY <2>1, <3>1
  <2>4. VerifyHandler(c, l.at) = IF legal /\ all.v < Len(c.units) THEN all.p ELSE -1
    <3>1. ~(size.v > 0) /\ ~(n > 65536)
      BY <1>4, <1>6, <1>7, <1>13
    <3> HIDE DEF legal
    <3> QED BY <1>4, <1>6, <1>9, <1>11, <2>1, <3>1 DEF HandlerVerdict, size, all
  <2> HIDE DEF legal
  <2> QED BY <1>2, <1>10, <2>2, <2>3, <2>4 DEF w
<1> QED BY <1>7, <1>12, <1>13

\* A list that is cut short is none.
LEMMA CutVerdict ==
    ASSUME NEW c, c.bytes \in Seq(U1), NEW l, l \in HandlerLists, CutList(c.bytes, l)
    PROVE  l.at \in 0..Len(c.bytes) /\ VerifyHandler(c, l.at) = -1
<1> DEFINE b == c.bytes
           n == Len(l.handlers)
           count == TypedCount(b, l)
           size == ReadSleb(b, l.at)
           w == l.places
           type == ReadUleb(b, w[n + 1])
<1>1. /\ l.at <= Len(b)
      /\ \/ ~size.ok
         \/ ~SizeInRange(b, l)
         \/ /\ ListBegins(b, l, n)
            /\ IF n < count THEN ~type.ok \/ ~ReadUleb(b, type.p).ok ELSE size.v <= 0 /\ ~type.ok
  BY DEF CutList
<1>2. l.at \in 0..Len(b) /\ n \in Nat
  <2>1. l.at \in Nat /\ l.handlers \in Seq(Int \X Nat)
    BY DEF HandlerLists
  <2> QED BY <1>1, <2>1
<1>3. count = SizeAt(b, l.at)
  BY DEF TypedCount, SizeAt
<1>4. PICK g : /\ TypedRows(c, count, g) /\ count \in Nat
               /\ VerifyHandler(c, l.at) = HandlerVerdict(c, l.at, count, g[count][size.p])
  <2> HIDE DEF count, size
  <2> QED BY <1>2, <1>3, HandlerIs DEF size
<1> HIDE DEF count
<1>5. CASE ~size.ok \/ ~SizeInRange(b, l)
  <2>1. SizeInRange(b, l) <=> count <= 65536
    BY <1>2, SizesBounded DEF count
  <2> QED BY <1>2, <1>4, <1>5, <2>1 DEF HandlerVerdict
<1>6. CASE ListBegins(b, l, n) /\ IF n < count THEN ~type.ok \/ ~ReadUleb(b, type.p).ok ELSE size.v <= 0 /\ ~type.ok
  <2>1. n <= count /\ w[1] = size.p
    BY <1>6 DEF ListBegins, count
  <2> DEFINE legal == \A k \in 1..n : Legal(c, l.handlers[k])
  <2>2. g[count][size.p] = IF legal THEN g[count - n][w[n + 1]] ELSE -1
    <3> HIDE DEF n
    <3> QED BY <1>2, <1>4, <1>6, <2>1, TypedFollow
  <2>3. w[n + 1] \in 0..Len(b)
    <3>1. w \in Seq(Nat)
      BY DEF HandlerLists
    <3>2. Len(w) > n /\ \A k \in DOMAIN w : w[k] <= Len(b)
      BY <1>6 DEF ListBegins
    <3> HIDE DEF w, n
    <3> QED BY <1>2, <3>1, <3>2
  <2> HIDE DEF legal, n, w
  <2>4. CASE n < count
    <3>1. ~Readable(b, w[n + 1])
      BY <1>6, <2>4 DEF Readable
    <3>2. count - n \in 1..count
      BY <1>2, <1>4, <2>4
    <3>3. g[count - n][w[n + 1]] = -1
      <4>1. g[count - n] = TypedRow(c, g[(count - n) - 1])
        BY <1>4, <3>2 DEF TypedRows
      <4> DEFINE v == g[(count - n) - 1]
                 x == w[n + 1]
      <4> HIDE DEF v, x
      <4>2. x \in 0..Len(c.bytes) /\ ~Readable(c.bytes, x) /\ g[count - n] = TypedRow(c, v)
        BY <2>3, <3>1, <4>1 DEF x, v
      <4>3. g[count - n][x] = -1
        BY <4>2 DEF TypedRow
      <4> QED BY <4>3 DEF x
    <3>4. g[count][size.p] = -1
      BY <2>2, <3>3
    <3> QED BY <1>2, <1>4, <3>4 DEF HandlerVerdict
  <2>5. CASE ~(n < count)
    <3>1. count - n = 0
      BY <1>2, <1>4, <2>1, <2>5
    <3>2. g[count - n][w[n + 1]] = w[n + 1]
      BY <1>4, <2>3, <3>1 DEF TypedRows
    <3>3. ~ReadUleb(b, w[n + 1]).ok /\ ~(size.v > 0)
      <4>1. size.v \in Int
        BY <1>2, ReadersAgree
      <4> HIDE DEF size
      <4> QED BY <1>6, <2>5, <4>1
    <3> DEFINE after == g[count][size.p]
    <3>4. after = -1 \/ ~ReadUleb(b, after).ok
      BY <2>2, <3>2, <3>3
    <3>5. VerifyHandler(c, l.at) = HandlerVerdict(c, l.at, count, after)
      BY <1>4
    <3> HIDE DEF after
    <3> QED BY <1>2, <3>3, <3>4, <3>5 DEF HandlerVerdict
  <2> QED BY <2>4, <2>5
<1> QED BY <1>1, <1>5, <1>6

\* A list with an entry put in front.
LEMMA Front ==
    ASSUME NEW V, NEW s \in Seq(V), NEW x \in V
    PROVE  /\ <<x>> \o s \in Seq(V) /\ Len(<<x>> \o s) = Len(s) + 1
           /\ (<<x>> \o s)[1] = x /\ \A k \in 1..Len(s) : (<<x>> \o s)[k + 1] = s[k]
OBVIOUS

\* Whether a list holds x.
Holds(s, x) == \E k \in 1..Len(s) : s[k] = x
LEMMA HoldsFront ==
    ASSUME NEW s \in Seq(Int), NEW p \in Int, NEW x
    PROVE  /\ Holds(<<p>> \o s, x) <=> x = p \/ Holds(s, x)
           /\ Holds(<<p>>, x) <=> x = p
           /\ ~Holds(<<>>, x)
<1> DEFINE q == <<p>> \o s
<1>1. Len(q) = Len(s) + 1 /\ q[1] = p /\ (\A k \in 1..Len(s) : q[k + 1] = s[k]) /\ Len(s) \in Nat
  BY Front
<1> HIDE DEF q
<1>2. ASSUME Holds(q, x) PROVE x = p \/ Holds(s, x)
  <2>1. PICK k \in 1..Len(q) : q[k] = x
    BY <1>2 DEF Holds
  <2>2. CASE k = 1
    BY <1>1, <2>1, <2>2
  <2>3. CASE k # 1
    <3>1. k - 1 \in 1..Len(s) /\ (k - 1) + 1 = k
      BY <1>1, <2>1, <2>3
    <3>2. q[(k - 1) + 1] = s[k - 1]
      BY <1>1, <3>1
    <3> QED BY <2>1, <3>1, <3>2 DEF Holds
  <2> QED BY <2>2, <2>3
<1>3. x = p => Holds(q, x)
  <2>1. 1 \in 1..Len(q)
    BY <1>1
  <2> QED BY <1>1, <2>1 DEF Holds
<1>4. ASSUME Holds(s, x) PROVE Holds(q, x)
  <2>1. PICK k \in 1..Len(s) : s[k] = x
    BY <1>4 DEF Holds
  <2>2. k + 1 \in 1..Len(q)
    BY <1>1, <2>1
  <2> QED BY <1>1, <2>1, <2>2 DEF Holds
<1>5. Holds(<<p>>, x) <=> x = p
  <2>1. \A k : k \in 1..Len(<<p>>) <=> k = 1
    OBVIOUS
  <2> QED BY <2>1 DEF Holds
<1>6. ~Holds(<<>>, x)
  BY DEF Holds
<1> QED BY <1>2, <1>3, <1>4, <1>5, <1>6 DEF q

\* handler_offsets, by the number of lists still to read.
OffsetRow(c, v) ==
    [p \in 0..Len(c.bytes) |-> IF VerifyHandler(c, p) = -1 THEN <<-1>> ELSE <<p>> \o v[VerifyHandler(c, p)]]
OffsetRows(c, count, g) ==
    /\ g \in [0..count -> [0..Len(c.bytes) -> Seq(Int)]]
    /\ \A p \in 0..Len(c.bytes) : g[0][p] = <<>>
    /\ \A n \in 1..count : g[n] = OffsetRow(c, g[n - 1])
LEMMA OffsetsSolve ==
    ASSUME NEW c, c.bytes \in Seq(U1), NEW count \in Nat
    PROVE  \E g : OffsetRows(c, count, g) /\ \A begin : HandlerOffsets(c, begin, count) = g[count][begin]
<1> DEFINE b == c.bytes
           N == 0..Len(b)
           V == [N -> Seq(Int)]
           first == [p \in N |-> <<>>]
           row == [v \in V |-> OffsetRow(c, v)]
           S == 0..count
           Body(f, n) == [p \in 0..Len(c.bytes) |->
                IF n = 0 THEN <<>>
                ELSE IF VerifyHandler(c, p) = -1 THEN <<-1>>
                ELSE <<p>> \o f[n - 1][VerifyHandler(c, p)]]
           Is(f) == f = [n \in 0..count |-> Body(f, n)]
           offs == CHOOSE f : Is(f)
<1>1. first \in V
  OBVIOUS
<1>2. ASSUME NEW v \in V PROVE OffsetRow(c, v) \in V
  <2>1. ASSUME NEW p \in N
        PROVE  (IF VerifyHandler(c, p) = -1 THEN <<-1>> ELSE <<p>> \o v[VerifyHandler(c, p)]) \in Seq(Int)
    <3>1. VerifyHandler(c, p) \in N \cup {-1}
      BY HandlerRange
    <3>2. p \in Int
      OBVIOUS
    <3>3. CASE VerifyHandler(c, p) = -1
      BY <3>3
    <3>4. CASE VerifyHandler(c, p) # -1
      <4>1. v[VerifyHandler(c, p)] \in Seq(Int)
        <5> HIDE DEF N
        <5> QED BY <3>1, <3>4
      <4> QED BY <3>2, <3>4, <4>1
    <3> QED BY <3>3, <3>4
  <2>2. OffsetRow(c, v) = [p \in N |-> IF VerifyHandler(c, p) = -1 THEN <<-1>> ELSE <<p>> \o v[VerifyHandler(c, p)]]
    BY DEF OffsetRow
  <2> HIDE DEF N
  <2> QED BY <2>1, <2>2
<1>3. row \in [V -> V]
  <2> HIDE DEF V
  <2> QED BY <1>2
<1>4. PICK h : Counts(count, V, first, row, h)
  <2> HIDE DEF V, first, row
  <2> QED BY <1>1, <1>3, CountSolves
<1>5. h \in [S -> V] /\ h[0] = first /\ \A n \in 1..count : h[n] = OffsetRow(c, h[n - 1])
  <2> HIDE DEF first, V, N
  <2>1. h \in [S -> V] /\ h[0] = first /\ \A n \in 1..count : h[n] = row[h[n - 1]]
    <3> HIDE DEF row
    <3> QED BY <1>4 DEF Counts
  <2>2. \A n \in 1..count : h[n - 1] \in V
    BY <2>1
  <2> QED BY <2>1, <2>2
<1>6. ASSUME NEW f, NEW n \in 1..count PROVE Body(f, n) = OffsetRow(c, f[n - 1])
  BY DEF OffsetRow
<1>7. \A f : Body(f, 0) = first
  OBVIOUS
<1>8. Is(h)
  <2> HIDE DEF Body, first, V, N
  <2>1. \A n \in 0..count : h[n] = Body(h, n)
    <3> SUFFICES ASSUME NEW n \in 0..count PROVE h[n] = Body(h, n)
      OBVIOUS
    <3>1. n = 0 \/ n \in 1..count
      OBVIOUS
    <3> QED BY <1>5, <1>6, <1>7, <3>1
  <2>2. h = [n \in 0..count |-> h[n]]
    BY <1>5
  <2> QED BY <2>1, <2>2
<1>9. Is(offs)
  <2> HIDE DEF Is
  <2> QED BY <1>8
<1>10. \A begin : HandlerOffsets(c, begin, count) = offs[count][begin]
  BY DEF HandlerOffsets
<1> HIDE DEF offs
<1>11. offs[0] = first /\ \A n \in 1..count : offs[n] = OffsetRow(c, offs[n - 1])
  <2> HIDE DEF Body, first
  <2>1. \A n \in 0..count : offs[n] = Body(offs, n)
    BY <1>9
  <2>2. 0 \in 0..count /\ \A n \in 1..count : n \in 0..count
    OBVIOUS
  <2> QED BY <1>6, <1>7, <2>1, <2>2
<1>12. \A n \in S : offs[n] \in V
  <2> DEFINE T == {n \in S : offs[n] \in V}
  <2> HIDE DEF V, first, Body, Is
  <2>1. 0 \in T
    BY <1>1, <1>11
  <2>2. ASSUME NEW i \in 1..count, i - 1 \in T PROVE i \in T
    BY <1>2, <1>11, <2>2
  <2>3. T \in SUBSET (0..count)
    OBVIOUS
  <2> HIDE DEF T
  <2>4. T = 0..count
    BY <2>1, <2>2, <2>3, Upward
  <2> QED BY <2>4 DEF T
<1>13. offs \in [S -> V]
  <2> HIDE DEF V, Body
  <2>1. offs = [n \in 0..count |-> Body(offs, n)]
    BY <1>9
  <2> QED BY <1>12, <2>1
<1>14. OffsetRows(c, count, offs)
  BY <1>11, <1>13 DEF OffsetRows
<1> QED BY <1>10, <1>14

\* What a code item's handler list is made of.
TableTypes(c) ==
    /\ c.bytes \in Seq(U1) /\ c.units \in Seq(U2) /\ c.ids.type \in Nat /\ c.tries \in Seq(TryItems)
    /\ c.said.lists \in Seq(HandlerLists) /\ c.said.cut \in HandlerLists

\* The lists lie one behind the other.
LEMMA ListPlaces ==
    ASSUME NEW c, TableTypes(c), ListsFollow(c)
    PROVE  \A j \in 1..(Len(c.said.lists) + 1) :
             /\ Place(c, j) \in 0..Len(c.bytes)
             /\ j <= Len(c.said.lists) =>
                  /\ c.said.lists[j].at = Place(c, j)
                  /\ VerifyHandler(c, Place(c, j)) = IF LegalList(c, c.said.lists[j]) THEN Place(c, j + 1) ELSE -1
<1> DEFINE n == Len(c.said.lists)
           l(j) == c.said.lists[j]
<1>1. n \in Nat /\ \A j \in 1..n : l(j) \in HandlerLists
  BY DEF TableTypes
<1>2. \A j \in 1..n : l(j).at = Place(c, j) /\ WholeList(c.bytes, l(j))
  BY DEF ListsFollow, TableTypes
<1>3. \A j \in 1..n : Place(c, j + 1) = l(j).places[Len(l(j).places)]
  BY <1>1 DEF Place
<1> HIDE DEF l, n
<1>4. ASSUME NEW j \in 1..n
      PROVE  /\ Place(c, j) \in 0..Len(c.bytes) /\ Place(c, j + 1) \in 0..Len(c.bytes)
             /\ VerifyHandler(c, Place(c, j)) = IF LegalList(c, l(j)) THEN Place(c, j + 1) ELSE -1
  <2>1. c.bytes \in Seq(U1) /\ c.ids.type \in Nat /\ l(j) \in HandlerLists /\ WholeList(c.bytes, l(j))
    BY <1>1, <1>2 DEF TableTypes
  <2>2. /\ l(j).at \in 0..Len(c.bytes)
        /\ l(j).places[Len(l(j).places)] \in 0..Len(c.bytes)
        /\ VerifyHandler(c, l(j).at) = IF LegalList(c, l(j)) THEN l(j).places[Len(l(j).places)] ELSE -1
    BY <2>1, WholeVerdict
  <2> QED BY <1>2, <1>3, <2>2
<1>5. Place(c, 1) \in 0..Len(c.bytes)
  <2>1. c.bytes \in Seq(U1) /\ 0 \in 0..Len(c.bytes)
    BY DEF TableTypes
  <2>2. ReadUleb(c.bytes, 0).p \in 0..Len(c.bytes)
    BY <2>1, ReadersAgree
  <2> QED BY <2>2 DEF Place
<1>6. ASSUME NEW j \in 1..(n + 1)
      PROVE  /\ Place(c, j) \in 0..Len(c.bytes)
             /\ j <= n => /\ l(j).at = Place(c, j)
                         /\ VerifyHandler(c, Place(c, j)) = IF LegalList(c, l(j)) THEN Place(c, j + 1) ELSE -1
  <2>1. CASE j \in 1..n
    BY <1>2, <1>4, <2>1
  <2>2. CASE j \notin 1..n
    <3>1. j = n + 1 /\ ~(j <= n)
      BY <1>1, <2>2
    <3>2. CASE n = 0
      BY <1>5, <3>1, <3>2
    <3>3. CASE n # 0
      <4>1. n \in 1..n
        BY <1>1, <3>3
      <4> QED BY <1>4, <3>1, <4>1
    <3> QED BY <3>2, <3>3
  <2> QED BY <2>1, <2>2
<1> QED BY <1>6 DEF l, n

\* What handler_offsets holds once the first i lists are read: their places, if
\* they are legal, and what the rest adds.
OffsetsAfter(c, all, rest, i) ==
    LET good == \A j \in 1..i : LegalList(c, c.said.lists[j])
    IN  /\ Holds(all, -1) <=> ~good \/ Holds(rest, -1)
        /\ good => \A x : Holds(all, x) <=> (\E j \in 1..i : x = Place(c, j)) \/ Holds(rest, x)
LEMMA OffsetsFollow ==
    ASSUME NEW c, TableTypes(c), ListsFollow(c), NEW count \in Nat, Len(c.said.lists) <= count,
           NEW g, OffsetRows(c, count, g)
    PROVE  OffsetsAfter(c, g[count][Place(c, 1)],
                        g[count - Len(c.said.lists)][Place(c, Len(c.said.lists) + 1)], Len(c.said.lists))
<1> DEFINE n == Len(c.said.lists)
           N == 0..Len(c.bytes)
           good(i) == \A j \in 1..i : LegalList(c, c.said.lists[j])
           rest(i) == g[count - i][Place(c, i + 1)]
           T == {i \in 0..n : OffsetsAfter(c, rest(0), rest(i), i)}
<1>1. n \in Nat /\ n <= count
  BY DEF TableTypes
<1>2. \A j \in 1..(n + 1) :
             /\ Place(c, j) \in N
             /\ j <= n => VerifyHandler(c, Place(c, j)) = IF LegalList(c, c.said.lists[j]) THEN Place(c, j + 1) ELSE -1
  BY ListPlaces
<1> HIDE DEF n
<1>3. ASSUME NEW i \in 0..n PROVE rest(i) \in Seq(Int)
  <2>1. count - i \in 0..count /\ i + 1 \in 1..(n + 1)
    BY <1>1
  <2>2. Place(c, i + 1) \in N
    BY <1>2, <2>1
  <2> QED BY <2>1, <2>2 DEF OffsetRows
<1>4. 0 \in T
  <2>1. OffsetsAfter(c, rest(0), rest(0), 0)
    <3> HIDE DEF rest
    <3> QED BY DEF OffsetsAfter
  <2> HIDE DEF rest
  <2> QED BY <1>1, <2>1
<1>5. ASSUME NEW i \in 1..n, i - 1 \in T PROVE i \in T
  <2>1. (count - (i - 1)) \in 1..count /\ (count - (i - 1)) - 1 = count - i /\ (i - 1) + 1 = i /\ i \in 0..n
        /\ i - 1 \in 0..n /\ i \in 1..(n + 1) /\ i <= n
    BY <1>1
  <2> DEFINE at == Place(c, i)
             legal == LegalList(c, c.said.lists[i])
  <2>2. rest(i - 1) = OffsetRow(c, g[count - i])[at]
    <3>1. g[count - (i - 1)] = OffsetRow(c, g[count - i])
      BY <2>1 DEF OffsetRows
    <3> QED BY <2>1, <3>1
  <2>3. at \in N /\ VerifyHandler(c, at) = IF legal THEN Place(c, i + 1) ELSE -1
    BY <1>2, <2>1
  <2>4. Place(c, i + 1) # -1
    <3>1. i + 1 \in 1..(n + 1)
      BY <1>1
    <3> QED BY <1>2, <3>1
  <2>5. rest(i - 1) = IF legal THEN <<at>> \o rest(i) ELSE <<-1>>
    <3> DEFINE v == g[count - i]
    <3>1. OffsetRow(c, v)[at] = IF VerifyHandler(c, at) = -1 THEN <<-1>> ELSE <<at>> \o v[VerifyHandler(c, at)]
      <4> HIDE DEF v, at
      <4> QED BY <2>3 DEF OffsetRow
    <3> HIDE DEF at, legal
    <3> QED BY <2>2, <2>3, <2>4, <3>1
  <2>6. OffsetsAfter(c, rest(0), rest(i - 1), i - 1) /\ rest(i) \in Seq(Int)
    BY <1>3, <1>5, <2>1
  <2>7. good(i) <=> good(i - 1) /\ legal
    <3>1. \A k : k \in 1..i <=> k \in 1..(i - 1) \/ k = i
      BY <1>1
    <3> QED BY <3>1
  <2>8. \A x : (\E j \in 1..i : x = Place(c, j)) <=> (\E j \in 1..(i - 1) : x = Place(c, j)) \/ x = at
    <3>1. \A k : k \in 1..i <=> k \in 1..(i - 1) \/ k = i
      BY <1>1
    <3> QED BY <3>1
  <2>9. at \in Int /\ at # -1
    BY <2>3
  <2> DEFINE all == rest(0)
             before == rest(i - 1)
             after == rest(i)
  <2>10. /\ Holds(all, -1) <=> ~good(i - 1) \/ Holds(before, -1)
         /\ good(i - 1) => \A x : Holds(all, x) <=> (\E j \in 1..(i - 1) : x = Place(c, j)) \/ Holds(before, x)
    BY <2>6 DEF OffsetsAfter
  <2>11. legal => \A x : Holds(before, x) <=> x = at \/ Holds(after, x)
    <3> SUFFICES ASSUME legal, NEW x PROVE Holds(before, x) <=> x = at \/ Holds(after, x)
      OBVIOUS
    <3>1. before = <<at>> \o after
      <4> HIDE DEF at, legal, rest
      <4> QED BY <2>5
    <3>2. after \in Seq(Int) /\ at \in Int
      BY <2>6, <2>9
    <3> HIDE DEF at, before, after
    <3>3. Holds(<<at>> \o after, x) <=> x = at \/ Holds(after, x)
      BY <3>2, HoldsFront
    <3> QED BY <3>1, <3>3
  <2>12. ~legal => Holds(before, -1)
    <3>1. -1 \in Int /\ <<>> \in Seq(Int)
      OBVIOUS
    <3>2. Holds(<<-1>>, -1)
      BY <3>1, HoldsFront
    <3> HIDE DEF legal, rest
    <3> QED BY <2>5, <3>2
  <2> HIDE DEF all, before, after, at, legal, good
  <2>13. Holds(all, -1) <=> ~good(i) \/ Holds(after, -1)
    BY <2>7, <2>9, <2>10, <2>11, <2>12
  <2>14. good(i) => \A x : Holds(all, x) <=> (\E j \in 1..i : x = Place(c, j)) \/ Holds(after, x)
    BY <2>7, <2>8, <2>10, <2>11
  <2>15. OffsetsAfter(c, all, after, i)
    BY <2>13, <2>14 DEF OffsetsAfter, good
  <2> QED BY <2>1, <2>15 DEF all, after
<1>6. T \in SUBSET (0..n)
  OBVIOUS
<1> HIDE DEF T
<1>7. n \in T
  <2>1. T = 0..n
    BY <1>1, <1>4, <1>5, <1>6, Upward
  <2> QED BY <1>1, <2>1
<1>8. OffsetsAfter(c, rest(0), rest(n), n)
  BY <1>7 DEF T
<1>9. rest(0) = g[count][Place(c, 1)]
  OBVIOUS
<1> QED BY <1>8, <1>9 DEF n

\* The verifier's list of handler places, by the lists of the table.
OffsetsOf(c) == HandlerOffsets(c, ReadUleb(c.bytes, 0).p, ReadUleb(c.bytes, 0).v)
LEMMA OffsetsHold ==
    ASSUME NEW c, TableTypes(c), ListsFollow(c), Len(c.said.lists) <= ReadUleb(c.bytes, 0).v
    PROVE  \E rest : /\ OffsetsAfter(c, OffsetsOf(c), rest, Len(c.said.lists))
                     /\ Len(c.said.lists) = ReadUleb(c.bytes, 0).v => rest = <<>>
                     /\ (Len(c.said.lists) < ReadUleb(c.bytes, 0).v
                         /\ VerifyHandler(c, Place(c, Len(c.said.lists) + 1)) = -1) => rest = <<-1>>
<1> DEFINE n == Len(c.said.lists)
           count == ReadUleb(c.bytes, 0).v
           last == Place(c, n + 1)
<1>1. c.bytes \in Seq(U1) /\ 0 \in 0..Len(c.bytes) /\ n \in Nat
  BY DEF TableTypes
<1>2. count \in Nat
  BY <1>1, ReadersAgree
<1>3. PICK g : OffsetRows(c, count, g) /\ \A begin : HandlerOffsets(c, begin, count) = g[count][begin]
  <2> HIDE DEF count
  <2> QED BY <1>1, <1>2, OffsetsSolve
<1>4. OffsetsOf(c) = g[count][Place(c, 1)]
  BY <1>3 DEF OffsetsOf, Place
<1>5. OffsetsAfter(c, OffsetsOf(c), g[count - n][last], n)
  BY <1>2, <1>3, <1>4, OffsetsFollow
<1>6. last \in 0..Len(c.bytes)
  <2>1. n + 1 \in 1..(n + 1)
    BY <1>1
  <2> QED BY <2>1, ListPlaces
<1> HIDE DEF n, count, last
<1>7. n = count => g[count - n][last] = <<>>
  BY <1>2, <1>3, <1>6 DEF OffsetRows
<1>8. ASSUME n < count, VerifyHandler(c, last) = -1 PROVE g[count - n][last] = <<-1>>
  <2>1. count - n \in 1..count
    BY <1>1, <1>2, <1>8
  <2>2. g[count - n] = OffsetRow(c, g[(count - n) - 1])
    BY <1>3, <2>1 DEF OffsetRows
  <2> QED BY <1>6, <1>8, <2>2 DEF OffsetRow
<1> QED BY <1>5, <1>7, <1>8 DEF n, count, last

\* The gate's verdict on a try table is the one the table calls for.
RangesOk(c) ==
    \A t \in 1..Len(c.tries) :
        /\ c.tries[t].start < Len(c.units) /\ c.tries[t].start + c.tries[t].count <= Len(c.units)
        /\ t > 1 => c.tries[t - 1].start + c.tries[t - 1].count <= c.tries[t].start
LEMMA VerifyTableIs ==
    ASSUME NEW c, TableTypes(c)
    PROVE  VerifyTryTable(c) <=>
             /\ Headed(c) /\ ~Holds(OffsetsOf(c), -1) /\ RangesOk(c)
             /\ \A t \in 1..Len(c.tries) : Holds(OffsetsOf(c), c.tries[t].off)
<1> DEFINE offsets == OffsetsOf(c)
<1>1. VerifyTryTable(c) <=>
        Headed(c) /\ (\A j \in 1..Len(offsets) : offsets[j] # -1) /\ TriesOk(c, offsets)
  BY DEF VerifyTryTable, Headed, OffsetsOf
<1> HIDE DEF offsets
<1>2. (\A j \in 1..Len(offsets) : offsets[j] # -1) <=> ~Holds(offsets, -1)
  BY DEF Holds
<1>3. Len(c.tries) \in Nat /\ \A t \in 1..Len(c.tries) : c.tries[t].start \in Nat /\ c.tries[t].count \in Nat
  <2>1. Len(c.tries) \in Nat /\ \A t \in 1..Len(c.tries) : c.tries[t] \in TryItems
    BY DEF TableTypes
  <2> QED BY <2>1 DEF TryItems
<1>4. ASSUME NEW t \in 1..Len(c.tries)
      PROVE  LET last == IF t = 1 THEN 0 ELSE c.tries[t - 1].start + c.tries[t - 1].count
             IN  c.tries[t].start >= last <=>
                   (t > 1 => c.tries[t - 1].start + c.tries[t - 1].count <= c.tries[t].start)
  <2>1. CASE t = 1
    BY <1>3, <2>1
  <2>2. CASE t # 1
    <3>1. t - 1 \in 1..Len(c.tries) /\ t > 1
      BY <1>3, <2>2
    <3> QED BY <1>3, <2>2, <3>1
  <2> QED BY <2>1, <2>2
<1>5. TriesOk(c, offsets) <=>
        RangesOk(c) /\ \A t \in 1..Len(c.tries) : Holds(offsets, c.tries[t].off)
  <2> DEFINE last(t) == IF t = 1 THEN 0 ELSE c.tries[t - 1].start + c.tries[t - 1].count
             follows(t) == t > 1 => c.tries[t - 1].start + c.tries[t - 1].count <= c.tries[t].start
  <2>1. TriesOk(c, offsets) <=>
          \A t \in 1..Len(c.tries) : /\ c.tries[t].start >= last(t)
                                     /\ c.tries[t].start < Len(c.units)
                                     /\ \E j \in 1..Len(offsets) : c.tries[t].off = offsets[j]
                                     /\ c.tries[t].start + c.tries[t].count <= Len(c.units)
    BY DEF TriesOk
  <2>2. \A t \in 1..Len(c.tries) : c.tries[t].start >= last(t) <=> follows(t)
    BY <1>4
  <2>3. \A t : (\E j \in 1..Len(offsets) : c.tries[t].off = offsets[j]) <=> Holds(offsets, c.tries[t].off)
    BY DEF Holds
  <2>4. RangesOk(c) <=> \A t \in 1..Len(c.tries) : /\ c.tries[t].start < Len(c.units)
                                                   /\ c.tries[t].start + c.tries[t].count <= Len(c.units)
                                                   /\ follows(t)
    BY DEF RangesOk
  <2> HIDE DEF last, follows
  <2> QED BY <2>1, <2>2, <2>3, <2>4
<1> QED BY <1>1, <1>2, <1>5 DEF offsets

LEMMA VerdictOnTable ==
    ASSUME NEW c, TableTypes(c), SaidTruly(c)
    PROVE  (c.tries # <<>> => VerifyTryTable(c)) <=> LegalTries(c)
<1> DEFINE n == Len(c.said.lists)
           good == \A j \in 1..n : LegalList(c, c.said.lists[j])
           lists == \A j \in DOMAIN c.said.lists :
                      LET l == c.said.lists[j]
                      IN  \A h \in DOMAIN l.handlers : l.handlers[h][2] < Len(c.units) /\ l.handlers[h][1] < c.ids.type
           ranges == \A t \in DOMAIN c.said.tries :
                       LET r == c.said.tries[t]
                       IN  /\ r.start < Len(c.units) /\ r.end <= Len(c.units)
                           /\ t > 1 => c.said.tries[t - 1].end <= r.start
<1>1. LegalTries(c) <=> c.said.ok /\ lists /\ ranges
  BY DEF LegalTries
<1>2. n \in Nat /\ DOMAIN c.said.lists = 1..n
  BY DEF TableTypes
<1>3. lists <=> good
  BY <1>2 DEF LegalList, Legal
<1>4. CASE c.tries = <<>>
  <2>1. c.said.ok /\ c.said.tries = <<>> /\ c.said.lists = <<>>
    BY <1>4 DEF SaidTruly
  <2>2. lists /\ ranges
    BY <2>1
  <2> QED BY <1>1, <1>4, <2>1, <2>2
<1>5. CASE c.tries # <<>> /\ c.said.ok
  <2>1. Encoded(c)
    BY <1>5 DEF SaidTruly
  <2>2. /\ Headed(c) /\ ListsFollow(c) /\ n = ReadUleb(c.bytes, 0).v /\ DOMAIN c.said.tries = DOMAIN c.tries
        /\ \A t \in DOMAIN c.tries :
             /\ c.said.tries[t].start = c.tries[t].start
             /\ c.said.tries[t].end = c.tries[t].start + c.tries[t].count
             /\ \E j \in DOMAIN c.said.lists : c.tries[t].off = c.said.lists[j].at
    BY <2>1 DEF Encoded
  <2>3. DOMAIN c.tries = 1..Len(c.tries) /\ Len(c.tries) \in Nat
    BY DEF TableTypes
  <2>4. ranges <=> RangesOk(c)
    <3>1. ASSUME NEW t \in 1..Len(c.tries)
          PROVE  (t > 1 => c.said.tries[t - 1].end <= c.said.tries[t].start)
                 <=> (t > 1 => c.tries[t - 1].start + c.tries[t - 1].count <= c.tries[t].start)
      <4>1. t > 1 => t - 1 \in 1..Len(c.tries)
        BY <2>3
      <4> QED BY <2>2, <2>3, <4>1
    <3> QED BY <2>2, <2>3, <3>1 DEF RangesOk
  <2>5. n <= ReadUleb(c.bytes, 0).v
    BY <1>2, <2>2
  <2>6. OffsetsAfter(c, OffsetsOf(c), <<>>, n)
    <3>1. PICK rest : OffsetsAfter(c, OffsetsOf(c), rest, n) /\ (n = ReadUleb(c.bytes, 0).v => rest = <<>>)
      BY <2>2, <2>5, OffsetsHold
    <3> HIDE DEF n
    <3> QED BY <2>2, <3>1
  <2>7. \A x : ~Holds(<<>>, x)
    BY DEF Holds
  <2>8. /\ Holds(OffsetsOf(c), -1) <=> ~good
        /\ good => \A x : Holds(OffsetsOf(c), x) <=> \E j \in 1..n : x = Place(c, j)
    BY <2>6, <2>7 DEF OffsetsAfter
  <2>9. \A t \in 1..Len(c.tries) : \E j \in 1..n : c.tries[t].off = Place(c, j)
    <3>1. \A j \in 1..n : c.said.lists[j].at = Place(c, j)
      BY <1>2, <2>2 DEF ListsFollow
    <3> QED BY <1>2, <2>2, <2>3, <3>1
  <2> HIDE DEF n, good, lists, ranges
  <2> QED BY <1>1, <1>3, <1>5, <2>2, <2>4, <2>8, <2>9, VerifyTableIs
<1>6. CASE c.tries # <<>> /\ ~c.said.ok
  <2>1. Malformed(c)
    BY <1>6 DEF SaidTruly
  <2>2. CASE ~Headed(c)
    BY <1>1, <1>6, <2>2, VerifyTableIs
  <2>3. CASE /\ n < ReadUleb(c.bytes, 0).v /\ ListsFollow(c)
             /\ c.said.cut.at = Place(c, n + 1) /\ CutList(c.bytes, c.said.cut)
    <3>1. VerifyHandler(c, Place(c, n + 1)) = -1
      <4>1. c.bytes \in Seq(U1) /\ c.said.cut \in HandlerLists
        BY DEF TableTypes
      <4> QED BY <2>3, <4>1, CutVerdict
    <3>2. n <= ReadUleb(c.bytes, 0).v
      <4>1. c.bytes \in Seq(U1) /\ 0 \in 0..Len(c.bytes)
        BY DEF TableTypes
      <4>2. ReadUleb(c.bytes, 0).v \in Nat
        BY <4>1, ReadersAgree
      <4> QED BY <1>2, <2>3, <4>2
    <3>3. OffsetsAfter(c, OffsetsOf(c), <<-1>>, n)
      <4>1. PICK rest : /\ OffsetsAfter(c, OffsetsOf(c), rest, n)
                        /\ (n < ReadUleb(c.bytes, 0).v /\ VerifyHandler(c, Place(c, n + 1)) = -1) => rest = <<-1>>
        BY <2>3, <3>2, OffsetsHold
      <4> HIDE DEF n
      <4> QED BY <2>3, <3>1, <4>1
    <3>4. Holds(<<-1>>, -1)
      <4>1. -1 \in Int /\ <<>> \in Seq(Int)
        OBVIOUS
      <4> QED BY <4>1, HoldsFront
    <3>5. Holds(OffsetsOf(c), -1)
      BY <3>3, <3>4 DEF OffsetsAfter
    <3> QED BY <1>1, <1>6, <3>5, VerifyTableIs
  <2>4. CASE /\ n = ReadUleb(c.bytes, 0).v /\ ListsFollow(c)
             /\ \E t \in DOMAIN c.tries : \A j \in 1..n : c.tries[t].off # c.said.lists[j].at
    <3>1. PICK t \in DOMAIN c.tries : \A j \in 1..n : c.tries[t].off # c.said.lists[j].at
      BY <2>4
    <3>2. t \in 1..Len(c.tries)
      BY DEF TableTypes
    <3>3. n <= ReadUleb(c.bytes, 0).v
      BY <1>2, <2>4
    <3>4. OffsetsAfter(c, OffsetsOf(c), <<>>, n)
      <4>1. PICK rest : OffsetsAfter(c, OffsetsOf(c), rest, n) /\ (n = ReadUleb(c.bytes, 0).v => rest = <<>>)
        BY <2>4, <3>3, OffsetsHold
      <4> HIDE DEF n
      <4> QED BY <2>4, <4>1
    <3>5. \A x : ~Holds(<<>>, x)
      BY DEF Holds
    <3>6. \A j \in 1..n : c.said.lists[j].at = Place(c, j)
      BY <1>2, <2>4 DEF ListsFollow
    <3>7. Holds(OffsetsOf(c), -1) \/ ~Holds(OffsetsOf(c), c.tries[t].off)
      BY <3>1, <3>4, <3>5, <3>6 DEF OffsetsAfter
    <3> QED BY <1>1, <1>6, <3>2, <3>7, VerifyTableIs
  <2> QED BY <2>1, <2>2, <2>3, <2>4 DEF Malformed
<1> QED BY <1>4, <1>5, <1>6

\* The last i of the first n entries of a list.
LastOnes(h, n, i) == [k \in 1..i |-> h[(n - i) + k]]
LEMMA LastGrows ==
    ASSUME NEW V, NEW h \in Seq(V), NEW n \in Nat, n <= Len(h), NEW i \in 1..n
    PROVE  LastOnes(h, n, i) = <<h[(n - i) + 1]>> \o LastOnes(h, n, i - 1)
<1> DEFINE m == n - i
           s == LastOnes(h, n, i - 1)
           x == h[m + 1]
           q == <<x>> \o s
           r == LastOnes(h, n, i)
<1>1. i - 1 \in Nat /\ m \in Nat /\ m + i = n /\ n - (i - 1) = m + 1
  OBVIOUS
<1> HIDE DEF m
<1>2. s = [k \in 1..(i - 1) |-> h[(m + 1) + k]]
  BY <1>1 DEF LastOnes
<1>3. \A k \in 1..i : m + k \in 1..Len(h)
  BY <1>1
<1>4. \A k \in 1..(i - 1) : h[(m + 1) + k] \in V
  <2>1. \A k \in 1..(i - 1) : k + 1 \in 1..i /\ (m + 1) + k = m + (k + 1)
    BY <1>1
  <2> QED BY <1>3, <2>1
<1>5. s \in Seq(V) /\ Len(s) = i - 1 /\ \A k \in 1..(i - 1) : s[k] = h[(m + 1) + k]
  BY <1>1, <1>2, <1>4
<1>6. x \in V
  BY <1>1, <1>3
<1>7. r = [k \in 1..i |-> h[m + k]]
  BY DEF LastOnes, m
<1> HIDE DEF s, x, r
<1>8. q \in Seq(V) /\ Len(q) = i /\ q[1] = x /\ \A k \in 1..(i - 1) : q[k + 1] = s[k]
  <2>1. q \in Seq(V) /\ Len(q) = Len(s) + 1 /\ q[1] = x /\ \A k \in 1..Len(s) : q[k + 1] = s[k]
    BY <1>5, <1>6, Front
  <2>2. Len(s) = i - 1 /\ Len(s) + 1 = i
    <3>1. Len(s) = i - 1
      BY <1>5
    <3> QED BY <1>1, <3>1
  <2> HIDE DEF q
  <2> QED BY <2>1, <2>2, Zenon
<1> HIDE DEF q
<1>9. ASSUME NEW k \in 1..i PROVE q[k] = h[m + k]
  <2>1. CASE k = 1
    BY <1>8, <2>1 DEF x
  <2>2. CASE k # 1
    <3>1. k - 1 \in 1..(i - 1) /\ (k - 1) + 1 = k /\ (m + 1) + (k - 1) = m + k
      BY <1>1, <2>2
    <3> QED BY <1>5, <1>8, <3>1
  <2> QED BY <2>1, <2>2
<1>10. q = [k \in 1..i |-> q[k]]
  BY <1>8
<1>11. q = r
  BY <1>7, <1>9, <1>10
<1> QED BY <1>11 DEF q, r, s, x, m

\* Through a whole list's typed clauses the builder goes as the verifier does,
\* and keeps them all.
LEMMA ClausesFollow ==
    ASSUME NEW b \in Seq(U1), NEW l, l \in HandlerLists, NEW n \in Nat, ListBegins(b, l, n),
           NEW g, ReadRows(b, n, g)
    PROVE  g[n][l.places[1]] = <<l.places[n + 1], LastOnes(l.handlers, n, n)>>
<1> DEFINE w == l.places
           h == l.handlers
           T == {i \in 0..n : g[i][w[(n - i) + 1]] = <<w[n + 1], LastOnes(h, n, i)>>}
<1>1. /\ h \in Seq(Int \X Nat) /\ n <= Len(h)
      /\ \A k \in 1..(n + 1) : w[k] \in 0..Len(b)
  <2>1. w \in Seq(Nat) /\ h \in Seq(Int \X Nat) /\ Len(b) \in Nat
    BY DEF HandlerLists
  <2>2. n <= Len(h) /\ Len(w) > n /\ \A k \in DOMAIN w : w[k] <= Len(b)
    BY DEF ListBegins
  <2> HIDE DEF w, h
  <2>3. Len(w) \in Nat /\ Len(h) \in Nat /\ DOMAIN w = 1..Len(w) /\ \A k \in DOMAIN w : w[k] \in Nat
    BY <2>1
  <2>4. \A k \in DOMAIN w : w[k] \in 0..Len(b)
    BY <2>1, <2>2, <2>3
  <2>5. \A k \in 1..(n + 1) : k \in DOMAIN w
    BY <2>2, <2>3
  <2> QED BY <2>1, <2>2, <2>4, <2>5
<1>2. \A k \in 1..n : Readable(b, w[k]) /\ h[k] = Caught(b, w[k]) /\ w[k + 1] = AfterClause(b, w[k])
  BY ClauseIs DEF ListBegins
<1> HIDE DEF w, h
<1>3. 0 \in T
  <2>1. LastOnes(h, n, 0) = <<>>
    BY DEF LastOnes
  <2>2. (n - 0) + 1 = n + 1 /\ w[n + 1] \in 0..Len(b)
    BY <1>1
  <2>3. g[0][w[n + 1]] = <<w[n + 1], <<>>>>
    BY <2>2 DEF ReadRows
  <2> QED BY <2>1, <2>2, <2>3
<1>4. ASSUME NEW i \in 1..n, i - 1 \in T PROVE i \in T
  <2> DEFINE k == (n - i) + 1
             p == w[k]
             v == g[i - 1]
  <2>1. k \in 1..n /\ k \in 1..(n + 1) /\ (n - (i - 1)) + 1 = k + 1
    OBVIOUS
  <2>2. v[w[k + 1]] = <<w[n + 1], LastOnes(h, n, i - 1)>>
    BY <1>4, <2>1
  <2>3. LastOnes(h, n, i) = <<h[k]>> \o LastOnes(h, n, i - 1)
    BY <1>1, LastGrows
  <2>4. g[i] = ReadRow(b, v)
    BY DEF ReadRows
  <2> HIDE DEF k, v
  <2>5. p \in 0..Len(b) /\ Readable(b, p) /\ h[k] = Caught(b, p) /\ w[k + 1] = AfterClause(b, p)
    BY <1>1, <1>2, <2>1
  <2> HIDE DEF p
  <2> DEFINE q == ReadUleb(b, p).p
  <2>6. p < Len(b) /\ ReadUleb128(b, p) = ReadUleb(b, p) /\ q \in 0..Len(b)
    BY <2>5, ReadersAgree DEF Readable
  <2>7. ReadUleb128(b, q) = ReadUleb(b, q)
    <3>1. ReadUleb(b, q).ok
      BY <2>5 DEF Readable
    <3> HIDE DEF q
    <3> QED BY <2>6, <3>1, ReadersAgree
  <2>8. p # Len(b)
    <3>1. Len(b) \in Nat
      OBVIOUS
    <3> QED BY <2>5, <2>6, <3>1
  <2>9. ReadRow(b, v)[p] = <<v[AfterClause(b, p)][1], <<Caught(b, p)>> \o v[AfterClause(b, p)][2]>>
    BY <2>5, <2>6, <2>7, <2>8 DEF ReadRow, AfterClause, Caught
  <2>10. g[i][p] = <<w[n + 1], <<h[k]>> \o LastOnes(h, n, i - 1)>>
    BY <2>2, <2>4, <2>5, <2>9
  <2>11. g[i][w[(n - i) + 1]] = <<w[n + 1], LastOnes(h, n, i)>>
    BY <2>3, <2>10 DEF p, k
  <2>12. i \in 0..n
    OBVIOUS
  <2> QED BY <2>11, <2>12
<1>5. T \in SUBSET (0..n)
  OBVIOUS
<1> HIDE DEF T
<1>6. n \in T
  BY <1>3, <1>4, <1>5, Upward
<1>7. g[n][w[(n - n) + 1]] = <<w[n + 1], LastOnes(h, n, n)>>
  BY <1>6 DEF T
<1>8. (n - n) + 1 = 1
  OBVIOUS
<1> QED BY <1>7, <1>8 DEF w, h

\* The builder reads a whole list as the table means it.
LEMMA HandlerRead ==
    ASSUME NEW b \in Seq(U1), NEW l, l \in HandlerLists, WholeList(b, l)
    PROVE  l.at < Len(b) /\ ParseHandler(b, l.at) = l.handlers
<1> DEFINE n == TypedCount(b, l)
           size == ReadSleb(b, l.at)
           rest == IF size.v > 0 THEN 0 ELSE 1
           w == l.places
           h == l.handlers
           all == ReadUleb(b, w[n + 1])
<1>1. ListBegins(b, l, n) /\ Len(h) = n + rest /\ Len(w) = n + rest + 1
      /\ (rest = 1 => all.ok /\ h[n + 1] = <<CatchAll, all.v>> /\ w[n + 2] = all.p)
  BY DEF WholeList
<1>2. l.at \in 0..Len(b) /\ w \in Seq(Nat) /\ h \in Seq(Int \X Nat) /\ Len(b) \in Nat
  <2>1. l.at \in Nat /\ l.at <= Len(b)
    BY <1>1 DEF HandlerLists, ListBegins
  <2> QED BY <2>1 DEF HandlerLists
<1>3. size.ok /\ w[1] = size.p /\ \A k \in DOMAIN w : w[k] <= Len(b)
  BY <1>1 DEF ListBegins
<1>4. l.at < Len(b) /\ ReadSleb128(b, l.at) = size /\ size.v \in Int
  <2> HIDE DEF n, w, h, all, rest
  <2> QED BY <1>2, <1>3, ReadersAgree
<1>5. n = IF size.v < 0 THEN -size.v ELSE size.v
  BY DEF TypedCount
<1> HIDE DEF size
<1>6. n \in Nat /\ rest \in {0, 1} /\ (rest = 1 <=> size.v <= 0)
  BY <1>4, <1>5
<1> DEFINE typed == ReadClauses(b, size.p, n)
<1>7. ParseHandler(b, l.at) =
        typed[2] \o IF size.v <= 0 THEN <<<<CatchAll, ReadUleb128(b, typed[1]).v>>>> ELSE <<>>
  BY <1>4, <1>5 DEF ParseHandler
<1> HIDE DEF n
<1>8. typed = <<w[n + 1], LastOnes(h, n, n)>>
  <2>1. PICK g : ReadRows(b, n, g) /\ \A begin : ReadClauses(b, begin, n) = g[n][begin]
    BY <1>6, ReadClausesSolves
  <2>2. g[n][w[1]] = <<w[n + 1], LastOnes(h, n, n)>>
    BY <1>1, <1>6, <2>1, ClausesFollow
  <2> QED BY <1>3, <2>1, <2>2
<1> HIDE DEF typed, w, h, rest
<1>9. LastOnes(h, n, n) = [k \in 1..n |-> h[k]]
  <2>1. \A k \in 1..n : (n - n) + k = k
    BY <1>6
  <2> QED BY <2>1 DEF LastOnes
<1>10. DOMAIN h = 1..(n + rest) /\ \A k \in 1..(n + rest) : h[k] \in Int \X Nat
  BY <1>1, <1>2, <1>6
<1>11. CASE rest = 0
  <2>1. ParseHandler(b, l.at) = [k \in 1..n |-> h[k]] \o <<>>
    BY <1>6, <1>7, <1>8, <1>9, <1>11
  <2>2. h = [k \in 1..n |-> h[k]]
    BY <1>2, <1>6, <1>10, <1>11
  <2>3. h \o <<>> = h
    BY <1>2
  <2>4. ParseHandler(b, l.at) = h
    BY <2>1, <2>2, <2>3
  <2> QED BY <1>4, <2>4 DEF h
<1>12. CASE rest = 1
  <2> DEFINE s == [k \in 1..n |-> h[k]]
             q == s \o <<h[n + 1]>>
  <2>1. h[n + 1] = <<CatchAll, all.v>> /\ all.ok
    BY <1>1, <1>12
  <2>2. ReadUleb128(b, w[n + 1]) = all
    <3>1. w[n + 1] \in 0..Len(b)
      <4>1. n + 1 \in DOMAIN w /\ w[n + 1] \in Nat
        BY <1>1, <1>2, <1>6, <1>12
      <4> QED BY <1>2, <1>3, <4>1
    <3> QED BY <2>1, <3>1, ReadersAgree
  <2> HIDE DEF all
  <2>3. ParseHandler(b, l.at) = q
    <3>1. typed[1] = w[n + 1] /\ typed[2] = s
      BY <1>8, <1>9
    <3> HIDE DEF s
    <3> QED BY <1>6, <1>7, <1>12, <2>1, <2>2, <3>1
  <2>4. h[n + 1] \in Int \X Nat /\ \A k \in 1..n : h[k] \in Int \X Nat
    BY <1>6, <1>10, <1>12
  <2>5. s \in Seq(Int \X Nat) /\ Len(s) = n /\ \A k \in 1..n : s[k] = h[k]
    BY <1>6, <2>4
  <2> DEFINE x == h[n + 1]
  <2> HIDE DEF s, x
  <2>6. s \o <<x>> \in Seq(Int \X Nat) /\ Len(s \o <<x>>) = n + 1
        /\ (\A k \in 1..n : (s \o <<x>>)[k] = s[k]) /\ (s \o <<x>>)[n + 1] = x
    BY <1>6, <2>4, <2>5 DEF x
  <2>7. q = s \o <<x>>
    BY DEF x
  <2> HIDE DEF q
  <2>8. \A k \in 1..(n + 1) : q[k] = h[k]
    <3>1. \A k : k \in 1..(n + 1) <=> k \in 1..n \/ k = n + 1
      BY <1>6
    <3> QED BY <2>5, <2>6, <2>7, <3>1 DEF x
  <2>9. h = [k \in 1..(n + 1) |-> h[k]] /\ q = [k \in 1..(n + 1) |-> q[k]]
    <3>1. DOMAIN h = 1..(n + 1)
      BY <1>10, <1>12
    <3> QED BY <1>2, <1>6, <2>6, <2>7, <3>1
  <2>10. q = h
    BY <2>8, <2>9
  <2> QED BY <1>4, <2>3, <2>10 DEF h
<1> QED BY <1>6, <1>11, <1>12

\* The builder reads the try table of every accepted code item as it is meant.
LEMMA TriesRead ==
    ASSUME NEW c, TableTypes(c), SaidTruly(c), LegalTries(c),
           c.said.tries \in Seq([start : Nat, end : Nat, handlers : Seq(Int \X Nat)])
    PROVE  ParseExceptions(c) = c.said.tries
<1> DEFINE K == {t \in DOMAIN c.tries : c.tries[t].off < Len(c.bytes)}
           known == Chosen(c.tries, K)
           R == [start : Nat, end : Nat, handlers : Seq(Int \X Nat)]
           said == c.said.tries
<1>1. ASSUME NEW t \in DOMAIN c.tries
      PROVE  /\ t \in DOMAIN said /\ c.tries # <<>>
             /\ c.tries[t].off < Len(c.bytes)
             /\ said[t].start = c.tries[t].start /\ said[t].end = c.tries[t].start + c.tries[t].count
             /\ said[t].handlers = ParseHandler(c.bytes, c.tries[t].off)
  <2>1. c.tries # <<>> /\ c.said.ok
    BY <1>1 DEF LegalTries
  <2>2. Encoded(c)
    BY <2>1 DEF SaidTruly
  <2>3. PICK j \in DOMAIN c.said.lists : c.tries[t].off = c.said.lists[j].at
                                          /\ said[t].handlers = c.said.lists[j].handlers
    BY <2>2 DEF Encoded
  <2>4. c.bytes \in Seq(U1) /\ c.said.lists[j] \in HandlerLists /\ WholeList(c.bytes, c.said.lists[j])
    BY <2>2, <2>3 DEF Encoded, ListsFollow, TableTypes
  <2>5. c.said.lists[j].at < Len(c.bytes)
        /\ ParseHandler(c.bytes, c.said.lists[j].at) = c.said.lists[j].handlers
    BY <2>4, HandlerRead
  <2>6. t \in DOMAIN said /\ said[t].start = c.tries[t].start /\ said[t].end = c.tries[t].start + c.tries[t].count
    BY <2>2 DEF Encoded
  <2> QED BY <2>1, <2>3, <2>5, <2>6
<1>2. K = DOMAIN c.tries
  BY <1>1
<1>3. known = c.tries
  <2>1. Chosen(c.tries, DOMAIN c.tries) = c.tries
    BY ChosenAll DEF TableTypes
  <2> QED BY <1>2, <2>1
<1>4. DOMAIN said = DOMAIN c.tries
  <2>1. CASE c.tries = <<>>
    BY <2>1 DEF SaidTruly
  <2>2. CASE c.tries # <<>>
    BY <2>2 DEF SaidTruly, LegalTries, Encoded
  <2> QED BY <2>1, <2>2
<1>5. ParseExceptions(c) = [t \in DOMAIN known |->
           [start |-> known[t].start, end |-> known[t].start + known[t].count,
            handlers |-> ParseHandler(c.bytes, known[t].off)]]
  BY DEF ParseExceptions
<1>6. ASSUME NEW t \in DOMAIN said
      PROVE  said[t] = [start |-> c.tries[t].start, end |-> c.tries[t].start + c.tries[t].count,
                        handlers |-> ParseHandler(c.bytes, c.tries[t].off)]
  <2>1. said[t] \in R
    <3> HIDE DEF R
    <3>1. said \in Seq(R)
      BY DEF R
    <3> HIDE DEF said
    <3> QED BY <3>1
  <2>2. said[t] = [start |-> said[t].start, end |-> said[t].end, handlers |-> said[t].handlers]
    <3> DEFINE r == said[t]
    <3> HIDE DEF r
    <3>1. r \in R
      BY <2>1 DEF r
    <3>2. r = [start |-> r.start, end |-> r.end, handlers |-> r.handlers]
      BY <3>1
    <3> QED BY <3>2 DEF r
  <2> QED BY <1>1, <1>4, <2>2
<1>7. said = [t \in DOMAIN said |-> said[t]]
  OBVIOUS
<1> HIDE DEF said, known
<1> QED BY <1>3, <1>4, <1>5, <1>6, <1>7 DEF said

-----------------------------------------------------------------------------
(* The pipeline. *)

\* Every stage holds what its function made of the stages before it.
Stages ==
    /\ \E f \in DOMAIN Codes : code \in Codes[f]
    /\ strict \in BOOLEAN
    /\ pc \in {"verify", "rejected", "decode", "threw", "leaders", "exceptions", "split", "edges", "handlers",
               "entry", "done"}
    /\ pc \notin {"verify", "rejected"} => VerifyCodeItem(code, strict)
    /\ pc = "rejected" => ~VerifyCodeItem(code, strict)
    /\ pc = "threw" => ~DecodePass(code.units)[1]
    /\ pc \in {"leaders", "exceptions", "split", "edges", "handlers", "entry", "done"} =>
         DecodePass(code.units) = <<TRUE, ins>>
    /\ pc = "exceptions" => leaders = ComputeLeaders(code.units, ins)
    /\ pc \in {"split", "edges", "handlers", "entry", "done"} =>
         /\ tries = ParseExceptions(code)
         /\ leaders = ComputeLeaders(code.units, ins) \cup ExceptionLeaders(tries)
    /\ pc = "edges" => blocks = SplitIntoBlocks(ins, leaders, Len(code.units))
    /\ pc = "handlers" =>
         blocks = ComputeChildEdges(code.units, ins, SplitIntoBlocks(ins, leaders, Len(code.units)), HandlerOffs(tries))
    /\ pc \in {"entry", "done"} =>
         blocks = AttachExceptionHandlers(
                    ComputeChildEdges(code.units, ins, SplitIntoBlocks(ins, leaders, Len(code.units)),
                                      HandlerOffs(tries)), tries)
    /\ pc = "done" => entry = EntryBlock(ins, blocks)

\* The numbers that count in a code item.
LEMMA CodeTypes ==
    ASSUME \E f \in DOMAIN Codes : code \in Codes[f]
    PROVE  /\ code.regs \in Nat /\ code.outs \in Nat
           /\ code.units \in Seq(U2) /\ code.bytes \in Seq(U1) /\ code.tries \in Seq(TryItems)
           /\ Len(code.units) <= MaxUnits
BY CodesAssumption DEF CodeItems, TryItems, U2

\* What the assumptions say of its try table.
LEMMA TableGiven ==
    ASSUME \E f \in DOMAIN Codes : code \in Codes[f]
    PROVE  /\ TableTypes(code) /\ SaidTruly(code)
           /\ code.said.tries \in Seq([start : Nat, end : Nat, handlers : Seq(Int \X Nat)])
<1>1. SaidTruly(code)
  BY SaidAssumption
<1>2. code \in CodeItems
  BY CodesAssumption
<1>3. code.said.lists \in Seq(HandlerLists) /\ code.said.cut \in HandlerLists
      /\ code.said.tries \in Seq([start : Nat, end : Nat, handlers : Seq(Int \X Nat)])
  <2> HIDE DEF HandlerLists
  <2> QED BY <1>2 DEF CodeItems
<1>4. code.ids.type \in Nat
  BY <1>2 DEF CodeItems
<1> QED BY <1>1, <1>3, <1>4, CodeTypes DEF TableTypes

\* What the stages hold once the instructions are decoded.
LEMMA AfterDecoding ==
    ASSUME Stages, pc \in {"leaders", "exceptions", "split", "edges", "handlers", "entry", "done"}
    PROVE  code.units \in Seq(U2) /\ InsnList(code.units, 0, ins) /\ VerifyCodeItem(code, strict)
<1>1. code.units \in Seq(U2)
  BY CodeTypes DEF Stages
<1>2. DecodePass(code.units) = <<TRUE, ins>>
  BY DEF Stages
<1>3. InsnList(code.units, 0, DecodePass(code.units)[2])
  BY <1>1, DecodeMeans
<1>4. InsnList(code.units, 0, ins)
  BY <1>2, <1>3
<1>5. VerifyCodeItem(code, strict)
  BY DEF Stages
<1> QED BY <1>1, <1>4, <1>5

\* What they hold once the blocks are built.
LEMMA Blocked ==
    ASSUME Stages, pc \in {"entry", "done"}
    PROVE  /\ code.units \in Seq(U2) /\ InsnList(code.units, 0, ins)
           /\ LeadersOf(code.units, ins, leaders)
           /\ SplitLike(code.units, ins, leaders, blocks)
<1>1. code.units \in Seq(U2) /\ InsnList(code.units, 0, ins)
  BY AfterDecoding
<1>2. tries = ParseExceptions(code) /\ leaders = ComputeLeaders(code.units, ins) \cup ExceptionLeaders(tries)
  BY DEF Stages
<1>3. tries \in ParsedTries
  <2>1. code.bytes \in Seq(U1) /\ code.tries \in Seq(TryItems)
    BY CodeTypes DEF Stages
  <2> QED BY <1>2, <2>1, ParseExceptionsType
<1>4. LeadersOf(code.units, ins, leaders)
  BY <1>1, <1>2, <1>3, BuildLeaders
<1>5. blocks = AttachExceptionHandlers(
                 ComputeChildEdges(code.units, ins, SplitIntoBlocks(ins, leaders, Len(code.units)),
                                   HandlerOffs(tries)), tries)
  BY DEF Stages
<1>6. SplitLike(code.units, ins, leaders, blocks)
  BY <1>5, StagesKeepBlocks
<1> QED BY <1>1, <1>4, <1>6

\* Every stage of Build works on what the stages before it made, and none
\* after the decoder throws.
LEMMA StagesStep == Stages /\ [Next]_vars => Stages'
<1> SUFFICES ASSUME Stages, [Next]_vars PROVE Stages'
  OBVIOUS
<1>1. CASE Verify
  BY <1>1 DEF Stages, Verify
<1>2. CASE DecodeAllInsns
  <2>1. code.units \in Seq(U2)
    BY CodeTypes DEF Stages
  <2>2. DecodePass(code.units) = <<DecodePass(code.units)[1], DecodePass(code.units)[2]>>
        /\ DecodePass(code.units)[1] \in BOOLEAN
    BY <2>1, DecodeMeans
  <2>3. CASE DecodePass(code.units)[1]
    <3>1. pc' = "leaders" /\ ins' = DecodePass(code.units)[2] /\ pc = "decode" /\ code' = code /\ strict' = strict
      BY <1>2, <2>3 DEF DecodeAllInsns
    <3>2. DecodePass(code.units) = <<TRUE, ins'>>
      BY <2>2, <2>3, <3>1
    <3> QED BY <3>1, <3>2 DEF Stages
  <2>4. CASE ~DecodePass(code.units)[1]
    <3>1. pc' = "threw" /\ pc = "decode" /\ code' = code /\ strict' = strict
      BY <1>2, <2>4 DEF DecodeAllInsns
    <3> QED BY <2>4, <3>1 DEF Stages
  <2> QED BY <2>3, <2>4
<1>3. CASE FindLeaders
  BY <1>3 DEF Stages, FindLeaders
<1>4. CASE ReadTries
  BY <1>4 DEF Stages, ReadTries
<1>5. CASE Split
  BY <1>5 DEF Stages, Split
<1>6. CASE Connect
  BY <1>6 DEF Stages, Connect
<1>7. CASE Attach
  BY <1>7 DEF Stages, Attach
<1>8. CASE ChooseEntry
  <2>1. pc = "entry" /\ entry' = EntryBlock(ins, blocks)
        /\ UNCHANGED <<code, strict, ins, leaders, tries, blocks>>
        /\ pc' = IF ins # <<>> /\ entry' = 0 THEN "threw" ELSE "done"
    BY <1>8 DEF ChooseEntry
  <2>2. ins # <<>> => EntryBlock(ins, blocks) # 0
    BY <2>1, Blocked, EntryHoldsFirst
  <2>3. pc' = "done"
    BY <2>1, <2>2
  <2> QED BY <2>1, <2>3 DEF Stages
<1>9. CASE UNCHANGED vars
  BY <1>9 DEF Stages, vars
<1> QED BY <1>1, <1>2, <1>3, <1>4, <1>5, <1>6, <1>7, <1>8, <1>9 DEF Next

\* The builder's stages always hold what the code item determines.
THEOREM StagesInvariant == Spec => []Stages
<1>1. Init => Stages
  BY DEF Init, Stages
<1> QED BY <1>1, StagesStep, PTL DEF Spec

\* What the strict gate accepted is built without a throw, and every decoded
\* instruction lies in exactly one block, the first in the entry block.
THEOREM BodyKeptInvariant == Spec => []BodyKept
<1>1. Stages => BodyKept
  <2> SUFFICES ASSUME Stages PROVE BodyKept
    OBVIOUS
  <2>1. strict => pc # "threw"
    <3> SUFFICES ASSUME strict, pc = "threw" PROVE FALSE
      OBVIOUS
    <3>1. code.units \in Seq(U2)
      BY CodeTypes DEF Stages
    <3>2. VerifyInsns(code)
      BY DEF Stages, VerifyCodeItem
    <3>3. DecodePass(code.units)[1]
      BY <3>1, <3>2, StrictDecodes
    <3> QED BY <3>3 DEF Stages
  <2>2. ASSUME pc = "done"
        PROVE  /\ \A i \in DOMAIN ins :
                    Cardinality({b \in DOMAIN blocks : blocks[b].first # 0 /\ blocks[b].first <= i /\ i <= blocks[b].last}) = 1
               /\ ins # <<>> => blocks[entry].first = 1
    <3>1. /\ code.units \in Seq(U2) /\ LeadersOf(code.units, ins, leaders)
          /\ SplitLike(code.units, ins, leaders, blocks) /\ InsnList(code.units, 0, ins)
      BY <2>2, Blocked
    <3>2. ASSUME NEW i \in DOMAIN ins
          PROVE  Cardinality({b \in DOMAIN blocks : blocks[b].first # 0 /\ blocks[b].first <= i /\ i <= blocks[b].last}) = 1
      <4>1. i \in 1..Len(ins)
        BY <3>1 DEF InsnList
      <4>2. \E b \in DOMAIN blocks :
               {d \in DOMAIN blocks : blocks[d].first # 0 /\ blocks[d].first <= i /\ i <= blocks[d].last} = {b}
        BY <3>1, <4>1, OneBlock
      <4> QED BY <4>2, FS_Singleton
    <3>3. ins # <<>> => blocks[entry].first = 1
      <4>1. entry = EntryBlock(ins, blocks)
        BY <2>2 DEF Stages
      <4> QED BY <3>1, <4>1, EntryHoldsFirst
    <3> QED BY <3>2, <3>3
  <2> QED BY <2>1, <2>2 DEF BodyKept
<1> QED BY <1>1, StagesInvariant, PTL

\* Parsing a payload never reads past insns[], in the lenient mode too.
THEOREM PayloadReadsInBoundsInvariant == Spec => []PayloadReadsInBounds
<1>1. Stages => PayloadReadsInBounds
  <2> SUFFICES ASSUME Stages, pc = "done", NEW i \in DOMAIN ins
               PROVE  PayloadOf(code.units, ins[i]).read <= Len(code.units)
    BY DEF PayloadReadsInBounds
  <2>1. code.units \in Seq(U2) /\ InsnList(code.units, 0, ins)
    BY AfterDecoding
  <2>2. ins[i].payload \in Int
    <3>1. i \in 1..Len(ins)
      BY <2>1 DEF InsnList
    <3>2. ins[i] = RawIns(code.units, ins[i].off) /\ ins[i].off \in Nat
      BY <2>1, <3>1 DEF InsnList
    <3> QED BY <2>1, <3>2, RawTypes
  <2> QED BY <2>1, <2>2, PayloadOfInside
<1> QED BY <1>1, StagesInvariant, PTL

\* The strict gate's verdict is that of the sweep.
LEMMA StrictMeans ==
    ASSUME Stages, pc = "done", strict
    PROVE  /\ code.units \in Seq(U2) /\ Len(code.units) <= MaxUnits /\ VerifyInsns(code)
           /\ \A i \in 1..Len(ins) : ins[i].off \in Starts(code.units)
           /\ ComputeLeaders(code.units, ins) \in SUBSET leaders
<1>1. code.units \in Seq(U2) /\ Len(code.units) <= MaxUnits
  BY CodeTypes DEF Stages
<1>2. VerifyInsns(code)
  BY AfterDecoding DEF VerifyCodeItem
<1>3. DecodePass(code.units)[2] = ins
  <2>1. DecodePass(code.units) = <<TRUE, ins>>
    BY DEF Stages
  <2> QED BY <2>1
<1>4. \A i \in 1..Len(ins) : ins[i].off \in Starts(code.units)
  BY <1>1, <1>3, DecodeMeans
<1>5. ComputeLeaders(code.units, ins) \in SUBSET leaders
  BY DEF Stages
<1> QED BY <1>1, <1>2, <1>4, <1>5

\* The instruction control finds in a block is the one its start lands on.
LEMMA FirstInLands ==
    ASSUME Stages, pc = "done", HandlersOnInsns
    PROVE  \A b \in DOMAIN blocks : FirstIn[b] = Landing(ins, blocks[b].start)
<1> DEFINE H == HandlerOffs(tries)
<1>1. /\ code.units \in Seq(U2) /\ InsnList(code.units, 0, ins)
      /\ LeadersOf(code.units, ins, leaders)
      /\ SplitLike(code.units, ins, leaders, blocks)
  BY Blocked
<1>2. \A h \in H : \E i \in 1..Len(ins) : ins[i].off = h
  <2>1. DOMAIN ins = 1..Len(ins)
    BY <1>1, InsnOrder
  <2> QED BY <2>1 DEF HandlersOnInsns
<1>3. blocks = AttachExceptionHandlers(
                 ComputeChildEdges(code.units, ins, SplitIntoBlocks(ins, leaders, Len(code.units)), H), tries)
  BY DEF Stages
<1>4. ASSUME NEW b \in DOMAIN blocks, blocks[b].first = 0
      PROVE  \/ blocks[b].childs = <<>> /\ Landing(ins, blocks[b].end) = 0
             \/ /\ blocks[b].childs # <<>> /\ b + 1 \in DOMAIN blocks /\ blocks[b + 1].start = blocks[b].end
                /\ blocks[b].childs[1].to = b + 1
  <2>1. blocks[b].last = 0
    BY <1>1, <1>4, BlockHolds
  <2>2. blocks[b].childs = IF blocks[b].last = 0 THEN EmptyBlockEdges(blocks, b, H)
                           ELSE LastInsnEdges(code.units, blocks, b, ins[blocks[b].last])
    BY <1>3, FinishedChilds
  <2>3. blocks[b].childs = EmptyBlockEdges(blocks, b, H)
    BY <2>1, <2>2
  <2> HIDE DEF H
  <2> QED BY <1>1, <1>2, <1>4, <2>3, EmptyLeadsOn
<1>5. FirstIn = Behind(blocks)
  BY DEF Behind, FirstIn
<1> QED BY <1>1, <1>4, <1>5, BehindLands

\* The edges of a block and the successors of an instruction, as the lemmas
\* above speak of them.
LEMMA EdgesAre == \A b : Edges(b) = Out(blocks[b].childs, FirstIn)
BY DEF Edges, Out, Arriving

\* Of the instructions too.
LEMMA SuccessorsAre ==
    ASSUME Len(ins) \in Nat, DOMAIN ins = 1..Len(ins), NEW i
    PROVE  Successors(i) = Arriving(Leads(code.units, ins, ins[i]))
<1>1. ASSUME NEW t PROVE Land(t) = LandAt(ins, t)
  <2> DEFINE at == {j \in 1..Len(ins) : ins[j].off >= t}
  <2>1. Land(t) = IF t < 0 \/ at = {} THEN 0 ELSE CHOOSE k \in at : \A j \in at : k <= j
    BY DEF Land
  <2>2. LandAt(ins, t) = IF t < 0 THEN 0 ELSE IF at = {} THEN 0 ELSE CHOOSE k \in at : \A j \in at : k <= j
    BY DEF LandAt, Landing, FirstOf, From
  <2> HIDE DEF at
  <2> QED BY <2>1, <2>2
<1> DEFINE x == ins[i]
           u == code.units
           n1 == Land(x.off + x.len)
           t1 == Land(x.off + ExtractBranchOffset(DecodeInstruction(u, x.off)))
           c1 == {<<"case", k[1], IF x.off + k[2] < 0 THEN 0 ELSE Land(x.off + k[2])>> : k \in CasesAt(x.payload)}
           all == CASE x.op \in (14..17) \cup {39} -> {}
                    [] x.op \in 40..42 -> {<<"branch", 0, t1>>}
                    [] x.op \in 50..61 -> {<<"false", 0, n1>>, <<"branch", 0, t1>>}
                    [] x.op \in {43, 44} -> {<<"default", 0, n1>>} \cup c1
                    [] OTHER -> {<<"fall", 0, n1>>}
<1>2. Successors(i) = Arriving(all)
  BY DEF Successors, Arriving
<1>3. CasesAt(x.payload) = DeclaredCases(u, x.payload)
  BY DEF CasesAt, DeclaredCases
<1>4. c1 = LandedCases(u, ins, x)
  <2>1. \A t : (IF t < 0 THEN 0 ELSE Land(t)) = LandAt(ins, t)
    BY <1>1 DEF LandAt
  <2> QED BY <1>3, <2>1 DEF LandedCases
<1>5. all = Leads(u, ins, x)
  <2> HIDE DEF c1
  <2> QED BY <1>1, <1>4 DEF Leads
<1> HIDE DEF all
<1> QED BY <1>2, <1>5

\* The blocks pass control exactly as the instructions do.
THEOREM FlowExactInvariant == Spec => []FlowExact
<1>1. Stages => FlowExact
  <2> SUFFICES ASSUME Stages, pc = "done", strict, HandlersOnInsns, PayloadsFit, CasesDoNotWrap,
                      NEW b \in DOMAIN blocks, blocks[b].first # 0
               PROVE  /\ Edges(b) = Successors(blocks[b].last)
                      /\ \A i \in blocks[b].first..(blocks[b].last - 1) : Successors(i) = {<<"fall", 0, i + 1>>}
    BY DEF FlowExact
  <2> DEFINE i == blocks[b].last
             x == ins[i]
             u == code.units
  <2>1. /\ InsnList(u, 0, ins) /\ LeadersOf(u, ins, leaders) /\ SplitLike(u, ins, leaders, blocks)
    BY Blocked
  <2>2. /\ u \in Seq(U2) /\ Len(u) <= MaxUnits /\ VerifyInsns(code)
        /\ \A j \in 1..Len(ins) : ins[j].off \in Starts(u)
        /\ ComputeLeaders(u, ins) \in SUBSET leaders
    BY StrictMeans
  <2>3. \A d \in DOMAIN blocks : FirstIn[d] = Landing(ins, blocks[d].start)
    BY FirstInLands
  <2>4. i # 0 /\ i \in DOMAIN ins /\ Len(ins) \in Nat /\ DOMAIN ins = 1..Len(ins)
    <3>1. Len(ins) \in Nat /\ DOMAIN ins = 1..Len(ins)
      BY <2>1, <2>2, InsnOrder
    <3>2. i \in 1..Len(ins)
      BY <2>1, <2>2, BlockLands
    <3> QED BY <3>1, <3>2
  <2>5. IsSwitch(x.op) => CasesKept(u, x)
    <3> SUFFICES ASSUME IsSwitch(x.op) PROVE CasesKept(u, x)
      OBVIOUS
    <3>1. \/ Unit(u, x.payload) \notin {PackedMark, SparseMark}
          \/ x.payload + GetWidthFromBytecode(u, x.payload) <= Len(u)
      BY <2>4 DEF PayloadsFit
    <3>2. CasesAt(x.payload) = DeclaredCases(u, x.payload)
      BY DEF CasesAt, DeclaredCases
    <3>3. \A k \in CasesAt(x.payload) : Unsigned(x.off + k[2]) < Len(u) => Unsigned(x.off + k[2]) = x.off + k[2]
      BY <2>4 DEF CasesDoNotWrap
    <3> QED BY <3>1, <3>2, <3>3 DEF CasesKept
  <2>6. blocks[b].childs = LastInsnEdges(u, blocks, b, x)
    <3>1. blocks[b].childs = IF i = 0 THEN EmptyBlockEdges(blocks, b, HandlerOffs(tries))
                             ELSE LastInsnEdges(u, blocks, b, x)
      <4>1. blocks = AttachExceptionHandlers(
                       ComputeChildEdges(u, ins, SplitIntoBlocks(ins, leaders, Len(u)), HandlerOffs(tries)), tries)
        BY DEF Stages
      <4> QED BY <4>1, FinishedChilds
    <3> QED BY <2>4, <3>1
  <2>7. Out(LastInsnEdges(u, blocks, b, x), FirstIn) = Arriving(Leads(u, ins, x))
    <3>1. Built(code, ins, leaders, blocks, FirstIn)
      BY <2>1, <2>2, <2>3 DEF Built
    <3>2. Out(LastInsnEdges(code.units, blocks, b, ins[blocks[b].last]), FirstIn)
            = Arriving(Leads(code.units, ins, ins[blocks[b].last]))
      BY <2>5, <3>1, LastMatches
    <3> QED BY <3>2
  <2>8. Edges(b) = Successors(i)
    <3>1. Edges(b) = Out(blocks[b].childs, FirstIn)
      BY EdgesAre
    <3>2. Successors(i) = Arriving(Leads(u, ins, x))
      BY <2>4, SuccessorsAre
    <3> QED BY <2>6, <2>7, <3>1, <3>2
  <2>9. ASSUME NEW j \in blocks[b].first..(blocks[b].last - 1) PROVE Successors(j) = {<<"fall", 0, j + 1>>}
    <3>1. Arriving(Leads(u, ins, ins[j])) = {<<"fall", 0, j + 1>>}
      BY <2>1, <2>2, InsideFallsThrough
    <3>2. Successors(j) = Arriving(Leads(u, ins, ins[j]))
      BY <2>4, SuccessorsAre
    <3> QED BY <3>1, <3>2
  <2> QED BY <2>8, <2>9
<1> QED BY <1>1, StagesInvariant, PTL

\* The gate accepts exactly the legal code items: every instruction the sweep finds
\* lies inside insns[], names registers of the method only, in whatever format, and
\* its ids and target exist; the try table is whole, its clauses name types and
\* offsets that exist and its ranges lie inside insns[], in order.
THEOREM VerdictExactInvariant == Spec => []VerdictExact
<1>1. Stages => VerdictExact
  <2> SUFFICES ASSUME Stages, pc \in {"decode", "rejected"}
               PROVE  pc = "decode" <=>
                        /\ code.ins <= code.regs
                        /\ code.outs <= 5 \/ code.outs <= code.regs
                        /\ strict => LegalInsns(code)
                        /\ LegalTries(code)
    BY DEF VerdictExact
  <2>1. code.regs \in Nat /\ code.units \in Seq(U2) /\ code.outs \in Nat
    BY CodeTypes DEF Stages
  <2>2. pc = "decode" <=> VerifyCodeItem(code, strict)
    BY DEF Stages
  <2>3. VerifyInsns(code) <=> LegalInsns(code)
    BY <2>1, VerdictOnInsns
  <2>4. ~(code.outs > 5 /\ code.outs > code.regs) <=> code.outs <= 5 \/ code.outs <= code.regs
    BY <2>1
  <2>5. (code.tries # <<>> => VerifyTryTable(code)) <=> LegalTries(code)
    BY TableGiven, VerdictOnTable DEF Stages
  <2> QED BY <2>2, <2>3, <2>4, <2>5 DEF VerifyCodeItem
<1> QED BY <1>1, StagesInvariant, PTL

\* Every instruction a try range covers is in a block that lists the range's
\* clauses in order, each with the block that starts at its handler.
THEOREM CoveredKeepHandlersInvariant == Spec => []CoveredKeepHandlers
<1>1. Stages => CoveredKeepHandlers
  <2> SUFFICES ASSUME Stages, pc = "done",
                      NEW t \in DOMAIN code.said.tries, NEW b \in DOMAIN blocks,
                      NEW i \in blocks[b].first..blocks[b].last, i # 0,
                      code.said.tries[t].start <= ins[i].off, ins[i].off < code.said.tries[t].end
               PROVE  [h \in DOMAIN blocks[b].handlers |->
                         <<blocks[b].handlers[h][1], blocks[blocks[b].handlers[h][2]].start>>]
                      = code.said.tries[t].handlers
    BY DEF CoveredKeepHandlers
  <2> DEFINE u == code.units
             connected == ComputeChildEdges(u, ins, SplitIntoBlocks(ins, leaders, Len(u)), HandlerOffs(tries))
             hs == tries[t].handlers
  <2>1. /\ tries = ParseExceptions(code) /\ code.said.tries = tries
        /\ leaders = ComputeLeaders(u, ins) \cup ExceptionLeaders(tries)
        /\ blocks = AttachExceptionHandlers(connected, tries)
    <3>1. VerifyCodeItem(code, strict)
      BY AfterDecoding
    <3>2. LegalTries(code)
      BY <3>1, TableGiven, VerdictOnTable DEF Stages, VerifyCodeItem
    <3>3. code.said.tries = ParseExceptions(code)
      BY <3>2, TableGiven, TriesRead DEF Stages
    <3> QED BY <3>3 DEF Stages
  <2>2. /\ u \in Seq(U2) /\ LeadersOf(u, ins, leaders) /\ SplitLike(u, ins, leaders, blocks)
    BY Blocked
  <2>3. SplitLike(u, ins, leaders, connected)
    BY StagesKeepBlocks
  <2>4. /\ DOMAIN blocks = DOMAIN connected
        /\ blocks[b].handlers = HandlersFrom(connected, b, tries)
    BY <2>1, FinishedHandlers
  <2>5. \A d \in DOMAIN connected : /\ blocks[d].start = connected[d].start
                                    /\ blocks[d].first = connected[d].first /\ blocks[d].last = connected[d].last
    <3> HIDE DEF connected
    <3> QED BY <2>2, <2>3, <2>4 DEF SplitLike
  <2> HIDE DEF connected
  <2>6. code.tries \in Seq(TryItems) /\ code.bytes \in Seq(U1) /\ tries \in ParsedTries
    <3>1. code.bytes \in Seq(U1) /\ code.tries \in Seq(TryItems)
      BY CodeTypes DEF Stages
    <3> QED BY <2>1, <3>1, ParseExceptionsType
  <2>7. PICK offsets : TriesOk(code, offsets)
    <3>1. CASE code.tries = <<>>
      BY <3>1 DEF TriesOk
    <3>2. CASE code.tries # <<>>
      <4>1. VerifyCodeItem(code, strict)
        BY AfterDecoding
      <4> QED BY <3>2, <4>1 DEF VerifyCodeItem, VerifyTryTable
    <3> QED BY <3>1, <3>2
  <2>8. /\ HandlersFrom(connected, b, tries) = Kept(connected, hs)
        /\ \A k \in 1..Len(hs) :
             /\ FindBlockId(connected, hs[k][2]) \in DOMAIN connected
             /\ connected[FindBlockId(connected, hs[k][2])].start = hs[k][2]
    <3>1. Covers(tries, t, ins, i, connected, b)
      BY <2>1, <2>4, <2>5 DEF Covers
    <3>2. BlocksLed(tries, u, ins, leaders, connected)
      BY <2>1, <2>2, <2>3 DEF BlocksLed
    <3>3. RangesRead(code, tries)
      BY <2>1, <2>6, <2>7 DEF RangesRead
    <3>4. KeptWhole(connected, b, tries, t)
      BY <3>1, <3>2, <3>3, CoveredKept
    <3> QED BY <3>4 DEF KeptWhole
  <2>9. hs \in Seq(Int \X Int) /\ hs = code.said.tries[t].handlers
    <3> DEFINE R == [start : Nat, end : Nat, handlers : Clauses]
    <3>1. tries \in Seq(R) /\ t \in DOMAIN tries
      BY <2>1, <2>6 DEF ParsedTries
    <3>2. \A r \in R : r.handlers \in Seq(Int \X Int)
      BY DEF Clauses
    <3> HIDE DEF R
    <3>3. tries[t] \in R
      BY <3>1
    <3> QED BY <2>1, <3>2, <3>3
  <2> DEFINE got == blocks[b].handlers
  <2>10. got = Kept(connected, hs)
    BY <2>4, <2>8
  <2> HIDE DEF hs, got
  <2>11. DOMAIN got = 1..Len(hs)
    BY <2>10 DEF Kept
  <2>12. ASSUME NEW k \in 1..Len(hs) PROVE <<got[k][1], blocks[got[k][2]].start>> = hs[k]
    <3>1. got[k][1] = hs[k][1] /\ got[k][2] = FindBlockId(connected, hs[k][2])
      BY <2>10 DEF Kept
    <3>2. blocks[got[k][2]].start = hs[k][2]
      BY <2>5, <2>8, <3>1
    <3>3. hs[k] = <<hs[k][1], hs[k][2]>>
      <4>1. hs[k] \in Int \X Int
        BY <2>9
      <4> QED BY <4>1
    <3> QED BY <3>1, <3>2, <3>3
  <2>13. hs = [k \in 1..Len(hs) |-> hs[k]]
    BY <2>9
  <2>14. [k \in DOMAIN got |-> <<got[k][1], blocks[got[k][2]].start>>] = hs
    BY <2>11, <2>12, <2>13
  <2> QED BY <2>9, <2>14 DEF got
<1> QED BY <1>1, StagesInvariant, PTL
=============================================================================
