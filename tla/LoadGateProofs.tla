--------------------------- MODULE LoadGateProofs ---------------------------
(***************************************************************************)
(* The load boundary reports what ART would open, lets the first           *)
(* declaration of a class win and hands the core copies that split into    *)
(* the accepted dexes exactly where they are closed, for any sources,      *)
(* images and order of the pool's work.                                    *)
(*                                                                         *)
(* First come facts about its operators: how an image is split into dexes, *)
(* what the rules make of their verdicts, which ids they get, what is kept *)
(* of an image and which slots the core builds for it.                     *)
(***************************************************************************)
EXTENDS LoadGate, FiniteSetTheorems, SequenceTheorems, WellFoundedInduction, TLAPS

-----------------------------------------------------------------------------
(* Numbers and lists. *)

\* A set of numbers that is not empty has a least element.
LEMMA Least ==
    ASSUME NEW T \in SUBSET Nat, T # {}
    PROVE  \E x \in T : \A y \in T : x <= y
<1> DEFINE R == OpToRel(<, Nat)
<1>1. PICK x \in T : \A y \in T : <<y, x>> \notin R
  <2>1. IsWellFoundedOn(R, Nat)
    BY NatLessThanWellFounded
  <2> HIDE DEF R
  <2> QED BY <2>1, WFMin, Zenon
<1>2. \A y \in T : <<y, x>> \in Nat \X Nat /\ (y < x => <<y, x>> \in R)
  BY DEF OpToRel
<1> HIDE DEF R
<1>3. ASSUME NEW y \in T PROVE x <= y
  <2>1. ~(y < x)
    BY <1>1, <1>2, Zenon
  <2>2. x \in Nat /\ y \in Nat
    OBVIOUS
  <2> QED BY <2>1, <2>2, SMT
<1> QED BY <1>3, Zenon

\* How many numbers of a set come before one.
Before(K, i) == Cardinality({j \in K : j < i})

\* Positions of a list are counted by those before them: each has its own count.
LEMMA Places ==
    ASSUME NEW n \in Nat, NEW K \in SUBSET (1..n)
    PROVE  /\ IsFiniteSet(K) /\ Cardinality(K) \in Nat
           /\ \A i \in Int : Before(K, i) \in 0..Cardinality(K)
           /\ \A i \in K : Before(K, i) < Cardinality(K)
           /\ \A i \in K, j \in Int : i < j => Before(K, i) < Before(K, j)
           /\ \A d \in 0..(Cardinality(K) - 1) : \E i \in K : Before(K, i) = d
<1> DEFINE c == Cardinality(K)
           under(i) == {j \in K : j < i}
<1>1. IsFiniteSet(K) /\ c \in Nat
  <2>1. IsFiniteSet(1..n)
    BY FS_Interval
  <2> QED BY <2>1, FS_Subset, FS_CardinalityType
<1>2. ASSUME NEW i \in Int
      PROVE  IsFiniteSet(under(i)) /\ Before(K, i) = Cardinality(under(i)) /\ Before(K, i) \in 0..c
  <2>1. under(i) \in SUBSET K
    OBVIOUS
  <2>2. IsFiniteSet(under(i)) /\ Cardinality(under(i)) <= c
    BY <1>1, <2>1, FS_Subset
  <2>3. Cardinality(under(i)) \in Nat
    BY <2>2, FS_CardinalityType
  <2> QED BY <1>1, <2>2, <2>3 DEF Before
<1>3. ASSUME NEW i \in K PROVE Before(K, i) < c
  <2>1. i \in Int /\ under(i) \in SUBSET K /\ i \notin under(i)
    OBVIOUS
  <2>2. Cardinality(under(i)) # c
    <3> HIDE DEF under
    <3> QED BY <1>1, <2>1, FS_Subset
  <2> QED BY <1>1, <1>2, <2>1, <2>2
<1>4. ASSUME NEW i \in K, NEW j \in Int, i < j PROVE Before(K, i) < Before(K, j)
  <2>0. i \in Int /\ \A k \in K : k \in Int
    OBVIOUS
  <2>5. \A k \in K : k < i => k < j
    BY <1>4, <2>0
  <2>1. i \in Int /\ under(i) \in SUBSET under(j) /\ i \in under(j) /\ i \notin under(i)
    <3>1. ~(i < i)
      BY <2>0
    <3> QED BY <1>4, <2>0, <2>5, <3>1
  <2>2. IsFiniteSet(under(j)) /\ IsFiniteSet(under(i))
    BY <1>2, <2>1
  <2>3. Cardinality(under(i)) <= Cardinality(under(j)) /\ Cardinality(under(i)) # Cardinality(under(j))
    <3> HIDE DEF under
    <3> QED BY <2>1, <2>2, FS_Subset
  <2>4. Before(K, i) \in 0..c /\ Before(K, j) \in 0..c
        /\ Before(K, i) = Cardinality(under(i)) /\ Before(K, j) = Cardinality(under(j))
    BY <1>2, <2>1
  <2> HIDE DEF under
  <2> QED BY <1>1, <2>3, <2>4
<1>5. ASSUME NEW d \in 0..(c - 1) PROVE \E i \in K : Before(K, i) = d
  <2> DEFINE D == 0..(c - 1)
             f == [i \in K |-> Before(K, i)]
  <2>1. IsFiniteSet(D) /\ Cardinality(D) = c
    BY <1>1, FS_Interval
  <2>0. \A i \in K : i \in Int /\ Before(K, i) \in 0..c
    <3> HIDE DEF under, c
    <3> QED BY <1>2
  <2>2. \A i \in K : Before(K, i) \in D
    <3> HIDE DEF under
    <3> QED BY <1>1, <1>3, <2>0
  <2>3. \A i, j \in K : Before(K, i) = Before(K, j) => i = j
    <3> SUFFICES ASSUME NEW i \in K, NEW j \in K, Before(K, i) = Before(K, j), i # j PROVE FALSE
      OBVIOUS
    <3>1. i \in Int /\ j \in Int /\ (i < j \/ j < i)
      OBVIOUS
    <3>2. Before(K, i) \in Int
      BY <1>1, <2>0
    <3> QED BY <1>4, <3>1, <3>2
  <2>4. f \in Injection(K, D)
    BY <2>2, <2>3 DEF Injection, IsInjective
  <2>5. f \in Surjection(K, D)
    <3> HIDE DEF D, f
    <3> QED BY <1>1, <2>1, <2>4, FS_Injection
  <2> QED BY <2>5 DEF Surjection
<1> QED BY <1>1, <1>2, <1>3, <1>4, <1>5

-----------------------------------------------------------------------------
(* The walk over the dexes of an image. *)

\* The offsets w are the dexes of the image from offset off on: each begins where
\* the one before ends, and none fits behind the last.
WalkFrom(img, off, w) ==
    /\ w \in Seq(0..Len(img))
    /\ IF w = <<>> THEN ~Fits(img, off) ELSE w[1] = off
    /\ \A i \in 1..Len(w) :
         /\ Fits(img, w[i])
         /\ IF i < Len(w) THEN w[i + 1] = w[i] + Unit(img, w[i]).size
            ELSE ~Fits(img, w[i] + Unit(img, w[i]).size)

\* A dex that fits has a size and ends in the image.
LEMMA FitsMeans ==
    ASSUME NEW img \in Seq(Header), NEW off \in Nat, Fits(img, off)
    PROVE  /\ off \in 0..(Len(img) - 1)
           /\ Unit(img, off) \in Header /\ Unit(img, off).size \in Nat \ {0}
           /\ off + Unit(img, off).size \in (off + 1)..Len(img)
<1>1. off < Len(img) /\ Unit(img, off).size >= 1 /\ off + Unit(img, off).size <= Len(img)
  BY DEF Fits
<1>2. Len(img) \in Nat /\ off + 1 \in 1..Len(img)
  BY <1>1
<1>3. Unit(img, off) \in Header
  BY <1>2 DEF Unit
<1>4. Unit(img, off).size \in Nat
  BY <1>3 DEF Header
<1> QED BY <1>1, <1>2, <1>3, <1>4

\* A dex in front of a walk.
LEMMA WalkGrows ==
    ASSUME NEW img \in Seq(Header), NEW off \in 0..Len(img), Fits(img, off),
           NEW w, WalkFrom(img, off + Unit(img, off).size, w)
    PROVE  WalkFrom(img, off, <<off>> \o w)
<1> DEFINE next == off + Unit(img, off).size
           v == <<off>> \o w
<1>1. off \in Nat /\ next \in 0..Len(img)
  BY FitsMeans
<1>2. /\ v \in Seq(0..Len(img)) /\ Len(v) = Len(w) + 1 /\ v[1] = off /\ v # <<>>
      /\ \A i \in 1..Len(w) : v[i + 1] = w[i]
      /\ Len(w) \in Nat
  <2>1. <<off>> \in Seq(0..Len(img)) /\ Len(<<off>>) = 1 /\ w \in Seq(0..Len(img))
    BY DEF WalkFrom
  <2>2. /\ v \in Seq(0..Len(img)) /\ Len(v) = 1 + Len(w) /\ Len(w) \in Nat
        /\ \A i \in 1..(1 + Len(w)) : v[i] = IF i <= 1 THEN <<off>>[i] ELSE w[i - 1]
    BY <2>1, ConcatProperties
  <2> HIDE DEF v
  <2> QED BY <2>2
<1> HIDE DEF v
<1>3. ASSUME NEW i \in 1..Len(v)
      PROVE  /\ Fits(img, v[i])
             /\ IF i < Len(v) THEN v[i + 1] = v[i] + Unit(img, v[i]).size
                ELSE ~Fits(img, v[i] + Unit(img, v[i]).size)
  <2>1. CASE i = 1 /\ w = <<>>
    BY <1>2, <2>1 DEF WalkFrom
  <2>2. CASE i = 1 /\ w # <<>>
    <3>1. 1 \in 1..Len(w) /\ w[1] = next
      BY <1>2, <2>2 DEF WalkFrom
    <3> QED BY <1>2, <2>2, <3>1
  <2>3. CASE i # 1
    <3> DEFINE j == i - 1
    <3>1. j \in 1..Len(w) /\ v[i] = w[j] /\ (i < Len(v) => j < Len(w) /\ v[i + 1] = w[j + 1])
          /\ (j < Len(w) => i < Len(v))
      <4>1. j \in 1..Len(w) /\ i = j + 1
        BY <1>2, <2>3
      <4>2. v[j + 1] = w[j]
        BY <1>2, <4>1
      <4>3. j + 1 \in 1..Len(w) => v[(j + 1) + 1] = w[j + 1]
        BY <1>2
      <4> HIDE DEF j
      <4> QED BY <1>2, <4>1, <4>2, <4>3
    <3> HIDE DEF j
    <3> QED BY <3>1 DEF WalkFrom
  <2> QED BY <2>1, <2>2, <2>3
<1>4. v \in Seq(0..Len(img)) /\ IF v = <<>> THEN ~Fits(img, off) ELSE v[1] = off
  BY <1>2
<1>5. WalkFrom(img, off, v)
  BY <1>3, <1>4 DEF WalkFrom
<1> QED BY <1>5 DEF v

\* The recursion of both splits, which makes g[off] of the dex at off.
Splits(img, g, f) ==
    f = [off \in 0..Len(img) |->
            IF Fits(img, off) THEN <<g[off]>> \o f[off + Unit(img, off).size] ELSE <<>>]

\* It has a solution.
LEMMA SplitExists ==
    ASSUME NEW img \in Seq(Header), NEW g
    PROVE  \E f : Splits(img, g, f)
<1> DEFINE n == Len(img)
           Item(f, off) == IF Fits(img, off) THEN <<g[off]>> \o f[off + Unit(img, off).size]
                           ELSE <<>>
           Solves(f, k) == f = [off \in (n - k)..n |-> Item(f, off)]
           T == {k \in 0..n : ~ \E f : Solves(f, k)}
<1>1. n \in Nat
  OBVIOUS
<1>2. SUFFICES T = {}
  <2>1. n \notin T /\ n \in 0..n
    <3> HIDE DEF T
    <3> QED BY <1>1, <1>2
  <2>2. PICK f : Solves(f, n)
    BY <2>1
  <2>3. (n - n)..n = 0..Len(img)
    BY <1>1
  <2> QED BY <2>2, <2>3 DEF Splits
<1>3. SUFFICES ASSUME T # {} PROVE FALSE
  OBVIOUS
<1>4. PICK k \in T : \A j \in T : k <= j
  <2>1. T \in SUBSET Nat
    BY <1>1
  <2> QED BY <1>3, <2>1, Least
<1>5. k \in 0..n /\ ~ \E f : Solves(f, k)
  OBVIOUS
<1>6. CASE k = 0
  <2>1. ~Fits(img, n)
    BY <1>1 DEF Fits
  <2> DEFINE f == [off \in (n - k)..n |-> <<>>]
  <2>2. \A off \in (n - k)..n : off = n
    BY <1>1, <1>6
  <2>3. \A off \in (n - k)..n : Item(f, off) = <<>>
    BY <2>1, <2>2
  <2>4. f = [off \in (n - k)..n |-> Item(f, off)]
    BY <2>3
  <2> QED BY <1>5, <2>4
<1>7. CASE k # 0
  <2>1. k - 1 \in 0..n /\ k - 1 \notin T
    <3> HIDE DEF T
    <3> QED BY <1>1, <1>4, <1>5, <1>7
  <2>2. PICK f : Solves(f, k - 1)
    BY <2>1
  <2> DEFINE h == [off \in (n - k)..n |-> IF off = n - k THEN Item(f, off) ELSE f[off]]
  <2>3. ASSUME NEW off \in (n - k)..n, Fits(img, off)
        PROVE  LET next == off + Unit(img, off).size
               IN  next \in (n - k + 1)..n /\ h[next] = f[next]
    <3>1. off \in Nat
      BY <1>1, <1>5
    <3>2. off + Unit(img, off).size \in (off + 1)..n
      BY <2>3, <3>1, FitsMeans
    <3> QED BY <1>1, <1>5, <3>1, <3>2
  <2>4. ASSUME NEW off \in (n - k)..n PROVE h[off] = Item(h, off)
    <3>1. Item(h, off) = Item(f, off)
      <4> HIDE DEF h
      <4>1. CASE Fits(img, off)
        BY <2>3, <4>1
      <4> QED BY <4>1
    <3>2. CASE off = n - k
      BY <3>1, <3>2
    <3>3. CASE off # n - k
      <4>1. off \in (n - (k - 1))..n
        BY <1>1, <1>5, <3>3
      <4>2. f[off] = Item(f, off)
        <5> HIDE DEF Item
        <5> QED BY <2>2, <4>1
      <4> QED BY <3>1, <3>3, <4>2
    <3> QED BY <3>2, <3>3
  <2>5. Solves(h, k)
    <3> HIDE DEF Item
    <3> QED BY <2>4
  <2> QED BY <1>5, <2>5
<1> QED BY <1>6, <1>7

\* Its solution lists what g makes of the dexes of a walk.
LEMMA SplitIsWalk ==
    ASSUME NEW img \in Seq(Header), NEW g, NEW f, Splits(img, g, f)
    PROVE  \E w : WalkFrom(img, 0, w) /\ f[0] = [i \in 1..Len(w) |-> g[w[i]]]
<1> DEFINE n == Len(img)
           Lists(off) == \E w : WalkFrom(img, off, w) /\ f[off] = [i \in 1..Len(w) |-> g[w[i]]]
           T == {k \in 0..n : ~Lists(n - k)}
<1>0. f = [off \in 0..n |-> IF Fits(img, off) THEN <<g[off]>> \o f[off + Unit(img, off).size]
                          ELSE <<>>]
  BY DEF Splits
<1> HIDE DEF Lists
<1>1. n \in Nat
  OBVIOUS
<1>2. SUFFICES T = {}
  <2>1. n \notin T /\ n \in 0..n
    <3> HIDE DEF T
    <3> QED BY <1>1, <1>2
  <2>2. n - n = 0 /\ Lists(n - n)
    BY <1>1, <2>1
  <2> QED BY <2>2 DEF Lists
<1>3. SUFFICES ASSUME T # {} PROVE FALSE
  OBVIOUS
<1>4. PICK k \in T : \A j \in T : k <= j
  <2>1. T \in SUBSET Nat
    BY <1>1
  <2> QED BY <1>3, <2>1, Least
<1> DEFINE off == n - k
<1>5. k \in 0..n /\ off \in 0..n /\ ~Lists(off)
  BY <1>1
<1>6. CASE ~Fits(img, off)
  <2>1. f[off] = <<>>
    BY <1>0, <1>5, <1>6
  <2>2. WalkFrom(img, off, <<>>) /\ Len(<<>>) = 0
    BY <1>6 DEF WalkFrom
  <2>3. [i \in 1..Len(<<>>) |-> g[<<>>[i]]] = <<>>
    OBVIOUS
  <2> QED BY <1>5, <2>1, <2>2, <2>3 DEF Lists
<1>7. CASE Fits(img, off)
  <2> DEFINE next == off + Unit(img, off).size
  <2>1. next \in (off + 1)..n
    BY <1>1, <1>5, <1>7, FitsMeans
  <2>2. Lists(next)
    <3>1. n - next \in 0..n /\ n - (n - next) = next /\ n - next < k
      BY <1>1, <1>5, <2>1
    <3>2. n - next \notin T
      <4> HIDE DEF T
      <4> QED BY <1>1, <1>4, <1>5, <3>1
    <3> QED BY <3>1, <3>2
  <2>3. PICK w : WalkFrom(img, next, w) /\ f[next] = [i \in 1..Len(w) |-> g[w[i]]]
    BY <2>2 DEF Lists
  <2> DEFINE v == <<off>> \o w
             S == {g[o] : o \in 0..n}
  <2>4. WalkFrom(img, off, v)
    BY <1>5, <1>7, <2>3, WalkGrows
  <2>5. f[off] = <<g[off]>> \o f[next]
    BY <1>0, <1>5, <1>7
  <2>6. w \in Seq(0..n) /\ Len(w) \in Nat /\ f[next] \in Seq(S) /\ Len(f[next]) = Len(w)
    <3>1. w \in Seq(0..n)
      BY <2>3 DEF WalkFrom
    <3>2. \A i \in 1..Len(w) : g[w[i]] \in S
      BY <3>1
    <3> HIDE DEF S
    <3> QED BY <2>3, <3>1, <3>2
  <2>7. <<off>> \in Seq(0..n) /\ <<g[off]>> \in Seq(S)
    BY <1>5
  <2>8. /\ Len(v) = 1 + Len(w)
        /\ \A i \in 1..(1 + Len(w)) : v[i] = IF i <= 1 THEN <<off>>[i] ELSE w[i - 1]
    BY <2>6, <2>7, ConcatProperties
  <2>9. /\ f[off] \in Seq(S) /\ Len(f[off]) = 1 + Len(w)
        /\ \A i \in 1..(1 + Len(w)) :
             f[off][i] = IF i <= 1 THEN <<g[off]>>[i] ELSE f[next][i - 1]
    <3> HIDE DEF S, next
    <3>1. LET c == <<g[off]>> \o f[next]
          IN  /\ c \in Seq(S) /\ Len(c) = 1 + Len(f[next])
              /\ \A i \in 1..(1 + Len(f[next])) :
                   c[i] = IF i <= 1 THEN <<g[off]>>[i] ELSE f[next][i - 1]
      BY <2>6, <2>7, ConcatProperties
    <3> QED BY <2>5, <2>6, <3>1
  <2>10. ASSUME NEW i \in 1..(1 + Len(w)) PROVE f[off][i] = g[v[i]]
    <3>1. CASE i = 1
      BY <2>8, <2>9, <3>1
    <3>2. CASE i # 1
      <4>1. i - 1 \in 1..Len(w) /\ ~(i <= 1)
        BY <2>6, <3>2
      <4>2. f[next][i - 1] = g[w[i - 1]]
        <5> HIDE DEF next, S
        <5> QED BY <2>3, <4>1
      <4> HIDE DEF next, v, S, off
      <4> QED BY <2>8, <2>9, <4>1, <4>2
    <3> QED BY <3>1, <3>2
  <2>11. f[off] = [i \in 1..Len(v) |-> g[v[i]]]
    <3> DEFINE F == f[off]
               m == Len(v)
    <3>1. F \in Seq(S) /\ Len(F) = m
      BY <2>8, <2>9
    <3>2. \A i \in 1..m : F[i] = g[v[i]]
      <4> HIDE DEF v, F, off
      <4> QED BY <2>8, <2>10 DEF F
    <3>3. F = [i \in 1..m |-> g[v[i]]]
      <4> HIDE DEF F, m, v, S
      <4> QED BY <3>1, <3>2
    <3> QED BY <3>3
  <2> QED BY <1>5, <2>4, <2>11 DEF Lists
<1> QED BY <1>6, <1>7

\* The core's split of an image is a walk over it.
LEMMA OffsetsWalk ==
    ASSUME NEW img \in Seq(Header)
    PROVE  WalkFrom(img, 0, ParseLogicalDexOffsets(img))
<1> DEFINE n == Len(img)
           g == [off \in 0..n |-> off]
           Is(f) == f = [off \in 0..n |->
                           IF Fits(img, off) THEN <<off>> \o f[off + Unit(img, off).size]
                           ELSE <<>>]
           offs == CHOOSE f : Is(f)
<1>1. \A f : Is(f) <=> Splits(img, g, f)
  BY DEF Splits
<1>2. Splits(img, g, offs)
  <2> HIDE DEF Is
  <2> QED BY <1>1, SplitExists
<1>4. ParseLogicalDexOffsets(img) = offs[0]
  BY DEF ParseLogicalDexOffsets
<1>5. PICK w : WalkFrom(img, 0, w) /\ offs[0] = [i \in 1..Len(w) |-> g[w[i]]]
  <2> HIDE DEF offs, g
  <2> QED BY <1>2, SplitIsWalk
<1>6. [i \in 1..Len(w) |-> g[w[i]]] = w
  <2>1. w \in Seq(0..n)
    BY <1>5 DEF WalkFrom
  <2> QED BY <2>1
<1> QED BY <1>4, <1>5, <1>6

\* An image has one walk.
LEMMA OneWalk ==
    ASSUME NEW img \in Seq(Header), NEW off, NEW v, NEW w,
           WalkFrom(img, off, v), WalkFrom(img, off, w)
    PROVE  v = w
<1>1. v \in Seq(0..Len(img)) /\ w \in Seq(0..Len(img)) /\ Len(v) \in Nat /\ Len(w) \in Nat
  BY DEF WalkFrom
<1>2. v = <<>> <=> w = <<>>
  <2>1. ASSUME NEW u \in {v, w}, u # <<>> PROVE Fits(img, off)
    <3>1. WalkFrom(img, off, u) /\ u \in Seq(0..Len(img))
      BY <1>1
    <3>2. u[1] = off /\ \A i \in 1..Len(u) : Fits(img, u[i])
      BY <2>1, <3>1 DEF WalkFrom
    <3>3. 1 \in 1..Len(u)
      <4> DEFINE S == 0..Len(img)
      <4>1. u \in Seq(S) /\ u # <<>>
        BY <2>1, <3>1
      <4> HIDE DEF S
      <4> QED BY <4>1
    <3> QED BY <3>2, <3>3
  <2> QED BY <2>1 DEF WalkFrom
<1> DEFINE Agree(i) == (i <= Len(v) <=> i <= Len(w)) /\ (i <= Len(v) => v[i] = w[i])
           T == {i \in Nat \ {0} : ~Agree(i)}
<1>3. T = {}
  <2>1. SUFFICES ASSUME T # {} PROVE FALSE
    OBVIOUS
  <2>2. PICK k \in T : \A j \in T : k <= j
    BY <2>1, Least
  <2>3. k \in Nat \ {0} /\ ~Agree(k)
    OBVIOUS
  <2>4. CASE k = 1
    <3>1. (v # <<>> => v[1] = off) /\ (w # <<>> => w[1] = off)
      BY DEF WalkFrom
    <3>2. (1 <= Len(v) <=> v # <<>>) /\ (1 <= Len(w) <=> w # <<>>)
      BY <1>1
    <3> QED BY <1>2, <2>3, <2>4, <3>1, <3>2
  <2>5. CASE k # 1
    <3> DEFINE j == k - 1
    <3>1. j \in Nat \ {0} /\ j \notin T /\ k = j + 1
      <4> HIDE DEF T
      <4> QED BY <2>2, <2>3, <2>5
    <3>2. (j <= Len(v) <=> j <= Len(w)) /\ (j <= Len(v) => v[j] = w[j])
      <4> HIDE DEF j
      <4> QED BY <3>1
    <3> HIDE DEF j, T
    <3>3. ~(j <= Len(v)) => ~(k <= Len(v)) /\ ~(k <= Len(w))
      BY <1>1, <3>1, <3>2
    <3>4. CASE j <= Len(v)
      <4>1. j \in 1..Len(v) /\ j \in 1..Len(w) /\ v[j] = w[j]
        BY <1>1, <3>1, <3>2, <3>4
      <4> DEFINE next == v[j] + Unit(img, v[j]).size
      <4>2. IF j < Len(v) THEN v[j + 1] = next ELSE ~Fits(img, next)
        BY <4>1 DEF WalkFrom
      <4>3. IF j < Len(w) THEN w[j + 1] = next ELSE ~Fits(img, next)
        BY <4>1 DEF WalkFrom
      <4>4. j < Len(v) => Fits(img, next)
        <5>1. j < Len(v) => j + 1 \in 1..Len(v)
          BY <1>1, <3>1
        <5> QED BY <4>2, <5>1 DEF WalkFrom
      <4>5. j < Len(w) => Fits(img, next)
        <5>1. j < Len(w) => j + 1 \in 1..Len(w)
          BY <1>1, <3>1
        <5> QED BY <4>3, <5>1 DEF WalkFrom
      <4> HIDE DEF next
      <4>6. (k <= Len(v) <=> j < Len(v)) /\ (k <= Len(w) <=> j < Len(w))
        BY <1>1, <3>1
      <4> QED BY <2>3, <3>1, <4>2, <4>3, <4>4, <4>5, <4>6
    <3> QED BY <2>3, <3>3, <3>4
  <2> QED BY <2>4, <2>5
<1>4. \A i \in Nat \ {0} : (i <= Len(v) <=> i <= Len(w)) /\ (i <= Len(v) => v[i] = w[i])
  BY <1>3
<1> HIDE DEF T
<1>5. Len(v) = Len(w)
  <2>1. Len(v) = 0 \/ Len(v) <= Len(w)
    BY <1>1, <1>4
  <2>2. Len(w) = 0 \/ Len(w) <= Len(v)
    BY <1>1, <1>4
  <2>3. Len(v) = 0 => ~(1 <= Len(w))
    BY <1>1, <1>4
  <2>4. Len(w) = 0 => ~(1 <= Len(v))
    BY <1>1, <1>4
  <2> QED BY <1>1, <2>1, <2>2, <2>3, <2>4
<1>6. ASSUME NEW i \in 1..Len(v) PROVE v[i] = w[i]
  <2>1. i \in Nat \ {0} /\ i <= Len(v)
    BY <1>1
  <2> QED BY <1>4, <2>1
<1> QED
  <2> DEFINE S == 0..Len(img)
  <2>1. v \in Seq(S) /\ w \in Seq(S)
    BY <1>1
  <2> HIDE DEF S
  <2> QED BY <1>5, <1>6, <2>1, SeqEqual

\* The gate's split of an image is the core's, each dex with its header.
LEMMA SlicesAreDexes ==
    ASSUME NEW img \in Seq(Header)
    PROVE  LogicalDexSlices(img) =
             [i \in 1..Len(ParseLogicalDexOffsets(img)) |->
                Slice(Unit(img, ParseLogicalDexOffsets(img)[i]), ParseLogicalDexOffsets(img)[i])]
<1> DEFINE n == Len(img)
           g == [off \in 0..n |-> Slice(Unit(img, off), off)]
           Is(f) == f = [off \in 0..n |->
                           IF Fits(img, off)
                           THEN <<Slice(Unit(img, off), off)>> \o f[off + Unit(img, off).size]
                           ELSE <<>>]
           split == CHOOSE f : Is(f)
           offs == ParseLogicalDexOffsets(img)
<1>1. \A f : Is(f) <=> Splits(img, g, f)
  BY DEF Splits
<1>2. Splits(img, g, split)
  <2> HIDE DEF Is
  <2> QED BY <1>1, SplitExists
<1>4. LogicalDexSlices(img) = split[0]
  BY DEF LogicalDexSlices
<1>5. PICK w : WalkFrom(img, 0, w) /\ split[0] = [i \in 1..Len(w) |-> g[w[i]]]
  <2> HIDE DEF split, g
  <2> QED BY <1>2, SplitIsWalk
<1> HIDE DEF split
<1>6. w = offs
  <2> HIDE DEF offs
  <2> QED BY <1>5, OffsetsWalk, OneWalk DEF offs
<1>7. \A i \in 1..Len(w) : g[w[i]] = Slice(Unit(img, w[i]), w[i])
  <2>1. w \in Seq(0..n)
    BY <1>5 DEF WalkFrom
  <2> QED BY <2>1
<1> HIDE DEF g
<1> QED BY <1>4, <1>5, <1>6, <1>7

\* The dexes of a walk do not overlap.
LEMMA WalkOrder ==
    ASSUME NEW img \in Seq(Header), NEW off, NEW w, WalkFrom(img, off, w)
    PROVE  /\ \A i \in 1..Len(w) : /\ w[i] \in 0..(Len(img) - 1) /\ Unit(img, w[i]) \in Header
                                    /\ Unit(img, w[i]).size \in Nat \ {0}
                                    /\ w[i] + Unit(img, w[i]).size <= Len(img)
           /\ \A i, j \in 1..Len(w) : i < j => w[i] + Unit(img, w[i]).size <= w[j]
<1> DEFINE len(i) == Unit(img, w[i]).size
<1>1. w \in Seq(0..Len(img)) /\ Len(w) \in Nat
  BY DEF WalkFrom
<1>2. ASSUME NEW i \in 1..Len(w)
      PROVE  /\ w[i] \in 0..(Len(img) - 1) /\ Unit(img, w[i]) \in Header
             /\ len(i) \in Nat \ {0} /\ w[i] + len(i) <= Len(img)
  <2>1. w[i] \in Nat /\ Fits(img, w[i])
    BY <1>1 DEF WalkFrom
  <2> QED BY <2>1, FitsMeans
<1>3. \A i \in 1..Len(w) : i < Len(w) => w[i + 1] = w[i] + len(i)
  BY DEF WalkFrom
<1> HIDE DEF len
<1>4. ASSUME NEW i \in 1..Len(w) PROVE \A j \in 1..Len(w) : i < j => w[i] + len(i) <= w[j]
  <2> DEFINE T == {j \in 1..Len(w) : i < j /\ ~(w[i] + len(i) <= w[j])}
  <2>1. SUFFICES ASSUME T # {} PROVE FALSE
    OBVIOUS
  <2>2. PICK j \in T : \A k \in T : j <= k
    <3>1. T \in SUBSET Nat
      BY <1>1
    <3> QED BY <2>1, <3>1, Least
  <2>3. j \in 1..Len(w) /\ i < j /\ ~(w[i] + len(i) <= w[j])
    OBVIOUS
  <2> DEFINE k == j - 1
  <2>4. k \in 1..Len(w) /\ k < Len(w) /\ j = k + 1 /\ i <= k /\ k < j
    BY <1>1, <2>3
  <2>5. k \notin T
    <3> HIDE DEF T, k
    <3> QED BY <1>1, <2>2, <2>3, <2>4
  <2> HIDE DEF k
  <2>6. w[j] = w[k] + len(k)
    BY <1>3, <2>4
  <2>7. w[i] \in Nat /\ w[k] \in Nat /\ len(k) \in Nat /\ len(i) \in Nat
    BY <1>2, <2>4
  <2>8. CASE i = k
    <3> HIDE DEF T
    <3> QED BY <2>3, <2>6, <2>7, <2>8
  <2>9. CASE i # k
    <3>1. i < k
      BY <1>1, <2>4, <2>9
    <3>2. w[i] + len(i) <= w[k]
      BY <2>4, <2>5, <3>1
    <3> HIDE DEF T
    <3> QED BY <2>3, <2>6, <2>7, <3>2
  <2> QED BY <2>8, <2>9
<1> QED BY <1>2, <1>4 DEF len

-----------------------------------------------------------------------------
(* The slices of an image and their verdicts. *)

\* A logical dex with its verdict.
LogicalDex ==
    [offset : Nat, size : Nat, header : Header, self_contained : BOOLEAN, last_entry : BOOLEAN,
     container_begin : Nat, container_end : Nat,
     ok : BOOLEAN, art_own : BOOLEAN, art_open : BOOLEAN]

\* The same dexes, whatever is thought of them.
SameDexes(a, b) ==
    /\ a \in Seq(LogicalDex) /\ b \in Seq(LogicalDex) /\ Len(a) = Len(b)
    /\ \A i \in 1..Len(a) :
         /\ a[i].offset = b[i].offset /\ a[i].size = b[i].size /\ a[i].header = b[i].header
         /\ a[i].self_contained = b[i].self_contained /\ a[i].last_entry = b[i].last_entry
         /\ a[i].container_begin = b[i].container_begin
         /\ a[i].container_end = b[i].container_end

\* The slice of a header has no verdict yet.
LEMMA SliceType ==
    ASSUME NEW h \in Header, NEW off \in Nat
    PROVE  /\ Slice(h, off) \in LogicalDex
           /\ Slice(h, off).offset = off /\ Slice(h, off).header = h
           /\ Slice(h, off).size = h.size /\ Slice(h, off).self_contained = ~h.v41
           /\ Slice(h, off).last_entry = (~h.v41 \/ h.coff + h.size = h.csize)
           /\ Slice(h, off).container_begin = IF h.coff <= off THEN off - h.coff ELSE off
           /\ Slice(h, off).container_end = IF h.v41 THEN Slice(h, off).container_begin + h.csize
                                            ELSE off + h.size
<1> DEFINE begin == IF h.coff <= off THEN off - h.coff ELSE off
           end == IF h.v41 THEN begin + h.csize ELSE off + h.size
           last == ~h.v41 \/ h.coff + h.size = h.csize
           s == Slice(h, off)
<1>1. h.size \in Nat /\ h.v41 \in BOOLEAN /\ h.coff \in Nat /\ h.csize \in Nat
  BY DEF Header
<1>2. begin \in Nat /\ last \in BOOLEAN
  BY <1>1
<1>3. end \in Nat
  BY <1>1, <1>2
<1>4. s = [offset |-> off, size |-> h.size, header |-> h, self_contained |-> ~h.v41,
           last_entry |-> last, container_begin |-> begin, container_end |-> end,
           ok |-> FALSE, art_own |-> FALSE, art_open |-> FALSE]
  BY DEF Slice
<1>5. (~h.v41) \in BOOLEAN
  BY <1>1
<1> HIDE DEF begin, end, last
<1>6. s \in LogicalDex
  BY <1>1, <1>2, <1>3, <1>4, <1>5 DEF LogicalDex
<1>7. s.offset = off /\ s.header = h /\ s.size = h.size /\ s.self_contained = ~h.v41
      /\ s.last_entry = last /\ s.container_begin = begin /\ s.container_end = end
  BY <1>4
<1> QED BY <1>6, <1>7 DEF begin, end, last

\* ClassifyImageSlices keeps the dexes of the walk and judges each on its own.
LEMMA Judged ==
    ASSUME NEW img \in Seq(Header), NEW check_insns \in BOOLEAN
    PROVE  LET w == ParseLogicalDexOffsets(img)
               raw == LogicalDexSlices(img)
               sl == ClassifyImageSlices(img, check_insns)
           IN  /\ SameDexes(sl, raw) /\ Len(sl) = Len(w)
               /\ \A i \in 1..Len(sl) :
                    /\ w[i] \in Nat /\ Unit(img, w[i]) \in Header
                    /\ raw[i] = Slice(Unit(img, w[i]), w[i])
                    /\ sl[i].offset = w[i]
                    /\ sl[i].ok = VerifyDex(img, raw[i], check_insns)
                    /\ sl[i].art_own = ArtOwn(img, raw[i])
<1> DEFINE w == ParseLogicalDexOffsets(img)
           raw == LogicalDexSlices(img)
           sl == ClassifyImageSlices(img, check_insns)
<1>1. w \in Seq(0..Len(img)) /\ Len(w) \in Nat
  BY OffsetsWalk DEF WalkFrom
<1>2. \A i \in 1..Len(w) : w[i] \in Nat /\ Unit(img, w[i]) \in Header
  BY <1>1, OffsetsWalk, WalkOrder
<1>3. raw = [i \in 1..Len(w) |-> Slice(Unit(img, w[i]), w[i])]
  BY SlicesAreDexes
<1>4. \A i \in 1..Len(w) : raw[i] \in LogicalDex /\ raw[i].offset = w[i]
  BY <1>2, <1>3, SliceType
<1>5. raw \in Seq(LogicalDex) /\ Len(raw) = Len(w) /\ DOMAIN raw = 1..Len(w)
  <2> HIDE DEF raw, w
  <2> QED BY <1>1, <1>3, <1>4
<1>6. sl = [i \in 1..Len(w) |-> [raw[i] EXCEPT !.ok = VerifyDex(img, raw[i], check_insns),
                                              !.art_own = ArtOwn(img, raw[i])]]
  BY <1>5 DEF ClassifyImageSlices
<1> HIDE DEF w, raw, sl
<1>7. ASSUME NEW i \in 1..Len(w)
      PROVE  /\ sl[i] \in LogicalDex
             /\ sl[i].ok = VerifyDex(img, raw[i], check_insns)
             /\ sl[i].art_own = ArtOwn(img, raw[i])
             /\ sl[i].offset = raw[i].offset /\ sl[i].size = raw[i].size
             /\ sl[i].header = raw[i].header /\ sl[i].self_contained = raw[i].self_contained
             /\ sl[i].last_entry = raw[i].last_entry
             /\ sl[i].container_begin = raw[i].container_begin
             /\ sl[i].container_end = raw[i].container_end
  <2>1. VerifyDex(img, raw[i], check_insns) \in BOOLEAN /\ ArtOwn(img, raw[i]) \in BOOLEAN
    BY DEF VerifyDex, ArtOwn
  <2>2. sl[i] = [raw[i] EXCEPT !.ok = VerifyDex(img, raw[i], check_insns),
                               !.art_own = ArtOwn(img, raw[i])]
    BY <1>6
  <2> DEFINE a == VerifyDex(img, raw[i], check_insns)
             b == ArtOwn(img, raw[i])
  <2> HIDE DEF a, b
  <2> QED BY <1>4, <2>1, <2>2 DEF LogicalDex, a, b
<1>8. sl \in Seq(LogicalDex) /\ Len(sl) = Len(w)
  <2>1. \A i \in 1..Len(w) : sl[i] \in LogicalDex
    BY <1>7
  <2>2. DOMAIN sl = 1..Len(w) /\ sl = [i \in 1..Len(w) |-> sl[i]]
    BY <1>6
  <2> QED BY <1>1, <2>1, <2>2
<1>9. SameDexes(sl, raw)
  BY <1>5, <1>7, <1>8 DEF SameDexes
<1> QED BY <1>2, <1>3, <1>4, <1>7, <1>8, <1>9 DEF w, raw, sl

-----------------------------------------------------------------------------
(* What ART opens. *)

\* Nothing before position i ends its container.
ReadTo(sl, i) == \A k \in 1..(i - 1) : ~sl[k].last_entry

\* The recursion of ClassifySourceImage's loop over the slices.
ArtSteps(sl, brk, st) ==
    st = [i \in 0..Len(sl) |->
            IF i = 0 THEN [broken |-> brk, ended |-> FALSE]
            ELSE LET ended == st[i-1].ended \/ (i > 1 /\ sl[i-1].last_entry)
                 IN  [ended |-> ended,
                      broken |-> st[i-1].broken \/ (~ended /\ ~sl[i].art_own)]]

\* What its flags say after the first i slices.
ArtAfter(sl, brk, i) ==
    [ended |-> ~ReadTo(sl, i),
     broken |-> brk \/ \E j \in 1..i : ReadTo(sl, j) /\ ~sl[j].art_own]

\* One turn of the loop.
LEMMA ArtTurn ==
    ASSUME NEW sl, NEW brk \in BOOLEAN, NEW i \in Nat \ {0}
    PROVE  LET before == ArtAfter(sl, brk, i - 1)
               ended == before.ended \/ (i > 1 /\ sl[i-1].last_entry)
           IN  ArtAfter(sl, brk, i) =
                 [ended |-> ended, broken |-> before.broken \/ (~ended /\ ~sl[i].art_own)]
<1> DEFINE before == ArtAfter(sl, brk, i - 1)
           ended == before.ended \/ (i > 1 /\ sl[i-1].last_entry)
<1>1. before.ended = ~ReadTo(sl, i - 1)
      /\ before.broken = (brk \/ \E j \in 1..(i - 1) : ReadTo(sl, j) /\ ~sl[j].art_own)
  BY DEF ArtAfter
<1>2. ended <=> ~ReadTo(sl, i)
  <2>1. ReadTo(sl, i) <=> ReadTo(sl, i - 1) /\ (i > 1 => ~sl[i - 1].last_entry)
    <3>1. \A k \in Nat : k \in 1..(i - 1) <=> k \in 1..((i - 1) - 1) \/ (k = i - 1 /\ i > 1)
      OBVIOUS
    <3>2. i - 1 \in Nat
      OBVIOUS
    <3> QED BY <3>1, <3>2 DEF ReadTo
  <2> QED BY <1>1, <2>1
<1>3. (\E j \in 1..i : ReadTo(sl, j) /\ ~sl[j].art_own) <=>
        \/ \E j \in 1..(i - 1) : ReadTo(sl, j) /\ ~sl[j].art_own
        \/ ReadTo(sl, i) /\ ~sl[i].art_own
  <2>1. \A j : j \in 1..i <=> j \in 1..(i - 1) \/ j = i
    OBVIOUS
  <2> QED BY <2>1
<1>4. ArtAfter(sl, brk, i) =
        [ended |-> ~ReadTo(sl, i),
         broken |-> brk \/ \E j \in 1..i : ReadTo(sl, j) /\ ~sl[j].art_own]
  BY DEF ArtAfter
<1> HIDE DEF before
<1>5. ended \in BOOLEAN /\ (before.broken \/ (~ended /\ ~sl[i].art_own)) \in BOOLEAN
  OBVIOUS
<1>6. (~ReadTo(sl, i)) = ended
  <2>1. (~ReadTo(sl, i)) \in BOOLEAN
    OBVIOUS
  <2> HIDE DEF ended
  <2> QED BY <1>2, <1>5, <2>1
<1>7. (brk \/ \E j \in 1..i : ReadTo(sl, j) /\ ~sl[j].art_own)
      = (before.broken \/ (~ended /\ ~sl[i].art_own))
  <2> HIDE DEF ended
  <2> QED BY <1>1, <1>2, <1>3
<1> QED BY <1>4, <1>6, <1>7 DEF before

\* After i slices the loop has ended if one before ended its container, and ART
\* has given up if it could not open one it read.
LEMMA ArtLoopMeans ==
    ASSUME NEW sl \in Seq(LogicalDex), NEW brk \in BOOLEAN
    PROVE  \A i \in 0..Len(sl) : ArtLoop(sl, brk)[i] = ArtAfter(sl, brk, i)
<1> DEFINE n == Len(sl)
           after == [i \in 0..n |-> ArtAfter(sl, brk, i)]
           st == ArtLoop(sl, brk)
<1>1. n \in Nat
  OBVIOUS
<1>2. ArtAfter(sl, brk, 0) = [broken |-> brk, ended |-> FALSE]
  <2>1. ReadTo(sl, 0) /\ ~ \E j \in 1..0 : ReadTo(sl, j) /\ ~sl[j].art_own
    BY DEF ReadTo
  <2> QED BY <2>1 DEF ArtAfter
<1>3. ArtSteps(sl, brk, after)
  <2> DEFINE turn(i) == LET ended == after[i-1].ended \/ (i > 1 /\ sl[i-1].last_entry)
                        IN  [ended |-> ended,
                             broken |-> after[i-1].broken \/ (~ended /\ ~sl[i].art_own)]
  <2>1. ASSUME NEW i \in 0..n
        PROVE  after[i] = IF i = 0 THEN [broken |-> brk, ended |-> FALSE] ELSE turn(i)
    <3>1. CASE i = 0
      BY <1>1, <1>2, <3>1
    <3>2. CASE i # 0
      <4>1. i \in Nat \ {0} /\ i - 1 \in 0..n
        BY <1>1, <3>2
      <4>2. after[i - 1] = ArtAfter(sl, brk, i - 1) /\ after[i] = ArtAfter(sl, brk, i)
        BY <4>1
      <4> HIDE DEF after
      <4> QED BY <3>2, <4>1, <4>2, ArtTurn
    <3> QED BY <3>1, <3>2
  <2> DEFINE item(i) == IF i = 0 THEN [broken |-> brk, ended |-> FALSE] ELSE turn(i)
  <2>2. after = [i \in 0..n |-> item(i)]
    <3>1. after = [i \in 0..n |-> after[i]]
      OBVIOUS
    <3>2. \A i \in 0..n : after[i] = item(i)
      BY <2>1
    <3> HIDE DEF after, item
    <3> QED BY <3>1, <3>2
  <2> HIDE DEF after
  <2> QED BY <2>2 DEF ArtSteps
<1>4. ArtSteps(sl, brk, st)
  <2> DEFINE Is(f) == f = [i \in 0..Len(sl) |->
            IF i = 0 THEN [broken |-> brk, ended |-> FALSE]
            ELSE LET ended == f[i-1].ended \/ (i > 1 /\ sl[i-1].last_entry)
                 IN  [ended |-> ended,
                      broken |-> f[i-1].broken \/ (~ended /\ ~sl[i].art_own)]]
  <2>1. \A f : Is(f) <=> ArtSteps(sl, brk, f)
    BY DEF ArtSteps
  <2>2. st = CHOOSE f : Is(f)
    BY DEF ArtLoop
  <2> HIDE DEF Is, after, st
  <2> QED BY <1>3, <2>1, <2>2
<1> HIDE DEF st
<1> DEFINE T == {i \in 0..n : st[i] # ArtAfter(sl, brk, i)}
<1>5. T = {}
  <2>1. SUFFICES ASSUME T # {} PROVE FALSE
    OBVIOUS
  <2>2. PICK i \in T : \A j \in T : i <= j
    <3>1. T \in SUBSET Nat
      BY <1>1
    <3> QED BY <2>1, <3>1, Least
  <2>3. i \in 0..n /\ st[i] # ArtAfter(sl, brk, i)
    OBVIOUS
  <2>4. CASE i = 0
    <3>1. st[0] = [broken |-> brk, ended |-> FALSE]
      BY <1>1, <1>4 DEF ArtSteps
    <3> QED BY <1>2, <2>3, <2>4, <3>1
  <2>5. CASE i # 0
    <3>1. i - 1 \in 0..n /\ i \in Nat \ {0} /\ i - 1 \notin T
      <4> HIDE DEF T
      <4> QED BY <1>1, <2>2, <2>3, <2>5
    <3>2. st[i - 1] = ArtAfter(sl, brk, i - 1)
      BY <3>1
    <3>3. st[i] = LET ended == st[i-1].ended \/ (i > 1 /\ sl[i-1].last_entry)
                  IN  [ended |-> ended, broken |-> st[i-1].broken \/ (~ended /\ ~sl[i].art_own)]
      BY <1>4, <2>3, <2>5 DEF ArtSteps
    <3> QED BY <2>3, <3>1, <3>2, <3>3, ArtTurn
  <2> QED BY <2>4, <2>5
<1> QED BY <1>5 DEF st

\* ART opens slice i of an image: the source is not broken, nothing before it ended
\* the container and everything up to it could be opened.
OpenedByArt(sl, brk, i) == ~brk /\ ReadTo(sl, i) /\ \A j \in 1..i : sl[j].art_own

\* What the loop calls open is what ART opens, and runtime mode keeps no more.
LEMMA ArtVerdictsMean ==
    ASSUME NEW sl \in Seq(LogicalDex), NEW brk \in BOOLEAN, NEW runtime \in BOOLEAN
    PROVE  LET v == ArtVerdicts(sl, brk, runtime)
           IN  /\ SameDexes(v, sl)
               /\ \A i \in 1..Len(sl) :
                    /\ v[i].art_open = OpenedByArt(sl, brk, i)
                    /\ v[i].ok = (sl[i].ok /\ (runtime => v[i].art_open))
<1> DEFINE n == Len(sl)
           v == ArtVerdicts(sl, brk, runtime)
           st == ArtLoop(sl, brk)
           open(i) == ~st[i-1].broken /\ ~st[i].ended /\ sl[i].art_own
<1>1. n \in Nat /\ DOMAIN sl = 1..n /\ \A i \in 1..n : sl[i] \in LogicalDex
  OBVIOUS
<1>2. v = [i \in 1..n |-> [sl[i] EXCEPT !.art_open = open(i), !.ok = sl[i].ok /\ (runtime => open(i))]]
  BY <1>1 DEF ArtVerdicts
<1>3. ASSUME NEW i \in 1..n PROVE open(i) = OpenedByArt(sl, brk, i)
  <2>1. i - 1 \in 0..n /\ i \in 0..n
    BY <1>1
  <2>2. st[i - 1] = ArtAfter(sl, brk, i - 1) /\ st[i] = ArtAfter(sl, brk, i)
    BY <2>1, ArtLoopMeans
  <2>7. /\ st[i - 1].broken = (brk \/ \E j \in 1..(i - 1) : ReadTo(sl, j) /\ ~sl[j].art_own)
        /\ st[i].ended = ~ReadTo(sl, i)
    <3> HIDE DEF st
    <3> QED BY <2>2 DEF ArtAfter
  <2> HIDE DEF st
  <2>3. open(i) <=> /\ ~(brk \/ \E j \in 1..(i - 1) : ReadTo(sl, j) /\ ~sl[j].art_own)
                    /\ ReadTo(sl, i) /\ sl[i].art_own
    <3> DEFINE a == \E j \in 1..(i - 1) : ReadTo(sl, j) /\ ~sl[j].art_own
               b == ReadTo(sl, i)
    <3> HIDE DEF a, b
    <3> QED BY <2>7 DEF a, b
  <2>4. ReadTo(sl, i) => \A j \in 1..i : ReadTo(sl, j)
    <3>1. \A j \in 1..i : \A k \in 1..(j - 1) : k \in 1..(i - 1)
      BY <1>1
    <3> QED BY <3>1 DEF ReadTo
  <2>5. 1..i = 1..(i - 1) \cup {i}
    BY <1>1
  <2>6. open(i) <=> OpenedByArt(sl, brk, i)
    <3> HIDE DEF open
    <3> QED BY <2>3, <2>4, <2>5 DEF OpenedByArt
  <2> QED BY <2>6 DEF OpenedByArt
<1> HIDE DEF v, open
<1>4. ASSUME NEW i \in 1..n
      PROVE  /\ v[i] \in LogicalDex
             /\ v[i].art_open = OpenedByArt(sl, brk, i)
             /\ v[i].ok = (sl[i].ok /\ (runtime => v[i].art_open))
             /\ v[i].offset = sl[i].offset /\ v[i].size = sl[i].size
             /\ v[i].header = sl[i].header /\ v[i].self_contained = sl[i].self_contained
             /\ v[i].last_entry = sl[i].last_entry
             /\ v[i].container_begin = sl[i].container_begin
             /\ v[i].container_end = sl[i].container_end
  <2> DEFINE a == OpenedByArt(sl, brk, i)
             b == sl[i].ok /\ (runtime => a)
  <2>1. a \in BOOLEAN /\ b \in BOOLEAN
    BY DEF OpenedByArt
  <2>2. v[i] = [sl[i] EXCEPT !.art_open = a, !.ok = b]
    BY <1>2, <1>3
  <2>3. sl[i] \in LogicalDex
    BY <1>1
  <2> HIDE DEF a, b
  <2>4. v[i] \in LogicalDex /\ v[i].art_open = a /\ v[i].ok = b
    BY <2>1, <2>2, <2>3 DEF LogicalDex
  <2>5. /\ v[i].offset = sl[i].offset /\ v[i].size = sl[i].size
        /\ v[i].header = sl[i].header /\ v[i].self_contained = sl[i].self_contained
        /\ v[i].last_entry = sl[i].last_entry
        /\ v[i].container_begin = sl[i].container_begin
        /\ v[i].container_end = sl[i].container_end
    BY <2>2, <2>3 DEF LogicalDex
  <2> QED BY <2>4, <2>5 DEF a, b
<1>5. v \in Seq(LogicalDex) /\ Len(v) = n
  <2>1. \A i \in 1..n : v[i] \in LogicalDex
    BY <1>4
  <2>2. v = [i \in 1..n |-> v[i]]
    BY <1>2
  <2> QED BY <1>1, <2>1, <2>2
<1>6. SameDexes(v, sl)
  BY <1>4, <1>5 DEF SameDexes
<1> QED BY <1>4, <1>6 DEF v

\* An image ends the sequence of ART: it has no dex, one that ART reads cannot be
\* opened, or ART looks for one more than it has.
ImageFails(sl) ==
    \/ sl = <<>>
    \/ \E i \in 1..Len(sl) : ReadTo(sl, i) /\ ~sl[i].art_own
    \/ \A i \in 1..Len(sl) : ~sl[i].last_entry

\* ArtSequence::broken says just that of the images so far.
LEMMA BrokenMeans ==
    ASSUME NEW sl \in Seq(LogicalDex), NEW brk \in BOOLEAN
    PROVE  (brk \/ BrokenAfter(sl, brk)) <=> (brk \/ ImageFails(sl))
<1> DEFINE n == Len(sl)
           end == ArtLoop(sl, brk)[n]
<1>1. n \in Nat
  OBVIOUS
<1>2. end = ArtAfter(sl, brk, n)
  BY <1>1, ArtLoopMeans
<1>3. /\ end.broken = (brk \/ \E j \in 1..n : ReadTo(sl, j) /\ ~sl[j].art_own)
      /\ end.ended = ~ReadTo(sl, n)
  <2> HIDE DEF end
  <2> QED BY <1>2 DEF ArtAfter
<1>4. BrokenAfter(sl, brk) <=>
        \/ sl = <<>> \/ end.broken
        \/ sl # <<>> /\ ~end.broken /\ ~end.ended /\ ~sl[n].last_entry
  BY DEF BrokenAfter, MissingEntry
<1>5. sl # <<>> => (ReadTo(sl, n) /\ ~sl[n].last_entry <=> \A i \in 1..n : ~sl[i].last_entry)
  <2>1. sl # <<>> => n \in 1..n /\ 1..n = 1..(n - 1) \cup {n}
    BY <1>1
  <2> QED BY <2>1 DEF ReadTo
<1> HIDE DEF end
<1> QED BY <1>3, <1>4, <1>5 DEF ImageFails

-----------------------------------------------------------------------------
(* Containers. *)

\* The slices of the container of slice i, and those that start in its range.
Siblings(sl, i) == {j \in DOMAIN sl : /\ ~sl[j].self_contained
                                     /\ sl[j].container_begin = sl[i].container_begin}

\* SiblingRule rejects the dexes of a container that is not whole, and only if
\* something in the image was rejected before.
LEMMA SiblingRuleMeans ==
    ASSUME NEW sl \in Seq(LogicalDex), NEW n
    PROVE  LET v == SiblingRule(sl, n)
           IN  /\ SameDexes(v, sl)
               /\ \A i \in 1..Len(sl) :
                    /\ v[i].art_open = sl[i].art_open
                    /\ v[i].ok <=>
                         /\ sl[i].ok
                         /\ \/ \A j \in 1..Len(sl) : sl[j].ok
                            \/ sl[i].self_contained
                            \/ ContainerWhole(sl, n, Siblings(sl, i))
<1> DEFINE m == Len(sl)
           v == SiblingRule(sl, n)
           whole(i) == ContainerWhole(sl, n, Siblings(sl, i))
           bad == {i \in 1..m : ~sl[i].self_contained /\ ~whole(i)}
           kept(i) == /\ v[i].art_open = sl[i].art_open
                      /\ v[i].ok <=> /\ sl[i].ok
                                     /\ \/ \A j \in 1..m : sl[j].ok
                                        \/ sl[i].self_contained \/ whole(i)
<1>1. m \in Nat /\ DOMAIN sl = 1..m /\ \A i \in 1..m : sl[i] \in LogicalDex
  OBVIOUS
<1>2. v = IF \A i \in 1..m : sl[i].ok THEN sl
          ELSE [i \in 1..m |-> [sl[i] EXCEPT !.ok = sl[i].ok /\ i \notin bad]]
  BY <1>1 DEF SiblingRule, Siblings
<1>3. ASSUME \A i \in 1..m : sl[i].ok PROVE SameDexes(v, sl) /\ \A i \in 1..m : kept(i)
  <2>1. v = sl
    BY <1>2, <1>3
  <2> HIDE DEF v
  <2> QED BY <1>3, <2>1 DEF SameDexes
<1>4. ASSUME ~ \A i \in 1..m : sl[i].ok PROVE SameDexes(v, sl) /\ \A i \in 1..m : kept(i)
  <2>1. v = [i \in 1..m |-> [sl[i] EXCEPT !.ok = sl[i].ok /\ i \notin bad]]
    BY <1>2, <1>4
  <2>2. \A i \in 1..m : i \notin bad <=> sl[i].self_contained \/ whole(i)
    <3> HIDE DEF whole
    <3> QED OBVIOUS
  <2> HIDE DEF v, bad
  <2>3. ASSUME NEW i \in 1..m
        PROVE  /\ v[i] \in LogicalDex
               /\ v[i].ok = (sl[i].ok /\ i \notin bad)
               /\ v[i].art_open = sl[i].art_open
               /\ v[i].offset = sl[i].offset /\ v[i].size = sl[i].size
               /\ v[i].header = sl[i].header /\ v[i].self_contained = sl[i].self_contained
               /\ v[i].last_entry = sl[i].last_entry
               /\ v[i].container_begin = sl[i].container_begin
               /\ v[i].container_end = sl[i].container_end
    <3> DEFINE b == sl[i].ok /\ i \notin bad
    <3>1. b \in BOOLEAN
      OBVIOUS
    <3>2. v[i] = [sl[i] EXCEPT !.ok = b]
      BY <2>1
    <3>3. sl[i] \in LogicalDex
      BY <1>1
    <3> HIDE DEF b
    <3> QED BY <3>1, <3>2, <3>3 DEF LogicalDex, b
  <2>4. v \in Seq(LogicalDex) /\ Len(v) = m
    <3>1. \A i \in 1..m : v[i] \in LogicalDex
      BY <2>3
    <3>2. v = [i \in 1..m |-> v[i]]
      BY <2>1
    <3> QED BY <1>1, <3>1, <3>2
  <2>5. SameDexes(v, sl)
    BY <2>3, <2>4 DEF SameDexes
  <2> HIDE DEF whole
  <2>6. ASSUME NEW i \in 1..m PROVE kept(i)
    <3>1. v[i].art_open = sl[i].art_open /\ v[i].ok = (sl[i].ok /\ i \notin bad)
      BY <2>3
    <3> QED BY <1>4, <2>2, <3>1
  <2> QED BY <2>5, <2>6
<1>5. SameDexes(v, sl) /\ \A i \in 1..m : kept(i)
  <2> HIDE DEF kept, v
  <2> QED BY <1>3, <1>4
<1> QED BY <1>5

-----------------------------------------------------------------------------
(* Ids. *)

\* The slices that get an id.
Given(ids) == {i \in DOMAIN ids : ids[i] # -1}

\* Accepted slices get the next ids in their order, until the limit.
LEMMA IdsInOrder ==
    ASSUME NEW sl \in Seq(LogicalDex), NEW first \in 0..MaxDexes
    PROVE  LET ids == AssignIds(sl, first)
               K == Given(ids)
               c == Cardinality(K)
           IN  /\ DOMAIN ids = 1..Len(sl) /\ K \in SUBSET (1..Len(sl))
               /\ IsFiniteSet(K) /\ c \in Nat /\ first + c <= MaxDexes
               /\ \A i \in K : sl[i].ok /\ ids[i] = first + Before(K, i)
               /\ \A i \in K : ids[i] \in first..(first + c - 1)
               /\ \A i \in K, j \in 1..Len(sl) : j < i /\ sl[j].ok => j \in K
               /\ (\E i \in 1..Len(sl) : sl[i].ok /\ i \notin K) => first + c = MaxDexes
<1> DEFINE n == Len(sl)
           ids == AssignIds(sl, first)
           K == Given(ids)
           c == Cardinality(K)
           A == {j \in 1..n : sl[j].ok}
           id(i) == first + Before(A, i)
<1>0. n \in Nat /\ DOMAIN sl = 1..n /\ MaxDexes \in Nat /\ first \in Nat /\ first <= MaxDexes
  BY MaxDexesAssumption
<1>1. A \in SUBSET (1..n)
  OBVIOUS
<1>2. ASSUME NEW i \in 1..n PROVE Cardinality({j \in 1..(i - 1) : sl[j].ok}) = Before(A, i)
  <2>1. {j \in 1..(i - 1) : sl[j].ok} = {j \in A : j < i}
    BY <1>0
  <2> QED BY <2>1 DEF Before
<1>3. ids = [i \in 1..n |-> IF sl[i].ok /\ id(i) < MaxDexes THEN id(i) ELSE -1]
  BY <1>0, <1>2 DEF AssignIds
<1>4. /\ \A i \in 1..n : Before(A, i) \in Nat
      /\ \A i \in A, j \in 1..n : i < j => Before(A, i) < Before(A, j)
  <2> HIDE DEF A, n
  <2>1. \A i \in Int : Before(A, i) \in 0..Cardinality(A)
    BY <1>0, <1>1, Places
  <2>2. \A i \in A, j \in Int : i < j => Before(A, i) < Before(A, j)
    BY <1>0, <1>1, Places
  <2>3. \A i \in 1..n : i \in Int
    BY <1>0
  <2>4. Cardinality(A) \in Nat
    BY <1>0, <1>1, Places
  <2>5. \A i \in 1..n : Before(A, i) \in Nat
    BY <2>1, <2>3, <2>4
  <2>6. \A i \in A, j \in 1..n : i < j => Before(A, i) < Before(A, j)
    BY <2>2, <2>3
  <2> QED BY <2>5, <2>6
<1> HIDE DEF ids
<1>5. \A i \in 1..n : i \in K <=> i \in A /\ id(i) < MaxDexes
  BY <1>0, <1>3, <1>4 DEF Given
<1>6. K \in SUBSET (1..n) /\ DOMAIN ids = 1..n
  BY <1>3 DEF Given
<1>7. \A i \in K : i \in A /\ id(i) < MaxDexes /\ ids[i] = id(i)
  BY <1>3, <1>5, <1>6
<1>8. ASSUME NEW i \in K, NEW j \in 1..n, j < i, sl[j].ok PROVE j \in K
  <2>1. j \in A /\ i \in 1..n /\ i \in A
    BY <1>6, <1>7, <1>8
  <2>2. Before(A, j) < Before(A, i)
    BY <1>4, <1>8, <2>1
  <2>3. Before(A, j) \in Nat /\ Before(A, i) \in Nat /\ id(i) < MaxDexes
    BY <1>4, <1>7, <2>1
  <2> HIDE DEF A, K
  <2> QED BY <1>0, <1>5, <2>1, <2>2, <2>3
<1>9. ASSUME NEW i \in K PROVE Before(A, i) = Before(K, i)
  <2>1. {j \in A : j < i} = {j \in K : j < i}
    BY <1>5, <1>6, <1>8
  <2> QED BY <2>1 DEF Before
<1>10. /\ IsFiniteSet(K) /\ c \in Nat
       /\ \A i \in 1..n : Before(K, i) \in 0..c
       /\ \A i \in K : Before(K, i) < c /\ Before(K, i) \in Nat
       /\ \A d \in 0..(c - 1) : \E i \in K : Before(K, i) = d
  <2> HIDE DEF K
  <2>1. \A i \in Int : Before(K, i) \in 0..c
    BY <1>0, <1>6, Places
  <2>2. (\A i \in K : i \in Int) /\ \A i \in 1..n : i \in Int
    BY <1>0, <1>6
  <2> HIDE DEF n
  <2>3. IsFiniteSet(K) /\ c \in Nat /\ \A i \in K : Before(K, i) < c
    BY <1>0, <1>6, Places
  <2>4. \A d \in 0..(c - 1) : \E i \in K : Before(K, i) = d
    BY <1>0, <1>6, Places
  <2> HIDE DEF c
  <2>5. \A i \in K : Before(K, i) \in Nat
    BY <2>1, <2>2, <2>3
  <2> QED BY <2>1, <2>2, <2>3, <2>4, <2>5
<1> HIDE DEF A, K, c
<1>11. first + c <= MaxDexes
  <2>1. CASE c = 0
    BY <1>0, <2>1
  <2>2. CASE c # 0
    <3>1. c - 1 \in 0..(c - 1)
      BY <1>10, <2>2
    <3>2. PICK i \in K : Before(K, i) = c - 1
      BY <1>10, <3>1
    <3>3. first + (c - 1) < MaxDexes
      BY <1>7, <1>9, <3>2
    <3> QED BY <1>0, <1>10, <3>3
  <2> QED BY <2>1, <2>2
<1>12. \A i \in K : ids[i] = first + Before(K, i) /\ ids[i] \in first..(first + c - 1)
  <2> SUFFICES ASSUME NEW i \in K
               PROVE  ids[i] = first + Before(K, i) /\ ids[i] \in first..(first + c - 1)
    OBVIOUS
  <2>1. ids[i] = first + Before(K, i)
    BY <1>7, <1>9
  <2>2. Before(K, i) < c /\ Before(K, i) \in Nat
    BY <1>10
  <2> QED BY <1>0, <1>10, <2>1, <2>2
<1>13. ASSUME NEW i \in 1..n, sl[i].ok, i \notin K PROVE first + c = MaxDexes
  <2> DEFINE T == {j \in 1..n : sl[j].ok /\ j \notin K}
  <2>1. PICK k \in T : \A j \in T : k <= j
    <3>1. T \in SUBSET Nat /\ i \in T
      BY <1>0, <1>13
    <3> HIDE DEF T
    <3> QED BY <3>1, Least
  <2>2. k \in 1..n /\ sl[k].ok /\ k \notin K
    OBVIOUS
  <2>3. k \in A /\ ~(id(k) < MaxDexes)
    BY <1>5, <2>2 DEF A
  <2>4. {j \in A : j < k} = {j \in K : j < k}
    <3>1. ASSUME NEW j \in A, j < k PROVE j \in K
      <4>1. j \in 1..n /\ sl[j].ok
        BY DEF A
      <4>2. ~(k <= j)
        BY <2>2, <3>1, <4>1
      <4> QED BY <2>1, <4>1, <4>2
    <3>2. \A j \in K : j \in A
      BY <1>7
    <3> QED BY <3>1, <3>2
  <2>5. Before(A, k) = Before(K, k)
    BY <2>4 DEF Before
  <2>6. Before(K, k) \in 0..c
    BY <1>10, <2>2
  <2> HIDE DEF T
  <2> QED BY <1>0, <1>10, <1>11, <2>3, <2>5, <2>6
<1> QED BY <1>6, <1>7, <1>8, <1>10, <1>11, <1>12, <1>13 DEF ids, K, c, A

-----------------------------------------------------------------------------
(* An image as a whole. *)

\* What holds of the slices of an image, whatever their verdicts.
SlicesOfImage(img, sl) ==
    LET w == ParseLogicalDexOffsets(img)
    IN  /\ sl \in Seq(LogicalDex) /\ Len(sl) = Len(w)
        /\ \A i \in 1..Len(sl) :
             /\ w[i] \in Nat /\ Unit(img, w[i]) \in Header
             /\ sl[i].offset = w[i] /\ sl[i].header = Unit(img, w[i])
             /\ sl[i].size = Unit(img, w[i]).size
             /\ sl[i].self_contained = ~Unit(img, w[i]).v41
             /\ sl[i].container_begin = IF Unit(img, w[i]).coff <= w[i]
                                        THEN w[i] - Unit(img, w[i]).coff ELSE w[i]
             /\ ~sl[i].self_contained =>
                  sl[i].container_end = sl[i].container_begin + Unit(img, w[i]).csize

\* An accepted slice is in its container and that in the image.
InContainer(img, s) ==
    /\ s.offset + s.size <= Len(img)
    /\ ~s.self_contained => /\ s.container_begin <= s.offset
                            /\ s.offset + s.size <= s.container_end
                            /\ s.container_end <= Len(img)

\* Slices judged on their own.
LEMMA JudgedSlices ==
    ASSUME NEW img \in Seq(Header), NEW check_insns \in BOOLEAN
    PROVE  LET sl == ClassifyImageSlices(img, check_insns)
           IN  /\ SlicesOfImage(img, sl)
               /\ \A i \in 1..Len(sl) : sl[i].ok => InContainer(img, sl[i])
<1> DEFINE w == ParseLogicalDexOffsets(img)
           raw == LogicalDexSlices(img)
           sl == ClassifyImageSlices(img, check_insns)
<1>1. /\ SameDexes(sl, raw) /\ Len(sl) = Len(w)
      /\ \A i \in 1..Len(sl) :
           /\ w[i] \in Nat /\ Unit(img, w[i]) \in Header
           /\ raw[i] = Slice(Unit(img, w[i]), w[i])
           /\ sl[i].offset = w[i]
           /\ sl[i].ok = VerifyDex(img, raw[i], check_insns)
  BY Judged
<1> HIDE DEF w, raw, sl
<1>2. ASSUME NEW i \in 1..Len(sl)
      PROVE  /\ sl[i].header = Unit(img, w[i])
             /\ sl[i].size = Unit(img, w[i]).size
             /\ sl[i].self_contained = ~Unit(img, w[i]).v41
             /\ sl[i].container_begin = IF Unit(img, w[i]).coff <= w[i]
                                        THEN w[i] - Unit(img, w[i]).coff ELSE w[i]
             /\ ~sl[i].self_contained =>
                  sl[i].container_end = sl[i].container_begin + Unit(img, w[i]).csize
  <2> DEFINE h == Unit(img, w[i])
             s == Slice(h, w[i])
  <2>1. h \in Header /\ w[i] \in Nat /\ raw[i] = s
    BY <1>1
  <2>2. sl[i].header = s.header /\ sl[i].size = s.size /\ sl[i].self_contained = s.self_contained
        /\ sl[i].container_begin = s.container_begin /\ sl[i].container_end = s.container_end
    <3> HIDE DEF s
    <3> QED BY <1>1, <2>1 DEF SameDexes
  <2>3. /\ s.header = h /\ s.size = h.size /\ s.self_contained = ~h.v41
        /\ s.container_begin = IF h.coff <= w[i] THEN w[i] - h.coff ELSE w[i]
        /\ s.container_end = IF h.v41 THEN s.container_begin + h.csize ELSE w[i] + h.size
    <3> HIDE DEF h
    <3> QED BY <2>1, SliceType
  <2>4. h.v41 \in BOOLEAN
    <3> HIDE DEF h
    <3> QED BY <2>1 DEF Header
  <2> HIDE DEF s, h
  <2> QED BY <2>2, <2>3, <2>4 DEF h
<1>3. SlicesOfImage(img, sl)
  <2>1. sl \in Seq(LogicalDex)
    BY <1>1 DEF SameDexes
  <2> QED BY <1>1, <1>2, <2>1 DEF SlicesOfImage, w
<1>4. ASSUME NEW i \in 1..Len(sl), sl[i].ok PROVE InContainer(img, sl[i])
  <2> DEFINE h == Unit(img, w[i])
  <2>1. h \in Header /\ w[i] \in Nat /\ raw[i] = Slice(h, w[i])
    BY <1>1
  <2>2. w[i] + h.size <= Len(img)
    <3>1. WalkFrom(img, 0, w) /\ i \in 1..Len(w)
      BY <1>1, OffsetsWalk DEF w
    <3> QED BY <3>1, WalkOrder
  <2>3. ContainerConsistent(img, raw[i])
    BY <1>1, <1>4 DEF VerifyDex
  <2>4. raw[i].header = h /\ raw[i].offset = w[i] /\ raw[i].size = h.size
    <3> HIDE DEF h
    <3> QED BY <2>1, SliceType
  <2>5. h.v41 => /\ h.coff <= w[i] /\ h.csize <= Len(img) - (w[i] - h.coff)
                 /\ h.size <= h.csize - h.coff
    <3> HIDE DEF h
    <3> QED BY <2>3, <2>4 DEF ContainerConsistent
  <2>6. h.size \in Nat /\ h.coff \in Nat /\ h.csize \in Nat /\ h.v41 \in BOOLEAN /\ Len(img) \in Nat
    <3> HIDE DEF h
    <3> QED BY <2>1 DEF Header
  <2>7. /\ sl[i].offset = w[i] /\ sl[i].size = h.size /\ sl[i].self_contained = ~h.v41
        /\ sl[i].container_begin = IF h.coff <= w[i] THEN w[i] - h.coff ELSE w[i]
        /\ ~sl[i].self_contained => sl[i].container_end = sl[i].container_begin + h.csize
    BY <1>1, <1>2
  <2> DEFINE o == w[i]
             b == sl[i].container_begin
             e == sl[i].container_end
  <2> HIDE DEF h, o, b, e
  <2>8. ASSUME h.v41 PROVE b <= o /\ o + h.size <= e /\ e <= Len(img)
    <3>1. b = o - h.coff /\ e = b + h.csize /\ o \in Nat
      BY <2>1, <2>5, <2>6, <2>7, <2>8 DEF o, b, e
    <3>2. h.csize <= Len(img) - (o - h.coff) /\ h.size <= h.csize - h.coff
      BY <2>5, <2>8 DEF o
    <3>3. \A p, c, z, k, n \in Nat :
            z <= n - (p - c) /\ k <= z - c =>
              p - c <= p /\ p + k <= (p - c) + z /\ (p - c) + z <= n
      OBVIOUS
    <3> QED BY <2>6, <3>1, <3>2, <3>3
  <2> QED BY <2>1, <2>2, <2>6, <2>7, <2>8 DEF InContainer, o, b, e
<1> QED BY <1>3, <1>4 DEF sl

\* The slices of an image after all rules.
LEMMA Classified ==
    ASSUME NEW img \in Seq(Header), NEW check_insns \in BOOLEAN, NEW brk \in BOOLEAN,
           NEW runtime \in BOOLEAN
    PROVE  LET own == ClassifyImageSlices(img, check_insns)
               sl == ClassifySourceImage(img, check_insns, brk, runtime)
           IN  /\ SlicesOfImage(img, sl) /\ SameDexes(sl, own)
               /\ \A i \in 1..Len(sl) :
                    /\ sl[i].art_open = OpenedByArt(own, brk, i)
                    /\ sl[i].ok => own[i].ok /\ InContainer(img, sl[i])
                    /\ sl[i].ok /\ runtime => sl[i].art_open
<1> DEFINE own == ClassifyImageSlices(img, check_insns)
           art == ArtVerdicts(own, brk, runtime)
           sl == ClassifySourceImage(img, check_insns, brk, runtime)
<1>1. SlicesOfImage(img, own) /\ \A i \in 1..Len(own) : own[i].ok => InContainer(img, own[i])
  BY JudgedSlices
<1> HIDE DEF own
<1>2. own \in Seq(LogicalDex)
  BY <1>1 DEF SlicesOfImage
<1>3. /\ SameDexes(art, own)
      /\ \A i \in 1..Len(own) : /\ art[i].art_open = OpenedByArt(own, brk, i)
                                 /\ art[i].ok = (own[i].ok /\ (runtime => art[i].art_open))
  BY <1>2, ArtVerdictsMean
<1>4. sl = SiblingRule(art, Len(img))
  BY DEF ClassifySourceImage, own
<1> HIDE DEF art, sl
<1>5. art \in Seq(LogicalDex) /\ Len(art) = Len(own)
  BY <1>3 DEF SameDexes
<1>6. /\ SameDexes(sl, art)
      /\ \A i \in 1..Len(art) : sl[i].art_open = art[i].art_open /\ (sl[i].ok => art[i].ok)
  BY <1>4, <1>5, SiblingRuleMeans
<1>7. SameDexes(sl, own)
  BY <1>3, <1>6 DEF SameDexes
<1>8. SlicesOfImage(img, sl)
  BY <1>1, <1>7 DEF SameDexes, SlicesOfImage
<1>9. ASSUME NEW i \in 1..Len(sl)
      PROVE  /\ sl[i].art_open = OpenedByArt(own, brk, i)
             /\ sl[i].ok => own[i].ok /\ InContainer(img, sl[i])
             /\ sl[i].ok /\ runtime => sl[i].art_open
  <2>1. i \in 1..Len(own) /\ i \in 1..Len(art)
    BY <1>5, <1>7 DEF SameDexes
  <2>2. sl[i].ok => own[i].ok /\ (runtime => sl[i].art_open)
    BY <1>3, <1>6, <2>1
  <2>3. InContainer(img, own[i]) => InContainer(img, sl[i])
    BY <1>7, <2>1 DEF SameDexes, InContainer
  <2> QED BY <1>1, <1>3, <1>6, <2>1, <2>2, <2>3
<1> QED BY <1>7, <1>8, <1>9 DEF own, sl

-----------------------------------------------------------------------------
(* What is kept of an image. *)

ImageType == [src : Nat, ent : Nat, base_offset : Nat, units : Seq(Header)]

\* The slices whose copy stands for them and, in a container, for its other dexes.
Copied(sl) == {i \in DOMAIN sl :
                  /\ sl[i].ok
                  /\ sl[i].self_contained \/
                     ~ \E j \in 1..(i-1) :
                          /\ sl[j].ok /\ ~sl[j].self_contained
                          /\ sl[j].container_begin = sl[i].container_begin}
CopyOf(img, s) == IF s.self_contained THEN Image(img, s.offset, s.size)
                  ELSE Image(img, s.container_begin, s.container_end - s.container_begin)

\* A part of an image.
LEMMA PartOfImage ==
    ASSUME NEW img \in Seq(Header), NEW from \in Nat, NEW size \in Nat, from + size <= Len(img),
           src \in Nat, ent \in Nat
    PROVE  LET c == Image(img, from, size)
           IN  /\ c \in ImageType /\ c.src = src /\ c.ent = ent /\ c.base_offset = from
               /\ c.units \in Seq(Header) /\ Len(c.units) = size
               /\ \A off \in 0..(size - 1) : Unit(c.units, off) = Unit(img, from + off)
<1> DEFINE u == SubSeq(img, from + 1, from + size)
           c == Image(img, from, size)
<1>1. Len(img) \in Nat
  OBVIOUS
<1>2. \A i \in (from + 1)..(from + size) : img[i] \in Header
  BY <1>1
<1>3. /\ u \in Seq(Header)
      /\ Len(u) = IF from + 1 <= from + size THEN (from + size) - (from + 1) + 1 ELSE 0
      /\ \A i \in 1..((from + size) - (from + 1) + 1) : u[i] = img[(from + 1) + i - 1]
  <2>1. from + 1 \in Int /\ from + size \in Int
    OBVIOUS
  <2> HIDE DEF u
  <2> QED BY <1>2, <2>1, SubSeqProperties DEF u
<1> HIDE DEF u
<1>4. Len(u) = size /\ \A i \in 1..size : u[i] = img[from + i]
  BY <1>3
<1>5. c = [src |-> src, ent |-> ent, base_offset |-> from, units |-> u]
  BY DEF Image, u
<1> HIDE DEF c
<1>6. c \in ImageType /\ c.src = src /\ c.ent = ent /\ c.base_offset = from /\ c.units = u
  BY <1>3, <1>5 DEF ImageType
<1>7. \A off \in 0..(size - 1) : u[off + 1] = img[(from + off) + 1]
  <2> SUFFICES ASSUME NEW off \in 0..(size - 1) PROVE u[off + 1] = img[(from + off) + 1]
    OBVIOUS
  <2>1. off + 1 \in 1..size /\ from + (off + 1) = (from + off) + 1
    OBVIOUS
  <2>2. u[off + 1] = img[from + (off + 1)]
    BY <1>4, <2>1
  <2> QED BY <2>1, <2>2
<1> QED BY <1>3, <1>4, <1>6, <1>7 DEF c, Unit

\* The sink keeps an image whole if nothing in it was rejected, and otherwise a copy
\* for each copied slice, in their order.
LEMMA KeptMeans ==
    ASSUME NEW img \in Seq(Header), NEW kept \in Seq(LogicalDex),
           \A i \in 1..Len(kept) : kept[i].ok => InContainer(img, kept[i]),
           src \in Nat, ent \in Nat
    PROVE  LET imgs == KeptImages(img, kept)
               all == \A i \in 1..Len(kept) : kept[i].ok
               C == Copied(kept)
           IN  /\ imgs \in Seq(ImageType)
               /\ all => imgs = IF kept = <<>> THEN <<>> ELSE <<Image(img, 0, Len(img))>>
               /\ ~all => /\ Len(imgs) = Cardinality(C)
                          /\ \E at \in [1..Cardinality(C) -> C] :
                               /\ \A k \in 1..Cardinality(C) :
                                    /\ imgs[k] = CopyOf(img, kept[at[k]])
                                    /\ Before(C, at[k]) = k - 1
                               /\ \A i \in C : \E k \in 1..Cardinality(C) : at[k] = i
<1> DEFINE n == Len(kept)
           imgs == KeptImages(img, kept)
           all == \A i \in 1..n : kept[i].ok
           C == Copied(kept)
           c == Cardinality(C)
           at == [k \in 1..c |-> CHOOSE i \in C : Cardinality({j \in C : j <= i}) = k]
<1>1. n \in Nat /\ DOMAIN kept = 1..n /\ \A i \in 1..n : kept[i] \in LogicalDex
  OBVIOUS
<1>2. CASE all
  <2>1. imgs = IF kept = <<>> THEN <<>> ELSE <<Image(img, 0, Len(img))>>
    BY <1>1, <1>2 DEF KeptImages
  <2>2. Image(img, 0, Len(img)) \in ImageType
    <3>1. Len(img) \in Nat /\ 0 + Len(img) <= Len(img)
      OBVIOUS
    <3> QED BY <3>1, PartOfImage
  <2> HIDE DEF imgs
  <2>3. imgs \in Seq(ImageType)
    BY <2>1, <2>2
  <2> QED BY <1>2, <2>1, <2>3 DEF imgs
<1>3. CASE ~all
  <2>1. C \in SUBSET (1..n) /\ \A i \in C : kept[i].ok
    BY <1>1 DEF Copied
  <2>2. imgs = [k \in 1..c |-> CopyOf(img, kept[CHOOSE i \in C : Cardinality({j \in C : j <= i}) = k])]
    BY <1>1, <1>3 DEF KeptImages, Copied, CopyOf
  <2> HIDE DEF C
  <2>3. /\ c \in Nat
        /\ \A i \in C : Before(C, i) \in 0..(c - 1)
        /\ \A d \in 0..(c - 1) : \E i \in C : Before(C, i) = d
    <3> HIDE DEF n
    <3>1. /\ IsFiniteSet(C) /\ c \in Nat
          /\ \A i \in Int : Before(C, i) \in 0..c
          /\ \A i \in C : Before(C, i) < c
          /\ \A d \in 0..(c - 1) : \E i \in C : Before(C, i) = d
      BY <1>1, <2>1, Places
    <3>2. \A i \in C : i \in Int
      BY <1>1, <2>1
    <3> HIDE DEF c
    <3>3. \A i \in C : Before(C, i) \in 0..(c - 1)
      BY <3>1, <3>2
    <3> QED BY <3>1, <3>3
  <2>4. ASSUME NEW i \in C PROVE Cardinality({j \in C : j <= i}) = Before(C, i) + 1
    <3> DEFINE B == {j \in C : j < i}
    <3>1. i \in Int /\ \A j \in C : j \in Int
      BY <2>1
    <3>2. {j \in C : j <= i} = B \cup {i}
      <4>1. \A j \in C : j <= i <=> j < i \/ j = i
        BY <3>1
      <4> QED BY <4>1
    <3>3. i \notin B /\ B \in SUBSET C
      BY <3>1
    <3>4. IsFiniteSet(B)
      <4>1. IsFiniteSet(C)
        <5> HIDE DEF n
        <5> QED BY <1>1, <2>1, Places
      <4> QED BY <3>3, <4>1, FS_Subset
    <3>5. Cardinality(B \cup {i}) = Cardinality(B) + 1
      <4> HIDE DEF B
      <4> QED BY <3>3, <3>4, FS_AddElement
    <3> QED BY <3>2, <3>5 DEF Before
  <2>5. ASSUME NEW k \in 1..c PROVE at[k] \in C /\ Before(C, at[k]) = k - 1
    <3>1. k - 1 \in 0..(c - 1)
      BY <2>3
    <3>2. PICK i \in C : Before(C, i) = k - 1
      BY <2>3, <3>1
    <3>3. Cardinality({j \in C : j <= i}) = k
      BY <2>4, <3>2
    <3>4. at[k] \in C /\ Cardinality({j \in C : j <= at[k]}) = k
      BY <3>3
    <3> HIDE DEF at, c
    <3>5. Before(C, at[k]) + 1 = k /\ Before(C, at[k]) \in 0..(c - 1)
      BY <2>3, <2>4, <3>4
    <3> QED BY <2>3, <3>4, <3>5
  <2>6. ASSUME NEW i \in C PROVE \E k \in 1..c : at[k] = i
    <3> DEFINE k == Before(C, i) + 1
    <3>1. k \in 1..c
      BY <2>3
    <3>2. at[k] \in C /\ Before(C, at[k]) = Before(C, i)
      <4>1. k - 1 = Before(C, i)
        BY <2>3
      <4> QED BY <2>5, <3>1, <4>1
    <3>3. at[k] \in Int /\ i \in Int
      <4>1. \A x \in C : x \in Int
        BY <2>1
      <4> HIDE DEF at, k
      <4> QED BY <3>2, <4>1
    <3>4. ~(at[k] < i) /\ ~(i < at[k])
      <4>1. \A x \in C, y \in Int : x < y => Before(C, x) < Before(C, y)
        <5> HIDE DEF n
        <5> QED BY <1>1, <2>1, Places
      <4>2. ~(Before(C, i) < Before(C, i))
        BY <2>3
      <4> HIDE DEF at, k
      <4> QED BY <3>2, <3>3, <4>1, <4>2
    <3>5. at[k] = i
      <4> HIDE DEF at, k
      <4> QED BY <3>3, <3>4
    <3> QED BY <3>1, <3>5
  <2>7. \A k \in 1..c : imgs[k] = CopyOf(img, kept[at[k]])
    BY <2>2
  <2>8. ASSUME NEW i \in C PROVE CopyOf(img, kept[i]) \in ImageType
    <3>1. i \in 1..n /\ kept[i].ok /\ InContainer(img, kept[i]) /\ kept[i] \in LogicalDex
      BY <1>1, <2>1
    <3>2. CASE kept[i].self_contained
      <4>1. kept[i].offset \in Nat /\ kept[i].size \in Nat /\ kept[i].offset + kept[i].size <= Len(img)
        BY <3>1 DEF LogicalDex, InContainer
      <4> QED BY <3>2, <4>1, PartOfImage DEF CopyOf
    <3>3. CASE ~kept[i].self_contained
      <4> DEFINE b == kept[i].container_begin
                 e == kept[i].container_end
      <4>1. b \in Nat /\ e \in Nat /\ kept[i].offset \in Nat /\ kept[i].size \in Nat
        BY <3>1 DEF LogicalDex
      <4>2. b <= kept[i].offset /\ kept[i].offset + kept[i].size <= e /\ e <= Len(img)
        BY <3>1, <3>3 DEF InContainer
      <4>3. e - b \in Nat /\ b + (e - b) <= Len(img)
        <5> HIDE DEF b, e
        <5> QED BY <4>1, <4>2
      <4> HIDE DEF b, e
      <4>4. Image(img, b, e - b) \in ImageType
        BY <4>1, <4>3, PartOfImage
      <4> QED BY <3>3, <4>4 DEF CopyOf, b, e
    <3> QED BY <3>2, <3>3
  <2> HIDE DEF imgs, at, c
  <2>9. imgs \in Seq(ImageType) /\ Len(imgs) = c
    <3>1. DOMAIN imgs = 1..c /\ imgs = [k \in 1..c |-> imgs[k]]
      BY <2>2 DEF c
    <3>2. \A k \in 1..c : imgs[k] \in ImageType
      BY <2>5, <2>7, <2>8
    <3> QED BY <2>3, <3>1, <3>2
  <2>10. at \in [1..c -> C]
    BY <2>5 DEF at
  <2> QED BY <1>3, <2>5, <2>6, <2>7, <2>9, <2>10 DEF imgs, c, C
<1> QED BY <1>2, <1>3

-----------------------------------------------------------------------------
(* The core's slots. *)

ItemType == [image : Nat, off : Nat, state : {"queued", "built", "null"}]

\* The slots of one image, and the recursion that appends them.
ItemsOf(img, k) ==
    [i \in DOMAIN ParseLogicalDexOffsets(img) |->
        [image |-> k, off |-> ParseLogicalDexOffsets(img)[i], state |-> "queued"]]
CoreSteps(imgs, n, f) ==
    f = [k \in 0..n |-> IF k = 0 THEN <<>> ELSE f[k - 1] \o ItemsOf(imgs[k].units, k)]

\* An image has one slot for each dex of its walk.
LEMMA ItemsMean ==
    ASSUME NEW img \in Seq(Header), NEW k \in Nat
    PROVE  /\ ItemsOf(img, k) \in Seq(ItemType)
           /\ Len(ItemsOf(img, k)) = Len(ParseLogicalDexOffsets(img))
           /\ \A i \in 1..Len(ParseLogicalDexOffsets(img)) :
                /\ ItemsOf(img, k)[i] = [image |-> k, off |-> ParseLogicalDexOffsets(img)[i],
                                         state |-> "queued"]
                /\ ItemsOf(img, k)[i].image = k
                /\ ItemsOf(img, k)[i].off = ParseLogicalDexOffsets(img)[i]
                /\ ItemsOf(img, k)[i].state = "queued"
<1> DEFINE w == ParseLogicalDexOffsets(img)
           item(i) == [image |-> k, off |-> w[i], state |-> "queued"]
<1>1. w \in Seq(0..Len(img)) /\ Len(w) \in Nat /\ DOMAIN w = 1..Len(w)
  <2>1. w \in Seq(0..Len(img))
    BY OffsetsWalk DEF WalkFrom
  <2> HIDE DEF w
  <2> QED BY <2>1
<1>2. ItemsOf(img, k) = [i \in 1..Len(w) |-> item(i)]
  <2>1. ItemsOf(img, k) = [i \in DOMAIN w |-> item(i)]
    BY DEF ItemsOf
  <2> HIDE DEF w
  <2> QED BY <1>1, <2>1
<1> HIDE DEF w
<1>3. \A i \in 1..Len(w) : item(i) \in ItemType
  <2>1. \A i \in 1..Len(w) : w[i] \in Nat
    BY <1>1
  <2> QED BY <2>1 DEF ItemType
<1>4. ItemsOf(img, k) \in Seq(ItemType) /\ Len(ItemsOf(img, k)) = Len(w)
  <2> HIDE DEF item
  <2> QED BY <1>1, <1>2, <1>3
<1>5. \A i \in 1..Len(w) : ItemsOf(img, k)[i] = item(i)
  BY <1>2
<1> QED BY <1>4, <1>5 DEF w

\* Appending them has a result.
LEMMA CoreExists ==
    ASSUME NEW imgs, NEW n \in Nat
    PROVE  \E f : CoreSteps(imgs, n, f)
<1> DEFINE T == {m \in 0..n : ~ \E f : CoreSteps(imgs, m, f)}
<1>1. SUFFICES T = {}
  <2>1. n \in 0..n
    OBVIOUS
  <2> QED BY <1>1, <2>1
<1>2. SUFFICES ASSUME T # {} PROVE FALSE
  OBVIOUS
<1>3. PICK m \in T : \A j \in T : m <= j
  <2>1. T \in SUBSET Nat
    OBVIOUS
  <2> QED BY <1>2, <2>1, Least
<1>4. m \in 0..n /\ ~ \E f : CoreSteps(imgs, m, f)
  OBVIOUS
<1>5. CASE m = 0
  <2> DEFINE f == [k \in 0..0 |-> <<>>]
  <2>1. \A k \in 0..0 : k = 0
    OBVIOUS
  <2>2. f = [k \in 0..0 |-> IF k = 0 THEN <<>> ELSE f[k - 1] \o ItemsOf(imgs[k].units, k)]
    BY <2>1
  <2> QED BY <1>4, <1>5, <2>2 DEF CoreSteps
<1>6. CASE m # 0
  <2>1. m - 1 \in 0..n /\ m - 1 \notin T
    <3> HIDE DEF T
    <3> QED BY <1>3, <1>4, <1>6
  <2>2. PICK f : CoreSteps(imgs, m - 1, f)
    BY <2>1
  <2> DEFINE step(g, k) == IF k = 0 THEN <<>> ELSE g[k - 1] \o ItemsOf(imgs[k].units, k)
             g == [k \in 0..m |-> IF k = m THEN step(f, k) ELSE f[k]]
  <2>3. ASSUME NEW k \in 0..m PROVE g[k] = step(g, k)
    <3>1. k # 0 => k - 1 \in 0..m /\ k - 1 # m /\ k - 1 \in 0..(m - 1)
      BY <1>4
    <3>2. step(g, k) = step(f, k)
      BY <3>1
    <3>3. k # m => k \in 0..(m - 1)
      BY <1>4
    <3>4. k # m => f[k] = step(f, k)
      BY <2>2, <3>3 DEF CoreSteps
    <3> HIDE DEF step
    <3> QED BY <3>2, <3>4
  <2>4. g = [k \in 0..m |-> step(g, k)]
    <3>1. g = [k \in 0..m |-> g[k]]
      OBVIOUS
    <3> HIDE DEF g, step
    <3> QED BY <2>3, <3>1
  <2> HIDE DEF g
  <2>5. CoreSteps(imgs, m, g)
    BY <2>4 DEF CoreSteps
  <2> QED BY <1>4, <2>5
<1> QED BY <1>5, <1>6

\* CoreSplit is that result.
LEMMA CoreIsLast ==
    ASSUME NEW imgs, Len(imgs) \in Nat
    PROVE  \E f : CoreSteps(imgs, Len(imgs), f) /\ CoreSplit(imgs) = f[Len(imgs)]
<1> DEFINE Is(f) == f = [k \in 0..Len(imgs) |->
                          IF k = 0 THEN <<>>
                          ELSE LET offs == ParseLogicalDexOffsets(imgs[k].units)
                               IN  f[k-1] \o [i \in DOMAIN offs |->
                                      [image |-> k, off |-> offs[i], state |-> "queued"]]]
           of == CHOOSE f : Is(f)
<1>1. \A f : Is(f) <=> CoreSteps(imgs, Len(imgs), f)
  BY DEF CoreSteps, ItemsOf
<1>2. CoreSplit(imgs) = of[Len(imgs)]
  BY DEF CoreSplit
<1> HIDE DEF Is
<1>3. Is(of)
  BY <1>1, CoreExists
<1> QED BY <1>1, <1>2, <1>3

\* One more image adds its slots at the end.
LEMMA CoreGrows ==
    ASSUME NEW imgs \in Seq(ImageType), NEW x \in ImageType
    PROVE  CoreSplit(Append(imgs, x)) = CoreSplit(imgs) \o ItemsOf(x.units, Len(imgs) + 1)
<1> DEFINE n == Len(imgs)
           more == Append(imgs, x)
<1>1. /\ n \in Nat /\ Len(more) = n + 1 /\ more[n + 1] = x
      /\ \A k \in 1..n : more[k] = imgs[k]
  OBVIOUS
<1> HIDE DEF more, n
<1>2. PICK f : CoreSteps(imgs, n, f) /\ CoreSplit(imgs) = f[n]
  BY <1>1, CoreIsLast DEF n
<1>3. PICK g : CoreSteps(more, n + 1, g) /\ CoreSplit(more) = g[n + 1]
  <2>1. Len(more) \in Nat
    BY <1>1
  <2> QED BY <1>1, <2>1, CoreIsLast
<1> DEFINE T == {k \in 0..n : f[k] # g[k]}
<1>4. T = {}
  <2>1. SUFFICES ASSUME T # {} PROVE FALSE
    OBVIOUS
  <2>2. PICK k \in T : \A j \in T : k <= j
    <3>1. T \in SUBSET Nat
      BY <1>1
    <3> QED BY <2>1, <3>1, Least
  <2>3. k \in 0..n /\ k \in 0..(n + 1) /\ f[k] # g[k]
    BY <1>1
  <2>4. f[k] = (IF k = 0 THEN <<>> ELSE f[k - 1] \o ItemsOf(imgs[k].units, k))
    BY <1>2, <2>3 DEF CoreSteps
  <2>5. g[k] = (IF k = 0 THEN <<>> ELSE g[k - 1] \o ItemsOf(more[k].units, k))
    BY <1>3, <2>3 DEF CoreSteps
  <2>6. k # 0 => k - 1 \in 0..n /\ k - 1 \notin T /\ k \in 1..n
    <3> HIDE DEF T
    <3> QED BY <1>1, <2>2, <2>3
  <2>7. k # 0 => f[k - 1] = g[k - 1] /\ more[k] = imgs[k]
    BY <1>1, <2>6
  <2> QED BY <2>3, <2>4, <2>5, <2>7
<1>5. f[n] = g[n]
  BY <1>1, <1>4
<1>6. n + 1 \in 0..(n + 1) /\ n + 1 # 0 /\ (n + 1) - 1 = n
  BY <1>1
<1>7. g[n + 1] = g[n] \o ItemsOf(more[n + 1].units, n + 1)
  BY <1>3, <1>6 DEF CoreSteps
<1> QED BY <1>1, <1>2, <1>3, <1>5, <1>7 DEF more, n

\* Without images the core is empty.
LEMMA CoreEmpty == CoreSplit(<<>>) = <<>>
<1>1. Len(<<>>) = 0
  OBVIOUS
<1>2. PICK f : CoreSteps(<<>>, 0, f) /\ CoreSplit(<<>>) = f[0]
  BY <1>1, CoreIsLast
<1> QED BY <1>2 DEF CoreSteps

\* Slots lead to images that are there.
LEMMA CoreType ==
    ASSUME NEW imgs \in Seq(ImageType)
    PROVE  /\ CoreSplit(imgs) \in Seq(ItemType)
           /\ \A d \in 1..Len(CoreSplit(imgs)) :
                CoreSplit(imgs)[d].image \in 1..Len(imgs) /\ CoreSplit(imgs)[d].state = "queued"
<1> DEFINE n == Len(imgs)
           Good(items) == /\ items \in Seq(ItemType)
                          /\ \A d \in 1..Len(items) :
                               items[d].image \in 1..n /\ items[d].state = "queued"
<1>1. n \in Nat
  OBVIOUS
<1>2. PICK f : CoreSteps(imgs, n, f) /\ CoreSplit(imgs) = f[n]
  BY <1>1, CoreIsLast
<1> DEFINE T == {k \in 0..n : ~Good(f[k])}
<1> HIDE DEF Good
<1>3. T = {}
  <2>1. SUFFICES ASSUME T # {} PROVE FALSE
    OBVIOUS
  <2>2. PICK k \in T : \A j \in T : k <= j
    <3>1. T \in SUBSET Nat
      BY <1>1
    <3> QED BY <2>1, <3>1, Least
  <2>3. k \in 0..n /\ ~Good(f[k])
    OBVIOUS
  <2>4. f[k] = (IF k = 0 THEN <<>> ELSE f[k - 1] \o ItemsOf(imgs[k].units, k))
    BY <1>2, <2>3 DEF CoreSteps
  <2>5. CASE k = 0
    <3>1. Good(<<>>)
      BY DEF Good
    <3> QED BY <2>3, <2>4, <2>5, <3>1
  <2>6. CASE k # 0
    <3>1. k - 1 \in 0..n /\ k - 1 \notin T /\ k \in 1..n /\ k \in Nat
      <4> HIDE DEF T
      <4> QED BY <1>1, <2>2, <2>3, <2>6
    <3> DEFINE a == f[k - 1]
               b == ItemsOf(imgs[k].units, k)
    <3>2. Good(a)
      BY <3>1
    <3>3. imgs[k].units \in Seq(Header)
      <4>1. imgs[k] \in ImageType
        BY <3>1
      <4> QED BY <4>1 DEF ImageType
    <3>4. /\ b \in Seq(ItemType)
          /\ \A d \in 1..Len(b) : b[d].image = k /\ b[d].state = "queued"
      <4> DEFINE w == ParseLogicalDexOffsets(imgs[k].units)
      <4>1. /\ b \in Seq(ItemType) /\ Len(b) = Len(w)
            /\ \A d \in 1..Len(w) : b[d].image = k /\ b[d].state = "queued"
        BY <3>1, <3>3, ItemsMean
      <4> HIDE DEF b, w
      <4> QED BY <4>1
    <3> HIDE DEF a, b
    <3>5. /\ a \o b \in Seq(ItemType) /\ Len(a \o b) = Len(a) + Len(b)
          /\ \A d \in 1..(Len(a) + Len(b)) :
               (a \o b)[d] = IF d <= Len(a) THEN a[d] ELSE b[d - Len(a)]
      BY <3>2, <3>4, ConcatProperties DEF Good
    <3>6. ASSUME NEW d \in 1..Len(a \o b)
          PROVE  (a \o b)[d].image \in 1..n /\ (a \o b)[d].state = "queued"
      <4>1. Len(a) \in Nat /\ Len(b) \in Nat
        BY <3>2, <3>4 DEF Good
      <4>2. CASE d <= Len(a)
        <5>1. d \in 1..Len(a) /\ (a \o b)[d] = a[d]
          BY <3>5, <4>1, <4>2
        <5> QED BY <3>2, <5>1 DEF Good
      <4>3. CASE ~(d <= Len(a))
        <5>1. d - Len(a) \in 1..Len(b) /\ (a \o b)[d] = b[d - Len(a)]
          BY <3>5, <4>1, <4>3
        <5> QED BY <3>1, <3>4, <5>1
      <4> QED BY <4>2, <4>3
    <3>7. Good(a \o b)
      BY <3>5, <3>6 DEF Good
    <3> QED BY <2>3, <2>4, <2>6, <3>7 DEF a, b
  <2> QED BY <2>5, <2>6
<1>4. Good(f[n])
  BY <1>1, <1>3
<1> QED BY <1>2, <1>4 DEF Good

-----------------------------------------------------------------------------
(* What the core finds in a copy. *)

\* The slices of an image follow its walk.
LEMMA SliceWalk ==
    ASSUME NEW img \in Seq(Header), NEW sl, SlicesOfImage(img, sl)
    PROVE  LET n == Len(sl)
           IN  /\ n \in Nat /\ DOMAIN sl = 1..n
               /\ \A i \in 1..n :
                    /\ sl[i].offset \in Nat /\ sl[i].size \in Nat \ {0}
                    /\ Fits(img, sl[i].offset) /\ Unit(img, sl[i].offset).size = sl[i].size
                    /\ sl[i].offset + sl[i].size <= Len(img)
                    /\ IF i < n THEN sl[i + 1].offset = sl[i].offset + sl[i].size
                       ELSE ~Fits(img, sl[i].offset + sl[i].size)
               /\ \A i, j \in 1..n : i < j => sl[i].offset < sl[j].offset
               /\ \A i, j \in 1..n : sl[i].offset = sl[j].offset => i = j
               /\ \A i, j \in 1..n : i <= j <=> sl[i].offset <= sl[j].offset
<1> DEFINE w == ParseLogicalDexOffsets(img)
           n == Len(sl)
<1>1. WalkFrom(img, 0, w) /\ sl \in Seq(LogicalDex)
      /\ n = Len(w) /\ \A i \in 1..n : sl[i].offset = w[i] /\ sl[i].size = Unit(img, w[i]).size
  BY OffsetsWalk DEF SlicesOfImage
<1> HIDE DEF w
<1>2. n \in Nat /\ DOMAIN sl = 1..n
  BY <1>1
<1>3. /\ \A i \in 1..n : /\ w[i] \in 0..(Len(img) - 1) /\ Unit(img, w[i]).size \in Nat \ {0}
                         /\ w[i] + Unit(img, w[i]).size <= Len(img)
      /\ \A i, j \in 1..n : i < j => w[i] + Unit(img, w[i]).size <= w[j]
  BY <1>1, WalkOrder
<1>4. \A i \in 1..n : /\ Fits(img, w[i])
                      /\ IF i < n THEN w[i + 1] = w[i] + Unit(img, w[i]).size
                         ELSE ~Fits(img, w[i] + Unit(img, w[i]).size)
  BY <1>1 DEF WalkFrom
<1> HIDE DEF n
<1>5. ASSUME NEW i \in 1..n
      PROVE  /\ sl[i].offset \in Nat /\ sl[i].size \in Nat \ {0}
             /\ Fits(img, sl[i].offset) /\ Unit(img, sl[i].offset).size = sl[i].size
             /\ sl[i].offset + sl[i].size <= Len(img)
             /\ IF i < n THEN sl[i + 1].offset = sl[i].offset + sl[i].size
                ELSE ~Fits(img, sl[i].offset + sl[i].size)
  <2>1. w[i] \in Nat
    BY <1>3
  <2>2. i < n => sl[i + 1].offset = w[i + 1]
    <3>1. i < n => i + 1 \in 1..n
      BY <1>2
    <3> QED BY <1>1, <3>1
  <2>3. sl[i].offset = w[i] /\ sl[i].size = Unit(img, w[i]).size
    BY <1>1
  <2>4. Unit(img, w[i]).size \in Nat \ {0} /\ w[i] + Unit(img, w[i]).size <= Len(img)
    BY <1>3
  <2>5. /\ Fits(img, w[i])
        /\ IF i < n THEN w[i + 1] = w[i] + Unit(img, w[i]).size
           ELSE ~Fits(img, w[i] + Unit(img, w[i]).size)
    BY <1>4
  <2> QED BY <2>1, <2>2, <2>3, <2>4, <2>5
<1>6. ASSUME NEW i \in 1..n, NEW j \in 1..n, i < j PROVE sl[i].offset < sl[j].offset
  <2>1. w[i] + Unit(img, w[i]).size <= w[j]
    BY <1>3, <1>6
  <2>2. w[i] \in Nat /\ w[j] \in Nat /\ Unit(img, w[i]).size \in Nat \ {0}
    BY <1>3
  <2>3. w[i] < w[j]
    BY <2>1, <2>2
  <2> QED BY <1>1, <2>3 DEF n
<1>7. ASSUME NEW i \in 1..n, NEW j \in 1..n
      PROVE  /\ sl[i].offset = sl[j].offset => i = j
             /\ i <= j <=> sl[i].offset <= sl[j].offset
  <2>1. i \in Int /\ j \in Int /\ sl[i].offset \in Int /\ sl[j].offset \in Int
    BY <1>2, <1>5
  <2>2. (i < j => sl[i].offset < sl[j].offset) /\ (j < i => sl[j].offset < sl[i].offset)
    BY <1>6
  <2> QED BY <2>1, <2>2
<1> QED BY <1>2, <1>5, <1>6, <1>7 DEF n

\* Slices do not overlap, and each covers more than nothing.
LEMMA SliceOrder ==
    ASSUME NEW img \in Seq(Header), NEW sl, SlicesOfImage(img, sl)
    PROVE  \A i, j \in 1..Len(sl) : i < j => sl[i].offset + sl[i].size <= sl[j].offset
<1> DEFINE w == ParseLogicalDexOffsets(img)
<1>1. WalkFrom(img, 0, w)
      /\ Len(sl) = Len(w) /\ \A i \in 1..Len(sl) : sl[i].offset = w[i] /\ sl[i].size = Unit(img, w[i]).size
  BY OffsetsWalk DEF SlicesOfImage
<1> HIDE DEF w
<1>2. \A i, j \in 1..Len(w) : i < j => w[i] + Unit(img, w[i]).size <= w[j]
  BY <1>1, WalkOrder
<1> QED BY <1>1, <1>2

\* The range of the copy that stands for a slice, and the slices that begin in it.
From(s) == IF s.self_contained THEN s.offset ELSE s.container_begin
To(s) == IF s.self_contained THEN s.offset + s.size ELSE s.container_end
InCopy(sl, i, j) == From(sl[i]) <= sl[j].offset /\ sl[j].offset < To(sl[i])

\* Every accepted slice begins in the range of one copy.
CopiesApart(sl) ==
    \A j \in 1..Len(sl) : sl[j].ok =>
        \E i \in Copied(sl) : InCopy(sl, i, j) /\ \A m \in Copied(sl) : InCopy(sl, m, j) => m = i

\* A copy begins with a dex, and of the dexes that begin in its range those and no
\* others were accepted that end in it.
CopiesClosed(sl) ==
    \A i \in Copied(sl) :
        /\ \E j \in 1..Len(sl) : sl[j].offset = From(sl[i])
        /\ \A j \in 1..Len(sl) : InCopy(sl, i, j) =>
               (sl[j].ok <=> sl[j].offset + sl[j].size <= To(sl[i]))

\* An accepted slice lies in the range of its copy, and that in the image.
LEMMA CopyRange ==
    ASSUME NEW img \in Seq(Header), NEW sl, SlicesOfImage(img, sl), NEW i \in 1..Len(sl),
           InContainer(img, sl[i])
    PROVE  /\ From(sl[i]) \in Nat /\ To(sl[i]) \in Nat
           /\ From(sl[i]) <= sl[i].offset /\ sl[i].offset + sl[i].size <= To(sl[i])
           /\ From(sl[i]) < To(sl[i]) /\ To(sl[i]) <= Len(img)
           /\ InCopy(sl, i, i)
           /\ \E size \in Nat : /\ size = To(sl[i]) - From(sl[i])
                                /\ From(sl[i]) + size = To(sl[i])
                                /\ CopyOf(img, sl[i]) = Image(img, From(sl[i]), size)
<1> DEFINE o == sl[i].offset
           z == sl[i].size
           f == From(sl[i])
           t == To(sl[i])
<1>1. o \in Nat /\ z \in Nat \ {0} /\ sl[i] \in LogicalDex
  <2>1. sl \in Seq(LogicalDex)
    BY DEF SlicesOfImage
  <2> QED BY <2>1, SliceWalk
<1>2. /\ f = IF sl[i].self_contained THEN o ELSE sl[i].container_begin
      /\ t = IF sl[i].self_contained THEN o + z ELSE sl[i].container_end
  BY DEF From, To
<1>3. sl[i].container_begin \in Nat /\ sl[i].container_end \in Nat
  BY <1>1 DEF LogicalDex
<1>4. /\ o + z <= Len(img)
      /\ ~sl[i].self_contained => /\ sl[i].container_begin <= o /\ o + z <= sl[i].container_end
                                  /\ sl[i].container_end <= Len(img)
  BY DEF InContainer
<1>5. CopyOf(img, sl[i]) = Image(img, f, IF sl[i].self_contained THEN z ELSE t - f)
  BY <1>2 DEF CopyOf
<1> HIDE DEF o, z, f, t
<1>6. f \in Nat /\ t \in Nat /\ f <= o /\ o + z <= t /\ t <= Len(img)
  BY <1>1, <1>2, <1>3, <1>4
<1>7. f < t /\ o < t /\ t - f \in Nat /\ f + (t - f) = t /\ (sl[i].self_contained => t - f = z)
  <2>1. o < t /\ f < t
    BY <1>1, <1>6
  <2>2. t - f \in Nat /\ f + (t - f) = t
    BY <1>6, <2>1
  <2>3. sl[i].self_contained => t = f + z
    BY <1>2
  <2> QED BY <1>1, <1>6, <2>1, <2>2, <2>3
<1>8. CopyOf(img, sl[i]) = Image(img, f, t - f)
  BY <1>5, <1>7
<1> QED BY <1>6, <1>7, <1>8 DEF InCopy, f, t, o, z

\* The core finds in the image x the slices i to h - 1.
HoldsSlices(x, sl, i, h) ==
    /\ x \in ImageType /\ x.src = src /\ x.ent = ent
    /\ Len(ParseLogicalDexOffsets(x.units)) = h - i
    /\ \A j \in i..(h - 1) :
         x.base_offset + ParseLogicalDexOffsets(x.units)[j - i + 1] = sl[j].offset

\* A part of an image is split as its slices i to h - 1 are, when it begins with the
\* first of these, ends with or behind the last and the next does not end in it.
LEMMA WalkOfPart ==
    ASSUME NEW img \in Seq(Header), NEW sl, SlicesOfImage(img, sl), src \in Nat, ent \in Nat,
           NEW i \in 1..Len(sl), NEW h \in (i + 1)..(Len(sl) + 1), NEW size \in Nat,
           sl[i].offset + size <= Len(img),
           \A j \in i..(h - 1) : sl[j].offset + sl[j].size <= sl[i].offset + size,
           h <= Len(sl) => sl[i].offset + size < sl[h].offset + sl[h].size
    PROVE  HoldsSlices(Image(img, sl[i].offset, size), sl, i, h)
<1> DEFINE n == Len(sl)
           N == Len(img)
           o(j) == sl[j].offset
           z(j) == sl[j].size
           b == o(i)
           x == Image(img, b, size)
           u == x.units
           v == [d \in 1..(h - i) |-> o(i + d - 1) - b]
<1>1. /\ n \in Nat /\ i \in 1..n /\ h \in (i + 1)..(n + 1) /\ i \in Nat /\ h \in Nat
      /\ h - i \in Nat \ {0} /\ N \in Nat
  BY SliceWalk
<1>2. \A j \in 1..n :
        /\ o(j) \in Nat /\ z(j) \in Nat \ {0}
        /\ Fits(img, o(j)) /\ Unit(img, o(j)).size = z(j)
        /\ IF j < n THEN o(j + 1) = o(j) + z(j) ELSE ~Fits(img, o(j) + z(j))
  BY SliceWalk
<1>3. \A j, k \in 1..n : j < k => o(j) < o(k)
  BY SliceWalk
<1>4. b \in Nat /\ b + size <= N /\ o(i) = b
  BY <1>1, <1>2
<1>44. /\ \A j \in i..(h - 1) : o(j) + z(j) <= b + size
       /\ h <= n => b + size < o(h) + z(h)
  OBVIOUS
<1> HIDE DEF n, N, o, z
<1>5. /\ x \in ImageType /\ x.src = src /\ x.ent = ent /\ x.base_offset = b
      /\ u \in Seq(Header) /\ Len(u) = size
      /\ \A off \in 0..(size - 1) : Unit(u, off) = Unit(img, b + off)
  <2> HIDE DEF b
  <2> QED BY <1>4, PartOfImage DEF N
<1> HIDE DEF b, x, u
<1>55. \A off \in Nat : Fits(u, off) <=> /\ off < size /\ Unit(img, b + off).size >= 1
                                         /\ off + Unit(img, b + off).size <= size
  <2> SUFFICES ASSUME NEW off \in Nat
               PROVE  Fits(u, off) <=> /\ off < size /\ Unit(img, b + off).size >= 1
                                       /\ off + Unit(img, b + off).size <= size
    OBVIOUS
  <2>1. off < size => off \in 0..(size - 1)
    OBVIOUS
  <2>2. off < size => Unit(u, off) = Unit(img, b + off)
    BY <1>5, <2>1
  <2> QED BY <1>5, <2>2 DEF Fits
<1>6. ASSUME NEW j \in i..(h - 1)
      PROVE  /\ j \in 1..n /\ o(j) - b \in 0..(size - 1) /\ (o(j) - b) + z(j) <= size
             /\ Fits(u, o(j) - b) /\ Unit(u, o(j) - b).size = z(j)
  <2>1. j \in 1..n /\ (j = i \/ i < j)
    BY <1>1
  <2>2. o(j) \in Nat /\ z(j) \in Nat \ {0} /\ Unit(img, o(j)).size = z(j)
    BY <1>2, <2>1
  <2>3. b <= o(j)
    <3>1. i < j => o(i) < o(j)
      BY <1>1, <1>3, <2>1
    <3> QED BY <1>4, <2>1, <2>2, <3>1
  <2>4. o(j) + z(j) <= b + size
    BY <1>44
  <2>5. o(j) - b \in 0..(size - 1) /\ (o(j) - b) + z(j) <= size /\ b + (o(j) - b) = o(j)
        /\ o(j) - b \in Nat
    <3>1. \A p, q, y \in Nat : p <= q /\ y # 0 /\ q + y <= p + size =>
            /\ q - p \in 0..(size - 1) /\ (q - p) + y <= size
            /\ p + (q - p) = q /\ q - p \in Nat
      OBVIOUS
    <3> QED BY <1>4, <2>2, <2>3, <2>4, <3>1
  <2>6. Unit(u, o(j) - b).size = z(j)
    BY <1>5, <2>2, <2>5
  <2>7. Fits(u, o(j) - b)
    <3>1. Unit(img, b + (o(j) - b)).size = z(j) /\ z(j) >= 1 /\ o(j) - b < size
      <4>1. \A p \in Int : p \in 0..(size - 1) => p < size
        OBVIOUS
      <4>2. z(j) >= 1
        BY <2>2
      <4> QED BY <2>2, <2>5, <4>1, <4>2
    <3> QED BY <1>55, <2>5, <3>1
  <2> QED BY <2>1, <2>5, <2>6, <2>7
<1>7. ASSUME NEW d \in 1..(h - i)
      PROVE  i + d - 1 \in i..(h - 1) /\ v[d] = o(i + d - 1) - b
  BY <1>1
<1>8. v \in Seq(0..Len(u)) /\ Len(v) = h - i
  <2>1. ASSUME NEW d \in 1..(h - i) PROVE v[d] \in 0..Len(u)
    <3>1. v[d] \in 0..(size - 1)
      BY <1>6, <1>7
    <3> QED BY <1>5, <3>1
  <2> DEFINE m == h - i
             S == 0..Len(u)
  <2>3. m \in Nat
    BY <1>1
  <2>4. v = [d \in 1..m |-> v[d]]
    OBVIOUS
  <2>5. \A d \in 1..m : v[d] \in S
    BY <2>1
  <2> HIDE DEF v, m, S
  <2>6. v \in Seq(S) /\ Len(v) = m
    BY <2>3, <2>4, <2>5
  <2> QED BY <2>6 DEF m, S
<1> HIDE DEF v
<1>9. v # <<>> /\ v[1] = 0
  <2>1. 1 \in 1..(h - i) /\ i + 1 - 1 = i
    BY <1>1
  <2>2. v[1] = b - b
    BY <1>4, <1>7, <2>1
  <2> QED BY <1>1, <1>4, <1>8, <2>2
<1>10. ASSUME NEW d \in 1..(h - i)
       PROVE  /\ Fits(u, v[d])
              /\ IF d < h - i THEN v[d + 1] = v[d] + Unit(u, v[d]).size
                 ELSE ~Fits(u, v[d] + Unit(u, v[d]).size)
  <2> DEFINE j == i + d - 1
  <2>1. /\ j \in i..(h - 1) /\ j \in 1..n /\ v[d] = o(j) - b
        /\ v[d] \in 0..(size - 1) /\ v[d] + z(j) <= size
        /\ Fits(u, v[d]) /\ Unit(u, v[d]).size = z(j)
    BY <1>6, <1>7
  <2>2. o(j) \in Nat /\ z(j) \in Nat
    BY <1>2, <2>1
  <2>3. v[d] + z(j) \in Nat /\ b + (v[d] + z(j)) = o(j) + z(j)
    <3>1. \A p, q, k, y \in Int : k = q - p => p + (k + y) = q + y
      OBVIOUS
    <3>2. \A k \in 0..(size - 1) : k \in Int
      OBVIOUS
    <3> HIDE DEF j
    <3>3. b \in Int /\ o(j) \in Int /\ v[d] \in Int /\ z(j) \in Int
      BY <1>4, <2>1, <2>2, <3>2
    <3>4. b + (v[d] + z(j)) = o(j) + z(j)
      BY <2>1, <3>1, <3>3
    <3>5. \A k \in 0..(size - 1), y \in Nat : k + y \in Nat
      OBVIOUS
    <3> QED BY <2>1, <2>2, <3>4, <3>5
  <2>4. CASE d < h - i
    <3>1. d + 1 \in 1..(h - i) /\ i + (d + 1) - 1 = j + 1 /\ j < n
      BY <1>1, <2>4
    <3>2. v[d + 1] = o(j + 1) - b
      BY <1>7, <3>1
    <3>3. o(j + 1) = o(j) + z(j)
      BY <1>2, <2>1, <3>1
    <3>4. v[d + 1] = v[d] + z(j)
      <4>1. \A p, q, y \in Int : (q + y) - p = (q - p) + y
        OBVIOUS
      <4> HIDE DEF j
      <4> QED BY <1>4, <2>1, <2>2, <3>2, <3>3, <4>1
    <3> QED BY <2>1, <2>4, <3>4
  <2>5. CASE ~(d < h - i)
    <3>1. j = h - 1 /\ j + 1 = h
      <4>1. d = h - i
        BY <1>1, <2>5
      <4>2. h \in Int /\ i \in Int
        BY <1>1
      <4> QED BY <4>1, <4>2
    <3> DEFINE p == v[d] + z(j)
    <3> SUFFICES ASSUME Fits(u, p) PROVE FALSE
      BY <2>1, <2>5
    <3> HIDE DEF j
    <3>2. p \in Nat /\ b + p = o(j) + z(j)
      BY <2>3
    <3> HIDE DEF p
    <3>3. p < size /\ Unit(img, b + p).size >= 1 /\ p + Unit(img, b + p).size <= size
      BY <1>55, <3>2
    <3>4. CASE h <= n
      <4>1. j < n /\ o(h) = o(j) + z(j) /\ h \in 1..n
        <5>1. j < n /\ h \in 1..n
          BY <1>1, <3>1, <3>4
        <5> QED BY <1>2, <2>1, <3>1, <5>1
      <4>2. o(h) = b + p /\ Unit(img, b + p).size = z(h) /\ z(h) \in Nat
        BY <1>2, <3>2, <4>1
      <4>3. b + size < (b + p) + z(h) /\ p + z(h) <= size
        BY <1>44, <3>3, <3>4, <4>2
      <4> QED BY <1>4, <3>2, <4>2, <4>3
    <3>5. CASE ~(h <= n)
      <4>1. ~(j < n)
        BY <1>1, <3>1, <3>5
      <4>2. ~Fits(img, b + p)
        BY <1>2, <2>1, <3>2, <4>1
      <4>3. b + p < N /\ b + p \in Nat
        BY <1>1, <1>4, <3>2, <3>3
      <4>4. Unit(img, b + p).size \in Nat
        <5>1. b + p + 1 \in 1..Len(img)
          BY <1>1, <4>3 DEF N
        <5>2. Unit(img, b + p) \in Header
          BY <5>1 DEF Unit
        <5> QED BY <5>2 DEF Header
      <4>5. b + p + Unit(img, b + p).size <= N
        <5> DEFINE U == Unit(img, b + p).size
        <5>1. U \in Nat /\ p + U <= size /\ b + size <= N /\ b \in Nat /\ p \in Nat /\ N \in Nat
          BY <1>1, <1>4, <3>2, <3>3, <4>4
        <5> HIDE DEF U, N, b
        <5>2. b + p + U <= N
          BY <5>1
        <5> QED BY <5>2 DEF U
      <4> QED BY <3>3, <4>2, <4>3, <4>5 DEF Fits, N
    <3> QED BY <3>4, <3>5
  <2> QED BY <2>1, <2>4, <2>5
<1>11. WalkFrom(u, 0, v)
  BY <1>8, <1>9, <1>10 DEF WalkFrom
<1>12. ParseLogicalDexOffsets(u) = v
  <2>1. WalkFrom(u, 0, ParseLogicalDexOffsets(u))
    BY <1>5, OffsetsWalk
  <2> QED BY <1>5, <1>11, <2>1, OneWalk
<1>13. ASSUME NEW j \in i..(h - 1) PROVE x.base_offset + v[j - i + 1] = o(j)
  <2>1. j - i + 1 \in 1..(h - i) /\ i + (j - i + 1) - 1 = j
    BY <1>1
  <2>2. v[j - i + 1] = o(j) - b
    BY <1>7, <2>1
  <2>3. o(j) \in Nat
    BY <1>2, <1>6
  <2> QED BY <1>4, <1>5, <2>2, <2>3
<1> QED BY <1>5, <1>8, <1>12, <1>13 DEF HoldsSlices, x, u, b, n, o

\* A part of an image that begins with a dex is split into the dexes that end in it.
LEMMA PartSplit ==
    ASSUME NEW img \in Seq(Header), NEW sl, SlicesOfImage(img, sl), src \in Nat, ent \in Nat,
           NEW i \in 1..Len(sl), NEW size \in Nat, sl[i].size <= size,
           sl[i].offset + size <= Len(img)
    PROVE  \E h \in (i + 1)..(Len(sl) + 1) :
             /\ HoldsSlices(Image(img, sl[i].offset, size), sl, i, h)
             /\ \A j \in 1..Len(sl) :
                  i <= j /\ j < h <=> /\ sl[i].offset <= sl[j].offset
                                      /\ sl[j].offset + sl[j].size <= sl[i].offset + size
<1> DEFINE n == Len(sl)
           o(j) == sl[j].offset
           z(j) == sl[j].size
           e == o(i) + size
           T == {j \in (i + 1)..(n + 1) : j = n + 1 \/ ~(o(j) + z(j) <= e)}
<1>1. /\ n \in Nat /\ i \in 1..n
      /\ \A j \in 1..n : o(j) \in Nat /\ z(j) \in Nat \ {0}
      /\ \A j, k \in 1..n : j <= k <=> o(j) <= o(k)
  BY SliceWalk
<1>2. \A j, k \in 1..n : j < k => o(j) + z(j) <= o(k)
  BY SliceOrder
<1>20. z(i) <= size /\ e <= Len(img)
  OBVIOUS
<1> HIDE DEF n, o, z
<1>3. e \in Nat /\ o(i) + z(i) <= e
  BY <1>1, <1>20
<1> HIDE DEF e
<1>4. PICK h \in T : \A j \in T : h <= j
  <2>1. T \in SUBSET Nat
    BY <1>1
  <2>2. n + 1 \in T
    BY <1>1
  <2> HIDE DEF T
  <2> QED BY <2>1, <2>2, Least
<1>5. h \in (i + 1)..(n + 1) /\ (h <= n => ~(o(h) + z(h) <= e))
  BY <1>1, <1>4
<1>6. ASSUME NEW j \in i..(h - 1) PROVE j \in 1..n /\ o(j) + z(j) <= e
  <2>1. j \in 1..n
    BY <1>1, <1>5
  <2>2. j # i => j \in (i + 1)..(n + 1) /\ ~(h <= j) /\ j # n + 1
    BY <1>1, <1>5, <2>1
  <2>3. j # i => j \notin T
    <3> HIDE DEF T
    <3> QED BY <1>4, <2>2
  <2> QED BY <1>3, <2>1, <2>2, <2>3
<1>7. ASSUME NEW j \in 1..n, h <= j PROVE ~(o(j) + z(j) <= e)
  <2>1. h \in 1..n /\ (h = j \/ h < j) /\ ~(o(h) + z(h) <= e)
    BY <1>1, <1>5, <1>7
  <2>2. h < j => o(h) + z(h) <= o(j)
    BY <1>2, <2>1
  <2> QED BY <1>1, <1>3, <2>1, <2>2
<1>8. ASSUME NEW j \in 1..n
      PROVE  i <= j /\ j < h <=> o(i) <= o(j) /\ o(j) + z(j) <= e
  <2>1. i <= j <=> o(i) <= o(j)
    BY <1>1
  <2>2. i <= j /\ j < h => j \in i..(h - 1)
    BY <1>1, <1>5
  <2>3. ~(j < h) => h <= j
    BY <1>1, <1>5
  <2> QED BY <1>6, <1>7, <2>1, <2>2, <2>3
<1>9. HoldsSlices(Image(img, sl[i].offset, size), sl, i, h)
  <2>1. \A j \in i..(h - 1) : sl[j].offset + sl[j].size <= sl[i].offset + size
    BY <1>6 DEF o, z, e
  <2>2. h <= Len(sl) => sl[i].offset + size < sl[h].offset + sl[h].size
    <3>1. h <= n => e < o(h) + z(h)
      <4>1. h <= n => h \in 1..n
        BY <1>1, <1>5
      <4> QED BY <1>1, <1>3, <1>5, <4>1
    <3> QED BY <3>1 DEF n, o, z, e
  <2>3. i \in 1..Len(sl) /\ h \in (i + 1)..(Len(sl) + 1)
    BY <1>1, <1>5 DEF n
  <2> QED BY <2>1, <2>2, <2>3, WalkOfPart
<1> QED BY <1>5, <1>8, <1>9 DEF n, o, z, e

\* What the core finds in a part of an image, by offset.
PartDexes(x) == {x.base_offset + ParseLogicalDexOffsets(x.units)[d] : d \in DOMAIN ParseLogicalDexOffsets(x.units)}
\* The dexes that begin and end in a range.
DexesIn(sl, from, end) ==
    {sl[j].offset : j \in {k \in 1..Len(sl) : from <= sl[k].offset /\ sl[k].offset + sl[k].size <= end}}

\* A part is split from its first unit, whether or not a dex begins there; when one
\* does, into the dexes that begin and end in the part.
LEMMA PartMeans ==
    ASSUME NEW img \in Seq(Header), NEW sl, SlicesOfImage(img, sl), src \in Nat, ent \in Nat,
           NEW from \in Nat, NEW size \in Nat, from + size <= Len(img)
    PROVE  LET x == Image(img, from, size)
           IN  /\ PartDexes(x) = {} \/ from \in PartDexes(x)
               /\ (\E i \in 1..Len(sl) : sl[i].offset = from) =>
                    PartDexes(x) = DexesIn(sl, from, from + size)
<1> DEFINE x == Image(img, from, size)
           w == ParseLogicalDexOffsets(x.units)
           n == Len(sl)
           In(k) == from <= sl[k].offset /\ sl[k].offset + sl[k].size <= from + size
<1>1. /\ x.base_offset = from /\ x.units \in Seq(Header) /\ Len(x.units) = size
      /\ \A off \in 0..(size - 1) : Unit(x.units, off) = Unit(img, from + off)
  BY PartOfImage
<1>2. WalkFrom(x.units, 0, w)
  BY <1>1, OffsetsWalk
<1>3. w \in Seq(Nat) /\ (w = <<>> \/ (w[1] = 0 /\ 1 \in DOMAIN w /\ Fits(x.units, 0)))
  <2> HIDE DEF w, x
  <2>1. w \in Seq(0..Len(x.units)) /\ Len(x.units) \in Nat
    BY <1>1, <1>2 DEF WalkFrom
  <2>2. w # <<>> => 1 \in 1..Len(w) /\ DOMAIN w = 1..Len(w)
    BY <2>1
  <2>3. w # <<>> => w[1] = 0 /\ Fits(x.units, w[1])
    BY <1>2, <2>2 DEF WalkFrom
  <2>4. w \in Seq(Nat)
    BY <2>1
  <2> QED BY <2>2, <2>3, <2>4
<1>4. PartDexes(x) = {from + w[d] : d \in DOMAIN w}
  BY <1>1 DEF PartDexes
<1> HIDE DEF x, w
<1>5. PartDexes(x) = {} \/ from \in PartDexes(x)
  <2>1. w = <<>> => DOMAIN w = {}
    OBVIOUS
  <2>2. from + 0 = from
    OBVIOUS
  <2> QED BY <1>3, <1>4, <2>1, <2>2
<1>6. ASSUME NEW i \in 1..n, sl[i].offset = from
      PROVE  PartDexes(x) = {sl[j].offset : j \in {k \in 1..n : In(k)}}
  <2>1. /\ n \in Nat
        /\ \A j \in 1..n : sl[j].offset \in Nat /\ sl[j].size \in Nat \ {0}
        /\ Unit(img, sl[i].offset).size = sl[i].size
        /\ \A j, k \in 1..n : j <= k <=> sl[j].offset <= sl[k].offset
    BY SliceWalk
  <2>2. CASE sl[i].size <= size
    <3>1. PICK h \in (i + 1)..(n + 1) :
            /\ HoldsSlices(x, sl, i, h)
            /\ \A j \in 1..n : i <= j /\ j < h <=> In(j)
      BY <1>6, <2>2, PartSplit DEF x
    <3>2. /\ Len(w) = h - i
          /\ \A j \in i..(h - 1) : from + w[j - i + 1] = sl[j].offset
      BY <1>1, <3>1 DEF HoldsSlices, w, x
    <3>3. i \in Int /\ h \in Int /\ i < h /\ h <= n + 1 /\ DOMAIN w = 1..(h - i)
      BY <1>3, <2>1, <3>1, <3>2
    <3>4. ASSUME NEW j \in 1..n, In(j) PROVE sl[j].offset \in PartDexes(x)
      <4>1. j \in i..(h - 1) /\ j - i + 1 \in 1..(h - i)
        <5>1. i <= j /\ j < h
          BY <3>1, <3>4
        <5> QED BY <2>1, <3>3, <5>1
      <4> QED BY <1>4, <3>2, <3>3, <4>1
    <3>5. ASSUME NEW d \in DOMAIN w PROVE \E j \in 1..n : In(j) /\ from + w[d] = sl[j].offset
      <4> DEFINE j == d + i - 1
      <4>1. j \in i..(h - 1) /\ j \in 1..n /\ j - i + 1 = d /\ i <= j /\ j < h
        <5>1. \A a, b, c \in Int : a < b /\ b <= c + 1 =>
                \A q \in 1..(b - a) : /\ q + a - 1 \in a..(b - 1) /\ q + a - 1 <= c
                                      /\ (q + a - 1) - a + 1 = q
                                      /\ a <= q + a - 1 /\ q + a - 1 < b
          OBVIOUS
        <5>2. n \in Int /\ 1 <= i /\ d \in 1..(h - i)
          BY <2>1, <3>3
        <5>3. /\ j \in i..(h - 1) /\ j <= n /\ j - i + 1 = d /\ i <= j /\ j < h
          <6> HIDE DEF n
          <6> QED BY <3>3, <5>1, <5>2
        <5>4. j \in Int
          BY <3>3, <5>2
        <5> HIDE DEF j, n
        <5> QED BY <5>2, <5>3, <5>4
      <4>2. In(j)
        <5> HIDE DEF j, In
        <5> QED BY <3>1, <4>1
      <4>3. from + w[d] = sl[j].offset
        BY <3>2, <4>1
      <4> QED BY <4>1, <4>2, <4>3
    <3> HIDE DEF In
    <3> QED BY <1>4, <3>4, <3>5
  <2>3. CASE ~(sl[i].size <= size)
    <3>1. w = <<>>
      <4> SUFFICES ASSUME w # <<>> PROVE FALSE
        OBVIOUS
      <4>1. Fits(x.units, 0)
        BY <1>3
      <4>2. 0 < size /\ Unit(x.units, 0).size <= size
        <5>1. 0 < Len(x.units) /\ 0 + Unit(x.units, 0).size <= Len(x.units)
          BY <4>1 DEF Fits
        <5>2. 0 \in 0..(size - 1)
          BY <1>1, <5>1
        <5>3. Unit(x.units, 0) = Unit(img, from + 0) /\ from + 0 = sl[i].offset
          BY <1>1, <1>6, <5>2
        <5>4. Unit(x.units, 0).size = sl[i].size
          BY <2>1, <5>3
        <5> QED BY <1>1, <2>1, <5>1, <5>4
      <4>3. Unit(x.units, 0) = Unit(img, from + 0) /\ from + 0 = sl[i].offset
        <5>1. 0 \in 0..(size - 1)
          BY <4>2
        <5> QED BY <1>1, <1>6, <5>1
      <4> QED BY <2>1, <2>3, <4>2, <4>3
    <3>2. ASSUME NEW j \in 1..n PROVE ~In(j)
      <4> SUFFICES ASSUME In(j) PROVE FALSE
        OBVIOUS
      <4>1. from <= sl[j].offset /\ sl[j].offset + sl[j].size <= from + size
        OBVIOUS
      <4>2. i <= j
        BY <1>6, <2>1, <4>1
      <4>3. sl[i].offset + sl[i].size <= sl[j].offset + sl[j].size
        <5>1. i < j => sl[i].offset + sl[i].size <= sl[j].offset
          BY SliceOrder
        <5>2. i = j \/ i < j
          BY <2>1, <4>2
        <5> QED BY <2>1, <5>1, <5>2
      <4> QED BY <1>6, <2>1, <2>3, <4>1, <4>3
    <3>3. DOMAIN w = {}
      BY <3>1
    <3> HIDE DEF In
    <3>4. PartDexes(x) = {} /\ {k \in 1..n : In(k)} = {}
      BY <1>4, <3>2, <3>3
    <3> QED BY <3>4
  <2> QED BY <2>2, <2>3
<1> QED BY <1>5, <1>6 DEF x, n, DexesIn

\* The core finds in a closed copy the accepted slices of its range, which follow
\* each other.
LEMMA CopyWalk ==
    ASSUME NEW img \in Seq(Header), NEW sl, SlicesOfImage(img, sl), src \in Nat, ent \in Nat,
           CopiesClosed(sl), NEW i \in Copied(sl), InContainer(img, sl[i])
    PROVE  \E a \in 1..i : \E h \in (i + 1)..(Len(sl) + 1) :
             /\ HoldsSlices(CopyOf(img, sl[i]), sl, a, h)
             /\ \A j \in 1..Len(sl) : a <= j /\ j < h <=> sl[j].ok /\ InCopy(sl, i, j)
<1> DEFINE n == Len(sl)
           f == From(sl[i])
           t == To(sl[i])
<1>1. /\ n \in Nat /\ i \in 1..n /\ sl[i].ok
      /\ \A j \in 1..n : sl[j].offset \in Nat /\ sl[j].size \in Nat \ {0} /\ sl[j].ok \in BOOLEAN
      /\ \A j, k \in 1..n : j <= k <=> sl[j].offset <= sl[k].offset
  <2>1. /\ n \in Nat /\ DOMAIN sl = 1..n
        /\ \A j \in 1..n : sl[j].offset \in Nat /\ sl[j].size \in Nat \ {0}
        /\ \A j, k \in 1..n : j <= k <=> sl[j].offset <= sl[k].offset
    BY SliceWalk
  <2>2. i \in 1..n /\ sl[i].ok
    BY <2>1 DEF Copied
  <2>3. \A j \in 1..n : sl[j] \in LogicalDex
    <3>1. sl \in Seq(LogicalDex)
      BY DEF SlicesOfImage
    <3> QED BY <3>1
  <2>4. \A j \in 1..n : sl[j].ok \in BOOLEAN
    BY <2>3 DEF LogicalDex
  <2> QED BY <2>1, <2>2, <2>4
<1>2. /\ f \in Nat /\ t \in Nat /\ f <= sl[i].offset /\ sl[i].offset + sl[i].size <= t
      /\ f < t /\ t <= Len(img)
      /\ \E size \in Nat : /\ size = t - f /\ f + size = t
                           /\ CopyOf(img, sl[i]) = Image(img, f, size)
  BY <1>1, CopyRange
<1>3. /\ \E j \in 1..n : sl[j].offset = f
      /\ \A j \in 1..n : InCopy(sl, i, j) => (sl[j].ok <=> sl[j].offset + sl[j].size <= t)
  BY DEF CopiesClosed
<1>4. \A j \in 1..n : InCopy(sl, i, j) <=> f <= sl[j].offset /\ sl[j].offset < t
  BY DEF InCopy
<1>5. PICK size \in Nat : f + size = t /\ CopyOf(img, sl[i]) = Image(img, f, size)
  BY <1>2
<1> HIDE DEF f, t, n
<1>6. PICK a \in 1..n : sl[a].offset = f
  BY <1>3
<1>7. a <= i /\ a \in 1..i
  BY <1>1, <1>2, <1>6
<1>8. sl[a].size <= size
  <2>1. a < i => sl[a].offset + sl[a].size <= sl[i].offset
    BY <1>1, SliceOrder DEF n
  <2>2. a = i \/ a < i
    BY <1>1, <1>7
  <2> DEFINE p == sl[a].offset
             y == sl[a].size
             q == sl[i].offset
  <2>4. p \in Nat /\ y \in Nat \ {0} /\ q \in Nat /\ sl[i].size \in Nat
    BY <1>1
  <2>5. q + sl[i].size <= t /\ t \in Nat /\ (p + y <= q \/ (p = q /\ y = sl[i].size))
    BY <1>2, <2>1, <2>2
  <2> HIDE DEF p, y, q
  <2>6. p + y <= t
    BY <2>4, <2>5
  <2>3. sl[a].offset + sl[a].size <= t
    BY <2>6 DEF p, y
  <2> QED BY <1>1, <1>2, <1>5, <1>6, <2>3
<1>9. PICK h \in (a + 1)..(n + 1) :
        /\ HoldsSlices(Image(img, f, size), sl, a, h)
        /\ \A j \in 1..n : a <= j /\ j < h <=> /\ f <= sl[j].offset
                                               /\ sl[j].offset + sl[j].size <= t
  BY <1>2, <1>5, <1>6, <1>8, PartSplit DEF n
<1>10. ASSUME NEW j \in 1..n PROVE a <= j /\ j < h <=> sl[j].ok /\ InCopy(sl, i, j)
  <2> DEFINE p == sl[j].offset
             y == sl[j].size
  <2>0. p \in Nat /\ y \in Nat \ {0} /\ t \in Nat
    BY <1>1, <1>2
  <2> HIDE DEF p, y
  <2>1. sl[j].offset + sl[j].size <= t => sl[j].offset < t
    <3>1. p + y <= t => p < t
      BY <2>0
    <3> QED BY <3>1 DEF p, y
  <2> QED BY <1>3, <1>4, <1>9, <2>1
<1>11. h \in (i + 1)..(n + 1)
  <2>1. i < h
    BY <1>1, <1>2, <1>9
  <2> QED BY <1>1, <1>9, <2>1
<1> QED BY <1>5, <1>7, <1>9, <1>10, <1>11 DEF n

\* The kept images hold the accepted slices in their order: image k those from cut[k]
\* on, and between two images nothing was accepted.
KeptBlocks(sl, imgs, cut) ==
    /\ \A k \in 1..(Len(imgs) + 1) : cut[k] \in 1..(Len(sl) + 1)
    /\ cut[Len(imgs) + 1] = Len(sl) + 1
    /\ \A j \in 1..(cut[1] - 1) : ~sl[j].ok
    /\ \A k \in 1..Len(imgs) : \E h \in (cut[k] + 1)..cut[k + 1] :
         /\ HoldsSlices(imgs[k], sl, cut[k], h)
         /\ \A j \in cut[k]..(h - 1) : sl[j].ok
         /\ \A j \in h..(cut[k + 1] - 1) : ~sl[j].ok

\* An image of which all was accepted is one such block.
LEMMA WholeInBlocks ==
    ASSUME NEW img \in Seq(Header), NEW sl, SlicesOfImage(img, sl), src \in Nat, ent \in Nat,
           \A i \in 1..Len(sl) : sl[i].ok /\ InContainer(img, sl[i])
    PROVE  \E cut : KeptBlocks(sl, KeptImages(img, sl), cut)
<1> DEFINE n == Len(sl)
           K == KeptImages(img, sl)
<1>1. n \in Nat /\ sl \in Seq(LogicalDex) /\ Len(img) \in Nat
      /\ \A j \in 1..n : sl[j].offset \in Nat /\ sl[j].size \in Nat
                         /\ sl[j].offset + sl[j].size <= Len(img)
  <2>1. sl \in Seq(LogicalDex)
    BY DEF SlicesOfImage
  <2> QED BY <2>1, SliceWalk
<1>2. K = IF sl = <<>> THEN <<>> ELSE <<Image(img, 0, Len(img))>>
  BY <1>1, KeptMeans
<1>3. CASE sl = <<>>
  <2> DEFINE cut == [k \in 1..1 |-> 1]
  <2>1. K = <<>> /\ Len(K) = 0 /\ n = 0 /\ cut[1] = 1
    BY <1>2, <1>3
  <2>2. 1..0 = {} /\ (1 - 1) = 0
    OBVIOUS
  <2> HIDE DEF K, cut
  <2>3. KeptBlocks(sl, K, cut)
    BY <2>1, <2>2 DEF KeptBlocks
  <2> QED BY <2>3 DEF K
<1>4. CASE sl # <<>>
  <2> DEFINE cut == [k \in 1..2 |-> IF k = 1 THEN 1 ELSE n + 1]
             x == Image(img, 0, Len(img))
             size == Len(img)
             h == n + 1
  <2>1. K = <<x>> /\ Len(K) = 1 /\ K[1] = x /\ n >= 1 /\ 1 \in 1..n /\ h \in (1 + 1)..(n + 1)
        /\ cut[1] = 1 /\ cut[2] = h
    BY <1>1, <1>2, <1>4
  <2>2. sl[1].offset = 0
    <3> DEFINE w == ParseLogicalDexOffsets(img)
    <3>1. WalkFrom(img, 0, w) /\ Len(w) = n /\ sl[1].offset = w[1]
      BY <2>1, OffsetsWalk DEF SlicesOfImage
    <3> HIDE DEF w
    <3>2. w # <<>>
      BY <2>1, <3>1
    <3> QED BY <3>1, <3>2 DEF WalkFrom
  <2>3. HoldsSlices(x, sl, 1, h)
    <3>1. x = Image(img, sl[1].offset, size) /\ size \in Nat /\ sl[1].offset + size = size /\ size <= size
      BY <1>1, <2>2
    <3>2. \A j \in 1..(h - 1) : sl[j].offset + sl[j].size <= sl[1].offset + size
      BY <1>1, <2>2
    <3>3. ~(h <= n)
      BY <1>1
    <3> HIDE DEF x, h, size
    <3> QED BY <2>1, <3>1, <3>2, <3>3, WalkOfPart DEF size
  <2>4. \A j \in 1..(h - 1) : sl[j].ok
    BY <1>1
  <2>5. h..(h - 1) = {} /\ 1..(1 - 1) = {} /\ 1 + 1 = 2 /\ h \in 2..h /\ h \in 1..h /\ 1 \in 1..h
        /\ \A k \in 1..2 : k = 1 \/ k = 2
    <3>1. \A g \in Nat : (g + 1)..(g + 1 - 1) = {} /\ (g >= 1 => g + 1 \in 2..(g + 1))
                          /\ g + 1 \in 1..(g + 1) /\ 1 \in 1..(g + 1)
      OBVIOUS
    <3>2. 1..(1 - 1) = {} /\ 1 + 1 = 2 /\ \A k \in 1..2 : k = 1 \/ k = 2
      OBVIOUS
    <3> QED BY <1>1, <2>1, <3>1, <3>2
  <2> HIDE DEF K, cut, x, h
  <2>6. \A k \in 1..(Len(K) + 1) : cut[k] \in 1..(n + 1)
    BY <2>1, <2>5 DEF h
  <2>7. cut[Len(K) + 1] = n + 1
    BY <2>1, <2>5 DEF h
  <2>8. \A j \in 1..(cut[1] - 1) : ~sl[j].ok
    BY <2>1, <2>5
  <2>9. ASSUME NEW k \in 1..Len(K)
        PROVE  \E g \in (cut[k] + 1)..cut[k + 1] :
                 /\ HoldsSlices(K[k], sl, cut[k], g)
                 /\ \A j \in cut[k]..(g - 1) : sl[j].ok
                 /\ \A j \in g..(cut[k + 1] - 1) : ~sl[j].ok
    <3>1. k = 1
      BY <2>1
    <3> QED BY <2>1, <2>3, <2>4, <2>5, <3>1
  <2>10. KeptBlocks(sl, K, cut)
    BY <2>6, <2>7, <2>8, <2>9 DEF KeptBlocks
  <2> QED BY <2>10 DEF K
<1> QED BY <1>3, <1>4

\* So do the copies of an image of which some was rejected.
LEMMA SalvagedInBlocks ==
    ASSUME NEW img \in Seq(Header), NEW sl, SlicesOfImage(img, sl), src \in Nat, ent \in Nat,
           \A i \in 1..Len(sl) : sl[i].ok => InContainer(img, sl[i]),
           CopiesApart(sl), CopiesClosed(sl),
           \E i \in 1..Len(sl) : ~sl[i].ok
    PROVE  \E cut : KeptBlocks(sl, KeptImages(img, sl), cut)
<1> DEFINE n == Len(sl)
           K == KeptImages(img, sl)
           C == Copied(sl)
           c == Cardinality(C)
<1>1. n \in Nat /\ DOMAIN sl = 1..n /\ sl \in Seq(LogicalDex)
  BY SliceWalk DEF SlicesOfImage
<1>2. /\ Len(K) = c
      /\ \E at \in [1..c -> C] :
           /\ \A k \in 1..c : K[k] = CopyOf(img, sl[at[k]]) /\ Before(C, at[k]) = k - 1
           /\ \A i \in C : \E k \in 1..c : at[k] = i
  BY <1>1, KeptMeans
<1>3. C \in SUBSET (1..n) /\ \A i \in C : sl[i].ok
  BY <1>1 DEF Copied
<1> DEFINE Is(i, a, h) ==
             /\ a \in 1..i /\ h \in (i + 1)..(n + 1)
             /\ HoldsSlices(CopyOf(img, sl[i]), sl, a, h)
             /\ \A j \in 1..n : a <= j /\ j < h <=> sl[j].ok /\ InCopy(sl, i, j)
<1>4. ASSUME NEW i \in C PROVE \E a, h : Is(i, a, h)
  <2>1. InContainer(img, sl[i])
    BY <1>1, <1>3
  <2>2. \E a \in 1..i : \E h \in (i + 1)..(n + 1) :
             /\ HoldsSlices(CopyOf(img, sl[i]), sl, a, h)
             /\ \A j \in 1..n : a <= j /\ j < h <=> sl[j].ok /\ InCopy(sl, i, j)
    BY <2>1, CopyWalk
  <2> QED BY <2>2
<1>5. \A j \in 1..n : sl[j].ok =>
        \E i \in C : InCopy(sl, i, j) /\ \A m \in C : InCopy(sl, m, j) => m = i
  BY DEF CopiesApart
<1> HIDE DEF K, C
<1>6. /\ c \in Nat
      /\ \A i \in C, j \in Int : i < j => Before(C, i) < Before(C, j)
  BY <1>1, <1>3, Places
<1> HIDE DEF c, n, Is
<1>7. PICK at \in [1..c -> C] :
           /\ \A k \in 1..c : K[k] = CopyOf(img, sl[at[k]]) /\ Before(C, at[k]) = k - 1
           /\ \A i \in C : \E k \in 1..c : at[k] = i
  BY <1>2
<1>8. \A k \in 1..c : at[k] \in C /\ at[k] \in 1..n /\ at[k] \in Int
  <2>1. \A k \in 1..c : at[k] \in C
    BY <1>7
  <2>2. \A i \in 1..n : i \in Int
    OBVIOUS
  <2> QED BY <1>3, <2>1, <2>2
<1>9. ASSUME NEW k \in 1..c, NEW m \in 1..c, k < m PROVE at[k] < at[m]
  <2>1. Before(C, at[k]) = k - 1 /\ Before(C, at[m]) = m - 1 /\ ~(m - 1 < k - 1) /\ m - 1 # k - 1
    BY <1>6, <1>7, <1>9
  <2>2. ~(at[m] < at[k])
    BY <1>6, <1>8, <2>1
  <2>3. at[m] # at[k]
    BY <2>1
  <2> QED BY <1>8, <2>2, <2>3
\* The block of each copy.
<1> DEFINE lo == [k \in 1..c |-> CHOOSE a : \E h : Is(at[k], a, h)]
           hi == [k \in 1..c |-> CHOOSE h : Is(at[k], lo[k], h)]
<1>10. ASSUME NEW k \in 1..c PROVE Is(at[k], lo[k], hi[k])
  <2>1. \E a, h : Is(at[k], a, h)
    BY <1>4, <1>8
  <2>2. \E h : Is(at[k], lo[k], h)
    BY <2>1
  <2> HIDE DEF lo
  <2> QED BY <2>2
<1> HIDE DEF lo, hi
<1>11. ASSUME NEW k \in 1..c
       PROVE  /\ lo[k] \in 1..n /\ hi[k] \in 1..(n + 1)
              /\ lo[k] <= at[k] /\ at[k] < hi[k]
              /\ HoldsSlices(K[k], sl, lo[k], hi[k])
              /\ \A j \in 1..n : lo[k] <= j /\ j < hi[k] <=> sl[j].ok /\ InCopy(sl, at[k], j)
  <2>1. Is(at[k], lo[k], hi[k]) /\ at[k] \in 1..n /\ K[k] = CopyOf(img, sl[at[k]])
    BY <1>7, <1>8, <1>10
  <2>2. /\ lo[k] \in 1..at[k] /\ hi[k] \in (at[k] + 1)..(n + 1)
        /\ HoldsSlices(CopyOf(img, sl[at[k]]), sl, lo[k], hi[k])
        /\ \A j \in 1..n : lo[k] <= j /\ j < hi[k] <=> sl[j].ok /\ InCopy(sl, at[k], j)
    BY <2>1 DEF Is
  <2> QED BY <1>1, <2>1, <2>2 DEF n
\* A slice is in one block.
<1>12. ASSUME NEW k \in 1..c, NEW m \in 1..c, NEW j \in 1..n,
              lo[k] <= j, j < hi[k], lo[m] <= j, j < hi[m]
       PROVE  k = m
  <2>1. sl[j].ok /\ InCopy(sl, at[k], j) /\ InCopy(sl, at[m], j)
    BY <1>11, <1>12
  <2>2. at[k] = at[m]
    BY <1>5, <1>8, <2>1
  <2>3. ~(k < m) /\ ~(m < k)
    BY <1>8, <1>9, <2>2
  <2> QED BY <2>3
<1>13. ASSUME NEW k \in 1..c, NEW m \in 1..c, k < m PROVE hi[k] <= lo[m]
  <2> SUFFICES ASSUME ~(hi[k] <= lo[m]) PROVE FALSE
    OBVIOUS
  <2>1. /\ lo[k] \in Int /\ hi[k] \in Int /\ lo[m] \in 1..n /\ hi[m] \in Int
        /\ at[k] \in 1..n /\ at[m] \in Int /\ at[k] < at[m]
        /\ lo[k] <= at[k] /\ at[k] < hi[k] /\ lo[m] <= at[m] /\ at[m] < hi[m]
    BY <1>8, <1>9, <1>11, <1>13
  <2>2. CASE lo[m] <= at[k]
    <3>1. at[k] < hi[m]
      BY <2>1
    <3>2. k = m
      BY <1>12, <2>1, <2>2, <3>1
    <3> QED BY <1>13, <3>2
  <2>3. CASE ~(lo[m] <= at[k])
    <3>1. lo[k] <= lo[m] /\ lo[m] < hi[k] /\ lo[m] <= lo[m] /\ lo[m] < hi[m]
      BY <2>1, <2>3
    <3>2. k = m
      BY <1>12, <2>1, <3>1
    <3> QED BY <1>13, <3>2
  <2> QED BY <2>2, <2>3
<1> DEFINE cut == [k \in 1..(c + 1) |-> IF k = c + 1 THEN n + 1 ELSE lo[k]]
<1>14. /\ cut[c + 1] = n + 1
       /\ \A k \in 1..c : cut[k] = lo[k] /\ k + 1 \in 1..(c + 1)
                          /\ (k = c \/ k + 1 \in 1..c)
                          /\ cut[k + 1] = (IF k = c THEN n + 1 ELSE lo[k + 1])
       /\ \A k \in 1..(c + 1) : cut[k] \in 1..(n + 1)
       /\ c # 0 => 1 \in 1..c /\ cut[1] = lo[1]
       /\ c = 0 => cut[1] = n + 1
  <2>1. \A k \in 1..c : lo[k] \in 1..n
    BY <1>11
  <2>2. n + 1 \in 1..(n + 1) /\ \A a \in 1..n : a \in 1..(n + 1)
    BY <1>1 DEF n
  <2>3. \A k \in 1..(c + 1) : k = c + 1 \/ k \in 1..c
    BY <1>6
  <2>4. /\ c + 1 \in 1..(c + 1)
        /\ \A k \in 1..c : k \in 1..(c + 1) /\ k # c + 1 /\ k + 1 \in 1..(c + 1)
                           /\ (k = c \/ k + 1 \in 1..c) /\ (k + 1 = c + 1 <=> k = c)
        /\ (c # 0 => 1 \in 1..c) /\ 0 + 1 = 1
    BY <1>6
  <2>5. cut[c + 1] = n + 1
    BY <2>4
  <2>6. \A k \in 1..c : cut[k] = lo[k] /\ cut[k + 1] = (IF k = c THEN n + 1 ELSE lo[k + 1])
    BY <2>4
  <2> HIDE DEF cut
  <2>7. \A k \in 1..(c + 1) : cut[k] \in 1..(n + 1)
    BY <2>1, <2>2, <2>3, <2>5, <2>6
  <2> QED BY <2>4, <2>5, <2>6, <2>7
<1> HIDE DEF cut
<1>15. ASSUME NEW j \in 1..n, sl[j].ok PROVE \E m \in 1..c : lo[m] <= j /\ j < hi[m]
  <2>1. PICK i \in C : InCopy(sl, i, j)
    BY <1>5, <1>15
  <2>2. PICK m \in 1..c : at[m] = i
    BY <1>7
  <2> QED BY <1>11, <1>15, <2>1, <2>2
<1>16. ASSUME NEW j \in 1..(cut[1] - 1), sl[j].ok PROVE FALSE
  <2>1. cut[1] \in 1..(n + 1)
    BY <1>6, <1>14
  <2>2. j \in 1..n /\ j < cut[1]
    BY <1>1, <2>1 DEF n
  <2>3. PICK m \in 1..c : lo[m] <= j
    BY <1>15, <1>16, <2>2
  <2>4. 1 \in 1..c /\ cut[1] = lo[1] /\ (m = 1 \/ 1 < m)
    BY <1>6, <1>14
  <2>5. lo[1] <= lo[m]
    <3>1. lo[1] \in Int /\ lo[m] \in Int /\ hi[1] \in Int /\ at[1] \in Int
          /\ lo[1] <= at[1] /\ at[1] < hi[1]
      BY <1>8, <1>11, <2>4
    <3>2. 1 < m => hi[1] <= lo[m]
      BY <1>13, <2>4
    <3> QED BY <2>4, <3>1, <3>2
  <2>6. lo[1] \in Int /\ lo[m] \in Int
    BY <1>11, <2>4
  <2> QED BY <2>2, <2>3, <2>4, <2>5, <2>6
<1>17. ASSUME NEW k \in 1..c
       PROVE  \E h \in (cut[k] + 1)..cut[k + 1] :
                /\ HoldsSlices(K[k], sl, cut[k], h)
                /\ \A j \in cut[k]..(h - 1) : sl[j].ok
                /\ \A j \in h..(cut[k + 1] - 1) : ~sl[j].ok
  <2> DEFINE a == lo[k]
             h == hi[k]
             s == cut[k + 1]
  <2>1. /\ a \in 1..n /\ h \in 1..(n + 1) /\ s \in 1..(n + 1) /\ a < h
        /\ cut[k] = a /\ HoldsSlices(K[k], sl, a, h)
        /\ \A j \in 1..n : a <= j /\ j < h <=> sl[j].ok /\ InCopy(sl, at[k], j)
    <3>1. cut[k] = lo[k] /\ k + 1 \in 1..(c + 1)
      BY <1>14
    <3>2. at[k] \in Int /\ lo[k] <= at[k] /\ at[k] < hi[k] /\ lo[k] \in Int /\ hi[k] \in Int
      BY <1>8, <1>11
    <3> QED BY <1>11, <1>14, <3>1, <3>2
  <2>2. h <= s
    <3>1. k + 1 \in 1..c => hi[k] <= lo[k + 1]
      BY <1>6, <1>13
    <3> QED BY <1>1, <1>14, <2>1, <3>1 DEF n
  <2> HIDE DEF a, h, s
  <2>3. \A j \in a..(h - 1) : sl[j].ok
    <3>1. \A j \in a..(h - 1) : j \in 1..n /\ a <= j /\ j < h
      BY <1>1, <2>1 DEF n
    <3> QED BY <2>1, <3>1
  <2>4. ASSUME NEW j \in h..(s - 1), sl[j].ok PROVE FALSE
    <3>1. j \in 1..n /\ h <= j /\ j < s /\ j \in Int /\ h \in Int
      BY <1>1, <2>1 DEF n
    <3>2. PICK m \in 1..c : lo[m] <= j /\ j < hi[m]
      BY <1>15, <2>4, <3>1
    <3>3. lo[m] \in Int /\ hi[m] \in Int /\ at[m] \in Int /\ lo[m] <= at[m] /\ at[m] < hi[m]
      BY <1>8, <1>11
    <3>4. m # k
      BY <3>1, <3>2, <3>3 DEF h
    <3>5. ~(m < k)
      <4>1. m < k => hi[m] <= a
        BY <1>13 DEF a
      <4> QED BY <2>1, <3>1, <3>2, <3>3, <4>1
    <3>6. k < m /\ k + 1 \in 1..c /\ (m = k + 1 \/ k + 1 < m)
      BY <1>6, <3>4, <3>5
    <3>7. s = lo[k + 1]
      <4>1. k # c
        BY <1>6, <3>6
      <4> QED BY <1>14, <4>1 DEF s
    <3>8. lo[k + 1] <= lo[m]
      <4>1. lo[k + 1] \in Int /\ hi[k + 1] \in Int /\ at[k + 1] \in Int
            /\ lo[k + 1] <= at[k + 1] /\ at[k + 1] < hi[k + 1]
        BY <1>8, <1>11, <3>6
      <4>2. k + 1 < m => hi[k + 1] <= lo[m]
        BY <1>13, <3>6
      <4> QED BY <3>3, <3>6, <4>1, <4>2
    <3>9. lo[k + 1] \in Int
      BY <1>11, <3>6
    <3> QED BY <3>1, <3>2, <3>3, <3>7, <3>8, <3>9
  <2>5. h \in (a + 1)..s
    BY <1>1, <2>1, <2>2 DEF n
  <2> QED BY <2>1, <2>3, <2>4, <2>5 DEF s
<1>18. KeptBlocks(sl, K, cut)
  BY <1>2, <1>14, <1>16, <1>17 DEF KeptBlocks, n
<1> QED BY <1>18 DEF K

\* While whole containers are all that is copied, an accepted slice begins in the range
\* of one copy, and all that begins there was accepted.
LEMMA WholeCopies ==
    ASSUME NEW img \in Seq(Header), NEW sl, SlicesOfImage(img, sl),
           \A i \in 1..Len(sl) : sl[i].ok => InContainer(img, sl[i]),
           \A i \in 1..Len(sl) : sl[i].ok /\ ~sl[i].self_contained =>
               ContainerWhole(sl, Len(img), Siblings(sl, i))
    PROVE  /\ CopiesApart(sl)
           /\ \A i \in Copied(sl) : \A j \in 1..Len(sl) : InCopy(sl, i, j) => sl[j].ok
<1> DEFINE n == Len(sl)
           C == Copied(sl)
           M(i) == Siblings(sl, i)
<1>1. /\ n \in Nat /\ DOMAIN sl = 1..n
      /\ \A j \in 1..n : /\ sl[j].offset \in Nat /\ sl[j].size \in Nat \ {0}
                         /\ sl[j].self_contained \in BOOLEAN /\ sl[j].ok \in BOOLEAN
      /\ \A j, k \in 1..n : j <= k <=> sl[j].offset <= sl[k].offset
      /\ \A j, k \in 1..n : j < k => sl[j].offset + sl[j].size <= sl[k].offset
  <2>1. sl \in Seq(LogicalDex)
    BY DEF SlicesOfImage
  <2>2. \A j \in 1..n : sl[j] \in LogicalDex
    BY <2>1
  <2>3. \A j \in 1..n : sl[j].self_contained \in BOOLEAN /\ sl[j].ok \in BOOLEAN
    BY <2>2 DEF LogicalDex
  <2> QED BY <2>3, SliceWalk, SliceOrder
<1>2. \A i \in 1..n : i \in C <=>
        /\ sl[i].ok
        /\ \/ sl[i].self_contained
           \/ ~ \E j \in 1..(i - 1) : /\ sl[j].ok /\ ~sl[j].self_contained
                                      /\ sl[j].container_begin = sl[i].container_begin
  BY <1>1 DEF Copied
<1>3. C \in SUBSET (1..n)
  BY <1>1 DEF Copied
<1>4. \A i, j \in 1..n : j \in M(i) <=> ~sl[j].self_contained /\ sl[j].container_begin = sl[i].container_begin
  BY <1>1 DEF Siblings
<1>5. \A i : M(i) \in SUBSET (1..n)
  BY <1>1 DEF Siblings
\* The copy of a container begins in its least sibling, and holds its siblings.
<1>6. ASSUME NEW i \in 1..n, sl[i].ok, ~sl[i].self_contained
      PROVE  \E f \in M(i) : /\ \A j \in M(i) : f <= j
                             /\ \A j \in M(i) : sl[j].ok
                             /\ \A j \in 1..n : InCopy(sl, f, j) <=> j \in M(i)
  <2> DEFINE f == CHOOSE k \in M(i) : \A j \in M(i) : k <= j
  <2>1. M(i) \in SUBSET Nat /\ M(i) # {}
    BY <1>1, <1>4, <1>5, <1>6
  <2>2. f \in M(i) /\ \A j \in M(i) : f <= j
    <3> HIDE DEF M
    <3> QED BY <2>1, Least
  <2>3. /\ \A j \in M(i) : sl[j].ok
        /\ {j \in DOMAIN sl : /\ sl[f].container_begin <= sl[j].offset
                              /\ sl[j].offset < sl[f].container_end} = M(i)
    <3>1. ContainerWhole(sl, Len(img), M(i))
      BY <1>6
    <3> QED BY <3>1 DEF ContainerWhole
  <2> HIDE DEF f
  <2>4. ~sl[f].self_contained
    BY <1>4, <1>5, <2>2
  <2> HIDE DEF M
  <2>5. \A j \in 1..n : InCopy(sl, f, j) <=> j \in M(i)
    BY <1>1, <2>3, <2>4 DEF InCopy, From, To
  <2> QED BY <2>2, <2>3, <2>5
<1> HIDE DEF n, C, M
<1>7. ASSUME NEW i \in C, ~sl[i].self_contained
      PROVE  /\ \A j \in M(i) : i <= j /\ sl[j].ok
             /\ \A j \in 1..n : InCopy(sl, i, j) <=> j \in M(i)
  <2>1. i \in 1..n /\ sl[i].ok
    BY <1>2, <1>3
  <2>2. PICK f \in M(i) : /\ \A j \in M(i) : f <= j
                          /\ \A j \in M(i) : sl[j].ok
                          /\ \A j \in 1..n : InCopy(sl, f, j) <=> j \in M(i)
    BY <1>6, <1>7, <2>1
  <2>3. f \in 1..n /\ ~sl[f].self_contained /\ sl[f].container_begin = sl[i].container_begin /\ sl[f].ok
    BY <1>4, <1>5, <2>1, <2>2
  <2>4. i \in M(i)
    BY <1>4, <1>7, <2>1
  <2>5. f = i
    <3>1. f <= i
      BY <2>2, <2>4
    <3>2. f \notin 1..(i - 1)
      BY <1>2, <1>7, <2>1, <2>3
    <3> QED BY <1>1, <2>1, <2>3, <3>1, <3>2
  <2> QED BY <2>2, <2>5
\* The copy of a dex that stands alone holds nothing else.
<1>8. ASSUME NEW i \in 1..n, sl[i].self_contained, NEW j \in 1..n PROVE InCopy(sl, i, j) <=> j = i
  <2>1. InCopy(sl, i, j) <=> sl[i].offset <= sl[j].offset /\ sl[j].offset < sl[i].offset + sl[i].size
    BY <1>8 DEF InCopy, From, To
  <2>2. i < j => sl[i].offset + sl[i].size <= sl[j].offset
    BY <1>1
  <2>3. i <= j <=> sl[i].offset <= sl[j].offset
    BY <1>1
  <2>4. sl[i].offset \in Nat /\ sl[i].size \in Nat \ {0} /\ sl[j].offset \in Nat /\ i \in Int /\ j \in Int
    BY <1>1
  <2> DEFINE p == sl[i].offset
             q == sl[j].offset
             z == sl[i].size
  <2>5. i = j => p = q
    OBVIOUS
  <2> HIDE DEF p, q, z
  <2>6. (p <= q /\ q < p + z) <=> j = i
    BY <2>2, <2>3, <2>4, <2>5 DEF p, q, z
  <2> QED BY <2>1, <2>6 DEF p, q, z
<1>9. ASSUME NEW j \in 1..n, sl[j].ok
      PROVE  \E i \in C : InCopy(sl, i, j) /\ \A m \in C : InCopy(sl, m, j) => m = i
  <2>1. CASE sl[j].self_contained
    <3>1. j \in C /\ InCopy(sl, j, j)
      BY <1>2, <1>8, <1>9, <2>1
    <3>2. ASSUME NEW m \in C, InCopy(sl, m, j) PROVE m = j
      <4>1. CASE sl[m].self_contained
        BY <1>3, <1>8, <3>2, <4>1
      <4>2. CASE ~sl[m].self_contained
        <5>1. j \in M(m)
          BY <1>7, <3>2, <4>2
        <5> QED BY <1>3, <1>4, <2>1, <5>1
      <4> QED BY <4>1, <4>2
    <3> QED BY <3>1, <3>2
  <2>2. CASE ~sl[j].self_contained
    <3>1. PICK f \in M(j) : /\ \A k \in M(j) : f <= k
                            /\ \A k \in M(j) : sl[k].ok
                            /\ \A k \in 1..n : InCopy(sl, f, k) <=> k \in M(j)
      BY <1>6, <1>9, <2>2
    <3>2. f \in 1..n /\ ~sl[f].self_contained /\ sl[f].container_begin = sl[j].container_begin
      BY <1>4, <1>5, <3>1
    <3>3. f \in C
      <4> SUFFICES ASSUME NEW k \in 1..(f - 1), sl[k].ok, ~sl[k].self_contained,
                          sl[k].container_begin = sl[f].container_begin
                   PROVE  FALSE
        BY <1>2, <3>1, <3>2
      <4>1. k \in 1..n /\ k < f
        BY <1>1, <3>2
      <4>2. k \in M(j)
        BY <1>4, <3>2, <4>1
      <4>3. f <= k
        BY <3>1, <4>2
      <4> QED BY <1>1, <3>2, <4>1, <4>3
    <3>4. InCopy(sl, f, j)
      BY <1>4, <2>2, <3>1
    <3>5. ASSUME NEW m \in C, InCopy(sl, m, j) PROVE m = f
      <4>1. CASE sl[m].self_contained
        <5>1. j = m
          BY <1>3, <1>8, <3>5, <4>1
        <5> QED BY <2>2, <4>1, <5>1
      <4>2. CASE ~sl[m].self_contained
        <5>1. m \in 1..n /\ j \in M(m)
          BY <1>3, <1>7, <3>5, <4>2
        <5>2. sl[m].container_begin = sl[j].container_begin
          BY <1>4, <5>1
        <5>3. f \in M(m) /\ m \in M(j)
          BY <1>4, <3>2, <4>2, <5>1, <5>2
        <5>4. m <= f /\ f <= m
          BY <1>7, <3>1, <4>2, <5>3
        <5> QED BY <1>1, <3>2, <5>1, <5>4
      <4> QED BY <4>1, <4>2
    <3> QED BY <3>3, <3>4, <3>5
  <2> QED BY <2>1, <2>2
<1>10. CopiesApart(sl)
  BY <1>9 DEF CopiesApart, n, C
<1>11. ASSUME NEW i \in C, NEW j \in 1..n, InCopy(sl, i, j) PROVE sl[j].ok
  <2>1. CASE sl[i].self_contained
    BY <1>2, <1>3, <1>8, <1>11, <2>1
  <2>2. CASE ~sl[i].self_contained
    BY <1>7, <1>11, <2>2
  <2> QED BY <2>1, <2>2
<1> QED BY <1>10, <1>11 DEF n, C

\* An image holds the first byte of a slice; accepted slices are held by one of these
\* images; and the dexes that begin in an image are accepted as far as they end in it,
\* the first with its first byte.
Has(x, sl, j) ==
    x.base_offset <= sl[j].offset /\ sl[j].offset < x.base_offset + Len(x.units)
HeldOnce(xs, sl) ==
    \A j \in 1..Len(sl) : sl[j].ok =>
        \E m \in 1..Len(xs) : Has(xs[m], sl, j) /\ \A k \in 1..Len(xs) : Has(xs[k], sl, j) => k = m
HeldClosed(xs, sl) ==
    \A m \in 1..Len(xs) :
        /\ \E j \in 1..Len(sl) : sl[j].offset = xs[m].base_offset
        /\ \A j \in 1..Len(sl) : Has(xs[m], sl, j) =>
               (sl[j].ok <=> sl[j].offset + sl[j].size <= xs[m].base_offset + Len(xs[m].units))

\* The images kept of an image, whole or copies.
LEMMA KeptParts ==
    ASSUME NEW img \in Seq(Header), NEW sl, SlicesOfImage(img, sl), src \in Nat, ent \in Nat,
           \A i \in 1..Len(sl) : sl[i].ok => InContainer(img, sl[i])
    PROVE  LET xs == KeptImages(img, sl)
           IN  /\ xs \in Seq(ImageType)
               /\ \A m \in 1..Len(xs) :
                    /\ \E from \in Nat, size \in Nat :
                         from + size <= Len(img) /\ xs[m] = Image(img, from, size)
                    /\ \E j \in 1..Len(sl) : sl[j].ok /\ Has(xs[m], sl, j)
               /\ \/ \A i \in 1..Len(sl) : sl[i].ok
                  \/ \A i \in 1..Len(sl) : sl[i].ok /\ ~sl[i].self_contained =>
                        ContainerWhole(sl, Len(img), Siblings(sl, i))
                  => /\ HeldOnce(xs, sl)
                     /\ \A m \in 1..Len(xs) : \A j \in 1..Len(sl) : Has(xs[m], sl, j) => sl[j].ok
               /\ HeldOnce(xs, sl) /\ HeldClosed(xs, sl) => \E cut : KeptBlocks(sl, xs, cut)
<1> DEFINE xs == KeptImages(img, sl)
           n == Len(sl)
           C == Copied(sl)
           c == Cardinality(C)
<1>1. /\ n \in Nat /\ DOMAIN sl = 1..n /\ sl \in Seq(LogicalDex) /\ Len(img) \in Nat
      /\ \A j \in 1..n : /\ sl[j].offset \in Nat /\ sl[j].size \in Nat \ {0}
                         /\ sl[j].offset + sl[j].size <= Len(img)
  <2>1. sl \in Seq(LogicalDex)
    BY DEF SlicesOfImage
  <2> QED BY <2>1, SliceWalk
<1>2. /\ xs \in Seq(ImageType)
      /\ (\A i \in 1..n : sl[i].ok) => xs = IF sl = <<>> THEN <<>> ELSE <<Image(img, 0, Len(img))>>
      /\ ~(\A i \in 1..n : sl[i].ok) =>
           /\ Len(xs) = c
           /\ \E at \in [1..c -> C] :
                /\ \A k \in 1..c : xs[k] = CopyOf(img, sl[at[k]]) /\ Before(C, at[k]) = k - 1
                /\ \A i \in C : \E k \in 1..c : at[k] = i
  BY <1>1, KeptMeans
<1>3. CASE \A i \in 1..n : sl[i].ok
  <2>1. \E cut : KeptBlocks(sl, xs, cut)
    BY <1>3, WholeInBlocks
  <2>2. CASE sl = <<>>
    <3>1. xs = <<>> /\ Len(xs) = 0 /\ n = 0
      BY <1>2, <1>3, <2>2
    <3> HIDE DEF xs, n
    <3>2. 1..Len(xs) = {} /\ 1..n = {}
      BY <3>1
    <3>3. HeldOnce(xs, sl)
      BY <3>2 DEF HeldOnce, n
    <3> QED BY <1>2, <2>1, <3>2, <3>3 DEF xs, n
  <2>3. CASE sl # <<>>
    <3> DEFINE x == Image(img, 0, Len(img))
    <3>1. Len(xs) = 1 /\ xs[1] = x /\ 1 \in 1..n /\ sl[1].ok
      BY <1>1, <1>2, <1>3, <2>3
    <3>2. x.base_offset = 0 /\ Len(x.units) = Len(img)
      <4>1. 0 \in Nat /\ 0 + Len(img) <= Len(img)
        BY <1>1
      <4> QED BY <1>1, <4>1, PartOfImage
    <3> HIDE DEF x, xs
    <3>3. ASSUME NEW m \in 1..Len(xs), NEW j \in 1..n PROVE m = 1 /\ Has(xs[m], sl, j)
      <4>1. m = 1
        BY <3>1
      <4>2. 0 <= sl[j].offset /\ sl[j].offset < 0 + Len(img)
        BY <1>1
      <4> QED BY <3>1, <3>2, <4>1, <4>2 DEF Has
    <3>4. HeldOnce(xs, sl)
      <4>1. 1 \in 1..Len(xs)
        BY <3>1
      <4> QED BY <3>3, <4>1 DEF HeldOnce, n
    <3>5. \A m \in 1..Len(xs) :
             /\ \E from \in Nat, size \in Nat :
                  from + size <= Len(img) /\ xs[m] = Image(img, from, size)
             /\ \E j \in 1..n : sl[j].ok /\ Has(xs[m], sl, j)
      <4>1. 0 \in Nat /\ Len(img) \in Nat /\ 0 + Len(img) <= Len(img)
        BY <1>1
      <4> QED BY <3>1, <3>3, <4>1 DEF x
    <3> QED BY <1>2, <1>3, <2>1, <3>4, <3>5 DEF xs, n
  <2> QED BY <2>2, <2>3
<1>4. CASE ~(\A i \in 1..n : sl[i].ok)
  <2>1. PICK at \in [1..c -> C] :
           /\ Len(xs) = c
           /\ \A k \in 1..c : xs[k] = CopyOf(img, sl[at[k]]) /\ Before(C, at[k]) = k - 1
           /\ \A i \in C : \E k \in 1..c : at[k] = i
    BY <1>2, <1>4
  <2>2. C \in SUBSET (1..n) /\ \A i \in C : sl[i].ok
    BY <1>1 DEF Copied
  <2>3. CopiesApart(sl) <=>
          \A j \in 1..n : sl[j].ok =>
             \E i \in C : InCopy(sl, i, j) /\ \A m \in C : InCopy(sl, m, j) => m = i
    BY DEF CopiesApart
  <2>4. CopiesClosed(sl) <=>
          \A i \in C :
            /\ \E j \in 1..n : sl[j].offset = From(sl[i])
            /\ \A j \in 1..n : InCopy(sl, i, j) =>
                   (sl[j].ok <=> sl[j].offset + sl[j].size <= To(sl[i]))
    BY DEF CopiesClosed
  <2>5. (\A i \in 1..n : sl[i].ok /\ ~sl[i].self_contained =>
             ContainerWhole(sl, Len(img), Siblings(sl, i)))
        => /\ CopiesApart(sl)
           /\ \A i \in C : \A j \in 1..n : InCopy(sl, i, j) => sl[j].ok
    <3> SUFFICES ASSUME \A i \in 1..n : sl[i].ok /\ ~sl[i].self_contained =>
                            ContainerWhole(sl, Len(img), Siblings(sl, i))
                 PROVE  /\ CopiesApart(sl)
                        /\ \A i \in C : \A j \in 1..n : InCopy(sl, i, j) => sl[j].ok
      OBVIOUS
    <3> QED BY WholeCopies
  <2>6. CopiesApart(sl) /\ CopiesClosed(sl) => \E cut : KeptBlocks(sl, xs, cut)
    <3> SUFFICES ASSUME CopiesApart(sl), CopiesClosed(sl) PROVE \E cut : KeptBlocks(sl, xs, cut)
      OBVIOUS
    <3>1. \E i \in 1..Len(sl) : ~sl[i].ok
      BY <1>4
    <3> QED BY <3>1, SalvagedInBlocks
  <2> HIDE DEF xs, c, C
  <2>7. ASSUME NEW k \in 1..c
        PROVE  /\ at[k] \in C /\ at[k] \in 1..n /\ sl[at[k]].ok
               /\ xs[k].base_offset = From(sl[at[k]])
               /\ xs[k].base_offset + Len(xs[k].units) = To(sl[at[k]])
               /\ \A j : Has(xs[k], sl, j) <=> InCopy(sl, at[k], j)
               /\ InCopy(sl, at[k], at[k])
               /\ \E from \in Nat, size \in Nat : from + size <= Len(img) /\ xs[k] = Image(img, from, size)
    <3> DEFINE i == at[k]
    <3>1. i \in C /\ i \in 1..n /\ sl[i].ok /\ InContainer(img, sl[i])
      BY <2>1, <2>2
    <3> HIDE DEF i
    <3>2. /\ From(sl[i]) \in Nat /\ To(sl[i]) \in Nat
          /\ To(sl[i]) <= Len(img) /\ InCopy(sl, i, i)
          /\ \E size \in Nat : /\ From(sl[i]) + size = To(sl[i])
                               /\ CopyOf(img, sl[i]) = Image(img, From(sl[i]), size)
      BY <3>1, CopyRange DEF n
    <3>3. PICK size \in Nat : /\ From(sl[i]) + size = To(sl[i])
                              /\ CopyOf(img, sl[i]) = Image(img, From(sl[i]), size)
      BY <3>2
    <3>4. From(sl[i]) + size <= Len(img)
      BY <3>2, <3>3
    <3>5. xs[k] = Image(img, From(sl[i]), size)
      BY <2>1, <3>3 DEF i
    <3>6. xs[k].base_offset = From(sl[i]) /\ Len(xs[k].units) = size
      BY <3>2, <3>4, <3>5, PartOfImage
    <3>7. xs[k].base_offset + Len(xs[k].units) = To(sl[i])
      BY <3>3, <3>6
    <3>8. \A j : Has(xs[k], sl, j) <=> InCopy(sl, i, j)
      BY <3>6, <3>7 DEF Has, InCopy
    <3> QED BY <3>1, <3>2, <3>4, <3>5, <3>6, <3>7, <3>8 DEF i
  <2>8. \A k, m \in 1..c : at[k] = at[m] => k = m
    <3> SUFFICES ASSUME NEW k \in 1..c, NEW m \in 1..c, at[k] = at[m] PROVE k = m
      OBVIOUS
    <3>1. k - 1 = m - 1
      BY <2>1
    <3> QED BY <3>1
  <2>9. HeldOnce(xs, sl) <=> CopiesApart(sl)
    <3>1. HeldOnce(xs, sl) <=>
            \A j \in 1..n : sl[j].ok =>
               \E m \in 1..c : /\ InCopy(sl, at[m], j)
                               /\ \A k \in 1..c : InCopy(sl, at[k], j) => k = m
      <4>1. HeldOnce(xs, sl) <=>
              \A j \in 1..n : sl[j].ok =>
                 \E m \in 1..c : /\ Has(xs[m], sl, j)
                                 /\ \A k \in 1..c : Has(xs[k], sl, j) => k = m
        BY <2>1 DEF HeldOnce, n
      <4>2. \A j : \A k \in 1..c : Has(xs[k], sl, j) <=> InCopy(sl, at[k], j)
        BY <2>7
      <4> QED BY <4>1, <4>2, Zenon
    <3>2. ASSUME NEW j, NEW m \in 1..c,
                 InCopy(sl, at[m], j) /\ \A k \in 1..c : InCopy(sl, at[k], j) => k = m
          PROVE  \E i \in C : InCopy(sl, i, j) /\ \A h \in C : InCopy(sl, h, j) => h = i
      <4>1. ASSUME NEW h \in C, InCopy(sl, h, j) PROVE h = at[m]
        <5>1. PICK k \in 1..c : at[k] = h
          BY <2>1
        <5> QED BY <3>2, <4>1, <5>1
      <4> QED BY <2>7, <3>2, <4>1
    <3>3. ASSUME NEW j, NEW i \in C,
                 InCopy(sl, i, j) /\ \A h \in C : InCopy(sl, h, j) => h = i
          PROVE  \E m \in 1..c : /\ InCopy(sl, at[m], j)
                                 /\ \A k \in 1..c : InCopy(sl, at[k], j) => k = m
      <4>1. PICK m \in 1..c : at[m] = i
        BY <2>1
      <4>2. ASSUME NEW k \in 1..c, InCopy(sl, at[k], j) PROVE k = m
        BY <2>7, <2>8, <3>3, <4>1, <4>2
      <4> QED BY <3>3, <4>1, <4>2
    <3> QED BY <2>3, <3>1, <3>2, <3>3
  <2>10. HeldClosed(xs, sl) => CopiesClosed(sl)
    <3> SUFFICES ASSUME HeldClosed(xs, sl), NEW i \in C
                 PROVE  /\ \E j \in 1..n : sl[j].offset = From(sl[i])
                        /\ \A j \in 1..n : InCopy(sl, i, j) =>
                              (sl[j].ok <=> sl[j].offset + sl[j].size <= To(sl[i]))
      BY <2>4
    <3>1. PICK k \in 1..c : at[k] = i
      BY <2>1
    <3>2. /\ \E j \in 1..n : sl[j].offset = xs[k].base_offset
          /\ \A j \in 1..n : Has(xs[k], sl, j) =>
               (sl[j].ok <=> sl[j].offset + sl[j].size <= xs[k].base_offset + Len(xs[k].units))
      BY <2>1 DEF HeldClosed, n
    <3> QED BY <2>7, <3>1, <3>2
  <2>11. (\A i \in 1..n : sl[i].ok /\ ~sl[i].self_contained =>
             ContainerWhole(sl, Len(img), Siblings(sl, i)))
         => /\ HeldOnce(xs, sl)
            /\ \A m \in 1..c : \A j \in 1..n : Has(xs[m], sl, j) => sl[j].ok
    BY <2>5, <2>7, <2>9
  <2>12. \A m \in 1..c :
           /\ \E from \in Nat, size \in Nat :
                from + size <= Len(img) /\ xs[m] = Image(img, from, size)
           /\ \E j \in 1..n : sl[j].ok /\ Has(xs[m], sl, j)
    BY <2>7
  <2> QED BY <1>2, <1>4, <2>1, <2>6, <2>9, <2>10, <2>11, <2>12 DEF xs, n
<1> QED BY <1>3, <1>4

-----------------------------------------------------------------------------
(* The core's slots for the kept images. *)

\* Over a run of members the count grows by one each.
LEMMA Run ==
    ASSUME NEW n \in Nat, NEW G \in SUBSET (1..n),
           NEW a \in 1..(n + 1), NEW t \in a..(n + 1), \A j \in a..(t - 1) : j \in G
    PROVE  Before(G, t) = Before(G, a) + (t - a)
<1> DEFINE S == {j \in G : j < a}
           R == a..(t - 1)
<1>1. a \in Int /\ t \in Int /\ a <= t /\ t <= n + 1 /\ 1 <= a
  OBVIOUS
<1>2. {j \in G : j < t} = S \cup R
  <2>1. \A j \in G : j \in Int
    OBVIOUS
  <2>2. \A j \in G : j < t <=> j < a \/ j \in R
    BY <1>1, <2>1
  <2>3. \A j \in R : j \in G /\ j < t
    BY <1>1
  <2> HIDE DEF R
  <2> QED BY <2>2, <2>3
<1>3. S \cap R = {}
  BY <1>1
<1>4. IsFiniteSet(S) /\ Cardinality(S) \in Nat
  <2>1. IsFiniteSet(G) /\ S \in SUBSET G
    BY Places
  <2> HIDE DEF S
  <2> QED BY <2>1, FS_Subset, FS_CardinalityType
<1>5. IsFiniteSet(R) /\ Cardinality(R) = t - a
  <2>1. t - 1 \in Int
    BY <1>1
  <2>2. IsFiniteSet(R) /\ Cardinality(R) = IF a > t - 1 THEN 0 ELSE (t - 1) - a + 1
    BY <1>1, <2>1, FS_Interval
  <2> HIDE DEF R
  <2> QED BY <1>1, <2>2
<1> HIDE DEF S, R
<1>6. Cardinality(S \cup R) = Cardinality(S) + Cardinality(R) - Cardinality(S \cap R)
  BY <1>4, <1>5, FS_Union
<1>7. Cardinality(S \cap R) = 0
  BY <1>3, FS_EmptySet
<1>8. Cardinality(S \cup R) = Cardinality(S) + (t - a)
  BY <1>1, <1>4, <1>5, <1>6, <1>7
<1> QED BY <1>2, <1>8 DEF Before, S

\* Over a gap between members it stays.
LEMMA Gap ==
    ASSUME NEW n \in Nat, NEW G \in SUBSET (1..n),
           NEW a \in 1..(n + 1), NEW t \in a..(n + 1), \A j \in a..(t - 1) : j \notin G
    PROVE  Before(G, t) = Before(G, a)
<1>1. \A j \in G : j \in Int /\ (j < t <=> j < a)
  <2> SUFFICES ASSUME NEW j \in G PROVE j \in Int /\ (j < t <=> j < a)
    OBVIOUS
  <2>1. j \in 1..n /\ j \notin a..(t - 1)
    OBVIOUS
  <2> QED BY <2>1
<1>2. {j \in G : j < t} = {j \in G : j < a}
  BY <1>1
<1> QED BY <1>2 DEF Before

\* All members come before n + 1, and none before 1.
LEMMA Ends ==
    ASSUME NEW n \in Nat, NEW G \in SUBSET (1..n)
    PROVE  Before(G, n + 1) = Cardinality(G) /\ Before(G, 1) = 0
<1>1. \A j \in G : j < n + 1 /\ ~(j < 1)
  <2>1. \A j \in 1..n : j < n + 1 /\ ~(j < 1)
    OBVIOUS
  <2> QED BY <2>1
<1>2. {j \in G : j < n + 1} = G /\ {j \in G : j < 1} = {}
  BY <1>1
<1> QED BY <1>2, FS_EmptySet DEF Before

\* Where a slot's dex comes from, in these images.
Origin(imgs, it) ==
    <<imgs[it.image].src, imgs[it.image].ent, imgs[it.image].base_offset + it.off>>

\* Slots that are there already stay, and the kept images add one for each accepted
\* slice, in their order, made from where the slice is.
LEMMA CoreOfKept ==
    ASSUME NEW imgs \in Seq(ImageType), NEW more \in Seq(ImageType), NEW sl \in Seq(LogicalDex),
           NEW cut, KeptBlocks(sl, more, cut), src \in Nat, ent \in Nat
    PROVE  LET old == CoreSplit(imgs)
               new == CoreSplit(imgs \o more)
               G == {i \in 1..Len(sl) : sl[i].ok}
           IN  /\ Len(new) = Len(old) + Cardinality(G)
               /\ \A d \in 1..Len(old) : Origin(imgs \o more, new[d]) = Origin(imgs, old[d])
               /\ \A i \in G : Origin(imgs \o more, new[Len(old) + Before(G, i) + 1])
                                 = <<src, ent, sl[i].offset>>
<1> DEFINE l == Len(imgs)
           M == Len(more)
           n == Len(sl)
           Z == imgs \o more
           G == {i \in 1..n : sl[i].ok}
           old == CoreSplit(imgs)
           L == Len(old)
           P(m) == SubSeq(Z, 1, l + m)
           Good(m) == /\ Len(CoreSplit(P(m))) = L + Before(G, cut[m + 1])
                      /\ \A d \in 1..L : CoreSplit(P(m))[d] = old[d]
                      /\ \A i \in G : i < cut[m + 1] =>
                           Origin(Z, CoreSplit(P(m))[L + Before(G, i) + 1])
                             = <<src, ent, sl[i].offset>>
<1>1. /\ l \in Nat /\ M \in Nat /\ n \in Nat /\ Z \in Seq(ImageType) /\ Len(Z) = l + M
      /\ \A k \in 1..l : Z[k] = imgs[k]
      /\ \A k \in 1..M : Z[l + k] = more[k]
  OBVIOUS
<1>2. /\ old \in Seq(ItemType) /\ L \in Nat /\ \A d \in 1..L : old[d].image \in 1..l
  BY CoreType
<1>3. /\ G \in SUBSET (1..n)
      /\ \A i \in Int : Before(G, i) \in Nat
      /\ \A i \in G, j \in Int : i < j => Before(G, i) < Before(G, j)
  <2>1. G \in SUBSET (1..n)
    OBVIOUS
  <2> HIDE DEF G, n
  <2>2. /\ Cardinality(G) \in Nat
        /\ \A i \in Int : Before(G, i) \in 0..Cardinality(G)
        /\ \A i \in G, j \in Int : i < j => Before(G, i) < Before(G, j)
    BY <1>1, <2>1, Places
  <2>3. \A i \in Int : Before(G, i) \in Nat
    <3>1. \A c \in Nat : \A b \in 0..c : b \in Nat
      OBVIOUS
    <3> QED BY <2>2, <3>1
  <2> QED BY <2>1, <2>2, <2>3
<1>4. /\ \A k \in 1..(M + 1) : cut[k] \in 1..(n + 1)
      /\ cut[M + 1] = n + 1
      /\ \A j \in 1..(cut[1] - 1) : ~sl[j].ok
      /\ \A k \in 1..M : \E h \in (cut[k] + 1)..cut[k + 1] :
           /\ HoldsSlices(more[k], sl, cut[k], h)
           /\ \A j \in cut[k]..(h - 1) : sl[j].ok
           /\ \A j \in h..(cut[k + 1] - 1) : ~sl[j].ok
  BY DEF KeptBlocks
<1>5. \A j \in 1..n : j \in G <=> sl[j].ok
  OBVIOUS
<1>6. /\ P(0) = imgs /\ P(M) = Z
      /\ \A m \in 0..M : P(m) \in Seq(ImageType) /\ Len(P(m)) = l + m
      /\ \A m \in 1..M : P(m) = Append(P(m - 1), more[m])
  <2> HIDE DEF Z, l, M
  <2>1. P(M) = Z
    BY <1>1, SubSeqFull
  <2>2. ASSUME NEW m \in 0..M PROVE P(m) \in Seq(ImageType) /\ Len(P(m)) = l + m
    <3>1. l + m \in Int /\ 1 \in Int /\ \A i \in 1..(l + m) : i \in 1..Len(Z)
      BY <1>1
    <3>2. \A i \in 1..(l + m) : Z[i] \in ImageType
      BY <1>1, <3>1
    <3>3. P(m) \in Seq(ImageType) /\ Len(P(m)) = IF 1 <= l + m THEN (l + m) - 1 + 1 ELSE 0
      BY <3>1, <3>2, SubSeqProperties
    <3> HIDE DEF P
    <3> QED BY <1>1, <3>3
  <2>3. ASSUME NEW m \in 1..M PROVE P(m) = Append(P(m - 1), more[m])
    <3>1. 1 \in 1..Len(Z) /\ l + m \in 1..Len(Z) /\ (l + m) - 1 = l + (m - 1) /\ m - 1 \in 0..M
      BY <1>1
    <3>2. P(m) = SubSeq(Z, 1, (l + m) - 1) \o <<Z[l + m]>>
      BY <1>1, <3>1, SubSeqRecursiveSecond
    <3>3. P(m) = P(m - 1) \o <<more[m]>>
      BY <1>1, <3>1, <3>2
    <3>4. P(m - 1) \in Seq(ImageType) /\ more[m] \in ImageType
      BY <2>2, <3>1 DEF M
    <3> HIDE DEF P
    <3> QED BY <3>3, <3>4, AppendIsConcat
  <2>4. P(0) = imgs
    <3>1. 0 \in 0..M /\ l + 0 = l
      BY <1>1
    <3>2. P(0) \in Seq(ImageType) /\ Len(P(0)) = l
      BY <1>1, <2>2, <3>1
    <3>3. \A i \in 1..l : P(0)[i] = Z[i]
      <4>1. \A i \in 1..l : i \in 1..Len(Z) /\ 1 + i - 1 = i
        BY <1>1
      <4>2. \A i \in 1..(l - 1 + 1) : SubSeq(Z, 1, l)[i] = Z[1 + i - 1]
        <5>1. \A i \in 1..l : Z[i] \in ImageType
          BY <1>1, <4>1
        <5> QED BY <1>1, <5>1, SubSeqProperties
      <4>3. l - 1 + 1 = l
        BY <1>1
      <4> QED BY <3>1, <4>1, <4>2, <4>3
    <3>4. imgs \in Seq(ImageType) /\ Len(imgs) = l /\ \A i \in 1..l : P(0)[i] = imgs[i]
      BY <1>1, <3>3 DEF l
    <3> HIDE DEF P
    <3> QED BY <3>2, <3>4, SeqEqual
  <2> QED BY <2>1, <2>2, <2>3, <2>4
<1> HIDE DEF l, M, n, Z, G, old, L, P, Good
<1>7. Good(0)
  <2>1. cut[1] \in 1..(n + 1) /\ \A j \in 1..(cut[1] - 1) : j \notin G
    <3>1. 1 \in 1..(M + 1)
      BY <1>1
    <3>2. \A j \in 1..(cut[1] - 1) : j \in 1..n
      BY <1>1, <1>4, <3>1
    <3> QED BY <1>4, <1>5, <3>1, <3>2
  <2>2. Before(G, cut[1]) = 0
    <3>1. 1 \in 1..(n + 1)
      BY <1>1
    <3>2. Before(G, cut[1]) = Before(G, 1)
      BY <1>1, <1>3, <2>1, <3>1, Gap
    <3> QED BY <1>1, <1>3, <3>2, Ends
  <2>3. \A i \in G : ~(i < cut[1])
    <3>1. \A i \in 1..n : i < cut[1] => i \in 1..(cut[1] - 1)
      BY <1>1, <2>1
    <3> QED BY <1>3, <2>1, <3>1
  <2>4. CoreSplit(P(0)) = old /\ Len(old) = L /\ L + 0 = L
    BY <1>2, <1>6 DEF old, L
  <2> QED BY <2>2, <2>3, <2>4 DEF Good
<1>8. ASSUME NEW m \in 1..M, Good(m - 1) PROVE Good(m)
  <2> DEFINE A == CoreSplit(P(m - 1))
             S == CoreSplit(P(m))
             x == more[m]
             w == ParseLogicalDexOffsets(x.units)
             B == ItemsOf(x.units, l + m)
             a == cut[m]
             s == cut[m + 1]
  <2>1. /\ m - 1 \in 0..M /\ m \in 1..(M + 1) /\ m + 1 \in 1..(M + 1) /\ (m - 1) + 1 = m
        /\ (l + (m - 1)) + 1 = l + m /\ l + m \in Nat /\ m \in Nat
    <3>1. \A p, q \in Nat : \A k \in 1..q :
            /\ k - 1 \in 0..q /\ k \in 1..(q + 1) /\ k + 1 \in 1..(q + 1) /\ (k - 1) + 1 = k
            /\ (p + (k - 1)) + 1 = p + k /\ p + k \in Nat /\ k \in Nat
      OBVIOUS
    <3> QED BY <1>1, <3>1
  <2>2. /\ a \in 1..(n + 1) /\ s \in 1..(n + 1)
    BY <1>4, <2>1
  <2>3. PICK h \in (a + 1)..s :
          /\ HoldsSlices(x, sl, a, h)
          /\ \A j \in a..(h - 1) : sl[j].ok
          /\ \A j \in h..(s - 1) : ~sl[j].ok
    BY <1>4
  <2>4. /\ x \in ImageType /\ x.src = src /\ x.ent = ent /\ Len(w) = h - a
        /\ \A j \in a..(h - 1) : x.base_offset + w[j - a + 1] = sl[j].offset
    BY <2>3 DEF HoldsSlices
  <2>5. S = A \o B
    <3>1. P(m - 1) \in Seq(ImageType) /\ Len(P(m - 1)) = l + (m - 1) /\ P(m) = Append(P(m - 1), x)
      BY <1>6, <2>1
    <3> QED BY <2>1, <2>4, <3>1, CoreGrows
  <2>6. A \in Seq(ItemType)
    BY <1>6, <2>1, CoreType
  <2>7. /\ B \in Seq(ItemType) /\ Len(B) = Len(w)
        /\ \A d \in 1..Len(w) : B[d].image = l + m /\ B[d].off = w[d]
    <3>1. x.units \in Seq(Header)
      BY <2>4 DEF ImageType
    <3> QED BY <2>1, <3>1, ItemsMean
  <2>8. /\ Len(A) = L + Before(G, a)
        /\ \A d \in 1..L : A[d] = old[d]
        /\ \A i \in G : i < a => Origin(Z, A[L + Before(G, i) + 1]) = <<src, ent, sl[i].offset>>
    BY <1>8, <2>1 DEF Good
  <2> HIDE DEF A, S, x, w, B, a, s
  <2>9. /\ S \in Seq(ItemType) /\ Len(S) = Len(A) + Len(B) /\ Len(A) \in Nat /\ Len(B) \in Nat
        /\ \A d \in 1..(Len(A) + Len(B)) : S[d] = IF d <= Len(A) THEN A[d] ELSE B[d - Len(A)]
    <3>1. Len(A) \in Nat /\ Len(B) \in Nat
      BY <2>6, <2>7
    <3>2. B \in Seq(ItemType)
      BY <2>7
    <3>3. /\ A \o B \in Seq(ItemType) /\ Len(A \o B) = Len(A) + Len(B)
          /\ \A d \in 1..(Len(A) + Len(B)) :
               (A \o B)[d] = IF d <= Len(A) THEN A[d] ELSE B[d - Len(A)]
      BY <2>6, <3>2, ConcatProperties
    <3> QED BY <2>5, <3>1, <3>3
  <2>10. a \in Int /\ h \in Int /\ s \in Int /\ 1 <= a /\ a < h /\ h <= s /\ s <= n + 1
    BY <1>1, <2>2, <2>3
  <2>11. \A j \in a..(h - 1) : j \in 1..n /\ j \in G
    <3>1. \A j \in a..(h - 1) : j \in 1..n
      BY <1>1, <2>10
    <3> QED BY <1>5, <2>3, <3>1
  <2>12. Before(G, h) = Before(G, a) + (h - a)
    <3>1. h \in a..(n + 1)
      BY <1>1, <2>10
    <3> QED BY <1>1, <1>3, <2>2, <2>11, <3>1, Run
  <2>13. Before(G, s) = Before(G, h)
    <3>1. h \in 1..(n + 1) /\ s \in h..(n + 1)
      BY <1>1, <2>10
    <3>2. \A j \in h..(s - 1) : j \in 1..n
      BY <1>1, <2>10
    <3>3. \A j \in h..(s - 1) : j \notin G
      <4>1. \A j \in h..(s - 1) : ~sl[j].ok
        BY <2>3
      <4> QED BY <1>5, <3>2, <4>1
    <3>4. n \in Nat /\ G \in SUBSET (1..n)
      BY <1>1, <1>3
    <3> QED BY <3>1, <3>3, <3>4, Gap
  <2>14. Before(G, a) \in Nat
    BY <1>3, <2>10
  <2>15. Len(S) = L + Before(G, s)
    <3>1. Len(B) = h - a
      BY <2>4, <2>7
    <3>2. Before(G, s) = Before(G, a) + (h - a)
      BY <2>12, <2>13
    <3> DEFINE p == Before(G, a)
    <3>3. Len(S) = (L + p) + (h - a) /\ p \in Nat /\ Before(G, s) = p + (h - a)
      BY <2>8, <2>9, <2>14, <3>1, <3>2
    <3> HIDE DEF p
    <3> QED BY <1>2, <2>10, <3>3
  <2>16. ASSUME NEW d \in 1..L PROVE S[d] = old[d]
    <3>1. d \in 1..(Len(A) + Len(B)) /\ d <= Len(A)
      <4> DEFINE p == Before(G, a)
      <4>1. Len(A) = L + p /\ p \in Nat
        BY <2>8, <2>14
      <4> HIDE DEF p
      <4> QED BY <1>2, <2>9, <4>1
    <3> QED BY <2>8, <2>9, <3>1
  <2>17. ASSUME NEW i \in G, i < s
         PROVE  Origin(Z, S[L + Before(G, i) + 1]) = <<src, ent, sl[i].offset>>
    <3> DEFINE q == L + Before(G, i) + 1
    <3>1. i \in 1..n /\ i \in Int /\ Before(G, i) \in Nat /\ sl[i].ok
      <4>1. i \in 1..n /\ i \in Int
        BY <1>1, <1>3
      <4> QED BY <1>3, <1>5, <4>1
    <3>2. CASE i < a
      <4>1. Before(G, i) < Before(G, a)
        BY <1>3, <2>10, <3>2
      <4>2. q \in 1..(Len(A) + Len(B)) /\ q <= Len(A)
        <5> DEFINE p == Before(G, i)
                   y == Before(G, a)
        <5>1. Len(A) = L + y /\ y \in Nat /\ p \in Nat /\ p < y /\ q = L + p + 1
          BY <2>8, <2>14, <3>1, <4>1
        <5> HIDE DEF p, y, q
        <5> QED BY <1>2, <2>9, <5>1
      <4>3. S[q] = A[q]
        BY <2>9, <4>2
      <4> QED BY <2>8, <3>2, <4>3
    <3>3. CASE ~(i < a)
      <4>1. i \in a..(h - 1)
        <5>1. ~(i \in h..(s - 1))
          BY <2>3, <3>1
        <5> QED BY <2>10, <2>17, <3>1, <3>3, <5>1
      <4>2. Before(G, i) = Before(G, a) + (i - a)
        <5>1. i \in a..(n + 1) /\ \A j \in a..(i - 1) : j \in a..(h - 1)
          BY <1>1, <2>10, <3>1, <4>1
        <5> QED BY <1>1, <1>3, <2>2, <2>11, <5>1, Run
      <4> DEFINE e == i - a + 1
      <4>3. e \in 1..(h - a) /\ e \in Int
        BY <2>10, <3>1, <4>1
      <4>4. q = Len(A) + e /\ e >= 1
        <5>1. q = L + (Before(G, a) + (i - a)) + 1 /\ e >= 1
          BY <4>2, <4>3
        <5>2. Len(A) = L + Before(G, a)
          BY <2>8, <2>14
        <5> DEFINE y == Before(G, a)
        <5>3. y \in Nat /\ L \in Nat /\ i \in Int /\ a \in Int
          BY <1>2, <1>3, <2>10, <3>1
        <5> HIDE DEF y, L
        <5>4. L + (y + (i - a)) + 1 = (L + y) + (i - a + 1)
          BY <5>3
        <5> QED BY <5>1, <5>2, <5>4 DEF y
      <4>5. x.base_offset + w[e] = sl[i].offset
        BY <2>4, <4>1
      <4> HIDE DEF e, q
      <4>6. e \in 1..Len(w) /\ Len(w) = Len(B)
        BY <2>4, <2>7, <4>3
      <4>7. q \in 1..(Len(A) + Len(B)) /\ ~(q <= Len(A)) /\ q - Len(A) = e
        BY <2>9, <4>4, <4>6
      <4>8. S[q] = B[e]
        BY <2>9, <4>7
      <4>9. S[q].image = l + m /\ S[q].off = w[e]
        BY <2>7, <4>6, <4>8
      <4>10. Z[l + m] = x
        BY <1>1 DEF x
      <4> QED BY <2>4, <4>5, <4>9, <4>10 DEF Origin, q
    <3> QED BY <3>2, <3>3
  <2> QED BY <2>15, <2>16, <2>17 DEF Good, S, s
<1>9. Good(M)
  <2> DEFINE T == {m \in 0..M : ~Good(m)}
  <2>1. SUFFICES ASSUME T # {} PROVE FALSE
    <3>1. M \in 0..M
      BY <1>1
    <3> QED BY <2>1, <3>1
  <2>2. PICK m \in T : \A k \in T : m <= k
    <3>1. T \in SUBSET Nat
      BY <1>1
    <3> QED BY <2>1, <3>1, Least
  <2>3. m \in 0..M /\ ~Good(m) /\ m # 0
    BY <1>7
  <2>4. m \in 1..M /\ m - 1 \in 0..M /\ ~(m <= m - 1)
    BY <1>1, <2>3
  <2>5. m - 1 \notin T
    <3> HIDE DEF T
    <3> QED BY <2>2, <2>4
  <2> QED BY <1>8, <2>3, <2>4, <2>5
<1>10. /\ Len(CoreSplit(Z)) = L + Cardinality(G)
       /\ \A d \in 1..L : CoreSplit(Z)[d] = old[d]
       /\ \A i \in G : Origin(Z, CoreSplit(Z)[L + Before(G, i) + 1]) = <<src, ent, sl[i].offset>>
  <2>1. Before(G, cut[M + 1]) = Cardinality(G)
    BY <1>1, <1>3, <1>4, Ends
  <2>2. \A i \in G : i < cut[M + 1]
    <3>1. \A i \in 1..n : i < n + 1
      BY <1>1
    <3> QED BY <1>3, <1>4, <3>1
  <2> QED BY <1>6, <1>9, <2>1, <2>2 DEF Good
<1>11. ASSUME NEW d \in 1..L PROVE Origin(Z, CoreSplit(Z)[d]) = Origin(imgs, old[d])
  <2>1. CoreSplit(Z)[d] = old[d] /\ Z[old[d].image] = imgs[old[d].image]
    BY <1>1, <1>2, <1>10
  <2> QED BY <2>1 DEF Origin
<1> QED BY <1>10, <1>11 DEF Z, G, n, L, old

-----------------------------------------------------------------------------
(* The state and what is reported of it. *)

RowType == [src : Nat, ent : Nat, off : Int, dex_id : Int, valid : BOOLEAN, art_open : BOOLEAN]

\* Types of the state, and where the constructor can be.
Typed ==
    /\ mode \in {"isolated", "runtime"} /\ strict \in BOOLEAN /\ inputs \in Inputs
    /\ phase \in {"source", "entry", "build", "ready", "refused"}
    /\ src \in 1..(Len(inputs) + 1) /\ ent \in Nat
    /\ broken \in BOOLEAN
    /\ next_dex_id \in 0..MaxDexes
    /\ report \in Seq(RowType) /\ images \in Seq(ImageType) /\ dex_items \in Seq(ItemType)
    /\ phase = "source" => ent = 0
    /\ phase = "entry" => /\ src <= Len(inputs) /\ HasImages(src)
                          /\ ent \in 1..(Len(inputs[src].entries) + 1)

\* The loop is at an entry that is an image.
AtImage == phase = "entry" /\ ent <= Len(inputs[src].entries) /\ Entry.kind = "image"

-----------------------------------------------------------------------------
(* One entry. *)

\* Sources and their entries.
LEMMA EntryType ==
    ASSUME inputs \in Inputs, NEW s \in 1..Len(inputs)
    PROVE  /\ inputs[s].format \in {"dex", "zip", "images", "unknown"}
           /\ inputs[s].duplicate \in BOOLEAN
           /\ Len(inputs[s].entries) \in Nat
           /\ DOMAIN inputs[s].entries = 1..Len(inputs[s].entries)
           /\ \A e \in 1..Len(inputs[s].entries) :
                /\ inputs[s].entries[e].kind \in EntryKinds
                /\ inputs[s].entries[e].units \in Seq(Header)
<1>1. inputs \in Seq(Source)
  BY InputsAssumption
<1>2. inputs[s] \in Source
  BY <1>1
<1>3. /\ inputs[s].format \in {"dex", "zip", "images", "unknown"}
      /\ inputs[s].duplicate \in BOOLEAN
      /\ inputs[s].entries \in Seq([kind : EntryKinds, units : Seq(Header)])
  BY <1>2 DEF Source
<1>4. ASSUME NEW e \in 1..Len(inputs[s].entries)
      PROVE  /\ inputs[s].entries[e].kind \in EntryKinds
             /\ inputs[s].entries[e].units \in Seq(Header)
  <2> DEFINE es == inputs[s].entries
             entry == [kind : EntryKinds, units : Seq(Header)]
  <2>1. es \in Seq(entry) /\ e \in 1..Len(es)
    BY <1>3
  <2>2. es[e] \in entry
    <3> HIDE DEF es, entry
    <3> QED BY <2>1
  <2> QED BY <2>2
<1>5. Len(inputs[s].entries) \in Nat /\ DOMAIN inputs[s].entries = 1..Len(inputs[s].entries)
  BY <1>3
<1> QED BY <1>3, <1>4, <1>5

\* The slices of an image have each an offset of its own, and verify by themselves
\* what the reference says they do.
LEMMA SlicesApart ==
    ASSUME NEW img \in Seq(Header), NEW check_insns \in BOOLEAN
    PROVE  LET sl == ClassifyImageSlices(img, check_insns)
           IN  /\ sl \in Seq(LogicalDex) /\ Len(sl) \in Nat /\ DOMAIN sl = 1..Len(sl)
               /\ \A i \in 1..Len(sl) : /\ sl[i].offset \in Nat
                                        /\ sl[i].art_own = ArtOwn(img, sl[i])
               /\ \A i, j \in 1..Len(sl) : sl[i].offset = sl[j].offset => i = j
<1> DEFINE w == ParseLogicalDexOffsets(img)
           raw == LogicalDexSlices(img)
           sl == ClassifyImageSlices(img, check_insns)
<1>1. /\ SameDexes(sl, raw) /\ Len(sl) = Len(w)
      /\ \A i \in 1..Len(sl) : sl[i].offset = w[i] /\ sl[i].art_own = ArtOwn(img, raw[i])
  BY Judged
<1> HIDE DEF sl, raw
<1>2. sl \in Seq(LogicalDex) /\ Len(sl) \in Nat /\ DOMAIN sl = 1..Len(sl)
  BY <1>1 DEF SameDexes
<1>3. \A i, j \in 1..Len(w) : i < j => w[i] + Unit(img, w[i]).size <= w[j]
  BY OffsetsWalk, WalkOrder
<1>4. \A i \in 1..Len(w) : w[i] \in Nat /\ Unit(img, w[i]).size \in Nat \ {0}
  BY OffsetsWalk, WalkOrder
<1> HIDE DEF w
<1>5. ASSUME NEW i \in 1..Len(sl), NEW j \in 1..Len(sl), sl[i].offset = sl[j].offset PROVE i = j
  <2>1. w[i] = w[j] /\ i \in 1..Len(w) /\ j \in 1..Len(w)
    BY <1>1, <1>5
  <2>2. ~(i < j) /\ ~(j < i)
    <3>1. \A a, s \in Nat : s # 0 => ~(a + s <= a)
      OBVIOUS
    <3> QED BY <1>3, <1>4, <2>1, <3>1
  <2> QED BY <1>2, <2>2
<1>6. \A i \in 1..Len(sl) : sl[i].offset \in Nat
  BY <1>1, <1>4
<1>7. ASSUME NEW i \in 1..Len(sl) PROVE sl[i].art_own = ArtOwn(img, sl[i])
  BY <1>1 DEF SameDexes, ArtOwn, VerifyDex, ContainerConsistent
<1> QED BY <1>2, <1>5, <1>6, <1>7 DEF sl

\* The entries of the sources, and their images.
ImageAt(s, e) ==
    /\ s \in 1..Len(inputs) /\ e \in 1..Len(inputs[s].entries)
    /\ inputs[s].entries[e].kind = "image"

\* The source is one ART does not open, or it met its end in an entry before e.
BrokenBefore(s, e) ==
    \/ inputs[s].format = "zip" /\ inputs[s].duplicate
    \/ \E f \in 1..(e - 1) : EntryFails(s, f)

\* The reference in the terms of the loop.
LEMMA ReferenceMeans ==
    ASSUME inputs \in Inputs, strict \in BOOLEAN, NEW s, NEW e, ImageAt(s, e)
    PROVE  LET sl == SlicesOf(s, e)
           IN  /\ sl = ClassifyImageSlices(inputs[s].entries[e].units, strict)
               /\ inputs[s].entries[e].units \in Seq(Header)
               /\ EntryFails(s, e) <=> ImageFails(sl)
               /\ \A k \in 1..Len(sl) :
                    ArtOpens(s, e, k) <=> OpenedByArt(sl, BrokenBefore(s, e), k)
<1> DEFINE img == inputs[s].entries[e].units
           sl == SlicesOf(s, e)
<1>1. img \in Seq(Header) /\ sl = ClassifyImageSlices(img, strict)
  BY EntryType DEF ImageAt, SlicesOf
<1> HIDE DEF sl, img
<1>2. /\ sl \in Seq(LogicalDex) /\ Len(sl) \in Nat /\ DOMAIN sl = 1..Len(sl)
      /\ \A i \in 1..Len(sl) : sl[i].art_own = ArtOwn(img, sl[i])
  BY <1>1, SlicesApart
<1>3. \A i \in 1..Len(sl) : i \in Reads(s, e) <=> ReadTo(sl, i)
  BY <1>2 DEF Reads, ReadTo, sl
<1>4. \A i \in 1..Len(sl) : Opens(s, e, i) <=> sl[i].art_own
  BY <1>2 DEF Opens, sl, img
<1>5. Reads(s, e) \in SUBSET (1..Len(sl))
  BY <1>2 DEF Reads, sl
<1>6. EntryFails(s, e) <=> ImageFails(sl)
  <2>1. EntryFails(s, e) <=>
          \/ sl = <<>>
          \/ \E i \in Reads(s, e) : ~Opens(s, e, i)
          \/ \A i \in 1..Len(sl) : ~sl[i].last_entry
    <3>1. /\ \A i : i \in DOMAIN SlicesOf(s, e) <=> i \in 1..Len(SlicesOf(s, e))
          /\ inputs[s].entries[e].kind = "image"
      BY <1>2 DEF ImageAt, sl
    <3> QED BY <3>1, Zenon DEF EntryFails, sl
  <2>2. (\E i \in Reads(s, e) : ~Opens(s, e, i))
        <=> (\E i \in 1..Len(sl) : ReadTo(sl, i) /\ ~sl[i].art_own)
    <3>1. \A i \in Reads(s, e) : i \in 1..Len(sl)
      BY <1>5
    <3> QED BY <1>3, <1>4, <3>1, Zenon
  <2> QED BY <2>1, <2>2, Zenon DEF ImageFails
<1>7. ASSUME NEW k \in 1..Len(sl)
      PROVE  ArtOpens(s, e, k) <=> OpenedByArt(sl, BrokenBefore(s, e), k)
  <2>1. \A j \in 1..k : j \in 1..Len(sl)
    BY <1>2
  <2>2. (\A j \in 1..k : Opens(s, e, j)) <=> (\A j \in 1..k : sl[j].art_own)
    BY <1>4, <2>1
  <2>3. (k \in Reads(s, e)) <=> ReadTo(sl, k)
    BY <1>3
  <2>4. BrokenBefore(s, e) <=> ~(/\ ~(inputs[s].format = "zip" /\ inputs[s].duplicate)
                                /\ \A f \in 1..(e-1) : ~EntryFails(s, f))
    BY DEF BrokenBefore
  <2> QED BY <2>2, <2>3, <2>4 DEF ArtOpens, OpenedByArt
<1> QED BY <1>1, <1>6, <1>7 DEF sl, img

\* What ART opens, dex by dex.
LEMMA ArtSetMeans ==
    ASSUME inputs \in Inputs, strict \in BOOLEAN, NEW s, NEW e
    PROVE  /\ <<s, e, -1>> \notin ArtSet
           /\ ImageAt(s, e) /\ HasImages(s) =>
                \A k \in 1..Len(SlicesOf(s, e)) :
                   <<s, e, SlicesOf(s, e)[k].offset>> \in ArtSet <=> ArtOpens(s, e, k)
           /\ \A off : <<s, e, off>> \in ArtSet =>
                /\ ImageAt(s, e) /\ HasImages(s)
                /\ \E k \in 1..Len(SlicesOf(s, e)) :
                     off = SlicesOf(s, e)[k].offset /\ ArtOpens(s, e, k)
<1> DEFINE At(off, k) == off = SlicesOf(s, e)[k].offset /\ ArtOpens(s, e, k)
<1>1. ASSUME NEW t, NEW f, ImageAt(t, f)
      PROVE  LET sl == SlicesOf(t, f)
             IN  /\ sl \in Seq(LogicalDex) /\ Len(sl) \in Nat /\ DOMAIN sl = 1..Len(sl)
                 /\ \A i \in 1..Len(sl) : sl[i].offset \in Nat
                 /\ \A i, j \in 1..Len(sl) : sl[i].offset = sl[j].offset => i = j
  <2> DEFINE sl == SlicesOf(t, f)
             img == inputs[t].entries[f].units
  <2>1. img \in Seq(Header) /\ sl = ClassifyImageSlices(img, strict)
    BY <1>1, EntryType DEF ImageAt, SlicesOf
  <2> HIDE DEF sl, img
  <2> QED BY <2>1, SlicesApart DEF sl
<1>2. \A t \in DOMAIN inputs : t \in 1..Len(inputs)
                                /\ DOMAIN inputs[t].entries = 1..Len(inputs[t].entries)
      /\ DOMAIN inputs = 1..Len(inputs)
  <2>1. DOMAIN inputs = 1..Len(inputs)
    BY InputsAssumption
  <2> QED BY <2>1, EntryType
<1>3. ASSUME NEW off
      PROVE  <<s, e, off>> \in ArtSet
             <=> ImageAt(s, e) /\ HasImages(s) /\ \E k \in 1..Len(SlicesOf(s, e)) : At(off, k)
  <2>1. <<s, e, off>> \in ArtSet
        <=> \E t \in {u \in DOMAIN inputs : HasImages(u)} :
            \E f \in {g \in DOMAIN inputs[t].entries : inputs[t].entries[g].kind = "image"} :
            \E k \in {j \in DOMAIN SlicesOf(t, f) : ArtOpens(t, f, j)} :
              <<s, e, off>> = <<t, f, SlicesOf(t, f)[k].offset>>
    BY DEF ArtSet
  <2>2. (\E t \in {u \in DOMAIN inputs : HasImages(u)} :
         \E f \in {g \in DOMAIN inputs[t].entries : inputs[t].entries[g].kind = "image"} :
         \E k \in {j \in DOMAIN SlicesOf(t, f) : ArtOpens(t, f, j)} :
           <<s, e, off>> = <<t, f, SlicesOf(t, f)[k].offset>>)
        <=> /\ s \in DOMAIN inputs /\ HasImages(s)
            /\ e \in DOMAIN inputs[s].entries /\ inputs[s].entries[e].kind = "image"
            /\ \E k \in DOMAIN SlicesOf(s, e) : At(off, k)
    BY Zenon
  <2>3. (/\ s \in DOMAIN inputs /\ HasImages(s)
         /\ e \in DOMAIN inputs[s].entries /\ inputs[s].entries[e].kind = "image")
        <=> ImageAt(s, e) /\ HasImages(s)
    BY <1>2 DEF ImageAt
  <2>4. ImageAt(s, e) => DOMAIN SlicesOf(s, e) = 1..Len(SlicesOf(s, e))
    BY <1>1
  <2> HIDE DEF At
  <2> QED BY <2>1, <2>2, <2>3, <2>4, Zenon
<1>4. ImageAt(s, e) => \A k \in 1..Len(SlicesOf(s, e)) : SlicesOf(s, e)[k].offset # -1
  <2> SUFFICES ASSUME ImageAt(s, e), NEW k \in 1..Len(SlicesOf(s, e))
               PROVE  SlicesOf(s, e)[k].offset # -1
    OBVIOUS
  <2>1. SlicesOf(s, e)[k].offset \in Nat
    BY <1>1
  <2> QED BY <2>1
<1>5. <<s, e, -1>> \notin ArtSet
  BY <1>3, <1>4, Zenon
<1>6. ASSUME ImageAt(s, e), HasImages(s), NEW k \in 1..Len(SlicesOf(s, e))
      PROVE  <<s, e, SlicesOf(s, e)[k].offset>> \in ArtSet <=> ArtOpens(s, e, k)
  <2>1. \A j \in 1..Len(SlicesOf(s, e)) :
          SlicesOf(s, e)[k].offset = SlicesOf(s, e)[j].offset => k = j
    BY <1>1, <1>6
  <2> QED BY <1>3, <1>6, <2>1, Zenon
<1> QED BY <1>3, <1>5, <1>6, Zenon

-----------------------------------------------------------------------------
(* OneImage. *)

Here == SlicesOf(src, ent)
Units == Entry.units
Kept == Downgrade(Slices, Ids)
NoNextRow == IF MissingEntry(ClassifyImageSlices(Entry.units, strict), broken)
             THEN <<RejectRow>> ELSE <<>>
Fresh == EmitSliceVerdicts(Slices, Ids) \o NoNextRow

\* What the loop works on at an image.
LEMMA AtImageMeans ==
    ASSUME Typed, AtImage
    PROVE  /\ ImageAt(src, ent) /\ HasImages(src)
           /\ Units \in Seq(Header) /\ Here = ClassifyImageSlices(Units, strict)
           /\ Here \in Seq(LogicalDex)
           /\ SlicesOfImage(Units, Slices) /\ SameDexes(Slices, Here)
           /\ \A k \in 1..Len(Slices) :
                /\ Slices[k].art_open = OpenedByArt(Here, broken, k)
                /\ Slices[k].ok => Here[k].ok /\ InContainer(Units, Slices[k])
                /\ Slices[k].ok /\ mode = "runtime" => Slices[k].art_open
<1>1. ImageAt(src, ent) /\ HasImages(src)
  BY DEF Typed, AtImage, ImageAt, Entry
<1>2. Units \in Seq(Header) /\ Here = ClassifyImageSlices(Units, strict)
  BY <1>1, ReferenceMeans DEF Typed, Units, Entry, Here
<1>3. Here \in Seq(LogicalDex)
  BY <1>2, SlicesApart DEF Typed
<1> DEFINE runtime == mode = "runtime"
<1>4. strict \in BOOLEAN /\ broken \in BOOLEAN /\ runtime \in BOOLEAN
  BY DEF Typed
<1>5. Slices = ClassifySourceImage(Units, strict, broken, runtime)
  BY DEF Slices, Units
<1> HIDE DEF runtime
<1>6. /\ SlicesOfImage(Units, Slices) /\ SameDexes(Slices, Here)
      /\ \A k \in 1..Len(Slices) :
           /\ Slices[k].art_open = OpenedByArt(Here, broken, k)
           /\ Slices[k].ok => Here[k].ok /\ InContainer(Units, Slices[k])
           /\ Slices[k].ok /\ runtime => Slices[k].art_open
  BY <1>2, <1>4, <1>5, Classified
<1> QED BY <1>1, <1>2, <1>3, <1>6 DEF runtime

\* The ids of an image, and its slices after the downgrade.
LEMMA IdsMean ==
    ASSUME Typed, AtImage
    PROVE  LET K == Given(Ids)
               c == Cardinality(K)
           IN  /\ DOMAIN Ids = 1..Len(Here) /\ K \in SUBSET (1..Len(Here))
               /\ IsFiniteSet(K) /\ c \in Nat /\ next_dex_id + c <= MaxDexes
               /\ \A i \in K : Slices[i].ok /\ Ids[i] = next_dex_id + Before(K, i)
               /\ \A i \in K : Ids[i] \in next_dex_id..(next_dex_id + c - 1)
               /\ \A i \in K, j \in 1..Len(Here) : j < i /\ Slices[j].ok => j \in K
               /\ (\E i \in 1..Len(Here) : Slices[i].ok /\ i \notin K)
                    => next_dex_id + c = MaxDexes
               /\ \A i \in K : Before(K, i) < c
               /\ \A i, j \in K : Ids[i] = Ids[j] => i = j
               /\ \A d \in next_dex_id..(next_dex_id + c - 1) : \E i \in K : Ids[i] = d
<1> DEFINE K == Given(Ids)
           c == Cardinality(K)
           n == Len(Here)
<1>1. Slices \in Seq(LogicalDex) /\ Len(Slices) = n /\ n \in Nat
  BY AtImageMeans DEF SameDexes
<1>2. Ids = AssignIds(Slices, next_dex_id) /\ next_dex_id \in 0..MaxDexes
  BY DEF Ids, Typed
<1> HIDE DEF n
<1>3. /\ DOMAIN Ids = 1..n /\ K \in SUBSET (1..n)
      /\ IsFiniteSet(K) /\ c \in Nat /\ next_dex_id + c <= MaxDexes
      /\ \A i \in K : Slices[i].ok /\ Ids[i] = next_dex_id + Before(K, i)
      /\ \A i \in K : Ids[i] \in next_dex_id..(next_dex_id + c - 1)
      /\ \A i \in K, j \in 1..n : j < i /\ Slices[j].ok => j \in K
      /\ (\E i \in 1..n : Slices[i].ok /\ i \notin K) => next_dex_id + c = MaxDexes
  BY <1>1, <1>2, IdsInOrder
<1> HIDE DEF K
<1>4. /\ \A i \in Int : Before(K, i) \in 0..c
      /\ \A i \in K : Before(K, i) < c
      /\ \A i \in K, j \in Int : i < j => Before(K, i) < Before(K, j)
      /\ \A d \in 0..(c - 1) : \E i \in K : Before(K, i) = d
  BY <1>1, <1>3, Places
<1> HIDE DEF c
<1>5. next_dex_id \in Int /\ \A i \in K : i \in Int
  BY <1>2, <1>3, MaxDexesAssumption
<1>6. ASSUME NEW i \in K, NEW j \in K, Ids[i] = Ids[j] PROVE i = j
  <2>1. Before(K, i) = Before(K, j) /\ Before(K, i) \in Int
    <3>1. /\ next_dex_id + Before(K, i) = next_dex_id + Before(K, j)
          /\ Before(K, i) \in 0..c /\ Before(K, j) \in 0..c
      BY <1>3, <1>4, <1>5, <1>6
    <3> QED BY <1>3, <1>5, <3>1
  <2>2. ~(i < j) /\ ~(j < i)
    BY <1>4, <1>5, <2>1
  <2> QED BY <1>5, <2>2
<1>7. ASSUME NEW d \in next_dex_id..(next_dex_id + c - 1) PROVE \E i \in K : Ids[i] = d
  <2>1. d - next_dex_id \in 0..(c - 1) /\ next_dex_id + (d - next_dex_id) = d
    BY <1>3, <1>5
  <2>2. PICK i \in K : Before(K, i) = d - next_dex_id
    BY <1>4, <2>1
  <2> QED BY <1>3, <2>1, <2>2
<1> QED BY <1>3, <1>4, <1>6, <1>7 DEF K, c, n

\* An image has one row for each dex, in order, and perhaps rows about no dex after them.
LEMMA RowsMean ==
    ASSUME Typed, AtImage
    PROVE  LET n == Len(Here)
           IN  /\ EmitSliceVerdicts(Slices, Ids) \in Seq(RowType) /\ NoNextRow \in Seq(RowType)
               /\ Fresh \in Seq(RowType) /\ n \in Nat /\ n <= Len(Fresh)
               /\ \A k \in 1..Len(Fresh) :
                    Fresh[k] = IF k <= n
                               THEN Row(Here[k].offset, Ids[k], Ids[k] # -1,
                                        OpenedByArt(Here, broken, k))
                               ELSE RejectRow
<1> DEFINE n == Len(Here)
           row(k) == Row(Here[k].offset, Ids[k], Ids[k] # -1, OpenedByArt(Here, broken, k))
           first == EmitSliceVerdicts(Slices, Ids)
           last == NoNextRow
<1>1. /\ Slices \in Seq(LogicalDex) /\ Len(Slices) = n /\ n \in Nat
      /\ DOMAIN Slices = 1..n /\ Here \in Seq(LogicalDex)
      /\ \A k \in 1..n : /\ Slices[k].offset = Here[k].offset
                         /\ Slices[k].art_open = OpenedByArt(Here, broken, k)
  BY AtImageMeans DEF SameDexes
<1>2. \A k \in 1..n : Ids[k] \in Int
  <2>1. \A k \in 1..n : Ids[k] = -1 \/ k \in Given(Ids)
    BY <1>1, IdsMean DEF Given
  <2>2. \A k \in Given(Ids) : Ids[k] \in next_dex_id..(next_dex_id + Cardinality(Given(Ids)) - 1)
    BY IdsMean
  <2> QED BY <2>1, <2>2
<1>3. src \in Nat /\ ent \in Nat
  BY DEF Typed
<1>4. RejectRow \in RowType
  BY <1>3 DEF RejectRow, Row, RowType
<1>5. ASSUME NEW k \in 1..n PROVE row(k) \in RowType
  <2>1. Here[k].offset \in Nat
    <3>1. Here[k] \in LogicalDex
      BY <1>1
    <3> QED BY <3>1 DEF LogicalDex
  <2>2. OpenedByArt(Here, broken, k) \in BOOLEAN
    BY DEF OpenedByArt
  <2>3. Ids[k] \in Int
    BY <1>2
  <2> QED BY <1>3, <2>1, <2>2, <2>3 DEF Row, RowType
<1>6. first = IF Slices = <<>> THEN <<RejectRow>>
              ELSE [k \in 1..n |-> Row(Slices[k].offset, Ids[k], Ids[k] # -1, Slices[k].art_open)]
  BY <1>1 DEF EmitSliceVerdicts
<1>7. /\ first \in Seq(RowType) /\ n <= Len(first)
      /\ \A k \in 1..Len(first) : first[k] = IF k <= n THEN row(k) ELSE RejectRow
  <2>1. CASE Slices = <<>>
    <3>1. n = 0
      BY <1>1, <2>1
    <3>2. first = <<RejectRow>>
      BY <1>6, <2>1
    <3> HIDE DEF first, n, row
    <3> QED BY <1>4, <3>1, <3>2
  <2>2. CASE Slices # <<>>
    <3>1. first = [k \in 1..n |-> Row(Slices[k].offset, Ids[k], Ids[k] # -1, Slices[k].art_open)]
      BY <1>6, <2>2
    <3>2. \A k \in 1..n : Row(Slices[k].offset, Ids[k], Ids[k] # -1, Slices[k].art_open) = row(k)
      BY <1>1
    <3> HIDE DEF first, n, row
    <3>3. first = [k \in 1..n |-> row(k)]
      BY <3>1, <3>2
    <3>4. first \in Seq(RowType) /\ Len(first) = n
      BY <1>1, <1>5, <3>3
    <3> QED BY <1>1, <3>3, <3>4
  <2> QED BY <2>1, <2>2
<1>8. last \in Seq(RowType) /\ \A k \in 1..Len(last) : last[k] = RejectRow
  BY <1>4 DEF NoNextRow
<1>9. Fresh = first \o last
  BY DEF Fresh
<1> HIDE DEF first, last, row, n
<1>10. /\ first \o last \in Seq(RowType) /\ Len(first \o last) = Len(first) + Len(last)
       /\ \A k \in 1..(Len(first) + Len(last)) :
            (first \o last)[k] = IF k <= Len(first) THEN first[k] ELSE last[k - Len(first)]
  BY <1>7, <1>8, ConcatProperties
<1>11. Len(first) \in Nat /\ Len(last) \in Nat
  BY <1>7, <1>8
<1>12. ASSUME NEW k \in 1..Len(Fresh) PROVE Fresh[k] = IF k <= n THEN row(k) ELSE RejectRow
  <2>1. CASE k <= Len(first)
    <3>1. k \in 1..Len(first)
      BY <1>9, <1>10, <1>11, <2>1
    <3> QED BY <1>7, <1>9, <1>10, <1>12, <2>1, <3>1
  <2>2. CASE ~(k <= Len(first))
    <3>1. k - Len(first) \in 1..Len(last) /\ ~(k <= n)
      BY <1>1, <1>7, <1>9, <1>10, <1>11, <2>2
    <3> QED BY <1>8, <1>9, <1>10, <1>12, <2>2, <3>1
  <2> QED BY <2>1, <2>2
<1> QED BY <1>1, <1>7, <1>8, <1>9, <1>10, <1>11, <1>12 DEF n, row, first, last

\* The downgrade leaves the dexes as they are and keeps those with an id.
LEMMA DowngradeMeans ==
    ASSUME Typed, AtImage
    PROVE  /\ Kept \in Seq(LogicalDex) /\ SameDexes(Kept, Slices) /\ Len(Kept) = Len(Here)
           /\ \A i \in 1..Len(Kept) : /\ Kept[i].ok <=> i \in Given(Ids)
                                      /\ Kept[i].ok => InContainer(Units, Kept[i])
           /\ KeptImages(Units, Kept) \in Seq(ImageType)
<1> DEFINE n == Len(Here)
<1>1. /\ Slices \in Seq(LogicalDex) /\ Len(Slices) = n /\ n \in Nat /\ DOMAIN Slices = 1..n
      /\ \A k \in 1..n : Slices[k].ok => InContainer(Units, Slices[k])
  BY AtImageMeans DEF SameDexes
<1>2. /\ DOMAIN Ids = 1..n
      /\ \A i \in Given(Ids) : Slices[i].ok
  BY IdsMean
<1> HIDE DEF n
<1>3. Kept = [i \in 1..n |-> [Slices[i] EXCEPT !.ok = Ids[i] # -1]]
  BY <1>1 DEF Kept, Downgrade
<1>4. ASSUME NEW i \in 1..n
      PROVE  /\ Slices[i] \in LogicalDex /\ Kept[i] \in LogicalDex
             /\ Kept[i].ok = (Ids[i] # -1)
             /\ Kept[i].offset = Slices[i].offset /\ Kept[i].size = Slices[i].size
             /\ Kept[i].header = Slices[i].header
             /\ Kept[i].self_contained = Slices[i].self_contained
             /\ Kept[i].last_entry = Slices[i].last_entry
             /\ Kept[i].container_begin = Slices[i].container_begin
             /\ Kept[i].container_end = Slices[i].container_end
  <2>1. Slices[i] \in LogicalDex
    BY <1>1
  <2>2. Kept[i] = [Slices[i] EXCEPT !.ok = Ids[i] # -1]
    BY <1>3
  <2> QED BY <2>1, <2>2 DEF LogicalDex
<1>5. Kept \in Seq(LogicalDex) /\ Len(Kept) = n
  <2>1. Kept = [i \in 1..n |-> Kept[i]]
    BY <1>3
  <2> HIDE DEF Kept
  <2> QED BY <1>1, <1>4, <2>1
<1> HIDE DEF Kept
<1>6. SameDexes(Kept, Slices)
  BY <1>1, <1>4, <1>5 DEF SameDexes
<1>7. \A i \in 1..n : Kept[i].ok <=> i \in Given(Ids)
  BY <1>2, <1>4 DEF Given
<1>8. ASSUME NEW i \in 1..n, Kept[i].ok PROVE InContainer(Units, Kept[i])
  <2>1. InContainer(Units, Slices[i])
    BY <1>1, <1>2, <1>7, <1>8
  <2> QED BY <1>4, <2>1 DEF InContainer
<1>9. KeptImages(Units, Kept) \in Seq(ImageType)
  <2>1. src \in Nat /\ ent \in Nat /\ Units \in Seq(Header)
    BY AtImageMeans DEF Typed
  <2>2. \A i \in 1..Len(Kept) : Kept[i].ok => InContainer(Units, Kept[i])
    BY <1>5, <1>8
  <2> QED BY <1>5, <2>1, <2>2, KeptMeans
<1> QED BY <1>5, <1>6, <1>7, <1>8, <1>9 DEF n

-----------------------------------------------------------------------------
(* Types. *)

\* A session starts in a typed state.
LEMMA TypedInit == Init => Typed
<1> SUFFICES ASSUME Init PROVE Typed
  OBVIOUS
<1>1. Len(inputs) \in Nat
  BY InputsAssumption DEF Init
<1>2. report \in Seq(RowType) /\ images \in Seq(ImageType) /\ dex_items \in Seq(ItemType)
  BY DEF Init
<1>3. next_dex_id \in 0..MaxDexes
  BY MaxDexesAssumption DEF Init
<1>4. /\ inputs \in Inputs /\ mode \in {"isolated", "runtime"} /\ strict \in BOOLEAN
      /\ phase = "source" /\ src = 1 /\ ent = 0 /\ broken \in BOOLEAN
  BY DEF Init
<1>5. src \in 1..(Len(inputs) + 1)
  BY <1>1, <1>4
<1> QED BY <1>2, <1>3, <1>4, <1>5 DEF Typed

\* A step keeps the types.
LEMMA TypedNext == Typed /\ [Next]_vars => Typed'
<1> SUFFICES ASSUME Typed, [Next]_vars PROVE Typed'
  OBVIOUS
<1>0. /\ inputs \in Seq(Source) /\ Len(inputs) \in Nat
      /\ \A s \in 1..Len(inputs) : Len(inputs[s].entries) \in Nat
  BY InputsAssumption, EntryType DEF Typed
<1>00. src \in Nat /\ ent \in Nat /\ RejectRow \in RowType
  BY DEF Typed, RejectRow, Row, RowType
<1>1. CASE BeginSource
  <2>1. CASE inputs[src].format = "unknown" \/ (inputs[src].format = "zip" /\ inputs[src].entries = <<>>)
    <3>1. /\ report' = Append(report, RejectRow) /\ src' = src + 1 /\ phase' = phase /\ ent' = ent
          /\ phase = "source" /\ src <= Len(inputs) /\ broken' \in BOOLEAN
          /\ UNCHANGED <<config, next_dex_id, images, core>>
      BY <1>1, <2>1, Zenon DEF BeginSource
    <3>2. src + 1 \in 1..(Len(inputs) + 1)
      BY <1>0, <3>1 DEF Typed
    <3>3. report' \in Seq(RowType)
      BY <1>00, <3>1 DEF Typed
    <3> QED BY <3>1, <3>2, <3>3 DEF Typed, config, core
  <2>2. CASE ~(inputs[src].format = "unknown" \/ (inputs[src].format = "zip" /\ inputs[src].entries = <<>>))
    <3>1. /\ phase' = "entry" /\ ent' = 1 /\ report' = report /\ src' = src
          /\ phase = "source" /\ src <= Len(inputs) /\ broken' \in BOOLEAN
          /\ UNCHANGED <<config, next_dex_id, images, core>>
      BY <1>1, <2>2, Zenon DEF BeginSource
    <3>2. src \in 1..Len(inputs) /\ HasImages(src)
      BY <1>0, <2>2, <3>1 DEF Typed, HasImages
    <3>3. Len(inputs[src].entries) \in Nat
      BY <1>0, <3>2
    <3>4. HasImages(src)'
      BY <3>1, <3>2 DEF HasImages, config
    <3> QED BY <3>1, <3>2, <3>3, <3>4 DEF Typed, config, core
  <2> QED BY <2>1, <2>2
<1>2. CASE RejectEntry
  <2>1. /\ report' = Append(report, RejectRow) /\ broken' = TRUE /\ ent' = ent + 1
        /\ phase = "entry" /\ ent <= Len(inputs[src].entries)
        /\ UNCHANGED <<config, phase, src, next_dex_id, images, core>>
    BY <1>2 DEF RejectEntry
  <2>2. report' \in Seq(RowType)
    BY <1>00, <2>1 DEF Typed
  <2>3. src \in 1..Len(inputs) /\ Len(inputs[src].entries) \in Nat
    BY <1>0, <2>1 DEF Typed
  <2>4. HasImages(src)'
    BY <2>1 DEF HasImages, config, Typed
  <2> QED BY <2>1, <2>2, <2>3, <2>4 DEF Typed, config, core
<1>3. CASE OneImage
  <2>1. /\ AtImage
        /\ report' = report \o Fresh
        /\ next_dex_id' = next_dex_id + Cardinality(Given(Ids))
        /\ images' = images \o KeptImages(Units, Kept)
        /\ broken' \in BOOLEAN /\ ent' = ent + 1
        /\ UNCHANGED <<config, phase, src, core>>
    <3>1. broken \in BOOLEAN /\ (broken' = (broken \/ BrokenAfter(ClassifyImageSlices(Entry.units, strict), broken)))
      BY <1>3 DEF OneImage, Typed
    <3>2. broken' \in BOOLEAN
      BY <3>1
    <3>3. report' = report \o Fresh
      <4>1. report' = (report \o EmitSliceVerdicts(Slices, Ids)) \o NoNextRow
        BY <1>3 DEF OneImage, NoNextRow
      <4>2. /\ report \in Seq(RowType) /\ EmitSliceVerdicts(Slices, Ids) \in Seq(RowType)
            /\ NoNextRow \in Seq(RowType)
        BY <1>3, RowsMean DEF Typed, OneImage, AtImage
      <4> QED BY <4>1, <4>2, ConcatAssociative DEF Fresh
    <3> QED BY <1>3, <3>2, <3>3 DEF OneImage, AtImage, Given, Units, Kept
  <2>2. report' \in Seq(RowType)
    BY <2>1, RowsMean DEF Typed
  <2>3. images' \in Seq(ImageType)
    BY <2>1, DowngradeMeans DEF Typed
  <2>4. next_dex_id' \in 0..MaxDexes
    <3>1. /\ Cardinality(Given(Ids)) \in Nat /\ next_dex_id + Cardinality(Given(Ids)) <= MaxDexes
      BY <2>1, IdsMean
    <3> QED BY <2>1, <3>1, MaxDexesAssumption DEF Typed
  <2>5. src \in 1..Len(inputs) /\ Len(inputs[src].entries) \in Nat
    BY <1>0, <2>1 DEF Typed, AtImage
  <2>6. HasImages(src)'
    BY <2>1 DEF HasImages, config, Typed, AtImage
  <2>7. phase = "entry" /\ ent <= Len(inputs[src].entries)
    BY <2>1 DEF AtImage
  <2>8. /\ mode' = mode /\ strict' = strict /\ inputs' = inputs /\ phase' = phase /\ src' = src
        /\ dex_items' = dex_items
    BY <2>1 DEF config, core
  <2>9. ent' \in 1..(Len(inputs[src].entries) + 1)
    BY <2>1, <2>5, <2>7 DEF Typed
  <2>10. broken' \in BOOLEAN
    BY <2>1
  <2> QED BY <2>2, <2>3, <2>4, <2>5, <2>6, <2>7, <2>8, <2>9, <2>10 DEF Typed
<1>4. CASE SalvageOutOfMemory
  BY <1>4 DEF SalvageOutOfMemory, Typed, config, walk, core
<1>5. CASE EndSource
  <2>1. src + 1 \in 1..(Len(inputs) + 1)
    BY <1>0, <1>5 DEF Typed, EndSource
  <2> QED BY <1>5, <2>1 DEF EndSource, Typed, config, core
<1>6. CASE NothingToLoad
  BY <1>6 DEF NothingToLoad, Typed, config, walk, core
<1>7. CASE AddImage
  <2>1. dex_items' = CoreSplit(images) /\ phase' = "build" /\ UNCHANGED <<config, walk, declared>>
    BY <1>7 DEF AddImage
  <2>2. dex_items' \in Seq(ItemType)
    BY <2>1, CoreType DEF Typed
  <2> QED BY <2>1, <2>2 DEF Typed, config, walk
<1>8. ASSUME NEW i \in 1..Len(dex_items), BuildItem(i) PROVE Typed'
  <2>1. \/ dex_items' = [dex_items EXCEPT ![i].state = "built"]
        \/ dex_items' = [dex_items EXCEPT ![i].state = "null"]
    BY <1>8, Zenon DEF BuildItem
  <2>2. dex_items' \in Seq(ItemType)
    <3>1. dex_items \in Seq(ItemType) /\ dex_items[i] \in ItemType
      BY DEF Typed
    <3> DEFINE built == [dex_items[i] EXCEPT !.state = "built"]
               null == [dex_items[i] EXCEPT !.state = "null"]
    <3>2. built \in ItemType /\ null \in ItemType
      BY <3>1 DEF ItemType
    <3>3. dex_items' = [dex_items EXCEPT ![i] = built] \/ dex_items' = [dex_items EXCEPT ![i] = null]
      BY <2>1
    <3> HIDE DEF built, null
    <3> QED BY <3>1, <3>2, <3>3
  <2>3. UNCHANGED <<config, phase, walk>>
    BY <1>8 DEF BuildItem
  <2> QED BY <2>2, <2>3 DEF Typed, HasImages, config, walk
<1>9. CASE PoolFails
  BY <1>9 DEF PoolFails, Typed, config, walk, core
<1>10. CASE AssertLoadedDexesWereVerified
  BY <1>10 DEF AssertLoadedDexesWereVerified, Typed, config, walk, core
<1>11. CASE UNCHANGED vars
  BY <1>11 DEF vars, Typed, HasImages, config, walk, core
<1> QED BY <1>1, <1>2, <1>3, <1>4, <1>5, <1>6, <1>7, <1>8, <1>9, <1>10, <1>11 DEF Next

-----------------------------------------------------------------------------
(* The rows. *)

\* The entries the loop is past.
Passed(s, e) == s < src \/ (s = src /\ e < ent)

\* A dex of isolated mode that no rule rejects.
Survives(s, e, k) ==
    LET sl == SlicesOf(s, e)
    IN  /\ sl[k].ok
        /\ sl[k].self_contained
           \/ ContainerWhole(sl, Len(inputs[s].entries[e].units), Siblings(sl, k))

\* An accepted row has an id, and one about no dex says nothing.
RowsFlagged ==
    \A i \in 1..Len(report) :
      /\ report[i].dex_id \in -1..(next_dex_id - 1)
      /\ report[i].valid = (report[i].dex_id # -1)
      /\ report[i].valid /\ mode = "runtime" => report[i].art_open
      /\ report[i].off = -1 => ~report[i].valid /\ ~report[i].art_open

\* Another row is about a dex of an image, opened as ART opens it.
RowsSound ==
    \A s, e : \A i \in 1..Len(report) :
      report[i].src = s /\ report[i].ent = e /\ report[i].off # -1 =>
        /\ ImageAt(s, e) /\ HasImages(s) /\ Passed(s, e)
        /\ \E k \in 1..Len(SlicesOf(s, e)) : report[i].off = SlicesOf(s, e)[k].offset
        /\ \A k \in 1..Len(SlicesOf(s, e)) :
             report[i].off = SlicesOf(s, e)[k].offset => (report[i].art_open <=> ArtOpens(s, e, k))

\* No dex has two rows, and each that was passed has one.
RowsUnique ==
    \A i, j \in 1..Len(report) :
        report[i].off # -1 /\ Place(report[i]) = Place(report[j]) => i = j
RowsComplete ==
    \A s, e : ImageAt(s, e) /\ HasImages(s) /\ Passed(s, e) =>
        \A k \in 1..Len(SlicesOf(s, e)) : \E i \in 1..Len(report) :
            /\ Place(report[i]) = <<s, e, SlicesOf(s, e)[k].offset>>
            /\ mode = "isolated" /\ next_dex_id < MaxDexes /\ Survives(s, e, k)
                 => report[i].valid

\* The valid rows have the ids below next_dex_id, each one.
IdsExact ==
    /\ \A d \in 0..(next_dex_id - 1) : \E i \in 1..Len(report) : report[i].dex_id = d
    /\ \A i, j \in 1..Len(report) : report[i].valid /\ report[i].dex_id = report[j].dex_id => i = j

\* ArtSequence::broken is what the entries before this one say.
BrokenExact ==
    phase = "entry" => \A s, e : s = src /\ e = ent => (broken <=> BrokenBefore(s, e))

RowsExact == RowsFlagged /\ RowsSound /\ RowsUnique /\ RowsComplete /\ IdsExact

\* What is said of the sources does not change.
LEMMA SourcesStay ==
    ASSUME config' = config
    PROVE  /\ inputs' = inputs /\ strict' = strict /\ mode' = mode
           /\ \A s : HasImages(s)' <=> HasImages(s)
           /\ \A s, e : /\ ImageAt(s, e)' <=> ImageAt(s, e)
                        /\ SlicesOf(s, e)' = SlicesOf(s, e)
                        /\ EntryFails(s, e)' <=> EntryFails(s, e)
                        /\ BrokenBefore(s, e)' <=> BrokenBefore(s, e)
           /\ \A s, e, k : /\ ArtOpens(s, e, k)' <=> ArtOpens(s, e, k)
                           /\ Survives(s, e, k)' <=> Survives(s, e, k)
<1>1. inputs' = inputs /\ strict' = strict /\ mode' = mode
  BY DEF config
<1>2. \A s : HasImages(s)' <=> HasImages(s)
  BY <1>1 DEF HasImages
<1>3. \A s, e : (ImageAt(s, e)' <=> ImageAt(s, e)) /\ SlicesOf(s, e)' = SlicesOf(s, e)
  BY <1>1 DEF ImageAt, SlicesOf
<1>4. \A s, e, k : Opens(s, e, k)' <=> Opens(s, e, k)
  BY <1>1, <1>3 DEF Opens
<1>5. \A s, e : Reads(s, e)' = Reads(s, e)
  BY <1>3 DEF Reads
<1>6. \A s, e : EntryFails(s, e)' <=> EntryFails(s, e)
  BY <1>1, <1>3, <1>4, <1>5 DEF EntryFails
<1>7. \A s, e : BrokenBefore(s, e)' <=> BrokenBefore(s, e)
  BY <1>1, <1>6 DEF BrokenBefore
<1>8. \A s, e, k : ArtOpens(s, e, k)' <=> ArtOpens(s, e, k)
  BY <1>1, <1>4, <1>5, <1>6 DEF ArtOpens
<1>9. \A s, e, k : Survives(s, e, k)' <=> Survives(s, e, k)
  BY <1>1, <1>3 DEF Survives
<1> QED BY <1>1, <1>2, <1>3, <1>6, <1>7, <1>8, <1>9

\* Rows added at the end.
LEMMA RowsAdded ==
    ASSUME NEW a \in Seq(RowType), NEW b \in Seq(RowType)
    PROVE  /\ a \o b \in Seq(RowType) /\ Len(a) \in Nat /\ Len(b) \in Nat
           /\ Len(a \o b) = Len(a) + Len(b)
           /\ \A i \in 1..Len(a) : i \in 1..Len(a \o b) /\ (a \o b)[i] = a[i]
           /\ \A k \in 1..Len(b) : Len(a) + k \in 1..Len(a \o b) /\ (a \o b)[Len(a) + k] = b[k]
           /\ \A i \in 1..Len(a \o b) : i \in 1..Len(a) \/ \E k \in 1..Len(b) : i = Len(a) + k
<1> DEFINE c == a \o b
<1>1. /\ c \in Seq(RowType) /\ Len(c) = Len(a) + Len(b)
      /\ \A i \in 1..(Len(a) + Len(b)) : c[i] = IF i <= Len(a) THEN a[i] ELSE b[i - Len(a)]
  BY ConcatProperties
<1>2. Len(a) \in Nat /\ Len(b) \in Nat
  OBVIOUS
<1> HIDE DEF c
<1>3. \A i \in 1..Len(a) : i \in 1..Len(c) /\ c[i] = a[i]
  BY <1>1, <1>2
<1>4. ASSUME NEW k \in 1..Len(b) PROVE Len(a) + k \in 1..Len(c) /\ c[Len(a) + k] = b[k]
  <2>1. /\ Len(a) + k \in 1..(Len(a) + Len(b)) /\ ~(Len(a) + k <= Len(a))
        /\ (Len(a) + k) - Len(a) = k
    BY <1>2
  <2> QED BY <1>1, <2>1
<1>5. ASSUME NEW i \in 1..Len(c), i \notin 1..Len(a) PROVE \E k \in 1..Len(b) : i = Len(a) + k
  <2>1. i - Len(a) \in 1..Len(b) /\ i = Len(a) + (i - Len(a))
    BY <1>1, <1>2, <1>5
  <2> QED BY <2>1
<1> QED BY <1>1, <1>2, <1>3, <1>4, <1>5 DEF c

\* The rows stay exact while no image is passed and only rows about no dex are added.
LEMMA RowsKeep ==
    ASSUME Typed, RowsExact, config' = config, next_dex_id' = next_dex_id,
           NEW more \in Seq(RowType), report' = report \o more,
           \A k \in 1..Len(more) : more[k] = RejectRow,
           \A s, e : ImageAt(s, e) /\ HasImages(s) => (Passed(s, e)' <=> Passed(s, e))
    PROVE  RowsExact'
<1> DEFINE n == Len(report)
           m == Len(report')
<1>1. /\ mode' = mode
      /\ \A s : HasImages(s)' <=> HasImages(s)
      /\ \A s, e : (ImageAt(s, e)' <=> ImageAt(s, e)) /\ SlicesOf(s, e)' = SlicesOf(s, e)
      /\ \A s, e, k : /\ ArtOpens(s, e, k)' <=> ArtOpens(s, e, k)
                      /\ Survives(s, e, k)' <=> Survives(s, e, k)
  BY SourcesStay
<1>2. /\ \A i \in 1..n : i \in 1..m /\ report'[i] = report[i]
      /\ \A i \in 1..m : i \in 1..n \/ report'[i] = RejectRow
  <2>1. report \in Seq(RowType)
    BY DEF Typed
  <2>2. /\ \A i \in 1..n : i \in 1..m /\ report'[i] = report[i]
        /\ \A k \in 1..Len(more) : report'[n + k] = more[k]
        /\ \A i \in 1..m : i \in 1..n \/ \E k \in 1..Len(more) : i = n + k
    BY <2>1, RowsAdded
  <2> QED BY <2>2, Zenon
<1> HIDE DEF n, m
<1>3. /\ RejectRow.off = -1 /\ RejectRow.dex_id = -1 /\ RejectRow.valid = FALSE
      /\ RejectRow.art_open = FALSE
  BY DEF RejectRow, Row
<1>4. next_dex_id \in Nat /\ -1 \in -1..(next_dex_id - 1)
  BY MaxDexesAssumption DEF Typed
<1>5. RowsFlagged'
  <2>1. ASSUME NEW i \in 1..m
        PROVE  /\ report'[i].dex_id \in -1..(next_dex_id' - 1)
               /\ report'[i].valid = (report'[i].dex_id # -1)
               /\ report'[i].valid /\ mode' = "runtime" => report'[i].art_open
               /\ report'[i].off = -1 => ~report'[i].valid /\ ~report'[i].art_open
    <3>1. CASE i \in 1..n
      BY <1>1, <1>2, <3>1 DEF RowsExact, RowsFlagged, n
    <3>2. CASE i \notin 1..n
      BY <1>2, <1>3, <1>4, <3>2
    <3> QED BY <3>1, <3>2
  <2> QED BY <2>1, Zenon DEF RowsFlagged, m
<1>55. RowsSound'
  <2> SUFFICES ASSUME NEW s, NEW e, NEW i \in 1..m,
                      report'[i].src = s, report'[i].ent = e, report'[i].off # -1
               PROVE  /\ ImageAt(s, e)' /\ HasImages(s)' /\ Passed(s, e)'
                      /\ \E k \in 1..Len(SlicesOf(s, e)') :
                           report'[i].off = SlicesOf(s, e)'[k].offset
                      /\ \A k \in 1..Len(SlicesOf(s, e)') :
                           report'[i].off = SlicesOf(s, e)'[k].offset
                             => (report'[i].art_open <=> ArtOpens(s, e, k)')
    BY DEF RowsSound, m
  <2>1. i \in 1..n /\ report'[i] = report[i]
    BY <1>2, <1>3
  <2>2. /\ ImageAt(s, e) /\ HasImages(s) /\ Passed(s, e)
        /\ \E k \in 1..Len(SlicesOf(s, e)) : report[i].off = SlicesOf(s, e)[k].offset
        /\ \A k \in 1..Len(SlicesOf(s, e)) :
             report[i].off = SlicesOf(s, e)[k].offset => (report[i].art_open <=> ArtOpens(s, e, k))
    <3>1. RowsSound /\ report[i].src = s /\ report[i].ent = e /\ report[i].off # -1
      BY <2>1 DEF RowsExact
    <3> QED BY <2>1, <3>1, Zenon DEF RowsSound, n
  <2> QED BY <1>1, <2>1, <2>2
<1>6. RowsUnique'
  <2> SUFFICES ASSUME NEW i \in 1..m, NEW j \in 1..m, report'[i].off # -1,
                      Place(report'[i]) = Place(report'[j])
               PROVE  i = j
    BY DEF RowsUnique, Place, m
  <2>1. report'[j].off = report'[i].off
    BY DEF Place
  <2>2. i \in 1..n /\ j \in 1..n
    BY <1>2, <1>3, <2>1
  <2>3. report'[i] = report[i] /\ report'[j] = report[j]
    BY <1>2, <2>2
  <2> QED BY <2>2, <2>3 DEF RowsExact, RowsUnique, n
<1>7. RowsComplete'
  <2> SUFFICES ASSUME NEW s, NEW e, ImageAt(s, e)', HasImages(s)', Passed(s, e)',
                      NEW k \in 1..Len(SlicesOf(s, e)')
               PROVE  \E i \in 1..m :
                        /\ Place(report'[i]) = <<s, e, SlicesOf(s, e)'[k].offset>>
                        /\ mode' = "isolated" /\ next_dex_id' < MaxDexes /\ Survives(s, e, k)'
                             => report'[i].valid
    BY DEF RowsComplete, Place, m
  <2>1. ImageAt(s, e) /\ HasImages(s) /\ Passed(s, e) /\ k \in 1..Len(SlicesOf(s, e))
    BY <1>1
  <2>2. PICK i \in 1..n :
            /\ Place(report[i]) = <<s, e, SlicesOf(s, e)[k].offset>>
            /\ mode = "isolated" /\ next_dex_id < MaxDexes /\ Survives(s, e, k)
                 => report[i].valid
    BY <2>1 DEF RowsExact, RowsComplete, n
  <2>3. i \in 1..m /\ report'[i] = report[i]
    BY <1>2
  <2> QED BY <1>1, <2>2, <2>3
<1>8. IdsExact'
  <2>1. ASSUME NEW d \in 0..(next_dex_id - 1) PROVE \E i \in 1..m : report'[i].dex_id = d
    <3>1. PICK i \in 1..n : report[i].dex_id = d
      BY DEF RowsExact, IdsExact, n
    <3> QED BY <1>2, <3>1
  <2>2. ASSUME NEW i \in 1..m, NEW j \in 1..m, report'[i].valid,
               report'[i].dex_id = report'[j].dex_id
        PROVE  i = j
    <3>1. i \in 1..n /\ report'[i] = report[i]
      BY <1>2, <1>3, <2>2
    <3>2. report[i].dex_id # -1
      BY <2>2, <3>1 DEF RowsExact, RowsFlagged, n
    <3>3. j \in 1..n /\ report'[j] = report[j]
      BY <1>2, <1>3, <2>2, <3>1, <3>2
    <3> QED BY <2>2, <3>1, <3>3 DEF RowsExact, IdsExact, n
  <2> QED BY <2>1, <2>2 DEF IdsExact, m
<1> QED BY <1>5, <1>55, <1>6, <1>7, <1>8 DEF RowsExact

\* Isolated mode rejects no dex by a rule that ART has and the container rule has not.
LEMMA SurvivorsKept ==
    ASSUME Typed, AtImage, mode = "isolated", NEW k \in 1..Len(Here), Survives(src, ent, k)
    PROVE  Slices[k].ok
<1> DEFINE art == ArtVerdicts(Here, broken, mode = "runtime")
           n == Len(Units)
<1>1. Here \in Seq(LogicalDex) /\ broken \in BOOLEAN /\ (mode = "runtime") = FALSE
      /\ Here = ClassifyImageSlices(Units, strict)
  BY AtImageMeans DEF Typed
<1>2. /\ SameDexes(art, Here)
      /\ \A i \in 1..Len(Here) : art[i].ok = Here[i].ok
  <2>1. art = ArtVerdicts(Here, broken, FALSE)
    BY <1>1
  <2>2. LET v == ArtVerdicts(Here, broken, FALSE)
        IN  /\ SameDexes(v, Here)
            /\ \A i \in 1..Len(Here) :
                 /\ v[i].art_open = OpenedByArt(Here, broken, i)
                 /\ v[i].ok = (Here[i].ok /\ (FALSE => v[i].art_open))
    BY <1>1, ArtVerdictsMean
  <2>3. \A i \in 1..Len(Here) : Here[i].ok \in BOOLEAN
    <3>1. \A i \in 1..Len(Here) : Here[i] \in LogicalDex
      BY <1>1
    <3> QED BY <3>1 DEF LogicalDex
  <2> HIDE DEF art
  <2> QED BY <2>1, <2>2, <2>3
<1>3. Slices = SiblingRule(art, n)
  BY <1>1 DEF Slices, ClassifySourceImage, Units
<1> HIDE DEF art
<1>4. Len(art) = Len(Here) /\ art \in Seq(LogicalDex) /\ DOMAIN art = DOMAIN Here
      /\ DOMAIN Here = 1..Len(Here)
  BY <1>1, <1>2 DEF SameDexes
<1>5. /\ Here[k].ok
      /\ Here[k].self_contained \/ ContainerWhole(Here, n, Siblings(Here, k))
  BY DEF Survives, Here, n, Units, Entry
<1>6. Siblings(art, k) = Siblings(Here, k) /\ Siblings(Here, k) \in SUBSET (1..Len(Here))
  BY <1>2, <1>4 DEF Siblings, SameDexes
<1>7. Here[k].self_contained \/ ContainerWhole(art, n, Siblings(art, k))
  <2> SUFFICES ASSUME ~Here[k].self_contained PROVE ContainerWhole(art, n, Siblings(art, k))
    OBVIOUS
  <2> DEFINE M == Siblings(Here, k)
             f == CHOOSE i \in M : \A j \in M : i <= j
  <2>1. k \in M
    BY <1>4 DEF Siblings
  <2>2. f \in M
    <3>1. \E i \in M : \A j \in M : i <= j
      <4>1. M \in SUBSET Nat /\ M # {}
        BY <1>6, <2>1
      <4> HIDE DEF M
      <4> QED BY <4>1, Least
    <3> HIDE DEF M
    <3> QED BY <3>1
  <2>3. f \in 1..Len(Here)
    BY <1>6, <2>2
  <2>4. ContainerWhole(Here, n, M)
    BY <1>5
  <2> HIDE DEF M
  <2>5. /\ Here[f].container_end <= n /\ \A i \in M : Here[i].ok
        /\ {i \in DOMAIN Here : /\ Here[f].container_begin <= Here[i].offset
                                /\ Here[i].offset < Here[f].container_end} = M
    BY <2>4 DEF ContainerWhole
  <2> HIDE DEF f
  <2>6. /\ art[f].container_end <= n /\ \A i \in M : art[i].ok
    BY <1>2, <1>4, <1>6, <2>3, <2>5 DEF SameDexes, M
  <2>7. \A i \in 1..Len(Here) : art[i].offset = Here[i].offset
    BY <1>2, <1>4 DEF SameDexes
  <2>8. art[f].container_begin = Here[f].container_begin
        /\ art[f].container_end = Here[f].container_end
    BY <1>2, <1>4, <2>3 DEF SameDexes
  <2>9. {i \in DOMAIN art : /\ art[f].container_begin <= art[i].offset
                            /\ art[i].offset < art[f].container_end} = M
    BY <1>4, <2>5, <2>7, <2>8
  <2>10. ContainerWhole(art, n, M)
    BY <2>6, <2>9 DEF ContainerWhole, f
  <2> QED BY <1>6, <2>10 DEF M
<1>8. art[k].self_contained = Here[k].self_contained /\ art[k].ok
  BY <1>2, <1>4, <1>5 DEF SameDexes
<1>9. Slices[k].ok <=>
         /\ art[k].ok
         /\ \/ \A j \in 1..Len(art) : art[j].ok
            \/ art[k].self_contained
            \/ ContainerWhole(art, n, Siblings(art, k))
  BY <1>3, <1>4, SiblingRuleMeans
<1> QED BY <1>7, <1>8, <1>9

\* What OneImage does, in the terms of the lemmas.
LEMMA ImageStep ==
    ASSUME Typed, OneImage
    PROVE  /\ AtImage
           /\ report' = report \o Fresh
           /\ next_dex_id' = next_dex_id + Cardinality(Given(Ids))
           /\ images' = images \o KeptImages(Units, Kept)
           /\ broken' = (broken \/ BrokenAfter(Here, broken))
           /\ src' = src /\ ent' = ent + 1 /\ phase' = phase /\ config' = config /\ core' = core
<1>1. AtImage
  BY DEF OneImage, AtImage
<1>2. report' = report \o Fresh
  <2>1. report' = (report \o EmitSliceVerdicts(Slices, Ids)) \o NoNextRow
    BY DEF OneImage, NoNextRow
  <2>2. /\ report \in Seq(RowType) /\ EmitSliceVerdicts(Slices, Ids) \in Seq(RowType)
        /\ NoNextRow \in Seq(RowType)
    BY <1>1, RowsMean DEF Typed
  <2> QED BY <2>1, <2>2, ConcatAssociative DEF Fresh
<1>3. /\ next_dex_id' = next_dex_id + Cardinality(Given(Ids))
      /\ images' = images \o KeptImages(Units, Kept)
      /\ broken' = (broken \/ BrokenAfter(ClassifyImageSlices(Entry.units, strict), broken))
      /\ src' = src /\ ent' = ent + 1 /\ phase' = phase /\ config' = config /\ core' = core
  BY DEF OneImage, Given, Units, Kept
<1>4. Here = ClassifyImageSlices(Entry.units, strict)
  BY <1>1, AtImageMeans DEF Units
<1> QED BY <1>1, <1>2, <1>3, <1>4

\* The rows of one more image.
LEMMA RowsOfImage ==
    ASSUME Typed, RowsExact, BrokenExact, OneImage
    PROVE  RowsExact'
<1> DEFINE n == Len(report)
           m == Len(report')
           N == Len(Here)
           c == Cardinality(Given(Ids))
<1>1. /\ AtImage /\ phase = "entry" /\ report' = report \o Fresh /\ next_dex_id' = next_dex_id + c
      /\ src' = src /\ ent' = ent + 1 /\ config' = config
  BY ImageStep DEF AtImage
<1>2. /\ mode' = mode
      /\ \A s : HasImages(s)' <=> HasImages(s)
      /\ \A s, e : (ImageAt(s, e)' <=> ImageAt(s, e)) /\ SlicesOf(s, e)' = SlicesOf(s, e)
      /\ \A s, e, k : /\ ArtOpens(s, e, k)' <=> ArtOpens(s, e, k)
                      /\ Survives(s, e, k)' <=> Survives(s, e, k)
  BY <1>1, SourcesStay
<1>3. /\ ImageAt(src, ent) /\ HasImages(src) /\ ~Passed(src, ent)
      /\ \A s, e : ImageAt(s, e) /\ Passed(s, e) => Passed(s, e)'
      /\ \A s, e : s = src /\ e = ent => Passed(s, e)'
      /\ \A s, e : ImageAt(s, e) /\ Passed(s, e)' => Passed(s, e) \/ (s = src /\ e = ent)
  <2>1. src \in Nat /\ ent \in Nat /\ \A s, e : ImageAt(s, e) => s \in Nat /\ e \in Nat
    BY DEF Typed, ImageAt
  <2>2. ImageAt(src, ent) /\ HasImages(src)
    BY <1>1, AtImageMeans
  <2>3. \A s, e : /\ Passed(s, e) <=> s < src \/ (s = src /\ e < ent)
                  /\ Passed(s, e)' <=> s < src \/ (s = src /\ e < ent + 1)
    BY <1>1 DEF Passed
  <2>4. \A e \in Nat : /\ e < ent => e < ent + 1
                       /\ e < ent + 1 => e < ent \/ e = ent
    BY <2>1
  <2>5. ~(src < src) /\ ~(ent < ent) /\ ent < ent + 1
    BY <2>1
  <2>6. ASSUME NEW s, NEW e, ImageAt(s, e), Passed(s, e) PROVE Passed(s, e)'
    BY <2>1, <2>3, <2>4, <2>6
  <2>7. ASSUME NEW s, NEW e, ImageAt(s, e), Passed(s, e)' PROVE Passed(s, e) \/ (s = src /\ e = ent)
    BY <2>1, <2>3, <2>4, <2>7
  <2>8. \A s, e : s = src /\ e = ent => Passed(s, e)'
    BY <2>3, <2>5
  <2> QED BY <2>2, <2>3, <2>5, <2>6, <2>7, <2>8, Zenon
<1>4. /\ Fresh \in Seq(RowType) /\ N \in Nat /\ N <= Len(Fresh)
      /\ \A k \in 1..Len(Fresh) :
           Fresh[k] = IF k <= N THEN Row(Here[k].offset, Ids[k], Ids[k] # -1,
                                         OpenedByArt(Here, broken, k))
                      ELSE RejectRow
  BY <1>1, RowsMean
<1>5. /\ n \in Nat
      /\ \A i \in 1..n : i \in 1..m /\ report'[i] = report[i]
      /\ \A k \in 1..Len(Fresh) : n + k \in 1..m /\ report'[n + k] = Fresh[k]
      /\ \A i \in 1..m : i \in 1..n \/ \E k \in 1..Len(Fresh) : i = n + k
  <2>1. report \in Seq(RowType)
    BY DEF Typed
  <2> QED BY <1>1, <1>4, <2>1, RowsAdded
<1>6. /\ DOMAIN Ids = 1..N /\ Given(Ids) \in SUBSET (1..N) /\ c \in Nat /\ next_dex_id + c <= MaxDexes
      /\ \A k \in Given(Ids) : Slices[k].ok
      /\ \A k \in Given(Ids) : Ids[k] \in next_dex_id..(next_dex_id + c - 1)
      /\ (\E k \in 1..N : Slices[k].ok /\ k \notin Given(Ids)) => next_dex_id + c = MaxDexes
      /\ \A i, j \in Given(Ids) : Ids[i] = Ids[j] => i = j
      /\ \A d \in next_dex_id..(next_dex_id + c - 1) : \E i \in Given(Ids) : Ids[i] = d
  BY <1>1, IdsMean
<1>7. \A k \in 1..N : Ids[k] # -1 <=> k \in Given(Ids)
  BY <1>6 DEF Given
<1>8. /\ Here \in Seq(LogicalDex)
      /\ \A k \in 1..N : Here[k].offset \in Nat
      /\ \A i, j \in 1..N : Here[i].offset = Here[j].offset => i = j
  <2>1. Units \in Seq(Header) /\ strict \in BOOLEAN /\ Here = ClassifyImageSlices(Units, strict)
    BY <1>1, AtImageMeans DEF Typed
  <2> QED BY <2>1, SlicesApart
<1>9. \A k \in 1..N : OpenedByArt(Here, broken, k) <=> ArtOpens(src, ent, k)
  <2>1. broken <=> BrokenBefore(src, ent)
    BY <1>1 DEF BrokenExact
  <2>2. \A k \in 1..N : ArtOpens(src, ent, k) <=> OpenedByArt(Here, BrokenBefore(src, ent), k)
    BY <1>3, ReferenceMeans DEF Typed, Here
  <2> QED BY <2>1, <2>2 DEF OpenedByArt
<1>10. next_dex_id \in Nat
  BY MaxDexesAssumption DEF Typed
<1>11. ASSUME NEW k \in 1..Len(Fresh)
       PROVE  /\ k \in Nat
              /\ Fresh[k].src = src /\ Fresh[k].ent = ent
              /\ k <= N => /\ k \in 1..N
                           /\ Fresh[k].off = Here[k].offset /\ Fresh[k].dex_id = Ids[k]
                           /\ Fresh[k].valid = (Ids[k] # -1)
                           /\ Fresh[k].art_open = OpenedByArt(Here, broken, k)
              /\ ~(k <= N) => /\ Fresh[k].off = -1 /\ Fresh[k].dex_id = -1
                              /\ Fresh[k].valid = FALSE /\ Fresh[k].art_open = FALSE
  <2>1. CASE k <= N
    <3>1. k \in 1..N /\ Fresh[k] = Row(Here[k].offset, Ids[k], Ids[k] # -1, OpenedByArt(Here, broken, k))
      BY <1>4, <2>1
    <3> QED BY <2>1, <3>1 DEF Row
  <2>2. CASE ~(k <= N)
    <3>1. Fresh[k] = RejectRow
      BY <1>4, <2>2
    <3>2. /\ RejectRow.src = src /\ RejectRow.ent = ent
          /\ RejectRow.off = -1 /\ RejectRow.dex_id = -1
          /\ RejectRow.valid = FALSE /\ RejectRow.art_open = FALSE
      BY DEF Row, RejectRow
    <3>3. k \in Nat
      OBVIOUS
    <3> QED BY <2>2, <3>1, <3>2, <3>3
  <2> QED BY <2>1, <2>2
<1>12. /\ RowsFlagged /\ RowsSound /\ RowsUnique /\ RowsComplete /\ IdsExact
  BY DEF RowsExact
<1> HIDE DEF n, m, N, c
<1>13. RowsFlagged'
  <2>1. ASSUME NEW i \in 1..m
        PROVE  /\ report'[i].dex_id \in -1..(next_dex_id' - 1)
               /\ report'[i].valid = (report'[i].dex_id # -1)
               /\ report'[i].valid /\ mode' = "runtime" => report'[i].art_open
               /\ report'[i].off = -1 => ~report'[i].valid /\ ~report'[i].art_open
    <3>1. CASE i \in 1..n
      <4>1. /\ report[i].dex_id \in -1..(next_dex_id - 1)
            /\ report[i].valid = (report[i].dex_id # -1)
            /\ report[i].valid /\ mode = "runtime" => report[i].art_open
            /\ report[i].off = -1 => ~report[i].valid /\ ~report[i].art_open
        BY <1>12, <3>1 DEF RowsFlagged, n
      <4>2. report'[i] = report[i]
        BY <1>5, <3>1
      <4>3. report[i].dex_id \in -1..(next_dex_id' - 1)
        BY <1>1, <1>6, <1>10, <4>1
      <4> QED BY <1>2, <4>1, <4>2, <4>3
    <3>2. ASSUME NEW k \in 1..Len(Fresh), i = n + k
          PROVE  /\ report'[i].dex_id \in -1..(next_dex_id' - 1)
                 /\ report'[i].valid = (report'[i].dex_id # -1)
                 /\ report'[i].valid /\ mode' = "runtime" => report'[i].art_open
                 /\ report'[i].off = -1 => ~report'[i].valid /\ ~report'[i].art_open
      <4>1. report'[i] = Fresh[k]
        BY <1>5, <3>2
      <4>2. CASE k <= N
        <5>1. /\ k \in 1..N
              /\ Fresh[k].off = Here[k].offset /\ Fresh[k].dex_id = Ids[k]
              /\ Fresh[k].valid = (Ids[k] # -1)
              /\ Fresh[k].art_open = OpenedByArt(Here, broken, k)
          BY <1>11, <4>2
        <5>2. Ids[k] \in -1..(next_dex_id' - 1)
          <6>1. Ids[k] = -1 \/ Ids[k] \in next_dex_id..(next_dex_id + c - 1)
            BY <1>6, <1>7, <5>1
          <6> QED BY <1>1, <1>6, <1>10, <6>1
        <5>3. k \in Given(Ids) /\ mode = "runtime" => OpenedByArt(Here, broken, k)
          <6>1. /\ k \in 1..Len(Slices)
                /\ Slices[k].art_open = OpenedByArt(Here, broken, k)
                /\ Slices[k].ok /\ mode = "runtime" => Slices[k].art_open
            BY <1>1, <5>1, AtImageMeans DEF SameDexes, N
          <6> QED BY <1>6, <6>1
        <5>4. Fresh[k].off # -1
          BY <1>8, <5>1
        <5> QED BY <1>2, <1>7, <4>1, <5>1, <5>2, <5>3, <5>4
      <4>3. CASE ~(k <= N)
        <5>1. /\ Fresh[k].off = -1 /\ Fresh[k].dex_id = -1
              /\ Fresh[k].valid = FALSE /\ Fresh[k].art_open = FALSE
          BY <1>11, <4>3
        <5>2. -1 \in -1..(next_dex_id' - 1)
          BY <1>1, <1>6, <1>10
        <5> QED BY <4>1, <5>1, <5>2
      <4> QED BY <4>2, <4>3
    <3> QED BY <1>5, <3>1, <3>2
  <2> QED BY <2>1, Zenon DEF RowsFlagged, m
<1>14. RowsSound'
  <2> SUFFICES ASSUME NEW s, NEW e, NEW i \in 1..m,
                      report'[i].src = s, report'[i].ent = e, report'[i].off # -1
               PROVE  /\ ImageAt(s, e)' /\ HasImages(s)' /\ Passed(s, e)'
                      /\ \E k \in 1..Len(SlicesOf(s, e)') :
                           report'[i].off = SlicesOf(s, e)'[k].offset
                      /\ \A k \in 1..Len(SlicesOf(s, e)') :
                           report'[i].off = SlicesOf(s, e)'[k].offset
                             => (report'[i].art_open <=> ArtOpens(s, e, k)')
    BY DEF RowsSound, m
  <2>1. CASE i \in 1..n
    <3>1. report'[i] = report[i]
      BY <1>5, <2>1
    <3>2. /\ ImageAt(s, e) /\ HasImages(s) /\ Passed(s, e)
          /\ \E k \in 1..Len(SlicesOf(s, e)) : report[i].off = SlicesOf(s, e)[k].offset
          /\ \A k \in 1..Len(SlicesOf(s, e)) :
               report[i].off = SlicesOf(s, e)[k].offset => (report[i].art_open <=> ArtOpens(s, e, k))
      <4>1. report[i].src = s /\ report[i].ent = e /\ report[i].off # -1
        BY <3>1
      <4> QED BY <1>12, <2>1, <4>1, Zenon DEF RowsSound, n
    <3> QED BY <1>2, <1>3, <3>1, <3>2
  <2>2. ASSUME NEW k \in 1..Len(Fresh), i = n + k
        PROVE  /\ ImageAt(s, e)' /\ HasImages(s)' /\ Passed(s, e)'
               /\ \E j \in 1..Len(SlicesOf(s, e)') :
                    report'[i].off = SlicesOf(s, e)'[j].offset
               /\ \A j \in 1..Len(SlicesOf(s, e)') :
                    report'[i].off = SlicesOf(s, e)'[j].offset
                      => (report'[i].art_open <=> ArtOpens(s, e, j)')
    <3>1. report'[i] = Fresh[k]
      BY <1>5, <2>2
    <3>2. k <= N
      BY <1>11, <3>1
    <3>3. /\ s = src /\ e = ent /\ k \in 1..N /\ report'[i].off = Here[k].offset
          /\ report'[i].art_open = OpenedByArt(Here, broken, k)
      BY <1>11, <3>1, <3>2
    <3>4. SlicesOf(s, e)' = Here
      BY <1>2, <3>3 DEF Here
    <3>5. \A j \in 1..N : Here[k].offset = Here[j].offset => k = j
      BY <1>8, <3>3
    <3>6. ArtOpens(s, e, k)' <=> OpenedByArt(Here, broken, k)
      BY <1>2, <1>9, <3>3
    <3>7. ImageAt(s, e)' /\ HasImages(s)' /\ Passed(s, e)'
      <4>1. Passed(s, e)'
        BY <1>3, <3>3
      <4>2. ImageAt(s, e) /\ HasImages(s)
        BY <1>3, <3>3
      <4> QED BY <1>2, <4>1, <4>2
    <3>8. \E j \in 1..Len(Here) : report'[i].off = Here[j].offset
      BY <3>3 DEF N
    <3>9. ASSUME NEW j \in 1..Len(Here), report'[i].off = Here[j].offset
          PROVE  report'[i].art_open <=> ArtOpens(s, e, j)'
      <4>1. j = k
        BY <3>3, <3>5, <3>9 DEF N
      <4> QED BY <3>3, <3>6, <4>1
    <3> QED BY <3>4, <3>7, <3>8, <3>9
  <2> QED BY <1>5, <2>1, <2>2
<1>15. RowsUnique'
  <2> SUFFICES ASSUME NEW i \in 1..m, NEW j \in 1..m, report'[i].off # -1,
                      Place(report'[i]) = Place(report'[j])
               PROVE  i = j
    BY DEF RowsUnique, Place, m
  <2>1. /\ report'[i].src = report'[j].src /\ report'[i].ent = report'[j].ent
        /\ report'[i].off = report'[j].off
    BY DEF Place
  <2>2. \A q \in 1..n : report'[q] = report[q]
                       /\ (report[q].off # -1 => Passed(report[q].src, report[q].ent))
    BY <1>5, <1>12, Zenon DEF RowsSound, n
  <2>3. CASE i \in 1..n /\ j \in 1..n
    <3>1. Place(report[i]) = Place(report[j]) /\ report[i].off # -1
      BY <2>2, <2>3
    <3> QED BY <1>12, <2>3, <3>1 DEF RowsUnique, n
  <2>4. ASSUME NEW k \in 1..Len(Fresh), NEW q \in 1..n, report'[n + k].src = report[q].src,
               report'[n + k].ent = report[q].ent, report[q].off # -1
        PROVE  FALSE
    <3>1. report[q].src = src /\ report[q].ent = ent
      BY <1>5, <1>11, <2>4
    <3>2. Passed(report[q].src, report[q].ent)
      BY <2>2, <2>4
    <3> QED BY <1>3, <3>1, <3>2
  <2>5. ASSUME NEW k \in 1..Len(Fresh), NEW l \in 1..Len(Fresh), i = n + k, j = n + l
        PROVE  k = l
    <3>1. report'[i] = Fresh[k] /\ report'[j] = Fresh[l]
      BY <1>5, <2>5
    <3>2. k <= N /\ l <= N
      BY <1>11, <2>1, <3>1
    <3>3. k \in 1..N /\ l \in 1..N /\ Here[k].offset = Here[l].offset
      BY <1>11, <2>1, <3>1, <3>2
    <3> QED BY <1>8, <3>3
  <2>6. CASE i \in 1..n /\ j \notin 1..n
    <3>1. PICK l \in 1..Len(Fresh) : j = n + l
      BY <1>5, <2>6
    <3>2. report'[i] = report[i]
      BY <2>2, <2>6
    <3> QED BY <2>1, <2>4, <2>6, <3>1, <3>2
  <2>7. CASE i \notin 1..n /\ j \in 1..n
    <3>1. PICK k \in 1..Len(Fresh) : i = n + k
      BY <1>5, <2>7
    <3>2. report'[j] = report[j]
      BY <2>2, <2>7
    <3> QED BY <2>1, <2>4, <2>7, <3>1, <3>2
  <2>8. CASE i \notin 1..n /\ j \notin 1..n
    <3>1. PICK k \in 1..Len(Fresh) : i = n + k
      BY <1>5, <2>8
    <3>2. PICK l \in 1..Len(Fresh) : j = n + l
      BY <1>5, <2>8
    <3> QED BY <2>5, <3>1, <3>2
  <2> QED BY <2>3, <2>6, <2>7, <2>8
<1>16. RowsComplete'
  <2> SUFFICES ASSUME NEW s, NEW e, ImageAt(s, e)', HasImages(s)', Passed(s, e)',
                      NEW k \in 1..Len(SlicesOf(s, e)')
               PROVE  \E i \in 1..m :
                        /\ Place(report'[i]) = <<s, e, SlicesOf(s, e)'[k].offset>>
                        /\ mode' = "isolated" /\ next_dex_id' < MaxDexes /\ Survives(s, e, k)'
                             => report'[i].valid
    BY DEF RowsComplete, Place, m
  <2>1. /\ ImageAt(s, e) /\ HasImages(s) /\ SlicesOf(s, e)' = SlicesOf(s, e)
        /\ k \in 1..Len(SlicesOf(s, e)) /\ (Survives(s, e, k)' <=> Survives(s, e, k))
    BY <1>2
  <2>2. Passed(s, e) \/ (s = src /\ e = ent)
    BY <1>3, <2>1
  <2>3. CASE Passed(s, e)
    <3>1. PICK i \in 1..n :
              /\ Place(report[i]) = <<s, e, SlicesOf(s, e)[k].offset>>
              /\ mode = "isolated" /\ next_dex_id < MaxDexes /\ Survives(s, e, k)
                   => report[i].valid
      BY <1>12, <2>1, <2>3 DEF RowsComplete, n
    <3>2. i \in 1..m /\ report'[i] = report[i]
      BY <1>5
    <3>3. next_dex_id' < MaxDexes => next_dex_id < MaxDexes
      BY <1>1, <1>6, <1>10, MaxDexesAssumption
    <3> QED BY <1>2, <2>1, <3>1, <3>2, <3>3
  <2>4. CASE s = src /\ e = ent
    <3>1. SlicesOf(s, e) = Here /\ k \in 1..N
      BY <2>1, <2>4 DEF Here, N
    <3>2. k \in 1..Len(Fresh) /\ k <= N
      BY <1>4, <3>1
    <3>3. /\ n + k \in 1..m /\ report'[n + k] = Fresh[k]
          /\ Fresh[k].src = src /\ Fresh[k].ent = ent /\ Fresh[k].off = Here[k].offset
          /\ Fresh[k].valid = (Ids[k] # -1)
      BY <1>5, <1>11, <3>2
    <3>4. Place(report'[n + k]) = <<s, e, SlicesOf(s, e)'[k].offset>>
      BY <2>1, <2>4, <3>1, <3>3 DEF Place
    <3>5. ASSUME mode = "isolated", next_dex_id' < MaxDexes, Survives(s, e, k)
          PROVE  report'[n + k].valid
      <4>1. Slices[k].ok
        BY <1>1, <2>4, <3>1, <3>5, SurvivorsKept DEF N
      <4>2. next_dex_id + c # MaxDexes
        BY <1>1, <1>6, <1>10, <3>5, MaxDexesAssumption
      <4>3. k \in Given(Ids)
        BY <1>6, <3>1, <4>1, <4>2
      <4> QED BY <1>7, <3>1, <3>3, <4>3
    <3> QED BY <1>2, <2>1, <3>3, <3>4, <3>5
  <2> QED BY <2>2, <2>3, <2>4
<1>17. IdsExact'
  <2>1. ASSUME NEW d \in 0..(next_dex_id' - 1) PROVE \E i \in 1..m : report'[i].dex_id = d
    <3>1. CASE d < next_dex_id
      <4>1. d \in 0..(next_dex_id - 1)
        BY <1>10, <3>1
      <4>2. PICK i \in 1..n : report[i].dex_id = d
        BY <1>12, <4>1 DEF IdsExact, n
      <4> QED BY <1>5, <4>2
    <3>2. CASE ~(d < next_dex_id)
      <4>1. d \in next_dex_id..(next_dex_id + c - 1)
        BY <1>1, <1>6, <1>10, <3>2
      <4>2. PICK k \in Given(Ids) : Ids[k] = d
        BY <1>6, <4>1
      <4>3. k \in 1..N /\ k \in 1..Len(Fresh) /\ k <= N
        BY <1>4, <1>6
      <4>4. n + k \in 1..m /\ report'[n + k].dex_id = d
        BY <1>5, <1>11, <4>2, <4>3
      <4> QED BY <4>4
    <3> QED BY <3>1, <3>2
  <2>2. ASSUME NEW i \in 1..n PROVE report'[i] = report[i] /\ report[i].dex_id < next_dex_id
                                    /\ (report[i].valid <=> report[i].dex_id # -1)
    <3>1. /\ report[i].dex_id \in -1..(next_dex_id - 1)
          /\ report[i].valid = (report[i].dex_id # -1)
      BY <1>12 DEF RowsFlagged, n
    <3>2. report[i].dex_id < next_dex_id
      BY <1>10, <3>1
    <3> QED BY <1>5, <3>1, <3>2, Zenon
  <2>3. ASSUME NEW k \in 1..Len(Fresh), Fresh[k].dex_id # -1
        PROVE  k \in Given(Ids) /\ Fresh[k].dex_id = Ids[k] /\ Ids[k] >= next_dex_id
               /\ Ids[k] \in Int
    <3>1. k <= N
      BY <1>11, <2>3
    <3>2. k \in 1..N /\ Fresh[k].dex_id = Ids[k]
      BY <1>11, <3>1
    <3>3. k \in Given(Ids)
      BY <1>7, <2>3, <3>2
    <3>4. Ids[k] \in next_dex_id..(next_dex_id + c - 1)
      BY <1>6, <3>3
    <3> QED BY <1>6, <1>10, <3>2, <3>3, <3>4
  <2>4. ASSUME NEW i \in 1..m, NEW j \in 1..m, report'[i].dex_id # -1,
               report'[i].dex_id = report'[j].dex_id
        PROVE  i = j
    <3>1. CASE i \in 1..n /\ j \in 1..n
      BY <1>12, <2>2, <2>4, <3>1 DEF IdsExact, n
    <3>2. CASE i \in 1..n /\ j \notin 1..n
      <4>1. PICK l \in 1..Len(Fresh) : j = n + l
        BY <1>5, <3>2
      <4>2. report'[j] = Fresh[l] /\ report[i].dex_id < next_dex_id /\ report'[i] = report[i]
        BY <1>5, <2>2, <3>2, <4>1
      <4>3. Fresh[l].dex_id >= next_dex_id /\ Fresh[l].dex_id \in Int
        BY <2>3, <2>4, <4>2
      <4> QED BY <1>10, <2>4, <4>2, <4>3
    <3>3. CASE i \notin 1..n /\ j \in 1..n
      <4>1. PICK l \in 1..Len(Fresh) : i = n + l
        BY <1>5, <3>3
      <4>2. report'[i] = Fresh[l] /\ report[j].dex_id < next_dex_id /\ report'[j] = report[j]
        BY <1>5, <2>2, <3>3, <4>1
      <4>3. Fresh[l].dex_id >= next_dex_id /\ Fresh[l].dex_id \in Int
        BY <2>3, <2>4, <4>2
      <4> QED BY <1>10, <2>4, <4>2, <4>3
    <3>4. CASE i \notin 1..n /\ j \notin 1..n
      <4>1. PICK k \in 1..Len(Fresh) : i = n + k
        BY <1>5, <3>4
      <4>2. PICK l \in 1..Len(Fresh) : j = n + l
        BY <1>5, <3>4
      <4>3. report'[i] = Fresh[k] /\ report'[j] = Fresh[l]
        BY <1>5, <4>1, <4>2
      <4>4. k \in Given(Ids) /\ l \in Given(Ids) /\ Ids[k] = Ids[l]
        BY <2>3, <2>4, <4>3
      <4>5. k = l
        BY <1>6, <4>4
      <4> QED BY <4>1, <4>2, <4>5
    <3> QED BY <3>1, <3>2, <3>3, <3>4
  <2>5. \A i \in 1..m : report'[i].valid <=> report'[i].dex_id # -1
    BY <1>13 DEF RowsFlagged, m
  <2> QED BY <2>1, <2>4, <2>5 DEF IdsExact, m
<1> QED BY <1>13, <1>14, <1>15, <1>16, <1>17 DEF RowsExact

\* Nothing is reported at the start, and nothing is broken.
LEMMA RowsInit == Init => RowsExact /\ BrokenExact
<1> SUFFICES ASSUME Init PROVE RowsExact /\ BrokenExact
  OBVIOUS
<1>1. report = <<>> /\ Len(report) = 0 /\ next_dex_id = 0 /\ phase = "source" /\ src = 1 /\ ent = 0
  BY DEF Init
<1>2. 1..Len(report) = {} /\ 0..(next_dex_id - 1) = {}
  BY <1>1
<1>3. \A s, e : ImageAt(s, e) => ~Passed(s, e)
  <2> SUFFICES ASSUME NEW s, NEW e, ImageAt(s, e) PROVE ~Passed(s, e)
    OBVIOUS
  <2>1. s \in Nat \ {0} /\ e \in Nat \ {0}
    BY DEF ImageAt
  <2> QED BY <1>1, <2>1 DEF Passed
<1>4. RowsFlagged /\ RowsSound /\ RowsUnique /\ IdsExact
  BY <1>2 DEF RowsFlagged, RowsSound, RowsUnique, IdsExact
<1>5. RowsComplete
  BY <1>3, Zenon DEF RowsComplete
<1>6. BrokenExact
  BY <1>1 DEF BrokenExact
<1> QED BY <1>4, <1>5, <1>6 DEF RowsExact

\* One entry more that can break the sequence.
LEMMA BrokenGrows ==
    ASSUME NEW s, NEW e \in Nat \ {0}
    PROVE  /\ BrokenBefore(s, e + 1) <=> BrokenBefore(s, e) \/ EntryFails(s, e)
           /\ BrokenBefore(s, 1) <=> inputs[s].format = "zip" /\ inputs[s].duplicate
<1>1. \A f : f \in 1..((e + 1) - 1) <=> f \in 1..(e - 1) \/ f = e
  OBVIOUS
<1>2. \A f : f \notin 1..(1 - 1)
  OBVIOUS
<1>3. BrokenBefore(s, e + 1) <=> BrokenBefore(s, e) \/ EntryFails(s, e)
  BY <1>1, Zenon DEF BrokenBefore
<1>4. BrokenBefore(s, 1) <=> inputs[s].format = "zip" /\ inputs[s].duplicate
  BY <1>2, Zenon DEF BrokenBefore
<1> QED BY <1>3, <1>4

\* A step keeps what ArtSequence::broken says.
LEMMA BrokenNext == Typed /\ BrokenExact /\ [Next]_vars => BrokenExact'
<1> SUFFICES ASSUME Typed, BrokenExact, [Next]_vars, phase' = "entry",
                    NEW s, NEW e, s = src', e = ent'
             PROVE  broken' <=> BrokenBefore(s, e)'
  BY DEF BrokenExact
<1>1. CASE BeginSource
  <2>1. /\ s = src /\ e = 1 /\ config' = config
        /\ broken' = (inputs[src].format = "zip" /\ inputs[src].duplicate)
    BY <1>1 DEF BeginSource
  <2>2. BrokenBefore(s, e)' <=> BrokenBefore(s, e)
    BY <2>1, SourcesStay
  <2>3. BrokenBefore(s, 1) <=> inputs[s].format = "zip" /\ inputs[s].duplicate
    <3>1. 1 \in Nat \ {0}
      OBVIOUS
    <3> QED BY <3>1, BrokenGrows
  <2> QED BY <2>1, <2>2, <2>3
<1>2. CASE RejectEntry
  <2>1. /\ s = src /\ e = ent + 1 /\ config' = config /\ broken' = TRUE /\ phase = "entry"
        /\ inputs[src].entries[ent].kind # "image"
    BY <1>2 DEF RejectEntry, Entry
  <2>2. BrokenBefore(s, e)' <=> BrokenBefore(s, e)
    BY <2>1, SourcesStay
  <2>3. ent \in Nat \ {0}
    BY <2>1 DEF Typed
  <2>4. EntryFails(s, ent)
    BY <2>1 DEF EntryFails
  <2> QED BY <2>1, <2>2, <2>3, <2>4, BrokenGrows
<1>3. CASE OneImage
  <2>1. /\ AtImage /\ s = src /\ e = ent + 1 /\ config' = config /\ phase = "entry"
        /\ broken' = (broken \/ BrokenAfter(Here, broken))
    BY <1>3, ImageStep DEF AtImage
  <2>2. BrokenBefore(s, e)' <=> BrokenBefore(s, e)
    BY <2>1, SourcesStay
  <2>3. ent \in Nat \ {0} /\ broken \in BOOLEAN
    BY <2>1 DEF Typed
  <2>4. Here \in Seq(LogicalDex) /\ ImageAt(src, ent)
    BY <2>1, AtImageMeans
  <2>5. broken' <=> (broken \/ ImageFails(Here))
    BY <2>1, <2>3, <2>4, BrokenMeans
  <2>6. EntryFails(src, ent) <=> ImageFails(Here)
    BY <2>4, ReferenceMeans DEF Typed, Here
  <2>7. broken <=> BrokenBefore(src, ent)
    BY <2>1 DEF BrokenExact
  <2>8. BrokenBefore(src, ent + 1) <=> BrokenBefore(src, ent) \/ EntryFails(src, ent)
    BY <2>3, BrokenGrows
  <2> QED BY <2>1, <2>2, <2>5, <2>6, <2>7, <2>8
<1>4. CASE phase = "entry" /\ UNCHANGED <<src, ent, broken, config>>
  <2>1. BrokenBefore(s, e)' <=> BrokenBefore(s, e)
    BY <1>4, SourcesStay
  <2> QED BY <1>4, <2>1 DEF BrokenExact
<1>5. CASE SalvageOutOfMemory \/ EndSource \/ NothingToLoad \/ AddImage \/ PoolFails
           \/ AssertLoadedDexesWereVerified
  BY <1>5 DEF SalvageOutOfMemory, EndSource, NothingToLoad, AddImage, PoolFails,
              AssertLoadedDexesWereVerified
<1>6. ASSUME NEW i \in 1..Len(dex_items), BuildItem(i) PROVE broken' <=> BrokenBefore(s, e)'
  BY <1>6 DEF BuildItem
<1>7. CASE UNCHANGED vars
  BY <1>4, <1>7 DEF vars, walk
<1> QED BY <1>1, <1>2, <1>3, <1>5, <1>6, <1>7 DEF Next

\* A step keeps what the rows say.
LEMMA RowsNext == Typed /\ RowsExact /\ BrokenExact /\ [Next]_vars => RowsExact'
<1> SUFFICES ASSUME Typed, RowsExact, BrokenExact, [Next]_vars PROVE RowsExact'
  OBVIOUS
<1>0. /\ src \in Nat /\ ent \in Nat /\ RejectRow \in RowType /\ Len(inputs) \in Nat
      /\ report \in Seq(RowType)
  BY InputsAssumption DEF Typed, RejectRow, Row, RowType
<1>00. \A s, e : ImageAt(s, e) => s \in Nat \ {0} /\ e \in Nat \ {0} /\ s <= Len(inputs)
                                  /\ e <= Len(inputs[s].entries) /\ s \in 1..Len(inputs)
                                  /\ inputs[s].entries[e].kind = "image"
  BY DEF ImageAt
<1>1. ASSUME UNCHANGED <<config, walk>> PROVE RowsExact'
  <2>1. <<>> \in Seq(RowType) /\ report' = report \o <<>> /\ Len(<<>>) = 0
    BY <1>0, <1>1 DEF walk
  <2>2. \A s, e : Passed(s, e)' <=> Passed(s, e)
    BY <1>1 DEF Passed, walk
  <2>3. \A k \in 1..Len(<<>>) : <<>>[k] = RejectRow
    OBVIOUS
  <2> QED BY <1>1, <2>1, <2>2, <2>3, RowsKeep DEF walk
<1>2. ASSUME config' = config, next_dex_id' = next_dex_id, report' = Append(report, RejectRow),
             \A s, e : ImageAt(s, e) /\ HasImages(s) => (Passed(s, e)' <=> Passed(s, e))
      PROVE  RowsExact'
  <2>1. <<RejectRow>> \in Seq(RowType) /\ \A k \in 1..Len(<<RejectRow>>) : <<RejectRow>>[k] = RejectRow
    BY <1>0
  <2>2. report' = report \o <<RejectRow>>
    BY <1>0, <1>2
  <2> QED BY <1>2, <2>1, <2>2, RowsKeep
<1>3. ASSUME config' = config, next_dex_id' = next_dex_id, report' = report,
             \A s, e : ImageAt(s, e) /\ HasImages(s) => (Passed(s, e)' <=> Passed(s, e))
      PROVE  RowsExact'
  <2>1. <<>> \in Seq(RowType) /\ report' = report \o <<>> /\ Len(<<>>) = 0
    BY <1>0, <1>3
  <2>2. \A k \in 1..Len(<<>>) : <<>>[k] = RejectRow
    OBVIOUS
  <2> QED BY <1>3, <2>1, <2>2, RowsKeep
<1>4. CASE BeginSource
  <2>1. CASE inputs[src].format = "unknown" \/ (inputs[src].format = "zip" /\ inputs[src].entries = <<>>)
    <3>1. /\ report' = Append(report, RejectRow) /\ src' = src + 1 /\ ent' = ent /\ ent = 0
          /\ config' = config /\ next_dex_id' = next_dex_id
      BY <1>4, <2>1, Zenon DEF BeginSource, Typed
    <3>2. ASSUME NEW s, NEW e, ImageAt(s, e), HasImages(s) PROVE Passed(s, e)' <=> Passed(s, e)
      <4>1. s # src
        <5>1. s = src => inputs[s].format # "unknown" /\ inputs[s].entries # <<>>
          <6>1. inputs[s].format # "unknown"
            BY <3>2 DEF HasImages
          <6>2. Len(inputs[s].entries) # 0
            BY <1>00, <3>2, EntryType DEF Typed
          <6>3. inputs[s].entries # <<>>
            BY <6>2
          <6> QED BY <6>1, <6>3
        <5> QED BY <2>1, <5>1
      <4> QED BY <1>0, <1>00, <3>1, <3>2, <4>1 DEF Passed
    <3> QED BY <1>2, <3>1, <3>2
  <2>2. CASE ~(inputs[src].format = "unknown" \/ (inputs[src].format = "zip" /\ inputs[src].entries = <<>>))
    <3>1. /\ report' = report /\ src' = src /\ ent' = 1 /\ ent = 0
          /\ config' = config /\ next_dex_id' = next_dex_id
      BY <1>4, <2>2, Zenon DEF BeginSource, Typed
    <3>2. ASSUME NEW s, NEW e, ImageAt(s, e), HasImages(s) PROVE Passed(s, e)' <=> Passed(s, e)
      BY <1>0, <1>00, <3>1, <3>2 DEF Passed
    <3> QED BY <1>3, <3>1, <3>2
  <2> QED BY <2>1, <2>2
<1>5. CASE RejectEntry
  <2>1. /\ report' = Append(report, RejectRow) /\ src' = src /\ ent' = ent + 1
        /\ config' = config /\ next_dex_id' = next_dex_id
        /\ inputs[src].entries[ent].kind # "image"
    BY <1>5 DEF RejectEntry, Entry
  <2>2. ASSUME NEW s, NEW e, ImageAt(s, e), HasImages(s) PROVE Passed(s, e)' <=> Passed(s, e)
    <3>1. ~(s = src /\ e = ent) /\ s \in Nat /\ e \in Nat
      BY <1>00, <2>1, <2>2
    <3> QED BY <1>0, <2>1, <3>1 DEF Passed
  <2> QED BY <1>2, <2>1, <2>2
<1>6. CASE OneImage
  BY <1>6, RowsOfImage
<1>7. CASE EndSource
  <2>1. /\ report' = report /\ src' = src + 1 /\ ent' = 0 /\ ent > Len(inputs[src].entries)
        /\ config' = config /\ next_dex_id' = next_dex_id /\ src \in 1..Len(inputs)
    BY <1>0, <1>7 DEF EndSource, Typed
  <2>2. Len(inputs[src].entries) \in Nat
    BY <2>1, EntryType DEF Typed
  <2>3. ASSUME NEW s, NEW e, ImageAt(s, e), HasImages(s) PROVE Passed(s, e)' <=> Passed(s, e)
    <3>1. s \in Nat /\ e \in Nat \ {0} /\ (s = src => e < ent)
      BY <1>0, <1>00, <2>1, <2>2, <2>3
    <3> QED BY <1>0, <2>1, <3>1 DEF Passed
  <2> QED BY <1>3, <2>1, <2>3
<1>8. CASE SalvageOutOfMemory \/ NothingToLoad \/ AddImage \/ PoolFails \/ AssertLoadedDexesWereVerified
  BY <1>1, <1>8 DEF SalvageOutOfMemory, NothingToLoad, AddImage, PoolFails,
                    AssertLoadedDexesWereVerified
<1>9. ASSUME NEW i \in 1..Len(dex_items), BuildItem(i) PROVE RowsExact'
  BY <1>1, <1>9 DEF BuildItem
<1>10. CASE UNCHANGED vars
  BY <1>1, <1>10 DEF vars
<1> QED BY <1>4, <1>5, <1>6, <1>7, <1>8, <1>9, <1>10 DEF Next

-----------------------------------------------------------------------------
(* The core. *)

\* The names the dex of slot i declares.
Names(i) == Declares[ItemHeader(dex_items[i]).name]

\* A name leads to a slot that declares it, and to none behind one that was built.
DeclaredExact ==
    phase \in {"build", "ready"} =>
      /\ \A c \in DOMAIN declared : declared[c] \in 0..(Len(dex_items) - 1)
      /\ \A i \in 1..Len(dex_items) : \A c \in DOMAIN declared :
           declared[c] = i - 1 => c \in Names(i)
      /\ \A i \in 1..Len(dex_items) : dex_items[i].state = "built" =>
           \A c \in Names(i) : c \in DOMAIN declared /\ declared[c] <= i - 1

\* The slots are those of the kept images, and an open session has built them all.
SlotsOfImages ==
    phase \in {"build", "ready"} =>
      /\ Len(dex_items) = Len(CoreSplit(images))
      /\ \A i \in 1..Len(dex_items) : /\ dex_items[i].image = CoreSplit(images)[i].image
                                      /\ dex_items[i].off = CoreSplit(images)[i].off
      /\ phase = "ready" => /\ Len(dex_items) = next_dex_id
                            /\ \A i \in 1..Len(dex_items) : dex_items[i].state = "built"

CoreEmptyYet == phase \in {"source", "entry"} => dex_items = <<>> /\ declared = <<>>

CoreExact == DeclaredExact /\ SlotsOfImages /\ CoreEmptyYet

\* The core starts empty.
LEMMA CoreInit == Init => CoreExact
BY DEF Init, CoreExact, DeclaredExact, SlotsOfImages, CoreEmptyYet

\* BuildItem writes the state of one slot and the names its dex declares.
LEMMA BuildStep ==
    ASSUME Typed, NEW i \in 1..Len(dex_items), BuildItem(i)
    PROVE  /\ phase = "build" /\ phase' = phase /\ UNCHANGED <<config, walk>>
           /\ dex_items[i].state = "queued" /\ Len(dex_items') = Len(dex_items)
           /\ \A j \in 1..Len(dex_items) :
                /\ dex_items'[j].image = dex_items[j].image /\ dex_items'[j].off = dex_items[j].off
                /\ j # i => dex_items'[j] = dex_items[j]
                /\ Names(j)' = Names(j)
           /\ \/ dex_items'[i].state = "null" /\ declared' = declared
              \/ /\ dex_items'[i].state = "built"
                 /\ declared' = [c \in DOMAIN declared \cup Names(i) |->
                                    IF c \in Names(i) THEN PutDeclaredClass(i, c) ELSE declared[c]]
<1> DEFINE built == [dex_items[i] EXCEPT !.state = "built"]
           null == [dex_items[i] EXCEPT !.state = "null"]
<1>1. /\ phase = "build" /\ phase' = phase /\ UNCHANGED <<config, walk>>
      /\ dex_items[i].state = "queued" /\ images' = images
  BY DEF BuildItem, walk
<1>2. dex_items \in Seq(ItemType) /\ dex_items[i] \in ItemType
  BY DEF Typed
<1>3. /\ built \in ItemType /\ built.state = "built"
      /\ built.image = dex_items[i].image /\ built.off = dex_items[i].off
      /\ null \in ItemType /\ null.state = "null"
      /\ null.image = dex_items[i].image /\ null.off = dex_items[i].off
  BY <1>2 DEF ItemType
<1>4. \/ dex_items' = [dex_items EXCEPT ![i] = null] /\ declared' = declared
      \/ /\ dex_items' = [dex_items EXCEPT ![i] = built]
         /\ declared' = [c \in DOMAIN declared \cup Names(i) |->
                            IF c \in Names(i) THEN PutDeclaredClass(i, c) ELSE declared[c]]
  <2>1. \/ /\ dex_items' = [dex_items EXCEPT ![i].state = "null"]
           /\ declared' = declared
        \/ /\ dex_items' = [dex_items EXCEPT ![i].state = "built"]
           /\ declared' = [c \in DOMAIN declared \cup Declares[ItemHeader(dex_items[i]).name] |->
                             IF c \in Declares[ItemHeader(dex_items[i]).name]
                             THEN PutDeclaredClass(i, c) ELSE declared[c]]
    BY Zenon DEF BuildItem
  <2>2. /\ [dex_items EXCEPT ![i].state = "null"] = [dex_items EXCEPT ![i] = null]
        /\ [dex_items EXCEPT ![i].state = "built"] = [dex_items EXCEPT ![i] = built]
    OBVIOUS
  <2> QED BY <2>1, <2>2, Zenon DEF Names
<1> HIDE DEF built, null
<1>5. /\ Len(dex_items') = Len(dex_items)
      /\ \A j \in 1..Len(dex_items) :
           /\ dex_items'[j].image = dex_items[j].image /\ dex_items'[j].off = dex_items[j].off
           /\ j # i => dex_items'[j] = dex_items[j]
  BY <1>2, <1>3, <1>4
<1>6. dex_items' = [dex_items EXCEPT ![i] = null] => dex_items'[i].state = "null"
  BY <1>2, <1>3
<1>7. dex_items' = [dex_items EXCEPT ![i] = built] => dex_items'[i].state = "built"
  BY <1>2, <1>3
<1>8. ASSUME NEW j \in 1..Len(dex_items) PROVE Names(j)' = Names(j)
  BY <1>1, <1>5 DEF Names, ItemHeader
<1> QED BY <1>1, <1>4, <1>5, <1>6, <1>7, <1>8

\* A step keeps the core's slots and its class map right.
LEMMA CoreNext == Typed /\ CoreExact /\ [Next]_vars => CoreExact'
<1> SUFFICES ASSUME Typed, CoreExact, [Next]_vars PROVE CoreExact'
  OBVIOUS
<1>0. DeclaredExact /\ SlotsOfImages /\ CoreEmptyYet
  BY DEF CoreExact
<1>1. ASSUME core' = core, phase \in {"source", "entry"}, phase' \notin {"build", "ready"}
      PROVE  CoreExact'
  BY <1>0, <1>1 DEF CoreExact, DeclaredExact, SlotsOfImages, CoreEmptyYet, core
<1>2. ASSUME phase' = "refused" PROVE CoreExact'
  BY <1>2 DEF CoreExact, DeclaredExact, SlotsOfImages, CoreEmptyYet
<1>3. ASSUME core' = core, phase' = phase, walk' = walk PROVE CoreExact'
  <2>1. dex_items' = dex_items /\ declared' = declared /\ images' = images
        /\ next_dex_id' = next_dex_id
    BY <1>3 DEF core, walk
  <2>2. \A i : Names(i)' = Names(i)
    BY <2>1 DEF Names, ItemHeader
  <2>3. CoreSplit(images)' = CoreSplit(images)
    BY <2>1
  <2>4. DeclaredExact'
    BY <1>0, <1>3, <2>1, <2>2 DEF DeclaredExact
  <2>5. SlotsOfImages'
    BY <1>0, <1>3, <2>1, <2>3 DEF SlotsOfImages
  <2>6. CoreEmptyYet'
    BY <1>0, <1>3, <2>1 DEF CoreEmptyYet
  <2> QED BY <2>4, <2>5, <2>6 DEF CoreExact
<1>4. CASE BeginSource \/ RejectEntry \/ OneImage \/ EndSource
  <2>1. core' = core /\ phase \in {"source", "entry"} /\ phase' \in {"source", "entry"}
    BY <1>4 DEF BeginSource, RejectEntry, OneImage, EndSource
  <2> QED BY <1>1, <2>1
<1>5. CASE SalvageOutOfMemory \/ NothingToLoad \/ PoolFails
  BY <1>2, <1>5 DEF SalvageOutOfMemory, NothingToLoad, PoolFails
<1>6. CASE AddImage
  <2>1. /\ phase = "source" /\ phase' = "build" /\ dex_items' = CoreSplit(images)
        /\ images' = images /\ declared' = declared
    BY <1>6 DEF AddImage, walk
  <2>2. declared = <<>>
    BY <1>0, <2>1 DEF CoreEmptyYet
  <2>3. /\ CoreSplit(images) \in Seq(ItemType)
        /\ \A d \in 1..Len(CoreSplit(images)) : CoreSplit(images)[d].state = "queued"
    BY CoreType DEF Typed
  <2>4. DOMAIN declared' = {}
    BY <2>1, <2>2
  <2>5. \A i \in 1..Len(dex_items') : dex_items'[i].state # "built"
    BY <2>1, <2>3
  <2>6. DeclaredExact'
    BY <2>4, <2>5 DEF DeclaredExact
  <2>7. SlotsOfImages'
    BY <2>1 DEF SlotsOfImages
  <2>8. CoreEmptyYet'
    BY <2>1 DEF CoreEmptyYet
  <2> QED BY <2>6, <2>7, <2>8 DEF CoreExact
<1>7. ASSUME NEW i \in 1..Len(dex_items), BuildItem(i) PROVE CoreExact'
  <2> DEFINE n == Len(dex_items)
  <2>1. /\ phase = "build" /\ phase' = "build" /\ images' = images /\ next_dex_id' = next_dex_id
        /\ dex_items[i].state = "queued" /\ Len(dex_items') = n
        /\ \A j \in 1..n :
             /\ dex_items'[j].image = dex_items[j].image /\ dex_items'[j].off = dex_items[j].off
             /\ j # i => dex_items'[j] = dex_items[j]
             /\ Names(j)' = Names(j)
        /\ \/ dex_items'[i].state = "null" /\ declared' = declared
           \/ /\ dex_items'[i].state = "built"
              /\ declared' = [c \in DOMAIN declared \cup Names(i) |->
                                 IF c \in Names(i) THEN PutDeclaredClass(i, c) ELSE declared[c]]
    BY <1>7, BuildStep DEF walk
  <2>2. n \in Nat
    BY DEF Typed
  <2> HIDE DEF n
  <2>3. /\ \A c \in DOMAIN declared : declared[c] \in 0..(n - 1)
        /\ \A j \in 1..n : \A c \in DOMAIN declared : declared[c] = j - 1 => c \in Names(j)
        /\ \A j \in 1..n : dex_items[j].state = "built" =>
             \A c \in Names(j) : c \in DOMAIN declared /\ declared[c] <= j - 1
    BY <1>0, <2>1 DEF DeclaredExact, n
  <2>4. SlotsOfImages'
    <3>1. CoreSplit(images)' = CoreSplit(images)
      BY <2>1
    <3> QED BY <1>0, <2>1, <3>1 DEF SlotsOfImages, n
  <2>5. CoreEmptyYet'
    BY <2>1 DEF CoreEmptyYet
  <2>6. \A c \in DOMAIN declared : declared[c] \in Int
    BY <2>3
  <2>7. /\ \A c \in DOMAIN declared' : declared'[c] \in 0..(n - 1)
        /\ \A j \in 1..n : \A c \in DOMAIN declared' : declared'[c] = j - 1 => c \in Names(j)
    <3>1. CASE declared' = declared
      BY <2>3, <3>1
    <3>2. CASE declared' = [c \in DOMAIN declared \cup Names(i) |->
                               IF c \in Names(i) THEN PutDeclaredClass(i, c) ELSE declared[c]]
      <4> SUFFICES ASSUME NEW c \in DOMAIN declared'
                   PROVE  /\ declared'[c] \in 0..(n - 1)
                          /\ \A j \in 1..n : declared'[c] = j - 1 => c \in Names(j)
        OBVIOUS
      <4>1. /\ c \in DOMAIN declared \/ c \in Names(i)
            /\ declared'[c] = IF c \in Names(i) THEN PutDeclaredClass(i, c) ELSE declared[c]
        BY <3>2
      <4>2. \/ c \in DOMAIN declared /\ declared'[c] = declared[c]
            \/ c \in Names(i) /\ declared'[c] = i - 1
        BY <4>1 DEF PutDeclaredClass
      <4>3. i - 1 \in 0..(n - 1) /\ \A j \in 1..n : i - 1 = j - 1 => j = i
        BY <2>2 DEF n
      <4> QED BY <2>3, <4>2, <4>3
    <3> QED BY <2>1, <3>1, <3>2
  <2>8. ASSUME NEW j \in 1..n, dex_items'[j].state = "built", NEW c \in Names(j)
        PROVE  c \in DOMAIN declared' /\ declared'[c] <= j - 1
    <3>1. CASE declared' = declared /\ dex_items'[i].state = "null"
      <4>1. j # i
        BY <2>8, <3>1
      <4> QED BY <2>1, <2>3, <2>8, <3>1, <4>1
    <3>2. CASE declared' = [c_1 \in DOMAIN declared \cup Names(i) |->
                               IF c_1 \in Names(i) THEN PutDeclaredClass(i, c_1) ELSE declared[c_1]]
      <4>1. c \in Names(i) =>
              /\ c \in DOMAIN declared'
              /\ declared'[c] = IF c \in DOMAIN declared /\ declared[c] < i - 1
                                THEN declared[c] ELSE i - 1
        BY <3>2 DEF PutDeclaredClass
      <4>2. CASE j = i
        <5>1. i - 1 \in Int
          BY <2>2
        <5> QED BY <2>6, <2>8, <4>1, <4>2, <5>1
      <4>3. CASE j # i
        <5>1. c \in DOMAIN declared /\ declared[c] <= j - 1 /\ declared[c] \in Int
          BY <2>1, <2>3, <2>6, <2>8, <4>3
        <5>2. CASE c \in Names(i)
          <6>1. i - 1 \in Int /\ j - 1 \in Int
            BY <2>2
          <6> QED BY <4>1, <5>1, <5>2, <6>1
        <5>3. CASE c \notin Names(i)
          BY <3>2, <5>1, <5>3
        <5> QED BY <5>2, <5>3
      <4> QED BY <4>2, <4>3
    <3> QED BY <2>1, <3>1, <3>2
  <2>9. \A k \in 1..n : Names(k)' = Names(k)
    BY <2>1
  <2>10. DeclaredExact'
    BY <2>1, <2>7, <2>8, <2>9 DEF DeclaredExact, n
  <2> QED BY <2>4, <2>5, <2>10 DEF CoreExact
<1>8. CASE AssertLoadedDexesWereVerified
  <2>1. CASE phase' = "ready"
    <3>1. /\ phase = "build" /\ core' = core /\ walk' = walk
          /\ Len(dex_items) = next_dex_id
          /\ \A i \in DOMAIN dex_items : dex_items[i].state = "built"
      BY <1>8, <2>1 DEF AssertLoadedDexesWereVerified
    <3>2. dex_items' = dex_items /\ declared' = declared /\ images' = images
          /\ next_dex_id' = next_dex_id /\ DOMAIN dex_items = 1..Len(dex_items)
      BY <3>1 DEF core, walk, Typed
    <3>3. \A i : Names(i)' = Names(i)
      BY <3>2 DEF Names, ItemHeader
    <3>4. CoreSplit(images)' = CoreSplit(images)
      BY <3>2
    <3>5. DeclaredExact'
      BY <1>0, <3>1, <3>2, <3>3 DEF DeclaredExact
    <3>6. SlotsOfImages'
      BY <1>0, <3>1, <3>2, <3>4 DEF SlotsOfImages
    <3>7. CoreEmptyYet'
      BY <2>1 DEF CoreEmptyYet
    <3> QED BY <3>5, <3>6, <3>7 DEF CoreExact
  <2>2. phase' = "ready" \/ phase' = "refused"
    BY <1>8 DEF AssertLoadedDexesWereVerified
  <2> QED BY <1>2, <2>1, <2>2
<1>9. CASE UNCHANGED vars
  BY <1>3, <1>9 DEF vars
<1> QED BY <1>4, <1>5, <1>6, <1>7, <1>8, <1>9 DEF Next

-----------------------------------------------------------------------------
(* What is kept of an image. *)

\* Whether a container is whole depends on its dexes and their verdicts.
LEMMA WholeSame ==
    ASSUME NEW a, NEW b, SameDexes(a, b), NEW n, NEW i \in 1..Len(a), ~a[i].self_contained,
           \A j \in Siblings(a, i) : b[j].ok, ContainerWhole(a, n, Siblings(a, i))
    PROVE  ContainerWhole(b, n, Siblings(b, i))
<1> DEFINE M == Siblings(a, i)
           f == CHOOSE k \in M : \A j \in M : k <= j
<1>1. /\ DOMAIN a = 1..Len(a) /\ DOMAIN b = DOMAIN a /\ Len(a) \in Nat
      /\ \A j \in DOMAIN a : /\ a[j].self_contained = b[j].self_contained
                             /\ a[j].container_begin = b[j].container_begin
                             /\ a[j].container_end = b[j].container_end
                             /\ a[j].offset = b[j].offset
  BY DEF SameDexes
<1>2. Siblings(b, i) = M
  BY <1>1 DEF Siblings
<1>3. i \in M /\ M \in SUBSET (1..Len(a))
  BY <1>1 DEF Siblings
<1> HIDE DEF M
<1>4. f \in DOMAIN a
  <2>1. M \in SUBSET Nat /\ M # {}
    BY <1>1, <1>3
  <2>2. f \in M
    BY <2>1, Least
  <2> QED BY <1>1, <1>3, <2>2
<1>5. /\ a[f].container_end <= n
      /\ {j \in DOMAIN a : /\ a[f].container_begin <= a[j].offset
                           /\ a[j].offset < a[f].container_end} = M
  BY DEF ContainerWhole, M
<1> HIDE DEF f
<1>6. b[f].container_begin = a[f].container_begin /\ b[f].container_end = a[f].container_end
  BY <1>1, <1>4
<1>7. {j \in DOMAIN b : /\ b[f].container_begin <= b[j].offset
                        /\ b[j].offset < b[f].container_end} = M
  BY <1>1, <1>5, <1>6
<1>8. \A j \in M : b[j].ok
  BY DEF M
<1>9. ContainerWhole(b, n, M)
  BY <1>5, <1>6, <1>7, <1>8 DEF ContainerWhole, f
<1> QED BY <1>2, <1>9

\* While all accepted slices get ids, those of a container are kept with a whole one.
LEMMA KeptWhole ==
    ASSUME Typed, AtImage, \A i \in 1..Len(Here) : Slices[i].ok => i \in Given(Ids)
    PROVE  \/ \A i \in 1..Len(Kept) : Kept[i].ok
           \/ \A i \in 1..Len(Kept) : Kept[i].ok /\ ~Kept[i].self_contained =>
                 ContainerWhole(Kept, Len(Units), Siblings(Kept, i))
<1> DEFINE art == ArtVerdicts(Here, broken, mode = "runtime")
           n == Len(Kept)
           z == Len(Units)
<1>1. /\ Units \in Seq(Header) /\ Here = ClassifyImageSlices(Units, strict)
      /\ Here \in Seq(LogicalDex) /\ SameDexes(Slices, Here)
  BY AtImageMeans
<1>2. /\ Kept \in Seq(LogicalDex) /\ SameDexes(Kept, Slices) /\ n = Len(Here)
      /\ \A i \in 1..n : Kept[i].ok <=> i \in Given(Ids)
  BY DowngradeMeans
<1>3. SameDexes(Kept, Here)
  BY <1>1, <1>2 DEF SameDexes
<1> SUFFICES ASSUME ~ \A i \in 1..n : Kept[i].ok
             PROVE  \A i \in 1..n : Kept[i].ok /\ ~Kept[i].self_contained =>
                       ContainerWhole(Kept, z, Siblings(Kept, i))
  OBVIOUS
<1>4. \A i \in 1..n : Kept[i].ok <=> Slices[i].ok
  <2>1. \A i \in Given(Ids) : Slices[i].ok
    BY IdsMean
  <2> QED BY <1>2, <2>1
<1>5. /\ art \in Seq(LogicalDex) /\ Len(art) = n /\ SameDexes(art, Here)
  <2> DEFINE runtime == mode = "runtime"
  <2>1. broken \in BOOLEAN /\ runtime \in BOOLEAN
    BY DEF Typed
  <2> HIDE DEF runtime
  <2>2. SameDexes(ArtVerdicts(Here, broken, runtime), Here)
    BY <1>1, <2>1, ArtVerdictsMean
  <2>3. SameDexes(art, Here)
    BY <2>2 DEF runtime
  <2> HIDE DEF art
  <2> QED BY <1>2, <2>3 DEF SameDexes
<1>6. Slices = SiblingRule(art, z)
  BY <1>1 DEF Slices, ClassifySourceImage, Units
<1> HIDE DEF art
<1>7. \A i \in 1..n :
        Slices[i].ok <=>
          /\ art[i].ok
          /\ \/ \A j \in 1..n : art[j].ok
             \/ art[i].self_contained
             \/ ContainerWhole(art, z, Siblings(art, i))
  BY <1>5, <1>6, SiblingRuleMeans
<1>8. ~ \A j \in 1..n : art[j].ok
  BY <1>4, <1>7
<1>9. SameDexes(art, Kept) /\ DOMAIN art = 1..n
  BY <1>3, <1>5 DEF SameDexes
<1>10. ASSUME NEW i \in 1..n, Kept[i].ok, ~Kept[i].self_contained
       PROVE  ContainerWhole(Kept, z, Siblings(Kept, i))
  <2>1. ~art[i].self_contained /\ ContainerWhole(art, z, Siblings(art, i))
    BY <1>4, <1>5, <1>7, <1>8, <1>9, <1>10 DEF SameDexes
  <2>2. ASSUME NEW j \in Siblings(art, i) PROVE Kept[j].ok
    <3>1. j \in 1..n /\ art[j].ok
      BY <1>9, <2>1, <2>2 DEF ContainerWhole, Siblings
    <3>2. Siblings(art, j) = Siblings(art, i)
      BY <2>2 DEF Siblings
    <3>3. Slices[j].ok
      BY <1>7, <2>1, <3>1, <3>2
    <3> QED BY <1>4, <3>1, <3>3
  <2> QED BY <1>5, <1>9, <2>1, <2>2, WholeSame
<1> QED BY <1>10

\* What the core makes of an image at hand, by what it is a part of.
PartFrom(x) ==
    LET sl == SlicesOf(x.src, x.ent)
        end == x.base_offset + Len(x.units)
    IN  /\ ImageAt(x.src, x.ent)
        /\ PartDexes(x) = {} \/ x.base_offset \in PartDexes(x)
        /\ (\E i \in 1..Len(sl) : sl[i].offset = x.base_offset) =>
              PartDexes(x) = DexesIn(sl, x.base_offset, end)
CoversAt(x, p) ==
    /\ p[1] = x.src /\ p[2] = x.ent
    /\ x.base_offset <= p[3] /\ p[3] < x.base_offset + Len(x.units)

\* The images kept of the image at hand.
LEMMA NewParts ==
    ASSUME Typed, AtImage
    PROVE  LET xs == KeptImages(Units, Kept)
           IN  /\ xs \in Seq(ImageType)
               /\ Len(Kept) = Len(Here)
               /\ \A j \in 1..Len(Here) : /\ Kept[j].offset = Here[j].offset
                                          /\ Kept[j].size = Here[j].size
               /\ \A m \in 1..Len(xs) :
                    /\ xs[m].src = src /\ xs[m].ent = ent /\ PartFrom(xs[m])
                    /\ \E j \in 1..Len(Here) : Kept[j].ok /\ Has(xs[m], Kept, j)
                    /\ \A j : CoversAt(xs[m], <<src, ent, Kept[j].offset>>) <=> Has(xs[m], Kept, j)
               /\ (\A i \in 1..Len(Here) : Slices[i].ok => i \in Given(Ids)) =>
                    /\ HeldOnce(xs, Kept)
                    /\ \A m \in 1..Len(xs) : \A j \in 1..Len(Here) :
                         Has(xs[m], Kept, j) => Kept[j].ok
               /\ HeldOnce(xs, Kept) /\ HeldClosed(xs, Kept) => \E cut : KeptBlocks(Kept, xs, cut)
<1> DEFINE xs == KeptImages(Units, Kept)
           n == Len(Here)
<1>1. /\ ImageAt(src, ent) /\ Units \in Seq(Header) /\ Here \in Seq(LogicalDex)
      /\ SlicesOfImage(Units, Slices) /\ SameDexes(Slices, Here)
      /\ src \in Nat /\ ent \in Nat
  BY AtImageMeans DEF Typed
<1>2. /\ Kept \in Seq(LogicalDex) /\ SameDexes(Kept, Slices) /\ Len(Kept) = n
      /\ \A i \in 1..n : Kept[i].ok => InContainer(Units, Kept[i])
  BY DowngradeMeans
<1>3. SlicesOfImage(Units, Kept) /\ SlicesOfImage(Units, Here)
  <2>1. SlicesOfImage(Units, Slices) /\ SameDexes(Slices, Here) /\ SameDexes(Kept, Slices)
    BY <1>1, <1>2
  <2>2. SlicesOfImage(Units, Kept)
    BY <2>1 DEF SameDexes, SlicesOfImage
  <2>3. SlicesOfImage(Units, Here)
    BY <2>1 DEF SameDexes, SlicesOfImage
  <2> QED BY <2>2, <2>3
<1>4. \A j \in 1..n : Kept[j].offset = Here[j].offset /\ Kept[j].size = Here[j].size
  BY <1>1, <1>2 DEF SameDexes
<1> HIDE DEF n
<1>5. /\ xs \in Seq(ImageType)
      /\ \A m \in 1..Len(xs) :
           /\ \E from \in Nat, size \in Nat :
                from + size <= Len(Units) /\ xs[m] = Image(Units, from, size)
           /\ \E j \in 1..n : Kept[j].ok /\ Has(xs[m], Kept, j)
      /\ \/ \A i \in 1..n : Kept[i].ok
         \/ \A i \in 1..n : Kept[i].ok /\ ~Kept[i].self_contained =>
               ContainerWhole(Kept, Len(Units), Siblings(Kept, i))
         => /\ HeldOnce(xs, Kept)
            /\ \A m \in 1..Len(xs) : \A j \in 1..n : Has(xs[m], Kept, j) => Kept[j].ok
      /\ HeldOnce(xs, Kept) /\ HeldClosed(xs, Kept) => \E cut : KeptBlocks(Kept, xs, cut)
  BY <1>1, <1>2, <1>3, KeptParts
<1>6. (\A i \in 1..n : Slices[i].ok => i \in Given(Ids)) =>
        \/ \A i \in 1..n : Kept[i].ok
        \/ \A i \in 1..n : Kept[i].ok /\ ~Kept[i].self_contained =>
              ContainerWhole(Kept, Len(Units), Siblings(Kept, i))
  <2> SUFFICES ASSUME \A i \in 1..n : Slices[i].ok => i \in Given(Ids)
               PROVE  \/ \A i \in 1..n : Kept[i].ok
                      \/ \A i \in 1..n : Kept[i].ok /\ ~Kept[i].self_contained =>
                            ContainerWhole(Kept, Len(Units), Siblings(Kept, i))
    OBVIOUS
  <2>1. \A i \in 1..Len(Here) : Slices[i].ok => i \in Given(Ids)
    BY DEF n
  <2> QED BY <1>2, <2>1, KeptWhole
<1> HIDE DEF xs
<1>7. ASSUME NEW m \in 1..Len(xs)
      PROVE  /\ xs[m].src = src /\ xs[m].ent = ent /\ PartFrom(xs[m])
             /\ \A j : CoversAt(xs[m], <<src, ent, Kept[j].offset>>) <=> Has(xs[m], Kept, j)
  <2> DEFINE x == xs[m]
  <2>1. PICK from \in Nat, size \in Nat :
               from + size <= Len(Units) /\ x = Image(Units, from, size)
    BY <1>5
  <2>2. x.src = src /\ x.ent = ent /\ x.base_offset = from /\ Len(x.units) = size
    BY <1>1, <2>1, PartOfImage
  <2>3. /\ PartDexes(x) = {} \/ from \in PartDexes(x)
        /\ (\E i \in 1..Len(Here) : Here[i].offset = from) =>
             PartDexes(x) = DexesIn(Here, from, from + size)
    <3> DEFINE y == Image(Units, from, size)
    <3>1. src \in Nat /\ ent \in Nat /\ Units \in Seq(Header) /\ SlicesOfImage(Units, Here)
      BY <1>1, <1>3
    <3>2. from + size <= Len(Units) /\ x = y
      BY <2>1
    <3>3. /\ PartDexes(y) = {} \/ from \in PartDexes(y)
          /\ (\E i \in 1..Len(Here) : Here[i].offset = from) =>
               PartDexes(y) = DexesIn(Here, from, from + size)
      BY <3>1, <3>2, PartMeans, SMTT(60)
    <3> HIDE DEF x, y
    <3> QED BY <3>2, <3>3
  <2> HIDE DEF x
  <2>4. PartFrom(x)
    BY <1>1, <2>2, <2>3 DEF PartFrom, Here
  <2>5. \A j : CoversAt(x, <<src, ent, Kept[j].offset>>) <=> Has(x, Kept, j)
    BY <2>2 DEF CoversAt, Has
  <2> QED BY <2>2, <2>4, <2>5 DEF x
<1> QED BY <1>2, <1>4, <1>5, <1>6, <1>7 DEF n, xs

-----------------------------------------------------------------------------
(* The kept images and the accepted dexes. *)

\* Every accepted dex begins in one image, and every image is one of these.
OnceIn(xs, A) ==
    \A p \in A : \E m \in 1..Len(xs) :
        CoversAt(xs[m], p) /\ \A k \in 1..Len(xs) : CoversAt(xs[k], p) => k = m
Among(x, xs) == \E k \in 1..Len(xs) : x = xs[k]

\* The dexes that begin in an image, accepted all of them or as far as they end in it.
PlaceIn(x, i) == <<x.src, x.ent, SlicesOf(x.src, x.ent)[i].offset>>
OnlyAccepted(x, A) ==
    \A i \in 1..Len(SlicesOf(x.src, x.ent)) : CoversAt(x, PlaceIn(x, i)) => PlaceIn(x, i) \in A
ClosedAt(x, A) ==
    LET sl == SlicesOf(x.src, x.ent)
    IN  /\ \E i \in 1..Len(sl) : sl[i].offset = x.base_offset
        /\ \A i \in 1..Len(sl) : CoversAt(x, PlaceIn(x, i)) =>
             (PlaceIn(x, i) \in A <=> sl[i].offset + sl[i].size <= x.base_offset + Len(x.units))

\* Every kept image is part of an image that was passed, kept for an accepted dex.
PartsExact ==
    \A x : Among(x, images) =>
        PartFrom(x) /\ Passed(x.src, x.ent) /\ \E p \in AcceptedPlaces : CoversAt(x, p)
\* Until the ids run out nothing else begins in it, and nothing is kept twice.
RangesExact ==
    next_dex_id < MaxDexes =>
        /\ OnceIn(images, AcceptedPlaces)
        /\ \A x, A : Among(x, images) /\ A = AcceptedPlaces => OnlyAccepted(x, A)
\* Every image is closed.
ClosedImages ==
    /\ OnceIn(images, AcceptedPlaces)
    /\ \A x, A : Among(x, images) /\ A = AcceptedPlaces => ClosedAt(x, A)

\* What is said of an image does not change.
LEMMA PartsStay ==
    ASSUME config' = config
    PROVE  /\ \A x : PartFrom(x)' <=> PartFrom(x)
           /\ \A x, A : OnlyAccepted(x, A)' <=> OnlyAccepted(x, A)
           /\ \A x, A : ClosedAt(x, A)' <=> ClosedAt(x, A)
<1>1. \A s, e : (ImageAt(s, e)' <=> ImageAt(s, e)) /\ SlicesOf(s, e)' = SlicesOf(s, e)
  BY SourcesStay
<1>2. \A x : /\ ImageAt(x.src, x.ent)' <=> ImageAt(x.src, x.ent)
             /\ SlicesOf(x.src, x.ent)' = SlicesOf(x.src, x.ent)
  BY <1>1
<1>3. \A x : PartFrom(x)' <=> PartFrom(x)
  BY <1>2 DEF PartFrom
<1>4. \A x, A : OnlyAccepted(x, A)' <=> OnlyAccepted(x, A)
  BY <1>2 DEF OnlyAccepted, PlaceIn
<1>5. \A x, A : ClosedAt(x, A)' <=> ClosedAt(x, A)
  BY <1>2 DEF ClosedAt, PlaceIn
<1> QED BY <1>3, <1>4, <1>5

\* Images and dexes of one entry say nothing of those of another.
LEMMA Joined ==
    ASSUME NEW X \in Seq(ImageType), NEW Y \in Seq(ImageType), NEW A, NEW B,
           \A x : Among(x, X) => \A p \in B : ~(p[1] = x.src /\ p[2] = x.ent),
           \A y : Among(y, Y) => \A p \in A : ~(p[1] = y.src /\ p[2] = y.ent)
    PROVE  /\ \A x : Among(x, X \o Y) <=> Among(x, X) \/ Among(x, Y)
           /\ OnceIn(X \o Y, A \cup B) <=> OnceIn(X, A) /\ OnceIn(Y, B)
           /\ \A x : Among(x, X) => /\ ClosedAt(x, A \cup B) <=> ClosedAt(x, A)
                                    /\ OnlyAccepted(x, A \cup B) <=> OnlyAccepted(x, A)
           /\ \A y : Among(y, Y) => /\ ClosedAt(y, A \cup B) <=> ClosedAt(y, B)
                                    /\ OnlyAccepted(y, A \cup B) <=> OnlyAccepted(y, B)
<1> DEFINE Z == X \o Y
           n == Len(X)
           m == Len(Y)
<1>1. /\ n \in Nat /\ m \in Nat /\ Len(Z) = n + m
      /\ \A k \in 1..n : Z[k] = X[k]
      /\ \A k \in 1..m : Z[n + k] = Y[k]
  OBVIOUS
<1> HIDE DEF Z, n, m
<1>2. /\ \A k \in 1..n : k \in 1..Len(Z)
      /\ \A k \in 1..m : n + k \in 1..Len(Z)
      /\ \A k \in 1..Len(Z) : k \in 1..n \/ \E j \in 1..m : k = n + j
  <2>1. ASSUME NEW k \in 1..Len(Z), k \notin 1..n PROVE \E j \in 1..m : k = n + j
    <3>1. k - n \in 1..m /\ k = n + (k - n)
      BY <1>1, <2>1
    <3> QED BY <3>1
  <2>2. (\A k \in 1..n : k \in 1..Len(Z)) /\ \A k \in 1..m : n + k \in 1..Len(Z)
    BY <1>1
  <2> QED BY <2>1, <2>2
<1>3. /\ \A k \in 1..n : \A p \in B : ~CoversAt(X[k], p)
      /\ \A k \in 1..m : \A p \in A : ~CoversAt(Y[k], p)
  BY DEF Among, CoversAt, n, m
<1>4. \A x : Among(x, Z) <=> Among(x, X) \/ Among(x, Y)
  <2>1. ASSUME NEW x, Among(x, Z) PROVE Among(x, X) \/ Among(x, Y)
    <3>1. PICK k \in 1..Len(Z) : x = Z[k]
      BY <2>1 DEF Among
    <3>2. CASE k \in 1..n
      <4>1. k \in 1..Len(X) /\ x = X[k]
        BY <1>1, <3>1, <3>2 DEF n
      <4> QED BY <4>1 DEF Among
    <3>3. CASE k \notin 1..n
      <4>1. PICK j \in 1..m : k = n + j
        BY <1>2, <3>1, <3>3
      <4>2. j \in 1..Len(Y) /\ x = Y[j]
        BY <1>1, <3>1, <4>1 DEF m
      <4> QED BY <4>2 DEF Among
    <3> QED BY <3>2, <3>3
  <2>2. ASSUME NEW x, Among(x, X) PROVE Among(x, Z)
    <3>1. PICK k \in 1..n : x = X[k]
      BY <2>2 DEF Among, n
    <3>2. k \in 1..Len(Z) /\ x = Z[k]
      BY <1>1, <1>2, <3>1
    <3> QED BY <3>2 DEF Among
  <2>3. ASSUME NEW x, Among(x, Y) PROVE Among(x, Z)
    <3>1. PICK k \in 1..m : x = Y[k]
      BY <2>3 DEF Among, m
    <3>2. n + k \in 1..Len(Z) /\ x = Z[n + k]
      BY <1>1, <1>2, <3>1
    <3> QED BY <3>2 DEF Among
  <2> QED BY <2>1, <2>2, <2>3
<1>5. ASSUME OnceIn(Z, A \cup B) PROVE OnceIn(X, A) /\ OnceIn(Y, B)
  <2>1. ASSUME NEW p \in A
        PROVE  \E k \in 1..n : CoversAt(X[k], p) /\ \A j \in 1..n : CoversAt(X[j], p) => j = k
    <3>1. PICK k \in 1..Len(Z) : CoversAt(Z[k], p) /\ \A j \in 1..Len(Z) : CoversAt(Z[j], p) => j = k
      BY <1>5 DEF OnceIn
    <3>2. k \in 1..n
      BY <1>1, <1>2, <1>3, <3>1
    <3>3. \A j \in 1..n : CoversAt(X[j], p) => j = k
      BY <1>1, <1>2, <3>1
    <3> QED BY <1>1, <3>1, <3>2, <3>3
  <2>2. ASSUME NEW p \in B
        PROVE  \E k \in 1..m : CoversAt(Y[k], p) /\ \A j \in 1..m : CoversAt(Y[j], p) => j = k
    <3>1. PICK k \in 1..Len(Z) : CoversAt(Z[k], p) /\ \A j \in 1..Len(Z) : CoversAt(Z[j], p) => j = k
      BY <1>5 DEF OnceIn
    <3>2. PICK i \in 1..m : k = n + i
      BY <1>1, <1>2, <1>3, <3>1
    <3>3. ASSUME NEW j \in 1..m, CoversAt(Y[j], p) PROVE j = i
      <4>1. n + j = k
        BY <1>1, <1>2, <3>1, <3>3
      <4> QED BY <1>1, <3>2, <4>1
    <3> QED BY <1>1, <3>1, <3>2, <3>3
  <2> QED BY <2>1, <2>2 DEF OnceIn, n, m
<1>6. ASSUME OnceIn(X, A), OnceIn(Y, B) PROVE OnceIn(Z, A \cup B)
  <2>1. ASSUME NEW p \in A
        PROVE  \E k \in 1..Len(Z) : CoversAt(Z[k], p) /\ \A j \in 1..Len(Z) : CoversAt(Z[j], p) => j = k
    <3>1. PICK k \in 1..n : CoversAt(X[k], p) /\ \A j \in 1..n : CoversAt(X[j], p) => j = k
      BY <1>6 DEF OnceIn, n
    <3>2. ASSUME NEW j \in 1..Len(Z), CoversAt(Z[j], p) PROVE j = k
      <4>1. j \in 1..n
        BY <1>1, <1>2, <1>3, <3>2
      <4> QED BY <1>1, <3>1, <3>2, <4>1
    <3> QED BY <1>1, <1>2, <3>1, <3>2
  <2>2. ASSUME NEW p \in B
        PROVE  \E k \in 1..Len(Z) : CoversAt(Z[k], p) /\ \A j \in 1..Len(Z) : CoversAt(Z[j], p) => j = k
    <3>1. PICK i \in 1..m : CoversAt(Y[i], p) /\ \A j \in 1..m : CoversAt(Y[j], p) => j = i
      BY <1>6 DEF OnceIn, m
    <3>2. ASSUME NEW j \in 1..Len(Z), CoversAt(Z[j], p) PROVE j = n + i
      <4>1. PICK l \in 1..m : j = n + l
        BY <1>1, <1>2, <1>3, <3>2
      <4>2. l = i
        BY <1>1, <3>1, <3>2, <4>1
      <4> QED BY <4>1, <4>2
    <3>3. n + i \in 1..Len(Z) /\ CoversAt(Z[n + i], p)
      BY <1>1, <1>2, <3>1
    <3> QED BY <3>2, <3>3
  <2> QED BY <2>1, <2>2 DEF OnceIn
<1>7. \A x : /\ \A i : PlaceIn(x, i) \in B => PlaceIn(x, i)[1] = x.src /\ PlaceIn(x, i)[2] = x.ent
             /\ \A i : PlaceIn(x, i)[1] = x.src /\ PlaceIn(x, i)[2] = x.ent
  BY DEF PlaceIn
<1>8. ASSUME NEW x, Among(x, X)
      PROVE  /\ ClosedAt(x, A \cup B) <=> ClosedAt(x, A)
             /\ OnlyAccepted(x, A \cup B) <=> OnlyAccepted(x, A)
  <2>1. \A i : PlaceIn(x, i) \in A \cup B <=> PlaceIn(x, i) \in A
    BY <1>7, <1>8
  <2> QED BY <2>1 DEF ClosedAt, OnlyAccepted
<1>9. ASSUME NEW x, Among(x, Y)
      PROVE  /\ ClosedAt(x, A \cup B) <=> ClosedAt(x, B)
             /\ OnlyAccepted(x, A \cup B) <=> OnlyAccepted(x, B)
  <2>1. \A i : PlaceIn(x, i) \in A \cup B <=> PlaceIn(x, i) \in B
    BY <1>7, <1>9
  <2> QED BY <2>1 DEF ClosedAt, OnlyAccepted
<1> QED BY <1>4, <1>5, <1>6, <1>8, <1>9 DEF Z

\* The dexes of the image at hand that get ids.
FreshPlaces == {<<src, ent, Here[j].offset>> : j \in Given(Ids)}

\* The images kept of the image at hand, and the dexes accepted in it.
LEMMA NewImages ==
    ASSUME Typed, AtImage
    PROVE  LET Y == KeptImages(Units, Kept)
           IN  /\ Y \in Seq(ImageType)
               /\ \A y : Among(y, Y) => /\ y.src = src /\ y.ent = ent /\ PartFrom(y)
                                        /\ \E p \in FreshPlaces : CoversAt(y, p)
               /\ (\A i \in 1..Len(Here) : Slices[i].ok => i \in Given(Ids)) =>
                    /\ OnceIn(Y, FreshPlaces)
                    /\ \A y : Among(y, Y) => OnlyAccepted(y, FreshPlaces)
               /\ OnceIn(Y, FreshPlaces) /\ (\A y : Among(y, Y) => ClosedAt(y, FreshPlaces)) =>
                    \E cut : KeptBlocks(Kept, Y, cut)
<1> DEFINE Y == KeptImages(Units, Kept)
           n == Len(Here)
           P(j) == <<src, ent, Kept[j].offset>>
<1>1. /\ Y \in Seq(ImageType) /\ Len(Kept) = n
      /\ \A j \in 1..n : Kept[j].offset = Here[j].offset /\ Kept[j].size = Here[j].size
      /\ \A m \in 1..Len(Y) :
           /\ Y[m].src = src /\ Y[m].ent = ent /\ PartFrom(Y[m])
           /\ \E j \in 1..n : Kept[j].ok /\ Has(Y[m], Kept, j)
           /\ \A j : CoversAt(Y[m], P(j)) <=> Has(Y[m], Kept, j)
      /\ (\A i \in 1..n : Slices[i].ok => i \in Given(Ids)) =>
           /\ HeldOnce(Y, Kept)
           /\ \A m \in 1..Len(Y) : \A j \in 1..n : Has(Y[m], Kept, j) => Kept[j].ok
      /\ HeldOnce(Y, Kept) /\ HeldClosed(Y, Kept) => \E cut : KeptBlocks(Kept, Y, cut)
  BY NewParts
<1>2. \A i \in 1..n : Kept[i].ok <=> i \in Given(Ids)
  BY DowngradeMeans
<1>3. Given(Ids) \in SUBSET (1..n)
  BY IdsMean
<1>4. \A i, j \in 1..n : Here[i].offset = Here[j].offset => i = j
  <2>1. Units \in Seq(Header) /\ Here = ClassifyImageSlices(Units, strict) /\ strict \in BOOLEAN
    BY AtImageMeans DEF Typed
  <2> QED BY <2>1, SlicesApart
<1> HIDE DEF Y, n
<1>5. \A j \in 1..n : P(j) \in FreshPlaces <=> Kept[j].ok
  <2> SUFFICES ASSUME NEW j \in 1..n PROVE P(j) \in FreshPlaces <=> Kept[j].ok
    OBVIOUS
  <2>1. ASSUME P(j) \in FreshPlaces PROVE Kept[j].ok
    <3>1. PICK i \in Given(Ids) : P(j) = <<src, ent, Here[i].offset>>
      BY <2>1 DEF FreshPlaces
    <3>2. i \in 1..n /\ Here[i].offset = Here[j].offset
      BY <1>1, <1>3, <3>1
    <3> QED BY <1>2, <1>4, <3>2
  <2>2. ASSUME Kept[j].ok PROVE P(j) \in FreshPlaces
    <3>1. j \in Given(Ids) /\ P(j) = <<src, ent, Here[j].offset>>
      BY <1>1, <1>2, <2>2
    <3> QED BY <3>1 DEF FreshPlaces
  <2> QED BY <2>1, <2>2
<1>6. \A p \in FreshPlaces : \E j \in 1..n : Kept[j].ok /\ p = P(j)
  BY <1>1, <1>2, <1>3 DEF FreshPlaces
<1>7. \A m \in 1..Len(Y) : \A i \in 1..n : PlaceIn(Y[m], i) = P(i)
  BY <1>1 DEF PlaceIn, Here
<1>8. \A m \in 1..Len(Y) : SlicesOf(Y[m].src, Y[m].ent) = Here
  BY <1>1 DEF Here
<1> HIDE DEF P
<1>9. OnceIn(Y, FreshPlaces) <=> HeldOnce(Y, Kept)
  <2>1. ASSUME OnceIn(Y, FreshPlaces), NEW j \in 1..n, Kept[j].ok
        PROVE  \E m \in 1..Len(Y) :
                 Has(Y[m], Kept, j) /\ \A k \in 1..Len(Y) : Has(Y[k], Kept, j) => k = m
    <3>1. PICK m \in 1..Len(Y) :
             CoversAt(Y[m], P(j)) /\ \A k \in 1..Len(Y) : CoversAt(Y[k], P(j)) => k = m
      BY <1>5, <2>1 DEF OnceIn
    <3> QED BY <1>1, <3>1
  <2>2. ASSUME HeldOnce(Y, Kept), NEW p \in FreshPlaces
        PROVE  \E m \in 1..Len(Y) :
                 CoversAt(Y[m], p) /\ \A k \in 1..Len(Y) : CoversAt(Y[k], p) => k = m
    <3>1. PICK j \in 1..n : Kept[j].ok /\ p = P(j)
      BY <1>6
    <3>2. PICK m \in 1..Len(Y) :
             Has(Y[m], Kept, j) /\ \A k \in 1..Len(Y) : Has(Y[k], Kept, j) => k = m
      BY <1>1, <2>2, <3>1 DEF HeldOnce
    <3> QED BY <1>1, <3>1, <3>2
  <2> QED BY <1>1, <2>1, <2>2 DEF OnceIn, HeldOnce
<1>10. ASSUME \A y : Among(y, Y) => ClosedAt(y, FreshPlaces) PROVE HeldClosed(Y, Kept)
  <2> SUFFICES ASSUME NEW m \in 1..Len(Y)
               PROVE  /\ \E j \in 1..n : Kept[j].offset = Y[m].base_offset
                      /\ \A j \in 1..n : Has(Y[m], Kept, j) =>
                           (Kept[j].ok <=>
                              Kept[j].offset + Kept[j].size <= Y[m].base_offset + Len(Y[m].units))
    BY <1>1 DEF HeldClosed
  <2>1. ClosedAt(Y[m], FreshPlaces)
    BY <1>10 DEF Among
  <2>2. /\ \E i \in 1..n : Here[i].offset = Y[m].base_offset
        /\ \A i \in 1..n : CoversAt(Y[m], PlaceIn(Y[m], i)) =>
             (PlaceIn(Y[m], i) \in FreshPlaces <=>
                Here[i].offset + Here[i].size <= Y[m].base_offset + Len(Y[m].units))
    BY <1>8, <2>1 DEF ClosedAt, n
  <2> QED BY <1>1, <1>5, <1>7, <2>2
<1>11. ASSUME \A i \in 1..n : Slices[i].ok => i \in Given(Ids), NEW y, Among(y, Y)
       PROVE  OnlyAccepted(y, FreshPlaces)
  <2>1. PICK m \in 1..Len(Y) : y = Y[m]
    BY <1>11 DEF Among
  <2>2. ASSUME NEW i \in 1..n, CoversAt(Y[m], PlaceIn(Y[m], i))
        PROVE  PlaceIn(Y[m], i) \in FreshPlaces
    BY <1>1, <1>5, <1>7, <1>11, <2>2
  <2> QED BY <1>8, <2>1, <2>2 DEF OnlyAccepted, n
<1>12. ASSUME NEW y, Among(y, Y)
       PROVE  /\ y.src = src /\ y.ent = ent /\ PartFrom(y)
              /\ \E p \in FreshPlaces : CoversAt(y, p)
  <2>1. PICK m \in 1..Len(Y) : y = Y[m]
    BY <1>12 DEF Among
  <2>2. PICK j \in 1..n : Kept[j].ok /\ Has(Y[m], Kept, j)
    BY <1>1
  <2>3. P(j) \in FreshPlaces /\ CoversAt(Y[m], P(j))
    BY <1>1, <1>5, <2>2
  <2> QED BY <1>1, <2>1, <2>3
<1> QED BY <1>1, <1>9, <1>10, <1>11, <1>12 DEF Y, n

\* An accepted dex is one of an image that was passed.
LEMMA AcceptedMeans ==
    ASSUME Typed, RowsFlagged, RowsSound, NEW p \in AcceptedPlaces
    PROVE  \E s, e : /\ ImageAt(s, e) /\ HasImages(s) /\ Passed(s, e)
                     /\ p[1] = s /\ p[2] = e
                     /\ \E k \in 1..Len(SlicesOf(s, e)) : p = <<s, e, SlicesOf(s, e)[k].offset>>
<1>1. DOMAIN report = 1..Len(report)
  BY DEF Typed
<1>2. PICK i \in 1..Len(report) : report[i].valid /\ p = Place(report[i])
  BY <1>1 DEF AcceptedPlaces, ValidRows
<1> DEFINE s == report[i].src
           e == report[i].ent
<1>3. report[i].off # -1 /\ p = <<s, e, report[i].off>>
  BY <1>2 DEF RowsFlagged, Place
<1>4. /\ ImageAt(s, e) /\ HasImages(s) /\ Passed(s, e)
      /\ \E k \in 1..Len(SlicesOf(s, e)) : report[i].off = SlicesOf(s, e)[k].offset
  BY <1>3 DEF RowsSound
<1> HIDE DEF s, e
<1>5. PICK k \in 1..Len(SlicesOf(s, e)) : report[i].off = SlicesOf(s, e)[k].offset
  BY <1>4
<1>6. p = <<s, e, SlicesOf(s, e)[k].offset>> /\ p[1] = s /\ p[2] = e
  BY <1>3, <1>5
<1> QED BY <1>4, <1>6

\* A row about no dex accepts nothing.
LEMMA AcceptedStay ==
    ASSUME Typed, report' = report \/ report' = Append(report, RejectRow)
    PROVE  AcceptedPlaces' = AcceptedPlaces
<1>1. CASE report' = report
  BY <1>1 DEF AcceptedPlaces, ValidRows, Place
<1>2. CASE report' = Append(report, RejectRow)
  <2>1. report \in Seq(RowType) /\ RejectRow \in RowType /\ ~RejectRow.valid
    <3>1. src \in Nat /\ ent \in Nat
      BY DEF Typed
    <3> QED BY <3>1 DEF Typed, RejectRow, Row, RowType
  <2>2. /\ report' \in Seq(RowType)
        /\ Len(report') = Len(report) + 1 /\ report'[Len(report) + 1] = RejectRow
        /\ \A i \in 1..Len(report) : report'[i] = report[i]
    BY <1>2, <2>1, AppendProperties
  <2>3. /\ Len(report) \in Nat /\ DOMAIN report = 1..Len(report)
        /\ DOMAIN report' = 1..(Len(report) + 1)
        /\ \A i \in 1..(Len(report) + 1) : i \in 1..Len(report) \/ i = Len(report) + 1
        /\ \A i \in 1..Len(report) : i \in 1..(Len(report) + 1)
    BY <2>1, <2>2
  <2>4. ValidRows' = ValidRows
    BY <2>1, <2>2, <2>3 DEF ValidRows
  <2>5. \A i \in ValidRows : Place(report'[i]) = Place(report[i])
    BY <2>2, <2>3 DEF ValidRows
  <2> QED BY <2>4, <2>5 DEF AcceptedPlaces, Place
<1> QED BY <1>1, <1>2

\* One more image adds the dexes that get ids in it.
LEMMA AcceptedAfter ==
    ASSUME Typed, OneImage
    PROVE  AcceptedPlaces' = AcceptedPlaces \cup FreshPlaces
<1> DEFINE n == Len(report)
           N == Len(Here)
<1>1. AtImage /\ report' = report \o Fresh
  BY ImageStep
<1>2. /\ Fresh \in Seq(RowType) /\ N \in Nat /\ N <= Len(Fresh)
      /\ \A k \in 1..Len(Fresh) :
           Fresh[k] = IF k <= N THEN Row(Here[k].offset, Ids[k], Ids[k] # -1,
                                         OpenedByArt(Here, broken, k))
                      ELSE RejectRow
  BY <1>1, RowsMean
<1>3. report \in Seq(RowType)
  BY DEF Typed
<1>4. /\ report' \in Seq(RowType)
      /\ \A j \in 1..n : j \in 1..Len(report') /\ report'[j] = report[j]
      /\ \A k \in 1..Len(Fresh) : n + k \in 1..Len(report') /\ report'[n + k] = Fresh[k]
      /\ \A j \in 1..Len(report') : j \in 1..n \/ \E k \in 1..Len(Fresh) : j = n + k
  BY <1>1, <1>2, <1>3, RowsAdded
<1>5. DOMAIN Ids = 1..N /\ Given(Ids) \in SUBSET (1..N)
  BY <1>1, IdsMean
<1>6. \A k \in 1..N : k \in Given(Ids) <=> Ids[k] # -1
  BY <1>5 DEF Given
<1>7. DOMAIN report = 1..n /\ DOMAIN report' = 1..Len(report')
  BY <1>3, <1>4
<1>8. /\ \A k \in 1..N : k \in 1..Len(Fresh) /\ k <= N
      /\ \A k \in 1..Len(Fresh) : k <= N => k \in 1..N
  BY <1>2
<1>9. ASSUME NEW k \in 1..N
      PROVE  Fresh[k].valid = (Ids[k] # -1) /\ Place(Fresh[k]) = <<src, ent, Here[k].offset>>
  <2>1. Fresh[k] = Row(Here[k].offset, Ids[k], Ids[k] # -1, OpenedByArt(Here, broken, k))
    BY <1>2, <1>8
  <2> QED BY <2>1 DEF Row, Place
<1>10. ASSUME NEW k \in 1..Len(Fresh), Fresh[k].valid PROVE k \in 1..N
  <2>1. ASSUME ~(k <= N) PROVE FALSE
    <3>1. Fresh[k] = RejectRow
      BY <1>2, <2>1
    <3> QED BY <1>10, <3>1 DEF RejectRow, Row
  <2> QED BY <1>8, <2>1
<1> HIDE DEF n, N
<1>11. \A i : i \in ValidRows' <=> i \in 1..Len(report') /\ report'[i].valid
  BY <1>7 DEF ValidRows
<1>12. \A i : i \in ValidRows <=> i \in 1..n /\ report[i].valid
  BY <1>7 DEF ValidRows
<1>13. AcceptedPlaces' = {Place(report'[i]) : i \in ValidRows'}
  BY DEF AcceptedPlaces, Place
<1>14. ASSUME NEW p, p \in AcceptedPlaces' PROVE p \in AcceptedPlaces \cup FreshPlaces
  <2>1. PICK i \in 1..Len(report') : report'[i].valid /\ p = Place(report'[i])
    BY <1>11, <1>13, <1>14
  <2>2. CASE i \in 1..n
    BY <1>4, <1>12, <2>1, <2>2 DEF AcceptedPlaces
  <2>3. CASE i \notin 1..n
    <3>1. PICK k \in 1..Len(Fresh) : i = n + k
      BY <1>4, <2>3
    <3>2. k \in 1..N /\ report'[i] = Fresh[k]
      BY <1>4, <1>10, <2>1, <3>1
    <3>3. k \in Given(Ids) /\ p = <<src, ent, Here[k].offset>>
      BY <1>6, <1>9, <2>1, <3>2
    <3> QED BY <3>3 DEF FreshPlaces
  <2> QED BY <2>2, <2>3
<1>15. ASSUME NEW p \in AcceptedPlaces PROVE p \in AcceptedPlaces'
  <2>1. PICK i \in 1..n : report[i].valid /\ p = Place(report[i])
    BY <1>12 DEF AcceptedPlaces
  <2>2. i \in 1..Len(report') /\ report'[i] = report[i]
    BY <1>4
  <2> QED BY <1>11, <1>13, <2>1, <2>2
<1>16. ASSUME NEW p \in FreshPlaces PROVE p \in AcceptedPlaces'
  <2>1. PICK k \in Given(Ids) : p = <<src, ent, Here[k].offset>>
    BY DEF FreshPlaces
  <2>2. k \in 1..N /\ k \in 1..Len(Fresh) /\ Fresh[k].valid /\ p = Place(Fresh[k])
    BY <1>5, <1>6, <1>8, <1>9, <2>1
  <2>3. n + k \in 1..Len(report') /\ report'[n + k] = Fresh[k]
    BY <1>4, <2>2
  <2> QED BY <1>11, <1>13, <2>2, <2>3
<1> QED BY <1>14, <1>15, <1>16

\* What one more image does to the images: those kept of it are parts of it, and all
\* are closed only if the old ones were and the new ones are.
LEMMA ImagesStep ==
    ASSUME Typed, RowsExact, PartsExact, RangesExact, OneImage
    PROVE  /\ PartsExact' /\ RangesExact'
           /\ ClosedImages' => /\ ClosedImages
                               /\ \E cut : KeptBlocks(Kept, KeptImages(Units, Kept), cut)
<1> DEFINE Y == KeptImages(Units, Kept)
           A == AcceptedPlaces
           B == FreshPlaces
           c == Cardinality(Given(Ids))
<1>1. /\ AtImage /\ next_dex_id' = next_dex_id + c /\ images' = images \o Y
      /\ src' = src /\ ent' = ent + 1 /\ config' = config
  BY ImageStep
<1>2. /\ Y \in Seq(ImageType)
      /\ \A y : Among(y, Y) => /\ y.src = src /\ y.ent = ent /\ PartFrom(y)
                               /\ \E p \in B : CoversAt(y, p)
      /\ (\A i \in 1..Len(Here) : Slices[i].ok => i \in Given(Ids)) =>
           OnceIn(Y, B) /\ \A y : Among(y, Y) => OnlyAccepted(y, B)
      /\ OnceIn(Y, B) /\ (\A y : Among(y, Y) => ClosedAt(y, B)) =>
           \E cut : KeptBlocks(Kept, Y, cut)
  BY <1>1, NewImages
<1>3. AcceptedPlaces' = A \cup B
  BY AcceptedAfter
<1>4. images \in Seq(ImageType) /\ src \in Nat /\ ent \in Nat
  BY DEF Typed
<1>5. /\ ~Passed(src, ent)
      /\ \A s, e : ImageAt(s, e) /\ Passed(s, e) => Passed(s, e)'
      /\ \A s, e : s = src /\ e = ent => Passed(s, e)'
  <2>1. \A s, e : ImageAt(s, e) => s \in Nat /\ e \in Nat
    BY DEF ImageAt
  <2>2. \A s, e : /\ Passed(s, e) <=> s < src \/ (s = src /\ e < ent)
                  /\ Passed(s, e)' <=> s < src \/ (s = src /\ e < ent + 1)
    BY <1>1 DEF Passed
  <2>3. \A e \in Nat : e < ent => e < ent + 1
    BY <1>4
  <2>4. ~(src < src) /\ ~(ent < ent) /\ ent < ent + 1
    BY <1>4
  <2>5. ~Passed(src, ent)
    BY <2>2, <2>4
  <2>6. ASSUME NEW s, NEW e, ImageAt(s, e), Passed(s, e) PROVE Passed(s, e)'
    BY <2>1, <2>2, <2>3, <2>6
  <2>7. \A s, e : s = src /\ e = ent => Passed(s, e)'
    BY <2>2, <2>4
  <2> QED BY <2>5, <2>6, <2>7
<1> HIDE DEF Y
<1>6. \A p \in B : p[1] = src /\ p[2] = ent
  BY DEF FreshPlaces
<1>7. ASSUME NEW x, Among(x, images), NEW p \in B PROVE ~(p[1] = x.src /\ p[2] = x.ent)
  <2>1. Passed(x.src, x.ent)
    BY <1>7 DEF PartsExact
  <2> QED BY <1>5, <1>6, <2>1
<1>8. ASSUME NEW y, Among(y, Y), NEW p \in A PROVE ~(p[1] = y.src /\ p[2] = y.ent)
  <2>1. PICK s, e : Passed(s, e) /\ p[1] = s /\ p[2] = e
    BY AcceptedMeans DEF RowsExact
  <2> QED BY <1>2, <1>5, <1>8, <2>1
<1> HIDE DEF A, B
<1>9. /\ \A x : Among(x, images \o Y) <=> Among(x, images) \/ Among(x, Y)
      /\ OnceIn(images \o Y, A \cup B) <=> OnceIn(images, A) /\ OnceIn(Y, B)
      /\ \A x : Among(x, images) => /\ ClosedAt(x, A \cup B) <=> ClosedAt(x, A)
                                    /\ OnlyAccepted(x, A \cup B) <=> OnlyAccepted(x, A)
      /\ \A y : Among(y, Y) => /\ ClosedAt(y, A \cup B) <=> ClosedAt(y, B)
                               /\ OnlyAccepted(y, A \cup B) <=> OnlyAccepted(y, B)
  BY <1>2, <1>4, <1>7, <1>8, Joined
<1>10. /\ \A x : PartFrom(x)' <=> PartFrom(x)
       /\ \A x, C : OnlyAccepted(x, C)' <=> OnlyAccepted(x, C)
       /\ \A x, C : ClosedAt(x, C)' <=> ClosedAt(x, C)
  BY <1>1, PartsStay
<1>11. \A x : Among(x, images') <=> Among(x, images) \/ Among(x, Y)
  BY <1>1, <1>9
<1>12. PartsExact'
  <2> SUFFICES ASSUME NEW x, Among(x, images')
               PROVE  PartFrom(x)' /\ Passed(x.src, x.ent)' /\ \E p \in AcceptedPlaces' : CoversAt(x, p)
    BY DEF PartsExact
  <2>1. CASE Among(x, images)
    <3>1. PartFrom(x) /\ Passed(x.src, x.ent) /\ \E p \in A : CoversAt(x, p)
      BY <2>1 DEF PartsExact, A
    <3>2. ImageAt(x.src, x.ent)
      BY <3>1 DEF PartFrom
    <3>3. PartFrom(x)'
      BY <1>10, <3>1
    <3>4. Passed(x.src, x.ent)'
      BY <1>5, <3>1, <3>2
    <3> QED BY <1>3, <3>1, <3>3, <3>4
  <2>2. CASE Among(x, Y)
    <3>1. PartFrom(x) /\ x.src = src /\ x.ent = ent /\ \E p \in B : CoversAt(x, p)
      BY <1>2, <2>2 DEF B
    <3>2. PartFrom(x)' /\ Passed(x.src, x.ent)'
      BY <1>5, <1>10, <3>1
    <3> QED BY <1>3, <3>1, <3>2
  <2> QED BY <1>11, <2>1, <2>2
<1>13. ASSUME next_dex_id' < MaxDexes
       PROVE  /\ OnceIn(images', AcceptedPlaces')
              /\ \A x, C : Among(x, images') /\ C = AcceptedPlaces' => OnlyAccepted(x, C)'
  <2>1. /\ c \in Nat /\ Given(Ids) \in SUBSET (1..Len(Here))
        /\ (\E i \in 1..Len(Here) : Slices[i].ok /\ i \notin Given(Ids)) => next_dex_id + c = MaxDexes
    BY <1>1, IdsMean
  <2>2. next_dex_id \in Nat /\ MaxDexes \in Nat
    BY MaxDexesAssumption DEF Typed
  <2>3. next_dex_id < MaxDexes /\ next_dex_id + c # MaxDexes
    <3> HIDE DEF c
    <3> QED BY <1>1, <1>13, <2>1, <2>2
  <2>4. OnceIn(Y, B) /\ \A y : Among(y, Y) => OnlyAccepted(y, B)
    BY <1>2, <2>1, <2>3 DEF B
  <2>5. OnceIn(images, A) /\ \A x : Among(x, images) => OnlyAccepted(x, A)
    BY <2>3 DEF RangesExact, A
  <2>6. OnceIn(images', AcceptedPlaces')
    BY <1>1, <1>3, <1>9, <2>4, <2>5
  <2>7. \A x : Among(x, images') => OnlyAccepted(x, A \cup B)
    BY <1>9, <1>11, <2>4, <2>5
  <2> QED BY <1>3, <1>10, <2>6, <2>7
<1>14. RangesExact'
  BY <1>13 DEF RangesExact
<1>15. ASSUME ClosedImages' PROVE ClosedImages /\ \E cut : KeptBlocks(Kept, Y, cut)
  <2>1. /\ OnceIn(images', AcceptedPlaces')
        /\ \A x, C : Among(x, images') /\ C = AcceptedPlaces' => ClosedAt(x, C)'
    BY <1>15 DEF ClosedImages
  <2>2. OnceIn(images, A) /\ OnceIn(Y, B)
    BY <1>1, <1>3, <1>9, <2>1
  <2>3. \A x : Among(x, images') => ClosedAt(x, A \cup B)
    BY <1>3, <1>10, <2>1
  <2>4. (\A x : Among(x, images) => ClosedAt(x, A)) /\ \A y : Among(y, Y) => ClosedAt(y, B)
    BY <1>9, <1>11, <2>3
  <2>5. ClosedImages
    BY <2>2, <2>4 DEF ClosedImages, A
  <2>6. \E cut : KeptBlocks(Kept, Y, cut)
    BY <1>2, <2>2, <2>4 DEF B
  <2> QED BY <2>5, <2>6
<1> QED BY <1>12, <1>14, <1>15 DEF Y

\* Nothing is kept at the start.
LEMMA PartsInit == Init => PartsExact /\ RangesExact
<1> SUFFICES ASSUME Init PROVE PartsExact /\ RangesExact
  OBVIOUS
<1>1. 1..Len(images) = {} /\ AcceptedPlaces = {}
  BY DEF Init, AcceptedPlaces, ValidRows
<1> QED BY <1>1 DEF PartsExact, RangesExact, Among, OnceIn

\* Whether all images are closed changes only with them and the accepted dexes.
LEMMA ClosedStay ==
    ASSUME config' = config, images' = images, AcceptedPlaces' = AcceptedPlaces
    PROVE  ClosedImages' <=> ClosedImages
<1>1. \A x, A : ClosedAt(x, A)' <=> ClosedAt(x, A)
  BY PartsStay
<1> QED BY <1>1 DEF ClosedImages

\* A step keeps what is said of the kept images.
LEMMA PartsNext ==
    Typed /\ RowsExact /\ PartsExact /\ RangesExact /\ [Next]_vars => PartsExact' /\ RangesExact'
<1> SUFFICES ASSUME Typed, RowsExact, PartsExact, RangesExact, [Next]_vars
             PROVE  PartsExact' /\ RangesExact'
  OBVIOUS
<1>1. ASSUME config' = config, images' = images, next_dex_id' = next_dex_id,
             report' = report \/ report' = Append(report, RejectRow),
             \A s, e : ImageAt(s, e) /\ Passed(s, e) => Passed(s, e)'
      PROVE  PartsExact' /\ RangesExact'
  <2>1. AcceptedPlaces' = AcceptedPlaces
    BY <1>1, AcceptedStay
  <2>2. /\ \A x : PartFrom(x)' <=> PartFrom(x)
        /\ \A x, A : OnlyAccepted(x, A)' <=> OnlyAccepted(x, A)
    BY <1>1, PartsStay
  <2>3. \A x : PartFrom(x) /\ Passed(x.src, x.ent) => Passed(x.src, x.ent)'
    BY <1>1 DEF PartFrom
  <2>4. PartsExact'
    BY <1>1, <2>1, <2>2, <2>3 DEF PartsExact
  <2>5. RangesExact'
    BY <1>1, <2>1, <2>2 DEF RangesExact
  <2> QED BY <2>4, <2>5
<1>2. src \in Nat /\ ent \in Nat /\ \A s, e : ImageAt(s, e) => s \in Nat /\ e \in Nat \ {0}
  BY DEF Typed, ImageAt
<1>3. ASSUME src' = src, ent' = ent, NEW s, NEW e, Passed(s, e) PROVE Passed(s, e)'
  BY <1>3 DEF Passed
<1>4. CASE BeginSource
  <2>1. \A s, e : ImageAt(s, e) /\ Passed(s, e) => Passed(s, e)'
    <3>1. ent = 0 /\ ((src' = src /\ ent' = 1) \/ src' = src + 1)
      BY <1>4 DEF BeginSource, Typed
    <3> QED BY <1>2, <3>1 DEF Passed
  <2>2. /\ config' = config /\ images' = images /\ next_dex_id' = next_dex_id
        /\ report' = report \/ report' = Append(report, RejectRow)
    BY <1>4 DEF BeginSource
  <2> QED BY <1>1, <2>1, <2>2
<1>5. CASE RejectEntry
  <2>1. \A s, e : ImageAt(s, e) /\ Passed(s, e) => Passed(s, e)'
    <3>1. src' = src /\ ent' = ent + 1
      BY <1>5 DEF RejectEntry
    <3> QED BY <1>2, <3>1 DEF Passed
  <2> QED BY <1>1, <1>5, <2>1 DEF RejectEntry
<1>6. CASE OneImage
  BY <1>6, ImagesStep
<1>7. CASE EndSource
  <2>1. \A s, e : ImageAt(s, e) /\ Passed(s, e) => Passed(s, e)'
    <3>1. src' = src + 1
      BY <1>7 DEF EndSource
    <3> QED BY <1>2, <3>1 DEF Passed
  <2> QED BY <1>1, <1>7, <2>1 DEF EndSource
<1>8. CASE SalvageOutOfMemory \/ NothingToLoad \/ AddImage \/ PoolFails \/ AssertLoadedDexesWereVerified
  BY <1>1, <1>3, <1>8 DEF SalvageOutOfMemory, NothingToLoad, AddImage, PoolFails,
                          AssertLoadedDexesWereVerified, walk
<1>9. ASSUME NEW i \in 1..Len(dex_items), BuildItem(i) PROVE PartsExact' /\ RangesExact'
  BY <1>1, <1>3, <1>9 DEF BuildItem, walk
<1>10. CASE UNCHANGED vars
  BY <1>1, <1>3, <1>10 DEF vars, walk
<1> QED BY <1>4, <1>5, <1>6, <1>7, <1>8, <1>9, <1>10 DEF Next

-----------------------------------------------------------------------------
(* The core and the report. *)

\* Closed images split into as many dexes as have ids, and the one of each id is made
\* from where its row says.
OriginsExact ==
    ClosedImages =>
        /\ Len(CoreSplit(images)) = next_dex_id
        /\ \A i \in 1..Len(report) : report[i].valid =>
             Origin(images, CoreSplit(images)[report[i].dex_id + 1]) = Place(report[i])

\* Nothing is kept at the start.
LEMMA OriginsInit == Init => OriginsExact
<1> SUFFICES ASSUME Init PROVE OriginsExact
  OBVIOUS
<1>1. images = <<>> /\ next_dex_id = 0 /\ report = <<>>
  BY DEF Init
<1>2. Len(CoreSplit(images)) = 0 /\ 1..Len(report) = {}
  BY <1>1, CoreEmpty
<1> QED BY <1>1, <1>2 DEF OriginsExact

\* The images kept of one more image split into the dexes that got ids in it.
LEMMA OriginsOfImage ==
    ASSUME Typed, RowsExact, PartsExact, RangesExact, OriginsExact, OneImage
    PROVE  OriginsExact'
<1> SUFFICES ASSUME ClosedImages'
             PROVE  /\ Len(CoreSplit(images')) = next_dex_id'
                    /\ \A i \in 1..Len(report') : report'[i].valid =>
                         Origin(images', CoreSplit(images')[report'[i].dex_id + 1]) = Place(report'[i])
  BY DEF OriginsExact, Place
<1>0. ClosedImages
  BY ImagesStep
<1> DEFINE more == KeptImages(Units, Kept)
           G == Given(Ids)
           old == CoreSplit(images)
           new == CoreSplit(images \o more)
           N == Len(Here)
           n == Len(report)
<1>1. /\ AtImage /\ report' = report \o Fresh /\ next_dex_id' = next_dex_id + Cardinality(G)
      /\ images' = images \o more
  BY ImageStep
<1>2. /\ Kept \in Seq(LogicalDex) /\ SameDexes(Kept, Slices) /\ Len(Kept) = N
      /\ \A i \in 1..N : /\ Kept[i].ok <=> i \in G
                         /\ Kept[i].ok => InContainer(Units, Kept[i])
      /\ more \in Seq(ImageType)
  BY <1>1, DowngradeMeans
<1>3. /\ Units \in Seq(Header) /\ SlicesOfImage(Units, Slices) /\ SameDexes(Slices, Here)
      /\ src \in Nat /\ ent \in Nat /\ images \in Seq(ImageType) /\ report \in Seq(RowType)
  BY <1>1, AtImageMeans DEF Typed
<1>5. \A i \in 1..N : Kept[i].offset = Here[i].offset
  BY <1>2, <1>3 DEF SameDexes
<1>6. /\ G \in SUBSET (1..N)
      /\ \A i \in G : Ids[i] = next_dex_id + Before(G, i)
      /\ \A i \in 1..N : Ids[i] # -1 => i \in G
  <2>1. G \in SUBSET (1..N) /\ DOMAIN Ids = 1..N /\ \A i \in G : Ids[i] = next_dex_id + Before(G, i)
    BY <1>1, IdsMean
  <2> QED BY <2>1 DEF Given
<1>7. PICK cut : KeptBlocks(Kept, more, cut)
  BY ImagesStep
<1>8. {i \in 1..Len(Kept) : Kept[i].ok} = G
  BY <1>2, <1>6
<1> HIDE DEF more, G
<1>9. /\ Len(new) = Len(old) + Cardinality(G)
      /\ \A d \in 1..Len(old) : Origin(images \o more, new[d]) = Origin(images, old[d])
      /\ \A i \in G : Origin(images \o more, new[Len(old) + Before(G, i) + 1])
                        = <<src, ent, Kept[i].offset>>
  <2>1. LET K == {i \in 1..Len(Kept) : Kept[i].ok}
        IN  /\ Len(new) = Len(old) + Cardinality(K)
            /\ \A d \in 1..Len(old) : Origin(images \o more, new[d]) = Origin(images, old[d])
            /\ \A i \in K : Origin(images \o more, new[Len(old) + Before(K, i) + 1])
                              = <<src, ent, Kept[i].offset>>
    BY <1>2, <1>3, <1>7, CoreOfKept
  <2> QED BY <1>8, <2>1
<1> HIDE DEF old, new, N, n
<1>10. Len(old) = next_dex_id
       /\ \A i \in 1..n : report[i].valid => Origin(images, old[report[i].dex_id + 1]) = Place(report[i])
  BY <1>0 DEF OriginsExact, old, n
<1>11. CoreSplit(images') = new
  BY <1>1 DEF new
<1>12. Len(CoreSplit(images')) = next_dex_id'
  BY <1>1, <1>9, <1>10, <1>11
<1>13. ASSUME NEW i \in 1..Len(report'), report'[i].valid
       PROVE  Origin(images', new[report'[i].dex_id + 1]) = Place(report'[i])
  <2>1. /\ n \in Nat /\ Fresh \in Seq(RowType) /\ N \in Nat /\ N <= Len(Fresh)
        /\ \A k \in 1..Len(Fresh) :
             Fresh[k] = IF k <= N THEN Row(Here[k].offset, Ids[k], Ids[k] # -1,
                                           OpenedByArt(Here, broken, k))
                        ELSE RejectRow
    BY <1>1, <1>3, RowsMean DEF N, n
  <2>2. /\ \A j \in 1..n : report'[j] = report[j]
        /\ \A k \in 1..Len(Fresh) : report'[n + k] = Fresh[k]
        /\ \A j \in 1..Len(report') : j \in 1..n \/ \E k \in 1..Len(Fresh) : j = n + k
    BY <1>1, <1>3, <2>1, RowsAdded DEF n
  <2>3. CASE i \in 1..n
    <3>1. report'[i] = report[i] /\ report[i].valid
      BY <1>13, <2>2, <2>3
    <3> DEFINE d == report[i].dex_id
    <3>2. d \in -1..(next_dex_id - 1) /\ d # -1 /\ next_dex_id \in Nat
      <4>1. next_dex_id \in Nat
        BY MaxDexesAssumption DEF Typed
      <4>2. report[i].dex_id \in -1..(next_dex_id - 1) /\ (report[i].valid <=> report[i].dex_id # -1)
        BY <2>3 DEF RowsExact, RowsFlagged, n
      <4> QED BY <3>1, <4>1, <4>2
    <3>3. d + 1 \in 1..Len(old)
      <4> HIDE DEF d
      <4> QED BY <1>10, <3>2
    <3>4. Origin(images \o more, new[d + 1]) = Origin(images, old[d + 1])
      BY <1>9, <3>3
    <3> QED BY <1>1, <1>10, <2>3, <3>1, <3>4
  <2>4. CASE i \notin 1..n
    <3>1. PICK k \in 1..Len(Fresh) : i = n + k
      BY <2>2, <2>4
    <3>2. report'[i] = Fresh[k]
      BY <2>2, <3>1
    <3>3. k <= N
      <4> SUFFICES ASSUME ~(k <= N) PROVE FALSE
        OBVIOUS
      <4>1. Fresh[k] = RejectRow
        BY <2>1
      <4> QED BY <1>13, <3>2, <4>1 DEF RejectRow, Row
    <3>4. k \in 1..N
      BY <2>1, <3>3
    <3>5. Fresh[k] = Row(Here[k].offset, Ids[k], Ids[k] # -1, OpenedByArt(Here, broken, k))
      BY <2>1, <3>3
    <3>6. Ids[k] # -1 /\ report'[i].dex_id = Ids[k] /\ Place(report'[i]) = <<src, ent, Here[k].offset>>
      <4>1. /\ report'[i].src = src /\ report'[i].ent = ent /\ report'[i].off = Here[k].offset
            /\ report'[i].dex_id = Ids[k] /\ report'[i].valid = (Ids[k] # -1)
        BY <3>2, <3>5 DEF Row
      <4> QED BY <1>13, <4>1 DEF Place
    <3>7. k \in G /\ Ids[k] = next_dex_id + Before(G, k) /\ Kept[k].offset = Here[k].offset
      BY <1>5, <1>6, <3>4, <3>6
    <3>8. Origin(images \o more, new[next_dex_id + Before(G, k) + 1]) = <<src, ent, Here[k].offset>>
      BY <1>9, <1>10, <3>7
    <3> QED BY <1>1, <3>6, <3>7, <3>8
  <2> QED BY <2>3, <2>4
<1> QED BY <1>11, <1>12, <1>13

\* A step keeps the core's dexes where their rows say they are from.
LEMMA OriginsNext ==
    Typed /\ RowsExact /\ PartsExact /\ RangesExact /\ OriginsExact /\ [Next]_vars => OriginsExact'
<1> SUFFICES ASSUME Typed, RowsExact, PartsExact, RangesExact, OriginsExact, [Next]_vars
             PROVE  OriginsExact'
  OBVIOUS
<1>1. ASSUME config' = config, images' = images, next_dex_id' = next_dex_id, report' = report
      PROVE  OriginsExact'
  <2>1. ClosedImages' <=> ClosedImages
    BY <1>1, AcceptedStay, ClosedStay
  <2> QED BY <1>1, <2>1 DEF OriginsExact, Place
<1>2. ASSUME config' = config, images' = images, next_dex_id' = next_dex_id,
             report' = Append(report, RejectRow)
      PROVE  OriginsExact'
  <2>1. report \in Seq(RowType) /\ RejectRow \in RowType /\ ~RejectRow.valid
    <3>1. src \in Nat /\ ent \in Nat
      BY DEF Typed
    <3> QED BY <3>1 DEF Typed, RejectRow, Row, RowType
  <2>2. \A i \in 1..Len(report') : report'[i].valid => i \in 1..Len(report) /\ report'[i] = report[i]
    <3>1. /\ Len(report') = Len(report) + 1 /\ report'[Len(report) + 1] = RejectRow
          /\ \A i \in 1..Len(report) : report'[i] = report[i]
      BY <1>2, <2>1, AppendProperties
    <3>2. Len(report) \in Nat
      BY <2>1
    <3>3. \A i \in 1..(Len(report) + 1) : i \in 1..Len(report) \/ i = Len(report) + 1
      BY <3>2
    <3> QED BY <2>1, <3>1, <3>3
  <2>3. ClosedImages' <=> ClosedImages
    BY <1>2, AcceptedStay, ClosedStay
  <2> QED BY <1>2, <2>2, <2>3 DEF OriginsExact, Place
<1>3. CASE BeginSource
  BY <1>1, <1>2, <1>3, Zenon DEF BeginSource
<1>4. CASE RejectEntry
  BY <1>2, <1>4 DEF RejectEntry
<1>5. CASE OneImage
  BY <1>5, OriginsOfImage
<1>6. CASE EndSource
  BY <1>1, <1>6 DEF EndSource
<1>7. CASE SalvageOutOfMemory \/ NothingToLoad \/ AddImage \/ PoolFails \/ AssertLoadedDexesWereVerified
  BY <1>1, <1>7 DEF SalvageOutOfMemory, NothingToLoad, AddImage, PoolFails,
                    AssertLoadedDexesWereVerified, walk
<1>8. ASSUME NEW i \in 1..Len(dex_items), BuildItem(i) PROVE OriginsExact'
  BY <1>1, <1>8 DEF BuildItem, walk
<1>9. CASE UNCHANGED vars
  BY <1>1, <1>9 DEF vars, walk
<1> QED BY <1>3, <1>4, <1>5, <1>6, <1>7, <1>8, <1>9 DEF Next

-----------------------------------------------------------------------------
(* The invariant. *)

\* The core is filled once every source has been read.
AllRead == phase \in {"build", "ready"} => src > Len(inputs)

LoadInv ==
    /\ Typed /\ RowsExact /\ BrokenExact /\ CoreExact
    /\ PartsExact /\ RangesExact /\ OriginsExact /\ AllRead

\* A step keeps what is said of the sources once they have been read.
LEMMA AllReadNext == AllRead /\ [Next]_vars => AllRead'
<1> SUFFICES ASSUME AllRead, [Next]_vars PROVE AllRead'
  OBVIOUS
<1>1. CASE BeginSource
  BY <1>1 DEF BeginSource, AllRead
<1>2. CASE RejectEntry
  BY <1>2 DEF RejectEntry, AllRead
<1>3. CASE OneImage
  BY <1>3 DEF OneImage, AllRead
<1>4. CASE SalvageOutOfMemory
  BY <1>4 DEF SalvageOutOfMemory, AllRead
<1>5. CASE EndSource
  BY <1>5 DEF EndSource, AllRead
<1>6. CASE NothingToLoad
  BY <1>6 DEF NothingToLoad, AllRead
<1>7. CASE AddImage
  BY <1>7 DEF AddImage, AllRead, config, walk
<1>8. ASSUME NEW i \in 1..Len(dex_items), BuildItem(i) PROVE AllRead'
  BY <1>8 DEF BuildItem, AllRead, config, walk
<1>9. CASE PoolFails
  BY <1>9 DEF PoolFails, AllRead
<1>10. CASE AssertLoadedDexesWereVerified
  BY <1>10 DEF AssertLoadedDexesWereVerified, AllRead, config, walk
<1>11. CASE UNCHANGED vars
  BY <1>11 DEF vars, AllRead, config, walk
<1> QED BY <1>1, <1>2, <1>3, <1>4, <1>5, <1>6, <1>7, <1>8, <1>9, <1>10, <1>11 DEF Next

\* Every state of a session has the invariant.
LEMMA LoadKeepsInv == Spec => []LoadInv
<1>1. Init => LoadInv
  <2>1. Init => AllRead
    BY DEF Init, AllRead
  <2> QED BY <2>1, TypedInit, RowsInit, CoreInit, PartsInit, OriginsInit DEF LoadInv
<1>2. LoadInv /\ [Next]_vars => LoadInv'
  BY TypedNext, RowsNext, BrokenNext, CoreNext, PartsNext, OriginsNext, AllReadNext DEF LoadInv
<1> QED BY <1>1, <1>2, PTL DEF Spec

-----------------------------------------------------------------------------
(* What follows for an open session. *)

\* The valid rows are as many as the ids that were given.
LEMMA ValidCounted ==
    ASSUME Typed, RowsFlagged, IdsExact
    PROVE  /\ Cardinality(ValidRows) = next_dex_id
           /\ \A i : i \in ValidRows <=> i \in 1..Len(report) /\ report[i].valid
<1> DEFINE S == ValidRows
           N == next_dex_id
           T == 0..(N - 1)
           f == [i \in S |-> report[i].dex_id]
<1>1. \A i : i \in S <=> i \in 1..Len(report) /\ report[i].valid
  <2>1. DOMAIN report = 1..Len(report)
    BY DEF Typed
  <2> QED BY <2>1 DEF ValidRows
<1>2. N \in Nat
  BY MaxDexesAssumption DEF Typed
<1>3. \A i \in 1..Len(report) : /\ report[i].dex_id \in -1..(N - 1)
                                /\ report[i].valid <=> report[i].dex_id # -1
  BY DEF RowsFlagged
<1>4. /\ \A d \in T : \E i \in 1..Len(report) : report[i].dex_id = d
      /\ \A i, j \in 1..Len(report) : report[i].valid /\ report[i].dex_id = report[j].dex_id => i = j
  BY DEF IdsExact
<1> HIDE DEF S, N
<1>5. \A i \in S : report[i].dex_id \in T
  BY <1>1, <1>2, <1>3
<1>6. f \in [S -> T]
  BY <1>5
<1>7. \A i, j \in S : f[i] = f[j] => i = j
  BY <1>1, <1>4
<1>8. \A d \in T : \E i \in S : f[i] = d
  <2> SUFFICES ASSUME NEW d \in T PROVE \E i \in S : f[i] = d
    OBVIOUS
  <2>1. PICK i \in 1..Len(report) : report[i].dex_id = d
    BY <1>4
  <2>2. d # -1
    BY <1>2
  <2>3. i \in S
    BY <1>1, <1>3, <2>1, <2>2
  <2> QED BY <2>1, <2>3
<1> HIDE DEF f
<1>9. f \in Injection(S, T) /\ f \in Surjection(S, T)
  BY <1>6, <1>7, <1>8 DEF Injection, Surjection, IsInjective
<1>10. IsFiniteSet(T) /\ Cardinality(T) = N
  <2>1. /\ IsFiniteSet(0..(N - 1))
        /\ Cardinality(0..(N - 1)) = IF 0 > N - 1 THEN 0 ELSE N - 1 - 0 + 1
    BY <1>2, FS_Interval
  <2> QED BY <1>2, <2>1
<1> HIDE DEF T
<1>11. Cardinality(S) = Cardinality(T)
  BY <1>9, <1>10, FS_Injection
<1> QED BY <1>1, <1>10, <1>11 DEF S, N

\* The accepted dexes are those of the valid rows.
LEMMA AcceptedRows ==
    ASSUME Typed
    PROVE  \A p : p \in AcceptedPlaces <=>
                    \E i \in 1..Len(report) : report[i].valid /\ p = Place(report[i])
<1>1. DOMAIN report = 1..Len(report)
  BY DEF Typed
<1> QED BY <1>1 DEF AcceptedPlaces, ValidRows

\* The images, as the properties speak of them.
LEMMA ImagesMean ==
    ASSUME LoadInv
    PROVE  /\ DOMAIN images = 1..Len(images)
           /\ \A k \in 1..Len(images) : \A p : Covers(k, p) <=> CoversAt(images[k], p)
           /\ \A k \in 1..Len(images) : Closed(k) <=> ClosedAt(images[k], AcceptedPlaces)
           /\ CoveredOnce <=> OnceIn(images, AcceptedPlaces)
           /\ AllClosed <=> ClosedImages
           /\ next_dex_id < MaxDexes => RangesAccepted /\ CoveredOnce
<1>1. DOMAIN images = 1..Len(images) /\ PartsExact /\ RangesExact /\ Typed
  BY DEF LoadInv, Typed
<1>2. \A k \in 1..Len(images) : \A p : Covers(k, p) <=> CoversAt(images[k], p)
  BY DEF Covers, CoversAt, ImageEnd
<1>3. ASSUME NEW k \in 1..Len(images)
      PROVE  LET sl == SlicesOf(images[k].src, images[k].ent)
             IN  DOMAIN sl = 1..Len(sl)
  <2> DEFINE s == images[k].src
             e == images[k].ent
  <2>1. ImageAt(s, e)
    BY <1>1 DEF PartsExact, PartFrom, Among
  <2> HIDE DEF s, e
  <2>2. /\ SlicesOf(s, e) = ClassifyImageSlices(inputs[s].entries[e].units, strict)
        /\ inputs[s].entries[e].units \in Seq(Header)
    BY <1>1, <2>1, ReferenceMeans DEF Typed
  <2>3. DOMAIN SlicesOf(s, e) = 1..Len(SlicesOf(s, e))
    BY <1>1, <2>2, SlicesApart DEF Typed
  <2> QED BY <2>3 DEF s, e
<1>4. ASSUME NEW k \in 1..Len(images) PROVE Closed(k) <=> ClosedAt(images[k], AcceptedPlaces)
  BY <1>2, <1>3 DEF Closed, ClosedAt, PlaceIn, ImageEnd
<1>5. CoveredOnce <=> OnceIn(images, AcceptedPlaces)
  BY <1>1, <1>2 DEF CoveredOnce, OnceIn
<1>6. AllClosed <=> ClosedImages
  BY <1>1, <1>4, <1>5 DEF AllClosed, ClosedImages, Among
<1>7. ASSUME next_dex_id < MaxDexes PROVE RangesAccepted /\ CoveredOnce
  <2>1. OnceIn(images, AcceptedPlaces)
    BY <1>1, <1>7 DEF RangesExact
  <2>2. \A k \in 1..Len(images) : OnlyAccepted(images[k], AcceptedPlaces)
    BY <1>1, <1>7 DEF RangesExact, Among
  <2>3. RangesAccepted
    BY <1>1, <1>2, <1>3, <2>2 DEF RangesAccepted, OnlyAccepted, PlaceIn
  <2> QED BY <1>5, <2>1, <2>3
<1> QED BY <1>1, <1>2, <1>4, <1>5, <1>6, <1>7

\* The core finds the accepted dexes in an image exactly if it is closed.
LEMMA SplitMeans ==
    ASSUME LoadInv, NEW k \in 1..Len(images)
    PROVE  SplitExact(k) <=> Closed(k)
<1> DEFINE x == images[k]
           s == x.src
           e == x.ent
           sl == SlicesOf(s, e)
           n == Len(sl)
           A == AcceptedPlaces
           from == x.base_offset
           end == x.base_offset + Len(x.units)
           P(q) == <<s, e, q>>
<1>1. /\ Typed /\ RowsFlagged /\ RowsSound
      /\ PartFrom(x) /\ \E p \in A : CoversAt(x, p)
  BY DEF LoadInv, RowsExact, PartsExact, Among
<1>2. x \in ImageType
  BY <1>1 DEF Typed
<1>3. from \in Nat /\ Len(x.units) \in Nat /\ end \in Nat
  BY <1>2 DEF ImageType
<1>4. /\ ImageAt(s, e)
      /\ PartDexes(x) = {} \/ from \in PartDexes(x)
      /\ (\E i \in 1..n : sl[i].offset = from) => PartDexes(x) = DexesIn(sl, from, end)
  BY <1>1 DEF PartFrom
<1>5. /\ n \in Nat
      /\ \A i \in 1..n : sl[i].offset \in Nat /\ sl[i].size \in Nat \ {0}
      /\ \A i, j \in 1..n : sl[i].offset = sl[j].offset => i = j
  <2> DEFINE img == inputs[s].entries[e].units
  <2>1. sl = ClassifyImageSlices(img, strict) /\ img \in Seq(Header) /\ strict \in BOOLEAN
    BY <1>1, <1>4, ReferenceMeans DEF Typed
  <2> HIDE DEF img
  <2>2. SlicesOfImage(img, sl)
    BY <2>1, JudgedSlices
  <2> HIDE DEF sl
  <2> QED BY <2>1, <2>2, SliceWalk
<1>6. \A p : p \in SplitOf(k) <=> \E q \in PartDexes(x) : p = P(q)
  BY DEF SplitOf, PartDexes
<1>7. \A p : Covers(k, p) <=> CoversAt(x, p)
  BY ImagesMean
<1>8. Closed(k) <=> ClosedAt(x, A)
  BY ImagesMean
<1>9. \A q : CoversAt(x, P(q)) <=> from <= q /\ q < end
  BY DEF CoversAt
<1>10. ASSUME NEW p \in A, CoversAt(x, p) PROVE \E i \in 1..n : p = P(sl[i].offset)
  <2>1. PICK t, u : /\ p[1] = t /\ p[2] = u
                    /\ \E i \in 1..Len(SlicesOf(t, u)) : p = <<t, u, SlicesOf(t, u)[i].offset>>
    BY <1>1, AcceptedMeans
  <2>2. t = s /\ u = e
    BY <1>10, <2>1 DEF CoversAt
  <2> QED BY <2>1, <2>2
<1>11. ClosedAt(x, A) <=>
         /\ \E i \in 1..n : sl[i].offset = from
         /\ \A i \in 1..n : CoversAt(x, P(sl[i].offset)) =>
              (P(sl[i].offset) \in A <=> sl[i].offset + sl[i].size <= end)
  BY DEF ClosedAt, PlaceIn
<1>12. \A q : q \in DexesIn(sl, from, end) <=>
          \E j \in 1..n : q = sl[j].offset /\ from <= sl[j].offset /\ sl[j].offset + sl[j].size <= end
  BY DEF DexesIn
<1>13. SplitExact(k) <=> \A p : p \in SplitOf(k) <=> p \in A /\ CoversAt(x, p)
  BY <1>7 DEF SplitExact
<1>14. \A q, r : P(q) = P(r) => q = r
  OBVIOUS
<1> HIDE DEF x, s, e, sl, n, A, from, end, P
<1>15. ASSUME ClosedAt(x, A), NEW p PROVE p \in SplitOf(k) <=> p \in A /\ CoversAt(x, p)
  <2>1. PartDexes(x) = DexesIn(sl, from, end)
    BY <1>4, <1>11, <1>15
  <2>2. ASSUME p \in SplitOf(k) PROVE p \in A /\ CoversAt(x, p)
    <3>1. PICK j \in 1..n : /\ p = P(sl[j].offset)
                            /\ from <= sl[j].offset /\ sl[j].offset + sl[j].size <= end
      BY <1>6, <1>12, <2>1, <2>2
    <3>2. sl[j].offset < end
      BY <1>3, <1>5, <3>1
    <3>3. CoversAt(x, p)
      BY <1>9, <3>1, <3>2
    <3> QED BY <1>11, <1>15, <3>1, <3>3
  <2>3. ASSUME p \in A, CoversAt(x, p) PROVE p \in SplitOf(k)
    <3>1. PICK i \in 1..n : p = P(sl[i].offset)
      BY <1>10, <2>3
    <3>2. from <= sl[i].offset /\ sl[i].offset + sl[i].size <= end
      BY <1>9, <1>11, <1>15, <2>3, <3>1
    <3> QED BY <1>6, <1>12, <2>1, <3>1, <3>2
  <2> QED BY <2>2, <2>3
<1>16. ASSUME \A p : p \in SplitOf(k) <=> p \in A /\ CoversAt(x, p) PROVE ClosedAt(x, A)
  <2>1. from \in PartDexes(x)
    <3>1. PartDexes(x) # {}
      BY <1>1, <1>6, <1>16 DEF A
    <3> QED BY <1>4, <3>1
  <2>2. P(from) \in A /\ CoversAt(x, P(from))
    BY <1>6, <1>16, <2>1
  <2>3. PICK i \in 1..n : from = sl[i].offset
    <3>1. PICK i \in 1..n : P(from) = P(sl[i].offset)
      BY <1>10, <2>2
    <3> QED BY <1>14, <3>1
  <2>4. PartDexes(x) = DexesIn(sl, from, end)
    BY <1>4, <2>3
  <2>5. ASSUME NEW j \in 1..n, CoversAt(x, P(sl[j].offset))
        PROVE  P(sl[j].offset) \in A <=> sl[j].offset + sl[j].size <= end
    <3>1. P(sl[j].offset) \in A <=> sl[j].offset \in DexesIn(sl, from, end)
      BY <1>6, <1>14, <1>16, <2>4, <2>5
    <3>2. sl[j].offset \in DexesIn(sl, from, end) <=> sl[j].offset + sl[j].size <= end
      BY <1>5, <1>9, <1>12, <2>5
    <3> QED BY <3>1, <3>2
  <2> QED BY <1>11, <2>3, <2>5
<1> QED BY <1>8, <1>13, <1>15, <1>16 DEF A

\* Once the core is filled with closed images its dexes are those of the valid rows.
LEMMA CoreIsReport ==
    ASSUME LoadInv, phase \in {"build", "ready"}, ClosedImages
    PROVE  /\ Len(dex_items) = next_dex_id
           /\ \A i \in ValidRows :
                /\ report[i].dex_id + 1 \in 1..Len(dex_items)
                /\ DexOrigin(dex_items[report[i].dex_id + 1]) = Place(report[i])
           /\ Loaded = AcceptedPlaces
<1> DEFINE split == CoreSplit(images)
           N == next_dex_id
<1>1. Typed /\ RowsFlagged /\ IdsExact /\ SlotsOfImages /\ OriginsExact
  BY DEF LoadInv, RowsExact, CoreExact
<1>2. /\ Len(dex_items) = Len(split)
      /\ \A i \in 1..Len(dex_items) : /\ dex_items[i].image = split[i].image
                                      /\ dex_items[i].off = split[i].off
  BY <1>1 DEF SlotsOfImages
<1>3. Len(split) = N
      /\ \A i \in 1..Len(report) : report[i].valid => Origin(images, split[report[i].dex_id + 1]) = Place(report[i])
  BY <1>1 DEF OriginsExact
<1>4. \A d \in 1..Len(dex_items) : DexOrigin(dex_items[d]) = Origin(images, split[d])
  BY <1>2 DEF DexOrigin, Origin
<1> HIDE DEF split
<1>5. N \in Nat /\ DOMAIN dex_items = 1..Len(dex_items)
  BY <1>1, MaxDexesAssumption DEF Typed
<1>6. \A i : i \in ValidRows <=> i \in 1..Len(report) /\ report[i].valid
  BY <1>1, ValidCounted
<1>7. ASSUME NEW i \in ValidRows
      PROVE  /\ report[i].dex_id + 1 \in 1..Len(dex_items)
             /\ DexOrigin(dex_items[report[i].dex_id + 1]) = Place(report[i])
  <2>1. i \in 1..Len(report) /\ report[i].valid
    BY <1>6
  <2>2. report[i].dex_id \in -1..(N - 1) /\ report[i].dex_id # -1
    BY <1>1, <2>1 DEF RowsFlagged
  <2> DEFINE d == report[i].dex_id
  <2>3. Origin(images, split[d + 1]) = Place(report[i])
    BY <1>3, <2>1
  <2>4. d \in -1..(N - 1) /\ d # -1
    BY <2>2
  <2> HIDE DEF d, N
  <2>5. d + 1 \in 1..N
    BY <1>5, <2>4
  <2>6. d + 1 \in 1..Len(dex_items) /\ DexOrigin(dex_items[d + 1]) = Place(report[i])
    BY <1>2, <1>3, <1>4, <2>3, <2>5
  <2> QED BY <2>6 DEF d
<1>8. ASSUME NEW d \in 1..Len(dex_items)
      PROVE  \E i \in ValidRows : DexOrigin(dex_items[d]) = Place(report[i])
  <2> HIDE DEF N
  <2>1. d - 1 \in 0..(N - 1)
    BY <1>2, <1>3, <1>5
  <2>2. PICK i \in 1..Len(report) : report[i].dex_id = d - 1
    BY <1>1, <2>1 DEF IdsExact, N
  <2>3. d - 1 # -1 /\ (d - 1) + 1 = d
    BY <2>1
  <2>4. i \in ValidRows
    <3>1. report[i].valid <=> report[i].dex_id # -1
      BY <1>1, <2>2 DEF RowsFlagged
    <3> QED BY <1>6, <2>2, <2>3, <3>1
  <2> QED BY <1>7, <2>2, <2>3, <2>4
<1>9. Loaded = AcceptedPlaces
  <2>1. Loaded = {DexOrigin(dex_items[d]) : d \in 1..Len(dex_items)}
    BY <1>5 DEF Loaded
  <2>2. \A i \in ValidRows : \E d \in 1..Len(dex_items) : Place(report[i]) = DexOrigin(dex_items[d])
    <3> SUFFICES ASSUME NEW i \in ValidRows
                 PROVE  \E d \in 1..Len(dex_items) : Place(report[i]) = DexOrigin(dex_items[d])
      OBVIOUS
    <3>1. /\ report[i].dex_id + 1 \in 1..Len(dex_items)
          /\ DexOrigin(dex_items[report[i].dex_id + 1]) = Place(report[i])
      BY <1>7
    <3> QED BY <3>1
  <2> QED BY <1>8, <2>1, <2>2 DEF AcceptedPlaces
<1> QED BY <1>2, <1>3, <1>7, <1>9

\* An open session holds as many dexes as were accepted, and of closed images these.
LEMMA AcceptedLoaded == LoadInv => LoadedIsAccepted
<1> SUFFICES ASSUME LoadInv, phase = "ready" PROVE
      /\ Cardinality(ValidRows) = Len(dex_items)
      /\ \A i \in DOMAIN dex_items : dex_items[i].state = "built"
      /\ AllClosed => \A i \in ValidRows :
                          DexOrigin(dex_items[report[i].dex_id + 1]) = Place(report[i])
  BY DEF LoadedIsAccepted
<1>1. Typed /\ RowsFlagged /\ IdsExact /\ SlotsOfImages
  BY DEF LoadInv, RowsExact, CoreExact
<1>2. /\ Len(dex_items) = next_dex_id
      /\ \A i \in DOMAIN dex_items : dex_items[i].state = "built"
  BY <1>1 DEF SlotsOfImages, Typed
<1>3. Cardinality(ValidRows) = next_dex_id
  BY <1>1, ValidCounted
<1>4. AllClosed => \A i \in ValidRows :
                       DexOrigin(dex_items[report[i].dex_id + 1]) = Place(report[i])
  BY ImagesMean, CoreIsReport
<1> QED BY <1>2, <1>3, <1>4

\* What is handed to the core splits into the accepted dexes as far as it is closed.
LEMMA HandedOver == LoadInv => SalvageExact
<1> SUFFICES ASSUME LoadInv, phase = "build" PROVE
      /\ next_dex_id < MaxDexes => RangesAccepted /\ CoveredOnce
      /\ \A k \in DOMAIN images : SplitExact(k) <=> Closed(k)
      /\ AllClosed => Len(dex_items) = Cardinality(ValidRows) /\ Loaded = AcceptedPlaces
  BY DEF SalvageExact
<1>1. Typed /\ RowsFlagged /\ IdsExact
  BY DEF LoadInv, RowsExact
<1>2. AllClosed => Len(dex_items) = next_dex_id /\ Loaded = AcceptedPlaces
  BY ImagesMean, CoreIsReport
<1>3. Cardinality(ValidRows) = next_dex_id
  BY <1>1, ValidCounted
<1>4. DOMAIN images = 1..Len(images) /\ (next_dex_id < MaxDexes => RangesAccepted /\ CoveredOnce)
  BY ImagesMean
<1>5. \A k \in DOMAIN images : SplitExact(k) <=> Closed(k)
  BY <1>4, SplitMeans
<1> QED BY <1>2, <1>3, <1>4, <1>5

\* In an open session every image has been passed.
LEMMA AllPassed ==
    ASSUME LoadInv, phase = "ready", NEW s, NEW e, ImageAt(s, e)
    PROVE  Passed(s, e)
<1>1. src > Len(inputs) /\ src \in 1..(Len(inputs) + 1) /\ s \in 1..Len(inputs)
  BY DEF LoadInv, AllRead, Typed, ImageAt
<1>2. Len(inputs) \in Nat
  BY InputsAssumption DEF LoadInv, Typed
<1>3. s < src
  BY <1>1, <1>2
<1> QED BY <1>3 DEF Passed

\* The images of the sources, as the properties range over them.
LEMMA ImagesRange ==
    ASSUME Typed, NEW s \in DOMAIN inputs, NEW e \in DOMAIN inputs[s].entries,
           inputs[s].entries[e].kind = "image"
    PROVE  /\ ImageAt(s, e)
           /\ DOMAIN SlicesOf(s, e) = 1..Len(SlicesOf(s, e))
<1>1. DOMAIN inputs = 1..Len(inputs) /\ inputs \in Inputs /\ strict \in BOOLEAN
  BY InputsAssumption DEF Typed
<1>2. DOMAIN inputs[s].entries = 1..Len(inputs[s].entries)
  BY <1>1, EntryType
<1>3. ImageAt(s, e)
  BY <1>1, <1>2 DEF ImageAt
<1>4. SlicesOf(s, e) = ClassifyImageSlices(inputs[s].entries[e].units, strict)
      /\ inputs[s].entries[e].units \in Seq(Header)
  BY <1>1, <1>3, EntryType DEF SlicesOf, ImageAt
<1>5. SlicesOf(s, e) \in Seq(LogicalDex)
  BY <1>1, <1>4, SlicesApart
<1> QED BY <1>3, <1>5

\* Isolated mode loads every dex that verifies.
LEMMA SurvivorsLoaded == LoadInv => IsolatedKeepsSurvivors
<1> SUFFICES ASSUME LoadInv, phase = "ready", mode = "isolated", next_dex_id < MaxDexes,
                    NEW s \in {t \in DOMAIN inputs : HasImages(t)},
                    NEW e \in {f \in DOMAIN inputs[s].entries : inputs[s].entries[f].kind = "image"},
                    NEW k \in DOMAIN SlicesOf(s, e), SlicesOf(s, e)[k].ok,
                    \/ SlicesOf(s, e)[k].self_contained
                    \/ ContainerWhole(SlicesOf(s, e), Len(inputs[s].entries[e].units),
                                      Siblings(SlicesOf(s, e), k))
             PROVE  <<s, e, SlicesOf(s, e)[k].offset>> \in AcceptedPlaces
  BY DEF IsolatedKeepsSurvivors, Siblings
<1>1. Typed /\ RowsFlagged /\ IdsExact /\ RowsComplete
  BY DEF LoadInv, RowsExact
<1>2. ImageAt(s, e) /\ HasImages(s) /\ k \in 1..Len(SlicesOf(s, e))
  BY <1>1, ImagesRange
<1>3. Passed(s, e)
  BY <1>2, AllPassed
<1>4. Survives(s, e, k)
  BY DEF Survives
<1>5. PICK i \in 1..Len(report) : /\ Place(report[i]) = <<s, e, SlicesOf(s, e)[k].offset>>
                                  /\ report[i].valid
  BY <1>1, <1>2, <1>3, <1>4 DEF RowsComplete
<1> QED BY <1>1, <1>5, AcceptedRows

\* art_open of a row is what ART's open of the whole source would yield.
LEMMA RowsTellArt ==
    ASSUME LoadInv, NEW i \in 1..Len(report)
    PROVE  report[i].art_open <=> Place(report[i]) \in ArtSet
<1> DEFINE s == report[i].src
           e == report[i].ent
           off == report[i].off
<1>1. Typed /\ RowsFlagged /\ RowsSound
  BY DEF LoadInv, RowsExact
<1>2. inputs \in Inputs /\ strict \in BOOLEAN /\ Place(report[i]) = <<s, e, off>>
  BY <1>1 DEF Typed, Place
<1>3. CASE off = -1
  <2>1. ~report[i].art_open
    BY <1>1, <1>3 DEF RowsFlagged
  <2>2. <<s, e, -1>> \notin ArtSet
    <3> HIDE DEF s, e
    <3> QED BY <1>2, ArtSetMeans
  <2> QED BY <1>2, <1>3, <2>1, <2>2
<1>4. CASE off # -1
  <2>1. /\ ImageAt(s, e) /\ HasImages(s)
        /\ \E k \in 1..Len(SlicesOf(s, e)) : off = SlicesOf(s, e)[k].offset
        /\ \A k \in 1..Len(SlicesOf(s, e)) :
             off = SlicesOf(s, e)[k].offset => (report[i].art_open <=> ArtOpens(s, e, k))
    BY <1>1, <1>4 DEF RowsSound
  <2> HIDE DEF s, e, off
  <2>2. PICK k \in 1..Len(SlicesOf(s, e)) : off = SlicesOf(s, e)[k].offset
    BY <2>1
  <2>3. <<s, e, SlicesOf(s, e)[k].offset>> \in ArtSet <=> ArtOpens(s, e, k)
    BY <1>2, <2>1, ArtSetMeans
  <2>4. report[i].art_open <=> ArtOpens(s, e, k)
    BY <2>1, <2>2
  <2> QED BY <1>2, <2>2, <2>3, <2>4
<1> QED BY <1>3, <1>4

\* Every dex that ART opens has a row in an open session.
LEMMA ArtHasRows ==
    ASSUME LoadInv, phase = "ready", NEW p \in ArtSet
    PROVE  \E i \in 1..Len(report) : Place(report[i]) = p
<1>1. Typed /\ RowsComplete
  BY DEF LoadInv, RowsExact
<1>2. PICK s \in {t \in DOMAIN inputs : HasImages(t)} :
        \E e \in {f \in DOMAIN inputs[s].entries : inputs[s].entries[f].kind = "image"} :
        \E k \in DOMAIN SlicesOf(s, e) : p = <<s, e, SlicesOf(s, e)[k].offset>>
  BY DEF ArtSet
<1>3. PICK e \in {f \in DOMAIN inputs[s].entries : inputs[s].entries[f].kind = "image"} :
        \E k \in DOMAIN SlicesOf(s, e) : p = <<s, e, SlicesOf(s, e)[k].offset>>
  BY <1>2
<1>4. PICK k \in DOMAIN SlicesOf(s, e) : p = <<s, e, SlicesOf(s, e)[k].offset>>
  BY <1>3
<1>5. ImageAt(s, e) /\ HasImages(s) /\ k \in 1..Len(SlicesOf(s, e))
  BY <1>1, ImagesRange
<1>6. Passed(s, e)
  BY <1>5, AllPassed
<1>7. \E i \in 1..Len(report) : Place(report[i]) = <<s, e, SlicesOf(s, e)[k].offset>>
  BY <1>1, <1>5, <1>6 DEF RowsComplete
<1> QED BY <1>4, <1>7

-----------------------------------------------------------------------------
(* The theorems. *)

\* Type correctness of the walk, the report and the core's slots, for any sources.
THEOREM LoadTypeCorrect == Spec => []TypeOK
<1>1. LoadInv => TypeOK
  <2> SUFFICES ASSUME LoadInv PROVE TypeOK
    OBVIOUS
  <2>1. Typed /\ RowsFlagged
    BY DEF LoadInv, RowsExact
  <2>2. next_dex_id \in 0..MaxDexes /\ MaxDexes \in Nat
    BY <2>1, MaxDexesAssumption DEF Typed
  <2>3. report \in Seq(RowType) /\ DOMAIN report = 1..Len(report)
    BY <2>1 DEF Typed
  <2>4. ASSUME NEW i \in DOMAIN report
        PROVE  /\ report[i].dex_id \in -1..(MaxDexes - 1)
               /\ report[i].valid = (report[i].dex_id # -1)
               /\ report[i].art_open \in BOOLEAN
    <3>1. report[i] \in RowType /\ i \in 1..Len(report)
      BY <2>3
    <3>2. report[i].dex_id \in -1..(next_dex_id - 1) /\ report[i].valid = (report[i].dex_id # -1)
      BY <2>1, <3>1 DEF RowsFlagged
    <3>3. report[i].dex_id \in -1..(MaxDexes - 1)
      BY <2>2, <3>2
    <3>4. report[i].art_open \in BOOLEAN
      BY <3>1 DEF RowType
    <3> QED BY <3>2, <3>3, <3>4
  <2>5. \A i \in DOMAIN dex_items : dex_items[i].state \in {"queued", "built", "null"}
    <3>1. \A i \in DOMAIN dex_items : dex_items[i] \in ItemType
      BY <2>1 DEF Typed
    <3> QED BY <3>1 DEF ItemType
  <2> QED BY <2>1, <2>4, <2>5 DEF TypeOK, Typed
<1> QED BY <1>1, LoadKeepsInv, PTL

\* Class lookup is first-wins by load order, whatever order the pool built the items
\* in (PutDeclaredClass), for any sources and any number of dexes.
THEOREM LookupIsFirstWins == Spec => []FirstWins
<1>1. LoadInv => FirstWins
  <2> SUFFICES ASSUME LoadInv, phase = "ready", NEW i \in DOMAIN dex_items,
                      NEW c \in Declares[ItemHeader(dex_items[i]).name]
               PROVE  /\ c \in DOMAIN declared /\ declared[c] <= i - 1
                      /\ c \in Declares[ItemHeader(dex_items[declared[c] + 1]).name]
    BY DEF FirstWins
  <2>1. DeclaredExact /\ SlotsOfImages /\ Typed
    BY DEF LoadInv, CoreExact
  <2>2. i \in 1..Len(dex_items) /\ Len(dex_items) \in Nat /\ c \in Names(i)
    BY <2>1 DEF Typed, Names
  <2>3. dex_items[i].state = "built"
    BY <2>1, <2>2 DEF SlotsOfImages
  <2>4. c \in DOMAIN declared /\ declared[c] <= i - 1 /\ declared[c] \in 0..(Len(dex_items) - 1)
    BY <2>1, <2>2, <2>3 DEF DeclaredExact
  <2>5. declared[c] + 1 \in 1..Len(dex_items) /\ (declared[c] + 1) - 1 = declared[c]
    BY <2>2, <2>4
  <2>6. c \in Names(declared[c] + 1)
    <3> DEFINE j == declared[c] + 1
    <3>1. j \in 1..Len(dex_items) /\ declared[c] = j - 1
      BY <2>5
    <3> HIDE DEF j
    <3>2. c \in Names(j)
      BY <2>1, <2>4, <3>1 DEF DeclaredExact
    <3> QED BY <3>2 DEF j
  <2> QED BY <2>4, <2>6 DEF Names
<1> QED BY <1>1, LoadKeepsInv, PTL

\* What an opened session holds, for any sources, whatever their headers say of
\* containers: as many dexes as were accepted, all built and within the id limit; where
\* the images are closed, the accepted ones under their ids, built from where their rows
\* say; and a class map that does not depend on the order of the pool's work
\* (EmitSliceVerdicts, AddImage, PutDeclaredClass, AssertLoadedDexesWereVerified).
THEOREM SessionIsExact == Spec => []SessionExact
<1>1. Spec => []LoadedIsAccepted
  BY AcceptedLoaded, LoadKeepsInv, PTL
<1>2. TypeOK /\ LoadedIsAccepted /\ FirstWins => SessionExact
  BY DEF SessionExact
<1> QED BY <1>1, <1>2, LoadTypeCorrect, LookupIsFirstWins, PTL

\* What CollectInput and the sibling rule make of an image with a bad dex, for any
\* sources: until the ids run out the copies hold each accepted dex once and no rejected
\* one; the core finds the accepted dexes of a copy in it exactly if the copy is closed;
\* and isolated mode loses no dex that verifies.
THEOREM SalvageIsSound == Spec => []SalvageSound
<1>1. LoadInv => SalvageSound
  BY HandedOver, SurvivorsLoaded DEF SalvageSound
<1> QED BY <1>1, LoadKeepsInv, PTL

\* The session tells the truth about ART (ArtSequence, GetLoadStatus): art_open of every
\* row is what ART's open of the source yields, runtime mode accepts nothing else, and
\* matches_art holds exactly when the accepted dexes are that very set.
THEOREM ArtViewIsExact == Spec => []ArtViewExact
<1>1. LoadInv => ArtViewExact
  <2> SUFFICES ASSUME LoadInv PROVE ArtViewExact
    OBVIOUS
  <2>1. Typed /\ RowsFlagged /\ RowsUnique /\ IdsExact
    BY DEF LoadInv, RowsExact
  <2>2. DOMAIN report = 1..Len(report)
    BY <2>1 DEF Typed
  <2>3. \A i \in 1..Len(report) : report[i].art_open <=> Place(report[i]) \in ArtSet
    BY RowsTellArt
  <2>4. ASSUME phase = "ready"
        PROVE  /\ mode = "runtime" => AcceptedPlaces \subseteq ArtSet
               /\ MatchesArt <=> AcceptedPlaces = ArtSet
    <3>1. AcceptedPlaces = {Place(report[i]) : i \in ValidRows}
      BY DEF AcceptedPlaces
    <3>2. \A i : i \in ValidRows <=> i \in 1..Len(report) /\ report[i].valid
      BY <2>1, ValidCounted
    <3>3. mode = "runtime" => AcceptedPlaces \subseteq ArtSet
      <4>1. mode = "runtime" => \A i \in ValidRows : report[i].art_open
        BY <2>1, <3>2 DEF RowsFlagged
      <4> QED BY <2>3, <3>1, <3>2, <4>1
    <3>4. \A i \in 1..Len(report) : report[i].valid => report[i].off # -1
      BY <2>1 DEF RowsFlagged
    <3>5. MatchesArt <=> \A i \in 1..Len(report) : report[i].valid = report[i].art_open
      BY <2>2 DEF MatchesArt
    <3>6. \A i \in 1..Len(report) : report[i].valid \in BOOLEAN /\ report[i].art_open \in BOOLEAN
      <4>1. \A i \in 1..Len(report) : report[i] \in RowType
        BY <2>1 DEF Typed
      <4> QED BY <4>1 DEF RowType
    <3>7. ASSUME MatchesArt PROVE AcceptedPlaces = ArtSet
      <4>1. \A i \in ValidRows : Place(report[i]) \in ArtSet
        BY <2>3, <3>2, <3>5, <3>7
      <4>2. \A p \in ArtSet : \E i \in ValidRows : Place(report[i]) = p
        <5> SUFFICES ASSUME NEW p \in ArtSet PROVE \E i \in ValidRows : Place(report[i]) = p
          OBVIOUS
        <5>1. PICK i \in 1..Len(report) : Place(report[i]) = p
          BY <2>4, ArtHasRows
        <5>2. report[i].art_open
          BY <2>3, <5>1
        <5>3. report[i].valid
          BY <3>5, <3>7, <5>2
        <5> QED BY <3>2, <5>1, <5>3
      <4> QED BY <3>1, <4>1, <4>2
    <3>8. ASSUME AcceptedPlaces = ArtSet, NEW i \in 1..Len(report)
          PROVE  report[i].valid = report[i].art_open
      <4>1. report[i].valid => report[i].art_open
        BY <2>3, <3>1, <3>2, <3>8
      <4>2. ASSUME report[i].art_open PROVE report[i].valid
        <5>1. Place(report[i]) \in AcceptedPlaces
          BY <2>3, <3>8, <4>2
        <5>2. PICK j \in ValidRows : Place(report[j]) = Place(report[i])
          BY <3>1, <5>1
        <5>3. j \in 1..Len(report) /\ report[j].valid
          BY <3>2
        <5>4. j = i
          BY <2>1, <3>4, <5>2, <5>3 DEF RowsUnique
        <5> QED BY <5>3, <5>4
      <4> QED BY <3>6, <4>1, <4>2
    <3> QED BY <3>3, <3>5, <3>7, <3>8
  <2> QED BY <2>2, <2>3, <2>4 DEF ArtViewExact
<1> QED BY <1>1, LoadKeepsInv, PTL

=============================================================================
