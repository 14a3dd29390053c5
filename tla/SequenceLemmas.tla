---------------------------- MODULE SequenceLemmas ----------------------------
(***************************************************************************)
(* Facts about the operators of the community modules that the models use. *)
(* Induction and recursion are stated for sets and functions: no lemma has *)
(* an operator for a parameter.                                            *)
(***************************************************************************)
EXTENDS SequencesExt, SequenceTheorems, FiniteSetTheorems, TLAPS

(* The least of some naturals is one of them: the intervals 0 .. x are      *)
(* finite sets, and inclusion of finite sets is well-founded.              *)
LEMMA MinIsIn ==
    ASSUME NEW T, T \subseteq Nat, T # {}
    PROVE  Min(T) \in T /\ \A y \in T : Min(T) <= y
<1>. DEFINE D == {0 .. x : x \in T}
            R == StrictSubsetOrdering(Nat)
<1>1. \A x \in T : 0 .. x \in FiniteSubsetsOf(Nat)
  BY FS_Interval DEF FiniteSubsetsOf
<1>2. D \subseteq FiniteSubsetsOf(Nat) /\ D # {}
  BY <1>1
<1>3. \E d \in D : \A e \in D : <<e, d>> \notin R
  <2>. HIDE DEF D, R
  <2>1. IsWellFoundedOn(R, FiniteSubsetsOf(Nat))
    BY FS_StrictSubsetOrderingWellFounded DEF R
  <2>. QED  BY <1>2, <2>1, WFMin
<1>4. PICK x \in T : \A y \in T : <<0 .. y, 0 .. x>> \notin R
  BY <1>3
<1>5. \A y \in T : x <= y
  <2>. SUFFICES ASSUME NEW y \in T, y < x
                PROVE  FALSE
    OBVIOUS
  <2>1. 0 .. y \in SUBSET Nat /\ 0 .. x \in SUBSET Nat /\ 0 .. y \subseteq 0 .. x
    OBVIOUS
  <2>2. x \in 0 .. x /\ x \notin 0 .. y
    OBVIOUS
  <2>3. <<0 .. y, 0 .. x>> \in R
    BY <2>1, <2>2 DEF StrictSubsetOrdering
  <2>. QED  BY <1>4, <2>3
<1>. QED  BY <1>5 DEF Min

(* Induction: the least number outside of a set that contains 0 and the    *)
(* successors of its members would be one of those.                        *)
LEMMA Induction ==
    ASSUME NEW S, 0 \in S, \A n \in Nat : n \in S => n + 1 \in S
    PROVE  \A n \in Nat : n \in S
<1>. SUFFICES ASSUME Nat \ S # {} PROVE FALSE
  OBVIOUS
<1>1. PICK m \in Nat \ S : \A y \in Nat \ S : m <= y
  <2>. DEFINE T == Nat \ S
  <2>1. T \subseteq Nat /\ T # {}
    OBVIOUS
  <2>. HIDE DEF T
  <2>2. Min(T) \in T /\ \A y \in T : Min(T) <= y
    BY <2>1, MinIsIn
  <2>. QED  BY <2>2 DEF T
<1>2. m # 0 /\ m - 1 \in Nat /\ m - 1 + 1 = m
  OBVIOUS
<1>3. m - 1 \in S
  BY <1>1, <1>2
<1>. QED  BY <1>1, <1>2, <1>3

(* The greatest of some numbers up to n is one of them.                    *)
LEMMA MaxIsIn ==
    ASSUME NEW n \in Nat, NEW T, T \subseteq 0 .. n, T # {}
    PROVE  Max(T) \in T /\ \A y \in T : Max(T) >= y
<1>. DEFINE D == {n - x : x \in T}
<1>1. D \subseteq Nat /\ D # {}
  <2>1. \A x \in T : n - x \in Nat
    OBVIOUS
  <2>. QED  BY <2>1
<1>2. PICK d \in D : \A e \in D : d <= e
  <2>. HIDE DEF D
  <2>. QED  BY <1>1, MinIsIn
<1>3. PICK x \in T : d = n - x
  OBVIOUS
<1>4. \A y \in T : x >= y
  <2>. SUFFICES ASSUME NEW y \in T PROVE x >= y
    OBVIOUS
  <2>1. n - x <= n - y
    BY <1>2, <1>3
  <2>. QED  BY <2>1
<1>. QED  BY <1>4 DEF Max

-----------------------------------------------------------------------------
(* Concatenation of a sequence of sequences.                               *)

(* The function that FlattenSeq computes with exists, and its value for i  *)
(* is the concatenation of the first i sequences.                          *)
LEMMA FlattenSteps ==
    ASSUME NEW ss, NEW n \in Nat \ {0}, Len(ss) = n
    PROVE  \E f : /\ f[1] = ss[1]
                  /\ \A i \in 2 .. n : f[i] = f[i - 1] \o ss[i]
                  /\ FlattenSeq(ss) = f[n]
<1>. DEFINE Step(f, i) == IF i = 1 THEN ss[i] ELSE f[i - 1] \o ss[i]
            Upto(k) == \E f : f = [i \in 1 .. k |-> Step(f, i)]
            K == {k \in Nat : Upto(k)}
<1>1. Upto(0)
  <2>1. [i \in 1 .. 0 |-> 0] = [i \in 1 .. 0 |-> Step([j \in 1 .. 0 |-> 0], i)]
    OBVIOUS
  <2>. QED  BY <2>1
<1>2. ASSUME NEW k \in Nat, Upto(k) PROVE Upto(k + 1)
  <2>1. PICK f : f = [i \in 1 .. k |-> Step(f, i)]
    BY <1>2
  <2>. DEFINE g == [i \in 1 .. k + 1 |-> IF i = k + 1 THEN Step(f, i) ELSE f[i]]
  <2>2. ASSUME NEW i \in 1 .. k + 1 PROVE g[i] = Step(g, i)
    <3>1. CASE i = 1
      BY <2>1, <3>1
    <3>2. CASE i # 1
      <4>1. i - 1 \in 1 .. k /\ i - 1 # k + 1 /\ g[i - 1] = f[i - 1]
        BY <3>2
      <4>. HIDE DEF g
      <4>2. g[i] = IF i = k + 1 THEN Step(f, i) ELSE f[i]
        BY DEF g
      <4>3. ASSUME i # k + 1 PROVE f[i] = Step(f, i)
        <5>1. i \in 1 .. k
          BY <4>3
        <5>. QED  BY <2>1, <5>1
      <4>. QED  BY <3>2, <4>1, <4>2, <4>3
    <3>. QED  BY <3>1, <3>2
  <2>3. g = [i \in 1 .. k + 1 |-> Step(g, i)]
    <3>1. g = [i \in 1 .. k + 1 |-> g[i]]
      OBVIOUS
    <3>. HIDE DEF g, Step
    <3>. QED  BY <2>2, <3>1
  <2>. HIDE DEF g
  <2>. QED  BY <2>3
<1>3. \A k \in Nat : k \in K
  <2>. HIDE DEF Upto
  <2>1. 0 \in K /\ \A k \in Nat : k \in K => k + 1 \in K
    BY <1>1, <1>2
  <2>. HIDE DEF K
  <2>. QED  BY <2>1, Induction
<1>4. PICK f : f = [i \in 1 .. n |-> Step(f, i)]
  <2>1. Upto(n)
    <3>. HIDE DEF Upto
    <3>. QED  BY <1>3
  <2>. QED  BY <2>1
<1>. DEFINE flatten == CHOOSE g : g = [i \in 1 .. n |-> Step(g, i)]
<1>5. flatten = [i \in 1 .. n |-> Step(flatten, i)]
  BY <1>4
<1>6. FlattenSeq(ss) = flatten[n]
  BY DEF FlattenSeq
<1>. HIDE DEF flatten
<1>7. \A i \in 1 .. n : flatten[i] = Step(flatten, i)
  BY <1>5
<1>8. flatten[1] = ss[1] /\ \A i \in 2 .. n : flatten[i] = flatten[i - 1] \o ss[i]
  <2>1. 1 \in 1 .. n
    OBVIOUS
  <2>2. \A i \in 2 .. n : i \in 1 .. n /\ i # 1
    OBVIOUS
  <2>. QED  BY <1>7, <2>1, <2>2
<1>. QED  BY <1>6, <1>8

(* What holds of nothing, and still holds when the next of the sequences   *)
(* is appended, holds of the concatenation.                                *)
LEMMA FlattenInvariant ==
    ASSUME NEW T, NEW ss \in Seq(Seq(T)), NEW I, <<0, <<>>>> \in I,
           \A i \in 1 .. Len(ss) : \A x \in Seq(T) :
              <<i - 1, x>> \in I => <<i, x \o ss[i]>> \in I
    PROVE  FlattenSeq(ss) \in Seq(T) /\ <<Len(ss), FlattenSeq(ss)>> \in I
<1>1. PICK n \in Nat : n = Len(ss)
  OBVIOUS
<1>2. \A i \in 1 .. n : ss[i] \in Seq(T)
  BY <1>1
<1>3. CASE n = 0
  <2>1. ss = <<>>
    BY <1>1, <1>3, EmptySeq
  <2>. QED  BY <1>1, <1>3, <2>1 DEF FlattenSeq
<1>4. CASE n # 0
  <2>1. PICK f : /\ f[1] = ss[1]
                 /\ \A i \in 2 .. n : f[i] = f[i - 1] \o ss[i]
                 /\ FlattenSeq(ss) = f[n]
    <3>1. n \in Nat \ {0} /\ Len(ss) = n
      BY <1>1, <1>4
    <3>. QED  BY <3>1, FlattenSteps
  <2>. DEFINE Good(i) == f[i] \in Seq(T) /\ <<i, f[i]>> \in I
              K == {i \in Nat : i \in 1 .. n => Good(i)}
  <2>2. Good(1)
    <3>1. 1 \in 1 .. Len(ss) /\ ss[1] \in Seq(T) /\ <<>> \in Seq(T) /\ 1 - 1 = 0
      BY <1>1, <1>2, <1>4
    <3>2. <<>> \o ss[1] = ss[1]
      BY <3>1
    <3>. QED  BY <2>1, <3>1, <3>2
  <2>3. ASSUME NEW i \in Nat, i + 1 \in 2 .. n, Good(i) PROVE Good(i + 1)
    <3>1. PICK j \in 2 .. n : j = i + 1 /\ j - 1 = i
      BY <2>3
    <3>2. j \in 1 .. Len(ss)
      BY <1>1
    <3>3. PICK x, y : x = f[i] /\ y = ss[j]
      OBVIOUS
    <3>4. f[j] = x \o y
      BY <2>1, <3>1, <3>3
    <3>5. x \in Seq(T) /\ y \in Seq(T) /\ <<i, x>> \in I
      BY <1>1, <1>2, <2>3, <3>2, <3>3
    <3>6. x \o y \in Seq(T)
      BY <3>5, ConcatProperties
    <3>7. <<j, x \o y>> \in I
      BY <3>1, <3>2, <3>3, <3>5
    <3>. QED  BY <3>1, <3>4, <3>6, <3>7
  <2>. HIDE DEF Good
  <2>4. 0 \in K /\ \A i \in Nat : i \in K => i + 1 \in K
    <3>1. 0 \in K
      OBVIOUS
    <3>2. ASSUME NEW i \in Nat, i \in K, i + 1 \in 1 .. n PROVE Good(i + 1)
      <4>1. CASE i = 0
        BY <2>2, <4>1
      <4>2. CASE i # 0
        <5>1. i \in 1 .. n /\ i + 1 \in 2 .. n
          BY <1>1, <3>2, <4>2
        <5>. QED  BY <2>3, <3>2, <5>1
      <4>. QED  BY <4>1, <4>2
    <3>. QED  BY <3>1, <3>2
  <2>5. n \in K
    <3>. HIDE DEF K
    <3>. QED  BY <2>4, Induction
  <2>. QED  BY <1>1, <1>4, <2>1, <2>5 DEF Good
<1>. QED  BY <1>3, <1>4

(* What is in a concatenation is in one of the sequences.                  *)
LEMMA FlattenElements ==
    ASSUME NEW T, NEW ss \in Seq(Seq(T))
    PROVE  /\ FlattenSeq(ss) \in Seq(T)
           /\ \A j \in 1 .. Len(FlattenSeq(ss)) :
                 \E i \in 1 .. Len(ss) : \E k \in 1 .. Len(ss[i]) : FlattenSeq(ss)[j] = ss[i][k]
<1>. DEFINE From(m, x) == \A j \in 1 .. Len(x) :
                             \E i \in 1 .. m : \E k \in 1 .. Len(ss[i]) : x[j] = ss[i][k]
            I == {p \in Nat \X Seq(T) : From(p[1], p[2])}
<1>1. <<0, <<>>>> \in I
  <2>1. PICK nil \in Seq(T) : nil = <<>> /\ Len(nil) = 0
    BY EmptySeq
  <2>2. From(0, nil)
    BY <2>1
  <2>. HIDE DEF From
  <2>3. <<0, nil>> \in I
    BY <2>2
  <2>. QED  BY <2>1, <2>3, Zenon
<1>2. ASSUME NEW i \in 1 .. Len(ss), NEW x \in Seq(T), From(i - 1, x)
      PROVE  From(i, x \o ss[i])
  <2>1. PICK y \in Seq(T) : y = ss[i]
    OBVIOUS
  <2>2. ASSUME NEW j \in 1 .. Len(x \o y)
        PROVE  \E h \in 1 .. i : \E k \in 1 .. Len(ss[h]) : (x \o y)[j] = ss[h][k]
    <3>0. Len(x \o y) = Len(x) + Len(y) /\ Len(x) \in Nat /\ Len(y) \in Nat
      OBVIOUS
    <3>1. CASE j <= Len(x)
      <4>1. j \in 1 .. Len(x) /\ (x \o y)[j] = x[j]
        BY <3>0, <3>1
      <4>2. PICK h \in 1 .. i - 1 : \E k \in 1 .. Len(ss[h]) : x[j] = ss[h][k]
        BY <1>2, <4>1
      <4>3. h \in 1 .. i
        OBVIOUS
      <4>. QED  BY <4>1, <4>2, <4>3
    <3>2. CASE j > Len(x)
      <4>1. PICK k \in 1 .. Len(y) : k = j - Len(x)
        <5>1. j - Len(x) \in 1 .. Len(y)
          BY <3>0, <3>2
        <5>. QED  BY <5>1
      <4>2. (x \o y)[j] = y[k]
        BY <3>0, <3>2, <4>1
      <4>3. i \in 1 .. i
        OBVIOUS
      <4>. QED  BY <2>1, <4>1, <4>2, <4>3
    <3>. QED  BY <3>0, <3>1, <3>2
  <2>. QED  BY <2>1, <2>2
<1>. HIDE DEF From
<1>3. \A i \in 1 .. Len(ss) : \A x \in Seq(T) : <<i - 1, x>> \in I => <<i, x \o ss[i]>> \in I
  <2>. SUFFICES ASSUME NEW i \in 1 .. Len(ss), NEW x \in Seq(T), <<i - 1, x>> \in I
                PROVE  <<i, x \o ss[i]>> \in I
    OBVIOUS
  <2>1. i \in Nat /\ x \o ss[i] \in Seq(T) /\ From(i - 1, x)
    OBVIOUS
  <2>. QED  BY <1>2, <2>1
<1>4. FlattenSeq(ss) \in Seq(T) /\ <<Len(ss), FlattenSeq(ss)>> \in I
  <2>. HIDE DEF I
  <2>. QED  BY <1>1, <1>3, FlattenInvariant
<1>. QED  BY <1>4 DEF From

(* The concatenation of optional values has those that are there, in their *)
(* order: e is where the elements come from.                               *)
ComeFrom(e, x, ss, n) ==
    /\ e \in [1 .. Len(x) -> 1 .. n]
    /\ \A j \in 1 .. Len(x) : ss[e[j]] = <<x[j]>>
    /\ \A j, k \in 1 .. Len(x) : j < k => e[j] < e[k]
    /\ \A i \in 1 .. n : ss[i] # <<>> => \E j \in 1 .. Len(x) : e[j] = i

LEMMA FlattenOptions ==
    ASSUME NEW T, NEW ss \in Seq(Seq(T)), \A i \in 1 .. Len(ss) : Len(ss[i]) <= 1
    PROVE  /\ FlattenSeq(ss) \in Seq(T)
           /\ \E e : ComeFrom(e, FlattenSeq(ss), ss, Len(ss))
<1>. DEFINE I == {p \in Nat \X Seq(T) : \E e : ComeFrom(e, p[2], ss, p[1])}
<1>1. <<0, <<>>>> \in I
  <2>1. PICK nil \in Seq(T) : nil = <<>> /\ Len(nil) = 0
    BY EmptySeq
  <2>2. ComeFrom([j \in 1 .. 0 |-> 0], nil, ss, 0)
    BY <2>1 DEF ComeFrom
  <2>3. <<0, nil>> \in I
    BY <2>2
  <2>. QED  BY <2>1, <2>3, Zenon
<1>2. ASSUME NEW i \in 1 .. Len(ss), NEW x \in Seq(T), NEW d, ComeFrom(d, x, ss, i - 1)
      PROVE  \E e : ComeFrom(e, x \o ss[i], ss, i)
  <2>1. PICK y \in Seq(T) : y = ss[i] /\ Len(y) \in {0, 1}
    <3>1. ss[i] \in Seq(T) /\ Len(ss[i]) <= 1
      OBVIOUS
    <3>2. Len(ss[i]) \in Nat
      BY <3>1, LenProperties
    <3>3. \A n \in Nat : n <= 1 => n \in {0, 1}
      OBVIOUS
    <3>. QED  BY <3>1, <3>2, <3>3, Zenon
  <2>2. CASE Len(y) = 0
    <3>1. y = <<>> /\ x \o y = x
      BY <2>1, <2>2, EmptySeq
    <3>2. \A h \in 1 .. i : h \in 1 .. i - 1 \/ h = i
      OBVIOUS
    <3>3. d \in [1 .. Len(x) -> 1 .. i]
      <4>1. 1 .. i - 1 \subseteq 1 .. i
        OBVIOUS
      <4>. QED  BY <1>2, <4>1 DEF ComeFrom
    <3>4. \A h \in 1 .. i : ss[h] # <<>> => \E j \in 1 .. Len(x) : d[j] = h
      BY <1>2, <2>1, <3>1, <3>2 DEF ComeFrom
    <3>5. ComeFrom(d, x, ss, i)
      BY <1>2, <3>3, <3>4 DEF ComeFrom
    <3>. QED  BY <2>1, <3>1, <3>5
  <2>3. CASE Len(y) = 1
    <3>1. PICK z \in Seq(T), n \in Nat : z = x \o y /\ n = Len(x)
      <4>1. x \o y \in Seq(T) /\ Len(x) \in Nat
        BY ConcatProperties
      <4>. QED  BY <4>1
    <3>2. Len(z) = n + 1 /\ z[n + 1] = y[1] /\ \A j \in 1 .. n : z[j] = x[j]
      BY <2>1, <2>3, <3>1
    <3>3. y = <<y[1]>>
      BY <2>1, <2>3
    <3>. DEFINE e == [j \in 1 .. n + 1 |-> IF j = n + 1 THEN i ELSE d[j]]
    <3>4. /\ d \in [1 .. n -> 1 .. i - 1]
          /\ \A j \in 1 .. n : ss[d[j]] = <<x[j]>>
          /\ \A j, k \in 1 .. n : j < k => d[j] < d[k]
          /\ \A h \in 1 .. i - 1 : ss[h] # <<>> => \E j \in 1 .. n : d[j] = h
      BY <1>2, <3>1 DEF ComeFrom
    <3>5. /\ e \in [1 .. n + 1 -> 1 .. i] /\ e[n + 1] = i
          /\ \A j \in 1 .. n : e[j] = d[j] /\ d[j] \in 1 .. i - 1
      BY <3>4
    <3>. HIDE DEF e
    <3>6. \A j \in 1 .. n + 1 : j \in 1 .. n \/ j = n + 1
      OBVIOUS
    <3>7. \A j \in 1 .. n + 1 : ss[e[j]] = <<z[j]>>
      BY <2>1, <3>2, <3>3, <3>4, <3>5, <3>6
    <3>8. ASSUME NEW j \in 1 .. n + 1, NEW k \in 1 .. n + 1, j < k PROVE e[j] < e[k]
      <4>1. j \in 1 .. n /\ e[j] = d[j] /\ d[j] \in 1 .. i - 1
        BY <3>5, <3>8
      <4>2. CASE k = n + 1
        BY <3>5, <4>1, <4>2
      <4>3. CASE k \in 1 .. n
        BY <3>4, <3>5, <3>8, <4>1, <4>3
      <4>. QED  BY <3>6, <4>2, <4>3
    <3>9. ASSUME NEW h \in 1 .. i, ss[h] # <<>> PROVE \E j \in 1 .. n + 1 : e[j] = h
      <4>1. CASE h = i
        <5>1. n + 1 \in 1 .. n + 1
          OBVIOUS
        <5>. QED  BY <3>5, <4>1, <5>1
      <4>2. CASE h # i
        <5>1. h \in 1 .. i - 1
          BY <4>2
        <5>2. PICK j \in 1 .. n : d[j] = h
          BY <3>4, <3>9, <5>1
        <5>3. j \in 1 .. n + 1 /\ e[j] = h
          BY <3>5, <5>2
        <5>. QED  BY <5>3
      <4>. QED  BY <4>1, <4>2
    <3>10. ComeFrom(e, z, ss, i)
      BY <3>2, <3>5, <3>7, <3>8, <3>9 DEF ComeFrom
    <3>. QED  BY <2>1, <3>1, <3>10
  <2>. QED  BY <2>1, <2>2, <2>3
<1>3. \A i \in 1 .. Len(ss) : \A x \in Seq(T) : <<i - 1, x>> \in I => <<i, x \o ss[i]>> \in I
  <2>. SUFFICES ASSUME NEW i \in 1 .. Len(ss), NEW x \in Seq(T), <<i - 1, x>> \in I
                PROVE  <<i, x \o ss[i]>> \in I
    OBVIOUS
  <2>1. i \in Nat /\ ss[i] \in Seq(T)
    OBVIOUS
  <2>2. x \o ss[i] \in Seq(T)
    BY <2>1, ConcatProperties
  <2>3. \E e : ComeFrom(e, x \o ss[i], ss, i)
    BY <1>2
  <2>. QED  BY <2>1, <2>2, <2>3
<1>4. FlattenSeq(ss) \in Seq(T) /\ <<Len(ss), FlattenSeq(ss)>> \in I
  <2>. HIDE DEF I
  <2>. QED  BY <1>1, <1>3, FlattenInvariant
<1>. QED  BY <1>4

-----------------------------------------------------------------------------
(* A piece of a sequence is replaced by mid: what was before it is where   *)
(* it was, mid is next, and what was after it is shifted.                  *)
Splice(old, at, mid, after) ==
    SubSeq(old, 1, at) \o mid \o SubSeq(old, after + 1, Len(old))

LEMMA FrontOfSplice ==
    ASSUME NEW S, NEW old \in Seq(S), NEW mid \in Seq(S), NEW at \in 0 .. Len(old)
    PROVE  /\ SubSeq(old, 1, at) \o mid \in Seq(S)
           /\ Len(SubSeq(old, 1, at) \o mid) = at + Len(mid)
           /\ \A m, n \in 1 .. at :
                 SubSeq(SubSeq(old, 1, at) \o mid, m, n) = SubSeq(old, m, n)
           /\ SubSeq(SubSeq(old, 1, at) \o mid, at + 1, at + Len(mid)) = mid
<1>1. PICK head : head = SubSeq(old, 1, at)
  OBVIOUS
<1>2. head \in Seq(S) /\ Len(head) = at
  <2>1. \A i \in 1 .. at : old[i] \in S
    OBVIOUS
  <2>2. head \in Seq(S) /\ Len(head) = IF 1 <= at THEN at - 1 + 1 ELSE 0
    BY <1>1, <2>1, SubSeqProperties
  <2>. QED  BY <2>2
<1>3. head \o mid \in Seq(S) /\ Len(head \o mid) = at + Len(mid)
  BY <1>2, ConcatProperties
<1>4. ASSUME NEW m \in 1 .. at, NEW n \in 1 .. at
      PROVE  SubSeq(head \o mid, m, n) = SubSeq(old, m, n)
  <2>1. SubSeq(head \o mid, m, n) = SubSeq(head, m, n)
    BY <1>2, SubSeqOfConcat1
  <2>2. 1 \in 1 .. Len(old) /\ at \in 1 .. Len(old)
        /\ m \in 1 .. at - 1 + 1 /\ n \in 1 .. at - 1 + 1
    OBVIOUS
  <2>3. SubSeq(SubSeq(old, 1, at), m, n) = SubSeq(old, 1 + m - 1, 1 + n - 1)
    BY <2>2, SubSeqOfSubSeq
  <2>4. 1 + m - 1 = m /\ 1 + n - 1 = n
    OBVIOUS
  <2>. QED  BY <1>1, <2>1, <2>3, <2>4
<1>5. SubSeq(head \o mid, at + 1, at + Len(mid)) = mid
  <2>1. CASE mid = <<>>
    BY <2>1, SubSeqEmpty
  <2>2. CASE mid # <<>>
    <3>1. Len(mid) \in Nat /\ Len(mid) >= 1
      BY <2>2
    <3>2. /\ at + 1 \in Len(head) + 1 .. Len(head) + Len(mid)
          /\ at + Len(mid) \in Len(head) + 1 .. Len(head) + Len(mid)
      BY <1>2, <3>1
    <3>3. SubSeq(head \o mid, at + 1, at + Len(mid))
             = SubSeq(mid, at + 1 - Len(head), at + Len(mid) - Len(head))
      BY <1>2, <3>2, SubSeqOfConcat2
    <3>4. at + 1 - Len(head) = 1 /\ at + Len(mid) - Len(head) = Len(mid)
      BY <1>2, <3>1
    <3>5. SubSeq(mid, 1, Len(mid)) = mid
      BY SubSeqFull
    <3>. QED  BY <3>3, <3>4, <3>5
  <2>. QED  BY <2>1, <2>2
<1>. QED  BY <1>1, <1>3, <1>4, <1>5

LEMMA TailOfSplice ==
    ASSUME NEW S, NEW old \in Seq(S), NEW after \in 0 .. Len(old)
    PROVE  /\ SubSeq(old, after + 1, Len(old)) \in Seq(S)
           /\ Len(SubSeq(old, after + 1, Len(old))) = Len(old) - after
           /\ \A m, n \in after + 1 .. Len(old) :
                 SubSeq(SubSeq(old, after + 1, Len(old)), m - after, n - after)
                    = SubSeq(old, m, n)
<1>1. \A i \in after + 1 .. Len(old) : old[i] \in S
  OBVIOUS
<1>2. /\ SubSeq(old, after + 1, Len(old)) \in Seq(S)
      /\ Len(SubSeq(old, after + 1, Len(old)))
             = IF after + 1 <= Len(old) THEN Len(old) - (after + 1) + 1 ELSE 0
  BY <1>1, SubSeqProperties
<1>3. ASSUME NEW m \in after + 1 .. Len(old), NEW n \in after + 1 .. Len(old)
      PROVE  SubSeq(SubSeq(old, after + 1, Len(old)), m - after, n - after)
                = SubSeq(old, m, n)
  <2>1. /\ after + 1 \in 1 .. Len(old) /\ Len(old) \in 1 .. Len(old)
        /\ m - after \in 1 .. Len(old) - (after + 1) + 1
        /\ n - after \in 1 .. Len(old) - (after + 1) + 1
    OBVIOUS
  <2>2. SubSeq(SubSeq(old, after + 1, Len(old)), m - after, n - after)
           = SubSeq(old, after + 1 + (m - after) - 1, after + 1 + (n - after) - 1)
    BY <2>1, SubSeqOfSubSeq
  <2>3. after + 1 + (m - after) - 1 = m /\ after + 1 + (n - after) - 1 = n
    OBVIOUS
  <2>. QED  BY <2>2, <2>3
<1>4. Len(SubSeq(old, after + 1, Len(old))) = Len(old) - after
  BY <1>2
<1>. QED  BY <1>2, <1>3, <1>4

IsSpliced(S, new, old, at, mid, after, delta) ==
    /\ new \in Seq(S) /\ Len(new) = Len(old) + delta
    /\ \A m, n \in 1 .. at : SubSeq(new, m, n) = SubSeq(old, m, n)
    /\ SubSeq(new, at + 1, at + Len(mid)) = mid
    /\ \A m, n \in after + 1 .. Len(old) :
          SubSeq(new, m + delta, n + delta) = SubSeq(old, m, n)

LEMMA Spliced ==
    ASSUME NEW S, NEW old \in Seq(S), NEW mid \in Seq(S),
           NEW at \in Nat, NEW after \in at .. Len(old),
           NEW delta \in Int, delta = Len(mid) - (after - at)
    PROVE  IsSpliced(S, Splice(old, at, mid, after), old, at, mid, after, delta)
<1>0. PICK new : new = Splice(old, at, mid, after)
  OBVIOUS
<1>. DEFINE joined == SubSeq(old, 1, at) \o mid
            rest   == SubSeq(old, after + 1, Len(old))
            size   == Len(old)
            l      == Len(mid)
<1>1. /\ size \in Nat /\ l \in Nat /\ after \in Nat /\ at <= after /\ after <= size
      /\ delta = l - (after - at) /\ at \in 0 .. size /\ after \in 0 .. size
  OBVIOUS
<1>2. /\ joined \in Seq(S) /\ Len(joined) = at + l
      /\ \A m, n \in 1 .. at : SubSeq(joined, m, n) = SubSeq(old, m, n)
      /\ SubSeq(joined, at + 1, at + l) = mid
  BY <1>1, FrontOfSplice
<1>3. /\ rest \in Seq(S) /\ Len(rest) = size - after
      /\ \A m, n \in after + 1 .. size :
            SubSeq(rest, m - after, n - after) = SubSeq(old, m, n)
  BY <1>1, TailOfSplice
<1>4. new = joined \o rest
  BY <1>0 DEF Splice
<1>. HIDE DEF joined, rest, size, l
<1>5. joined \in Seq(S) /\ rest \in Seq(S)
  BY <1>2, <1>3
<1>6. PICK f \in Nat, t \in Nat :
         f = Len(joined) /\ t = Len(rest) /\ f = at + l /\ t = size - after
  <2>1. at + l \in Nat /\ size - after \in Nat
    BY <1>1
  <2>. QED  BY <1>2, <1>3, <2>1
<1>7. delta + size = f + t /\ f = after + delta
  BY <1>1, <1>6
<1>8. new \in Seq(S) /\ Len(new) = size + delta
  <2>1. new \in Seq(S) /\ Len(new) = Len(joined) + Len(rest)
    BY <1>4, <1>5, ConcatProperties
  <2>2. Len(new) = f + t
    BY <1>6, <2>1
  <2>3. f + t = size + delta
    BY <1>1, <1>7
  <2>. QED  BY <2>1, <2>2, <2>3
<1>9. ASSUME NEW m \in 1 .. f, NEW n \in 1 .. f
      PROVE  SubSeq(new, m, n) = SubSeq(joined, m, n)
  <2>1. m \in 1 .. Len(joined) /\ n \in 1 .. Len(joined)
    BY <1>6
  <2>2. SubSeq(joined \o rest, m, n) = SubSeq(joined, m, n)
    BY <1>5, <2>1, SubSeqOfConcat1
  <2>. QED  BY <1>4, <2>2
<1>10. ASSUME NEW m \in 1 .. at, NEW n \in 1 .. at
       PROVE  SubSeq(new, m, n) = SubSeq(old, m, n)
  <2>1. m \in 1 .. f /\ n \in 1 .. f
    BY <1>1, <1>6
  <2>. QED  BY <1>2, <1>9, <2>1
<1>11. SubSeq(new, at + 1, at + l) = mid
  <2>1. CASE l = 0
    <3>1. mid = <<>>
      BY <2>1 DEF l
    <3>2. at + 1 \in Int /\ at + l \in Int /\ at + l < at + 1
      BY <1>1, <2>1
    <3>. QED  BY <3>1, <3>2, SubSeqEmpty
  <2>2. CASE l # 0
    <3>1. at + 1 \in 1 .. f /\ at + l \in 1 .. f
      BY <1>1, <1>6, <2>2
    <3>2. SubSeq(new, at + 1, at + l) = SubSeq(joined, at + 1, at + l)
      BY <1>9, <3>1
    <3>. QED  BY <1>2, <3>2
  <2>. QED  BY <2>1, <2>2
<1>12. ASSUME NEW m \in after + 1 .. size, NEW n \in after + 1 .. size
       PROVE  SubSeq(new, m + delta, n + delta) = SubSeq(old, m, n)
  <2>1. PICK i \in f + 1 .. f + t, j \in f + 1 .. f + t : i = m + delta /\ j = n + delta
    <3>1. m + delta \in f + 1 .. f + t /\ n + delta \in f + 1 .. f + t
      BY <1>1, <1>6, <1>7
    <3>. QED  BY <3>1
  <2>2. SubSeq(new, i, j) = SubSeq(rest, i - f, j - f)
    <3>1. /\ i \in Len(joined) + 1 .. Len(joined) + Len(rest)
          /\ j \in Len(joined) + 1 .. Len(joined) + Len(rest)
      BY <1>6
    <3>2. SubSeq(joined \o rest, i, j) = SubSeq(rest, i - Len(joined), j - Len(joined))
      BY <1>5, <3>1, SubSeqOfConcat2
    <3>. QED  BY <1>4, <1>6, <3>2
  <2>3. i - f = m - after /\ j - f = n - after
    BY <1>1, <1>7, <2>1
  <2>. QED  BY <1>3, <2>1, <2>2, <2>3
<1>. QED  BY <1>0, <1>8, <1>10, <1>11, <1>12 DEF IsSpliced, size, l

-----------------------------------------------------------------------------
(* A function that is defined step by step.                                 *)

(* A function on 0 .. n is defined by its first value and by the step from *)
(* each value to the next.                                                 *)
IsRecursive(f, V, base, n, G) ==
    f \in [0 .. n -> V] /\ f[0] = base /\ \A i \in 1 .. n : f[i] = G[i][f[i - 1]]

LEMMA Recursion ==
    ASSUME NEW V, NEW base \in V, NEW n \in Nat, NEW G \in [1 .. n -> [V -> V]]
    PROVE  \E f : IsRecursive(f, V, base, n, G)
<1>. DEFINE IsUpto(f, k) == /\ f \in [0 .. k -> V] /\ f[0] = base
                            /\ \A i \in 1 .. k : f[i] = G[i][f[i - 1]]
            K == {k \in Nat : k <= n => \E f : IsUpto(f, k)}
<1>1. 0 \in K
  <2>1. IsUpto([i \in 0 .. 0 |-> base], 0)
    OBVIOUS
  <2>. QED  BY <2>1
<1>2. ASSUME NEW k \in Nat, k \in K PROVE k + 1 \in K
  <2>. SUFFICES ASSUME k + 1 <= n PROVE \E f : IsUpto(f, k + 1)
    OBVIOUS
  <2>1. PICK f : IsUpto(f, k)
    BY <1>2
  <2>2. k + 1 \in 1 .. n /\ f[k] \in V
    BY <2>1
  <2>3. PICK x \in V : x = G[k + 1][f[k]]
    BY <2>2
  <2>. DEFINE g == [i \in 0 .. k + 1 |-> IF i = k + 1 THEN x ELSE f[i]]
  <2>4. g \in [0 .. k + 1 -> V] /\ g[0] = base /\ g[k + 1] = x /\ \A i \in 0 .. k : g[i] = f[i]
    BY <2>1
  <2>. HIDE DEF g
  <2>5. ASSUME NEW i \in 1 .. k + 1 PROVE g[i] = G[i][g[i - 1]]
    <3>1. CASE i = k + 1
      <4>1. g[i - 1] = f[k] /\ g[i] = x
        BY <2>4, <3>1
      <4>. QED  BY <2>3, <3>1, <4>1
    <3>2. CASE i # k + 1
      <4>1. i \in 1 .. k /\ i - 1 \in 0 .. k /\ i \in 0 .. k
        BY <3>2
      <4>. QED  BY <2>1, <2>4, <4>1
    <3>. QED  BY <3>1, <3>2
  <2>6. IsUpto(g, k + 1)
    BY <2>4, <2>5
  <2>. QED  BY <2>6
<1>3. n \in K
  <2>. HIDE DEF K
  <2>. QED  BY <1>1, <1>2, Induction
<1>. QED  BY <1>3 DEF IsRecursive

-----------------------------------------------------------------------------
(* A sequence that is read in another one: x is in t behind offset o.      *)

LEMMA OneElement ==
    ASSUME NEW S, NEW d \in S
    PROVE  <<d>> \in Seq(S) /\ <<d>> # <<>> /\ <<d>>[1] = d /\ Len(<<d>>) = 1
<1>. QED  OBVIOUS

LEMMA IsOne ==
    ASSUME NEW S, NEW x \in Seq(S), Len(x) = 1, NEW y \in S, x[1] = y
    PROVE  x = <<y>>
<1>1. PICK w : w = <<y>>
  OBVIOUS
<1>2. w \in Seq(S) /\ Len(w) = 1 /\ w[1] = y
  BY <1>1, OneElement
<1>3. \A i \in 1 .. 1 : x[i] = w[i]
  BY <1>2
<1>4. x = w
  BY <1>2, <1>3, SeqEqual
<1>. QED  BY <1>1, <1>4

(* A text reads x from offset o on.                                        *)
ReadsAt(t, o, x) ==
    /\ o \in Nat /\ o + Len(x) <= Len(t)
    /\ \A i \in 1 .. Len(x) : t[o + i] = x[i]

LEMMA ReadsItself ==
    ASSUME NEW S, NEW t \in Seq(S)
    PROVE  ReadsAt(t, 0, t)
<1>1. Len(t) \in Nat /\ 0 \in Nat /\ 0 + Len(t) <= Len(t)
  OBVIOUS
<1>2. \A i \in 1 .. Len(t) : 0 + i = i
  OBVIOUS
<1>. QED  BY <1>1, <1>2 DEF ReadsAt

Joined(S, z, x, y) == x \in Seq(S) /\ y \in Seq(S) /\ z = x \o y

LEMMA ReadsBoth ==
    ASSUME NEW S, NEW x, NEW y, NEW z, Joined(S, z, x, y),
           NEW t, Len(t) \in Nat, NEW o, ReadsAt(t, o, z)
    PROVE  /\ o \in Nat /\ ReadsAt(t, o, x) /\ ReadsAt(t, o + Len(x), y)
           /\ z \in Seq(S) /\ Len(z) = Len(x) + Len(y)
<1>0. x \in Seq(S) /\ y \in Seq(S) /\ z = x \o y
  BY DEF Joined
<1>1. PICK m \in Nat, n \in Nat, e \in Nat : m = Len(x) /\ n = Len(y) /\ e = Len(t)
  BY <1>0
<1>2. /\ z \in Seq(S) /\ Len(z) = m + n
      /\ \A i \in 1 .. m + n : z[i] = IF i <= m THEN x[i] ELSE y[i - m]
  <2>1. /\ x \o y \in Seq(S) /\ Len(x \o y) = Len(x) + Len(y)
        /\ \A i \in 1 .. Len(x) + Len(y) :
              (x \o y)[i] = IF i <= Len(x) THEN x[i] ELSE y[i - Len(x)]
    BY <1>0, ConcatProperties
  <2>. QED  BY <1>0, <1>1, <2>1
<1>3. o \in Nat /\ o + (m + n) <= e /\ \A i \in 1 .. m + n : t[o + i] = z[i]
  BY <1>1, <1>2 DEF ReadsAt
<1>4. ASSUME NEW i \in 1 .. m PROVE t[o + i] = x[i]
  <2>1. i \in 1 .. m + n /\ i <= m
    OBVIOUS
  <2>. QED  BY <1>2, <1>3, <2>1
<1>5. ASSUME NEW i \in 1 .. n PROVE t[(o + m) + i] = y[i]
  <2>1. PICK k : k = m + i /\ k \in 1 .. m + n /\ ~(k <= m) /\ k - m = i /\ o + k = (o + m) + i
    BY <1>3
  <2>2. z[k] = y[i]
    BY <1>2, <2>1
  <2>3. t[o + k] = y[i]
    BY <1>3, <2>1, <2>2
  <2>. QED  BY <2>1, <2>3
<1>6. /\ o + m <= e /\ (o + m) + n <= e /\ o + m \in Nat /\ o + (m + n) = o + m + n
  BY <1>3
<1>. QED  BY <1>1, <1>2, <1>3, <1>4, <1>5, <1>6 DEF ReadsAt

LEMMA WhatIsRead ==
    ASSUME NEW S, NEW t \in Seq(S), NEW x \in Seq(S), NEW o, ReadsAt(t, o, x)
    PROVE  SubSeq(t, o + 1, o + Len(x)) = x
<1>1. PICK m \in Nat, n \in Nat : m = Len(x) /\ n = Len(t)
  OBVIOUS
<1>2. o \in Nat /\ o + m <= n /\ \A i \in 1 .. m : t[o + i] = x[i]
  BY <1>1 DEF ReadsAt
<1>3. PICK a \in Int, b \in Int : a = o + 1 /\ b = o + m
  BY <1>2
<1>4. \A i \in a .. b : t[i] \in S
  BY <1>1, <1>2, <1>3
<1>5. PICK s : s = SubSeq(t, a, b)
  OBVIOUS
<1>6. /\ s \in Seq(S) /\ Len(s) = IF a <= b THEN b - a + 1 ELSE 0
      /\ \A i \in 1 .. b - a + 1 : s[i] = t[a + i - 1]
  BY <1>4, <1>5, SubSeqProperties
<1>7. Len(s) = m /\ b - a + 1 = m
  BY <1>2, <1>3, <1>6
<1>8. \A i \in 1 .. m : s[i] = x[i]
  <2>. SUFFICES ASSUME NEW i \in 1 .. m PROVE s[i] = x[i]
    OBVIOUS
  <2>1. a + i - 1 = o + i
    BY <1>2, <1>3
  <2>. QED  BY <1>2, <1>6, <1>7, <2>1
<1>9. s = x
  BY <1>1, <1>6, <1>7, <1>8, SeqEqual
<1>. QED  BY <1>1, <1>3, <1>5, <1>9

(* Two texts that are read one after the other.                            *)
LEMMA ReadsOneByOne ==
    ASSUME NEW S, NEW x, NEW y, NEW z, Joined(S, z, x, y),
           NEW t, Len(t) \in Nat, NEW o, ReadsAt(t, o, x), ReadsAt(t, o + Len(x), y)
    PROVE  ReadsAt(t, o, z)
<1>0. x \in Seq(S) /\ y \in Seq(S) /\ z = x \o y
  BY DEF Joined
<1>1. PICK m \in Nat, n \in Nat, e \in Nat : m = Len(x) /\ n = Len(y) /\ e = Len(t)
  BY <1>0
<1>2. /\ Len(z) = m + n
      /\ \A i \in 1 .. m + n : z[i] = IF i <= m THEN x[i] ELSE y[i - m]
  <2>1. /\ Len(x \o y) = Len(x) + Len(y)
        /\ \A i \in 1 .. Len(x) + Len(y) :
              (x \o y)[i] = IF i <= Len(x) THEN x[i] ELSE y[i - Len(x)]
    BY <1>0, ConcatProperties
  <2>. QED  BY <1>0, <1>1, <2>1
<1>3. /\ o \in Nat /\ \A i \in 1 .. m : t[o + i] = x[i]
      /\ (o + m) + n <= e /\ \A i \in 1 .. n : t[(o + m) + i] = y[i]
  BY <1>1 DEF ReadsAt
<1>4. ASSUME NEW i \in 1 .. m + n PROVE t[o + i] = z[i]
  <2>1. CASE i <= m
    BY <1>2, <1>3, <2>1
  <2>2. CASE ~(i <= m)
    <3>1. PICK k \in 1 .. n : k = i - m /\ (o + m) + k = o + i
      <4>1. i - m \in 1 .. n /\ (o + m) + (i - m) = o + i
        BY <1>3, <2>2
      <4>. QED  BY <4>1
    <3>2. t[(o + m) + k] = y[k]
      BY <1>3
    <3>. QED  BY <1>2, <2>2, <3>1, <3>2
  <2>. QED  BY <2>1, <2>2
<1>5. o + (m + n) <= e
  BY <1>3
<1>. QED  BY <1>1, <1>2, <1>3, <1>4, <1>5 DEF ReadsAt

-----------------------------------------------------------------------------
(* Sequences that are joined, and what is in them.                         *)

LEMMA JoinedElements ==
    ASSUME NEW S, NEW x, NEW y, NEW z, Joined(S, z, x, y)
    PROVE  /\ x \in Seq(S) /\ y \in Seq(S) /\ z \in Seq(S) /\ Len(z) = Len(x) + Len(y)
           /\ \A i \in 1 .. Len(x) : z[i] = x[i]
           /\ \A i \in 1 .. Len(y) : z[Len(x) + i] = y[i]
<1>0. x \in Seq(S) /\ y \in Seq(S) /\ z = x \o y
  BY DEF Joined
<1>1. PICK m \in Nat, n \in Nat : m = Len(x) /\ n = Len(y)
  BY <1>0
<1>2. /\ z \in Seq(S) /\ Len(z) = m + n
      /\ \A i \in 1 .. m + n : z[i] = IF i <= m THEN x[i] ELSE y[i - m]
  <2>1. /\ x \o y \in Seq(S) /\ Len(x \o y) = Len(x) + Len(y)
        /\ \A i \in 1 .. Len(x) + Len(y) :
              (x \o y)[i] = IF i <= Len(x) THEN x[i] ELSE y[i - Len(x)]
    BY <1>0, ConcatProperties
  <2>. QED  BY <1>0, <1>1, <2>1
<1>3. ASSUME NEW i \in 1 .. m PROVE z[i] = x[i]
  BY <1>2
<1>4. ASSUME NEW i \in 1 .. n PROVE z[m + i] = y[i]
  <2>1. m + i \in 1 .. m + n /\ ~(m + i <= m) /\ (m + i) - m = i
    OBVIOUS
  <2>. QED  BY <1>2, <2>1
<1>. QED  BY <1>0, <1>1, <1>2, <1>3, <1>4

(* A sequence that ends like another one begins.                           *)
LEMMA JoinedWhere ==
    ASSUME NEW S, NEW x \in Seq(S), NEW y \in Seq(S), NEW z \in Seq(S),
           Len(z) = Len(x) + Len(y),
           \A i \in 1 .. Len(x) : z[i] = x[i],
           \A i \in 1 .. Len(y) : z[Len(x) + i] = y[i]
    PROVE  Joined(S, z, x, y)
<1>1. PICK w : w = x \o y
  OBVIOUS
<1>2. Joined(S, w, x, y)
  BY <1>1 DEF Joined
<1>3. /\ w \in Seq(S) /\ Len(w) = Len(x) + Len(y)
      /\ \A i \in 1 .. Len(x) : w[i] = x[i]
      /\ \A i \in 1 .. Len(y) : w[Len(x) + i] = y[i]
  BY <1>2, JoinedElements
<1>4. PICK m \in Nat, n \in Nat : m = Len(x) /\ n = Len(y)
  OBVIOUS
<1>5. ASSUME NEW i \in 1 .. m + n PROVE z[i] = w[i]
  <2>1. CASE i <= m
    <3>1. i \in 1 .. m
      BY <2>1
    <3>. QED  BY <1>3, <1>4, <3>1
  <2>2. CASE ~(i <= m)
    <3>1. i - m \in 1 .. n /\ m + (i - m) = i
      BY <2>2
    <3>. QED  BY <1>3, <1>4, <3>1
  <2>. QED  BY <2>1, <2>2
<1>6. z = w
  BY <1>3, <1>4, <1>5, SeqEqual
<1>. QED  BY <1>2, <1>6

LEMMA JoinedThree ==
    ASSUME NEW S, NEW x, NEW y, NEW w, NEW a, NEW b, NEW c,
           Joined(S, a, x, y), Joined(S, b, y, w), Joined(S, c, x, b)
    PROVE  Joined(S, c, a, w)
<1>1. /\ x \in Seq(S) /\ y \in Seq(S) /\ w \in Seq(S) /\ a \in Seq(S)
      /\ a = x \o y /\ b = y \o w /\ c = x \o b
  <2>1. a \in Seq(S)
    BY JoinedElements
  <2>. QED  BY <2>1 DEF Joined
<1>2. x \o (y \o w) = (x \o y) \o w
  BY <1>1
<1>. QED  BY <1>1, <1>2, Zenon DEF Joined

LEMMA JoinedBack ==
    ASSUME NEW S, NEW x, NEW y, NEW w, NEW a, NEW b, NEW c,
           Joined(S, a, x, y), Joined(S, b, y, w), Joined(S, c, a, w)
    PROVE  Joined(S, c, x, b)
<1>1. x \in Seq(S) /\ b \in Seq(S)
  <2>1. x \in Seq(S)
    BY DEF Joined
  <2>. QED  BY <2>1, JoinedElements
<1>2. PICK e : Joined(S, e, x, b)
  BY <1>1 DEF Joined
<1>3. Joined(S, e, a, w)
  BY <1>2, JoinedThree
<1>4. e = c
  BY <1>3 DEF Joined
<1>. QED  BY <1>2, <1>4

(* What is in a sequence of two is in one of them.                         *)
LEMMA NowhereInBoth ==
    ASSUME NEW S, NEW x, NEW y, NEW z, Joined(S, z, x, y), NEW d,
           \A i \in 1 .. Len(x) : x[i] # d, \A i \in 1 .. Len(y) : y[i] # d
    PROVE  \A i \in 1 .. Len(z) : z[i] # d
<1>1. /\ x \in Seq(S) /\ y \in Seq(S) /\ z \in Seq(S) /\ Len(z) = Len(x) + Len(y)
      /\ \A i \in 1 .. Len(x) : z[i] = x[i]
      /\ \A i \in 1 .. Len(y) : z[Len(x) + i] = y[i]
  BY JoinedElements
<1>2. PICK m \in Nat, n \in Nat : m = Len(x) /\ n = Len(y)
  BY <1>1
<1>3. ASSUME NEW i \in 1 .. m + n PROVE z[i] # d
  <2>1. CASE i <= m
    <3>1. i \in 1 .. m
      BY <2>1
    <3>. QED  BY <1>1, <1>2, <3>1
  <2>2. CASE ~(i <= m)
    <3>1. i - m \in 1 .. n /\ m + (i - m) = i
      BY <2>2
    <3>2. z[m + (i - m)] = y[i - m]
      BY <1>1, <1>2, <3>1
    <3>. QED  BY <1>2, <3>1, <3>2
  <2>. QED  BY <2>1, <2>2
<1>. QED  BY <1>1, <1>2, <1>3

LEMMA Associative ==
    ASSUME NEW S, NEW x \in Seq(S), NEW y \in Seq(S), NEW z \in Seq(S)
    PROVE  x \o y \o z = x \o (y \o z)
<1>. QED  OBVIOUS

LEMMA RangeOfBoth ==
    ASSUME NEW S, NEW x \in Seq(S), NEW y \in Seq(S), NEW z \in Seq(S)
    PROVE  ToSet(x \o y \o z) = ToSet(x) \cup ToSet(y) \cup ToSet(z)
<1>1. x \o y \in Seq(S)
  BY ConcatProperties
<1>2. Range(x \o y) = Range(x) \cup Range(y)
  BY RangeConcatenation
<1>3. Range(x \o y \o z) = Range(x \o y) \cup Range(z)
  <2>1. PICK v : v = x \o y /\ v \in Seq(S)
    BY <1>1
  <2>2. Range(v \o z) = Range(v) \cup Range(z)
    BY <2>1, RangeConcatenation
  <2>. QED  BY <2>1, <2>2
<1>4. \A w : ToSet(w) = Range(w)
  BY DEF ToSet, Range
<1>. QED  BY <1>2, <1>3, <1>4

LEMMA AllOf ==
    ASSUME NEW S, NEW x \in Seq(S), NEW D, ToSet(x) \subseteq D, NEW i \in 1 .. Len(x)
    PROVE  x[i] \in D
<1>. QED  BY DEF ToSet

(* What is empty when it is joined is empty.                               *)
LEMMA FourTexts ==
    ASSUME NEW S, NEW a \in Seq(S), NEW b \in Seq(S), NEW x \in Seq(S), NEW y \in Seq(S)
    PROVE  Len(a \o b \o x \o y) = Len(a) + Len(b) + Len(x) + Len(y)
<1>1. PICK k \in Nat, l \in Nat, m \in Nat, n \in Nat :
         k = Len(a) /\ l = Len(b) /\ m = Len(x) /\ n = Len(y)
  OBVIOUS
<1>2. /\ a \o b \in Seq(S) /\ Len(a \o b) = k + l
  BY <1>1, ConcatProperties
<1>3. /\ a \o b \o x \in Seq(S) /\ Len(a \o b \o x) = k + l + m
  BY <1>1, <1>2, ConcatProperties
<1>4. Len(a \o b \o x \o y) = k + l + m + n
  BY <1>1, <1>3, ConcatProperties
<1>. QED  BY <1>1, <1>4

LEMMA EmptyParts ==
    ASSUME NEW S, NEW a \in Seq(S), NEW b \in Seq(S), NEW x \in Seq(S), NEW y \in Seq(S),
           NEW z, z = a \o b \o x \o y, Len(z) = 0
    PROVE  a = <<>> /\ b = <<>> /\ x = <<>> /\ y = <<>>
<1>1. PICK k \in Nat, l \in Nat, m \in Nat, n \in Nat :
         k = Len(a) /\ l = Len(b) /\ m = Len(x) /\ n = Len(y)
  OBVIOUS
<1>2. Len(z) = k + l + m + n
  BY <1>1, FourTexts
<1>3. k = 0 /\ l = 0 /\ m = 0 /\ n = 0
  BY <1>2
<1>. QED  BY <1>1, <1>3, EmptySeq

-----------------------------------------------------------------------------
(* Pieces, and what is left of a sequence that is cut.                     *)

(* The same piece of two sequences.                                        *)
SamePiece(S, t, u, o, a, b) ==
    /\ t \in Seq(S) /\ u \in Seq(S) /\ o \in Nat /\ a \in Nat \ {0} /\ b \in Int
    /\ b <= Len(u) /\ o + b <= Len(t) /\ \A k \in a .. b : t[o + k] = u[k]

IsPiece(x, t, a, b) == x = SubSeq(t, a, b)

LEMMA EqualPieces ==
    ASSUME NEW S, NEW t, NEW u, NEW o, NEW a, NEW b, SamePiece(S, t, u, o, a, b),
           NEW x, IsPiece(x, t, o + a, o + b), NEW y, IsPiece(y, u, a, b)
    PROVE  x = y
<1>0. /\ t \in Seq(S) /\ u \in Seq(S) /\ o \in Nat /\ a \in Nat \ {0} /\ b \in Int
      /\ b <= Len(u) /\ o + b <= Len(t) /\ \A k \in a .. b : t[o + k] = u[k]
  BY DEF SamePiece
<1>1. PICK m \in Nat, n \in Nat : m = Len(t) /\ n = Len(u)
  BY <1>0
<1>2. PICK c \in Int, d \in Int : c = o + a /\ d = o + b
  BY <1>0
<1>3. x = SubSeq(t, c, d) /\ y = SubSeq(u, a, b)
  BY <1>2 DEF IsPiece
<1>4. /\ x \in Seq(S) /\ Len(x) = IF c <= d THEN d - c + 1 ELSE 0
      /\ \A i \in 1 .. d - c + 1 : x[i] = t[c + i - 1]
  <2>1. \A i \in c .. d : t[i] \in S
    BY <1>0, <1>1, <1>2
  <2>. QED  BY <1>3, <2>1, SubSeqProperties
<1>5. /\ y \in Seq(S) /\ Len(y) = IF a <= b THEN b - a + 1 ELSE 0
      /\ \A i \in 1 .. b - a + 1 : y[i] = u[a + i - 1]
  <2>1. \A i \in a .. b : u[i] \in S
    BY <1>0, <1>1
  <2>2. PICK e \in Int : e = a
    BY <1>0
  <2>3. b \in Int
    BY <1>0
  <2>. QED  BY <1>3, <2>1, <2>2, <2>3, SubSeqProperties
<1>6. d - c = b - a /\ (c <= d <=> a <= b)
  BY <1>0, <1>2
<1>7. Len(x) = Len(y)
  BY <1>4, <1>5, <1>6
<1>8. \A i \in 1 .. Len(x) : x[i] = y[i]
  <2>. SUFFICES ASSUME NEW i \in 1 .. Len(x) PROVE x[i] = y[i]
    OBVIOUS
  <2>1. i \in Int /\ i >= 1 /\ i <= Len(x)
    BY <1>4
  <2>2. i \in 1 .. b - a + 1 /\ i \in 1 .. d - c + 1
    <3>1. CASE a <= b
      <4>1. Len(x) = b - a + 1
        BY <1>5, <1>7, <3>1
      <4>. QED  BY <1>0, <1>6, <2>1, <4>1
    <3>2. CASE ~(a <= b)
      <4>1. Len(x) = 0
        BY <1>5, <1>7, <3>2
      <4>. QED  BY <2>1, <4>1
    <3>. QED  BY <3>1, <3>2
  <2>3. PICK k \in a .. b : k = a + i - 1 /\ o + k = c + i - 1
    <3>1. a + i - 1 \in a .. b /\ o + (a + i - 1) = c + i - 1
      BY <1>0, <1>2, <2>2
    <3>. QED  BY <3>1
  <2>. QED  BY <1>0, <1>4, <1>5, <2>2, <2>3
<1>. QED  BY <1>4, <1>5, <1>7, <1>8, SeqEqual

(* v is what is left of z when it is cut.                                  *)
IsCut(S, v, z) ==
    /\ v \in Seq(S) /\ z \in Seq(S) /\ Len(v) <= Len(z)
    /\ \A i \in 1 .. Len(v) : v[i] = z[i]

LEMMA CutIs ==
    ASSUME NEW S, NEW z \in Seq(S), NEW n \in 0 .. Len(z), NEW v, IsPiece(v, z, 1, n)
    PROVE  IsCut(S, v, z) /\ Len(v) = n
<1>1. PICK m \in Nat : m = Len(z)
  OBVIOUS
<1>2. PICK a \in Int, b \in Int : a = 1 /\ b = n
  OBVIOUS
<1>3. \A i \in a .. b : z[i] \in S
  BY <1>1, <1>2
<1>4. /\ v \in Seq(S) /\ Len(v) = IF a <= b THEN b - a + 1 ELSE 0
      /\ \A i \in 1 .. b - a + 1 : v[i] = z[a + i - 1]
  <2>1. v = SubSeq(z, a, b)
    BY <1>2 DEF IsPiece
  <2>. QED  BY <1>3, <2>1, SubSeqProperties
<1>5. Len(v) = n /\ b - a + 1 = n
  BY <1>2, <1>4
<1>6. \A i \in 1 .. n : v[i] = z[i]
  <2>1. \A i \in 1 .. n : a + i - 1 = i
    BY <1>2
  <2>. QED  BY <1>4, <1>5, <2>1
<1>. QED  BY <1>1, <1>4, <1>5, <1>6 DEF IsCut

LEMMA CutOfWhole ==
    ASSUME NEW S, NEW v, NEW z, IsCut(S, v, z), Len(v) = Len(z)
    PROVE  v = z
<1>1. v \in Seq(S) /\ z \in Seq(S) /\ \A i \in 1 .. Len(v) : v[i] = z[i]
  BY DEF IsCut
<1>. QED  BY <1>1, SeqEqual

LEMMA CutOfCut ==
    ASSUME NEW S, NEW v, NEW y, NEW z, IsCut(S, v, y), IsCut(S, y, z)
    PROVE  IsCut(S, v, z)
<1>1. PICK k \in Nat, m \in Nat, n \in Nat : k = Len(v) /\ m = Len(y) /\ n = Len(z)
  BY DEF IsCut
<1>2. /\ v \in Seq(S) /\ z \in Seq(S) /\ k <= m /\ m <= n
      /\ \A i \in 1 .. k : v[i] = y[i]
      /\ \A i \in 1 .. m : y[i] = z[i]
  BY <1>1 DEF IsCut
<1>3. k <= n /\ \A i \in 1 .. k : i \in 1 .. m
  BY <1>2
<1>. QED  BY <1>1, <1>2, <1>3 DEF IsCut

LEMMA SameCuts ==
    ASSUME NEW S, NEW v, NEW w, NEW z, IsCut(S, v, z), IsCut(S, w, z), Len(v) = Len(w)
    PROVE  v = w
<1>1. /\ v \in Seq(S) /\ w \in Seq(S)
      /\ \A i \in 1 .. Len(v) : v[i] = z[i]
      /\ \A i \in 1 .. Len(w) : w[i] = z[i]
  BY DEF IsCut
<1>. QED  BY <1>1, SeqEqual

LEMMA FrontIsCut ==
    ASSUME NEW S, NEW x, NEW y, NEW z, Joined(S, z, x, y)
    PROVE  IsCut(S, x, z)
<1>1. /\ x \in Seq(S) /\ y \in Seq(S) /\ z \in Seq(S) /\ Len(z) = Len(x) + Len(y)
      /\ \A i \in 1 .. Len(x) : z[i] = x[i]
      /\ \A i \in 1 .. Len(y) : z[Len(x) + i] = y[i]
  BY JoinedElements
<1>2. PICK m \in Nat, n \in Nat : m = Len(x) /\ n = Len(y) /\ m <= m + n
  BY <1>1
<1>. QED  BY <1>1, <1>2 DEF IsCut

(* A cut is in the first part or in the second one.                        *)
LEMMA CutOfBoth ==
    ASSUME NEW S, NEW x, NEW y, NEW z, Joined(S, z, x, y), NEW v, IsCut(S, v, z)
    PROVE  IsCut(S, v, x) \/ \E w : Joined(S, v, x, w) /\ IsCut(S, w, y)
<1>1. /\ x \in Seq(S) /\ y \in Seq(S) /\ z \in Seq(S) /\ Len(z) = Len(x) + Len(y)
      /\ \A i \in 1 .. Len(x) : z[i] = x[i]
      /\ \A i \in 1 .. Len(y) : z[Len(x) + i] = y[i]
  BY JoinedElements
<1>2. PICK k \in Nat, m \in Nat, n \in Nat : k = Len(v) /\ m = Len(x) /\ n = Len(y)
  BY <1>1 DEF IsCut
<1>3. v \in Seq(S) /\ k <= m + n /\ \A i \in 1 .. k : v[i] = z[i]
  BY <1>1, <1>2 DEF IsCut
<1>4. CASE k <= m
  <2>1. \A i \in 1 .. k : i \in 1 .. m
    BY <1>4
  <2>2. \A i \in 1 .. k : v[i] = x[i]
    BY <1>1, <1>2, <1>3, <2>1
  <2>. QED  BY <1>1, <1>2, <1>3, <1>4, <2>2 DEF IsCut
<1>5. CASE ~(k <= m)
  <2>1. PICK l \in Nat : l = k - m /\ l <= n /\ k = m + l
    <3>1. k - m \in Nat /\ k - m <= n /\ k = m + (k - m)
      BY <1>3, <1>5
    <3>. QED  BY <3>1
  <2>2. PICK w : w = [i \in 1 .. l |-> v[m + i]]
    OBVIOUS
  <2>3. w \in Seq(S) /\ Len(w) = l /\ \A i \in 1 .. l : w[i] = v[m + i]
    <3>1. \A i \in 1 .. l : m + i \in 1 .. k
      BY <2>1
    <3>2. \A i \in 1 .. l : v[m + i] \in S
      BY <1>2, <1>3, <3>1
    <3>. QED  BY <2>2, <3>2
  <2>4. Joined(S, v, x, w)
    <3>1. \A i \in 1 .. m : i \in 1 .. k
      BY <2>1
    <3>2. \A i \in 1 .. m : v[i] = x[i]
      BY <1>1, <1>2, <1>3, <3>1
    <3>. QED  BY <1>1, <1>2, <1>3, <2>1, <2>3, <3>2, JoinedWhere
  <2>5. IsCut(S, w, y)
    <3>1. ASSUME NEW i \in 1 .. l PROVE w[i] = y[i]
      <4>1. m + i \in 1 .. k /\ i \in 1 .. n
        BY <2>1
      <4>. QED  BY <1>1, <1>2, <1>3, <2>3, <4>1
    <3>. QED  BY <1>1, <1>2, <2>1, <2>3, <3>1 DEF IsCut
  <2>. QED  BY <2>4, <2>5
<1>. QED  BY <1>4, <1>5

(* The second part is what is left when the first one has been taken off.  *)
LEMMA BackIs ==
    ASSUME NEW S, NEW x, NEW y, NEW z, Joined(S, z, x, y), NEW v, IsPiece(v, z, Len(x) + 1, Len(z))
    PROVE  v = y
<1>1. /\ x \in Seq(S) /\ y \in Seq(S) /\ z \in Seq(S) /\ Len(z) = Len(x) + Len(y)
      /\ \A i \in 1 .. Len(y) : z[Len(x) + i] = y[i]
  BY JoinedElements
<1>2. PICK m \in Nat, n \in Nat : m = Len(x) /\ n = Len(y)
  BY <1>1
<1>3. SamePiece(S, z, y, m, 1, n)
  BY <1>1, <1>2 DEF SamePiece
<1>4. IsPiece(v, z, m + 1, m + n)
  BY <1>1, <1>2
<1>5. PICK w : IsPiece(w, y, 1, n)
  BY DEF IsPiece
<1>6. v = w
  BY <1>3, <1>4, <1>5, EqualPieces
<1>7. IsCut(S, w, y) /\ Len(w) = n
  <2>1. n \in 0 .. Len(y)
    BY <1>2
  <2>. QED  BY <1>1, <1>5, <2>1, CutIs
<1>. QED  BY <1>2, <1>6, <1>7, CutOfWhole

-----------------------------------------------------------------------------
(* Sequences that are joined are flattened one by one.                     *)

(* Values of f are the concatenations of the first sequences.              *)
IsFlat(f, T, ss, n) ==
    /\ f \in [0 .. n -> Seq(T)] /\ f[0] = <<>>
    /\ \A i \in 1 .. n : f[i] = f[i - 1] \o ss[i]

AreJoined(z, x, y) == z = x \o y

MayFollow(s, f, T, ss, n) == n \in Nat /\ s \in Seq(T) /\ s = ss[n + 1] /\ IsFlat(f, T, ss, n)

LEMMA FlatNext ==
    ASSUME NEW T, NEW ss, NEW n, NEW s, NEW f, MayFollow(s, f, T, ss, n)
    PROVE  \E g : IsFlat(g, T, ss, n + 1) /\ AreJoined(g[n + 1], f[n], s)
<1>0. n \in Nat /\ s \in Seq(T) /\ s = ss[n + 1] /\ IsFlat(f, T, ss, n)
  BY DEF MayFollow
<1>1. /\ f \in [0 .. n -> Seq(T)] /\ f[0] = <<>>
      /\ \A i \in 1 .. n : f[i] = f[i - 1] \o ss[i]
  BY <1>0 DEF IsFlat
<1>2. PICK x \in Seq(T) : x = f[n] \o s
  <2>1. f[n] \in Seq(T)
    BY <1>0, <1>1
  <2>. QED  BY <1>0, <2>1, ConcatProperties
<1>. DEFINE g == [i \in 0 .. n + 1 |-> IF i = n + 1 THEN x ELSE f[i]]
<1>3. g \in [0 .. n + 1 -> Seq(T)]
  <2>1. ASSUME NEW i \in 0 .. n + 1 PROVE (IF i = n + 1 THEN x ELSE f[i]) \in Seq(T)
    <3>1. i # n + 1 => i \in 0 .. n
      BY <1>0
    <3>. QED  BY <1>1, <3>1
  <2>. QED  BY <2>1
<1>4. g[n + 1] = x /\ \A i \in 0 .. n : g[i] = f[i]
  BY <1>0
<1>. HIDE DEF g
<1>5. ASSUME NEW i \in 1 .. n + 1 PROVE g[i] = g[i - 1] \o ss[i]
  <2>1. CASE i = n + 1
    <3>1. i - 1 = n /\ n \in 0 .. n
      BY <1>0, <2>1
    <3>. QED  BY <1>0, <1>2, <1>4, <2>1, <3>1
  <2>2. CASE i # n + 1
    <3>1. i \in 1 .. n /\ i \in 0 .. n /\ i - 1 \in 0 .. n
      BY <1>0, <2>2
    <3>. QED  BY <1>1, <1>4, <3>1
  <2>. QED  BY <2>1, <2>2
<1>6. g[0] = <<>>
  BY <1>0, <1>1, <1>4
<1>7. IsFlat(g, T, ss, n + 1)
  BY <1>3, <1>5, <1>6 DEF IsFlat
<1>8. g[n + 1] = f[n] \o s
  BY <1>2, <1>4
<1>. QED  BY <1>7, <1>8 DEF AreJoined

AreSeqs(ss, T, n) == ss \in Seq(Seq(T)) /\ n = Len(ss)

LEMMA FlattenFunction ==
    ASSUME NEW T, NEW ss, NEW n, AreSeqs(ss, T, n)
    PROVE  \E f : IsFlat(f, T, ss, n) /\ FlattenSeq(ss) = f[n]
<1>0. ss \in Seq(Seq(T)) /\ n = Len(ss)
  BY DEF AreSeqs
<1>. DEFINE I == {p \in Nat \X Seq(T) : \E f : IsFlat(f, T, ss, p[1]) /\ f[p[1]] = p[2]}
<1>1. <<0, <<>>>> \in I
  <2>1. PICK nil \in Seq(T) : nil = <<>>
    BY EmptySeq
  <2>2. PICK f : f = [i \in 0 .. 0 |-> nil]
    OBVIOUS
  <2>3. IsFlat(f, T, ss, 0) /\ f[0] = nil
    BY <2>1, <2>2 DEF IsFlat
  <2>4. <<0, nil>> \in I
    BY <2>3
  <2>. QED  BY <2>1, <2>4, Zenon
<1>2. ASSUME NEW i \in 1 .. Len(ss), NEW x \in Seq(T), <<i - 1, x>> \in I
      PROVE  <<i, x \o ss[i]>> \in I
  <2>1. PICK k \in Nat : k = i - 1 /\ k + 1 = i /\ i \in Nat
    OBVIOUS
  <2>2. PICK s \in Seq(T) : s = ss[i]
    BY <1>0
  <2>3. PICK f : IsFlat(f, T, ss, k) /\ f[k] = x
    BY <1>2, <2>1
  <2>4. PICK g : IsFlat(g, T, ss, k + 1) /\ AreJoined(g[k + 1], f[k], s)
    <3>1. s = ss[k + 1]
      BY <2>1, <2>2
    <3>2. MayFollow(s, f, T, ss, k)
      BY <2>3, <3>1 DEF MayFollow
    <3>. HIDE DEF I
    <3>. QED  BY <3>2, FlatNext, Zenon
  <2>5. x \o s \in Seq(T)
    BY ConcatProperties
  <2>6. g[k + 1] = x \o s
    BY <2>3, <2>4 DEF AreJoined
  <2>. QED  BY <2>1, <2>2, <2>4, <2>5, <2>6
<1>3. <<Len(ss), FlattenSeq(ss)>> \in I
  <2>. HIDE DEF I
  <2>. QED  BY <1>0, <1>1, <1>2, FlattenInvariant
<1>. QED  BY <1>0, <1>3

LEMMA FlattenConcat ==
    ASSUME NEW T, NEW ss \in Seq(Seq(T)), NEW tt \in Seq(Seq(T))
    PROVE  FlattenSeq(ss \o tt) = FlattenSeq(ss) \o FlattenSeq(tt)
<1>1. PICK U : U = Seq(T)
  OBVIOUS
<1>2. PICK m \in Nat, n \in Nat, uu \in Seq(U) :
         /\ m = Len(ss) /\ n = Len(tt) /\ uu = ss \o tt /\ Len(uu) = m + n
         /\ \A i \in 1 .. m : uu[i] = ss[i]
         /\ \A i \in 1 .. n : uu[m + i] = tt[i]
  <2>1. /\ ss \o tt \in Seq(U) /\ Len(ss \o tt) = Len(ss) + Len(tt)
        /\ \A i \in 1 .. Len(ss) + Len(tt) :
              (ss \o tt)[i] = IF i <= Len(ss) THEN ss[i] ELSE tt[i - Len(ss)]
    BY <1>1, ConcatProperties
  <2>2. PICK m \in Nat, n \in Nat, uu \in Seq(U) : m = Len(ss) /\ n = Len(tt) /\ uu = ss \o tt
    <3>1. Len(ss) \in Nat /\ Len(tt) \in Nat
      OBVIOUS
    <3>. QED  BY <2>1, <3>1, Zenon
  <2>3. \A i \in 1 .. m + n : uu[i] = IF i <= m THEN ss[i] ELSE tt[i - m]
    BY <2>1, <2>2
  <2>4. Len(uu) = m + n
    BY <2>1, <2>2
  <2>5. ASSUME NEW i \in 1 .. m PROVE uu[i] = ss[i]
    BY <2>3
  <2>6. ASSUME NEW i \in 1 .. n PROVE uu[m + i] = tt[i]
    <3>1. m + i \in 1 .. m + n /\ ~(m + i <= m) /\ (m + i) - m = i
      OBVIOUS
    <3>. QED  BY <2>3, <3>1
  <2>. QED  BY <2>2, <2>4, <2>5, <2>6
<1>3. PICK g : IsFlat(g, T, ss, m) /\ FlattenSeq(ss) = g[m]
  <2>1. AreSeqs(ss, T, m)
    BY <1>2 DEF AreSeqs
  <2>. QED  BY <2>1, FlattenFunction
<1>4. PICK h : IsFlat(h, T, tt, n) /\ FlattenSeq(tt) = h[n]
  <2>1. AreSeqs(tt, T, n)
    BY <1>2 DEF AreSeqs
  <2>. QED  BY <2>1, FlattenFunction
<1>5. PICK f : IsFlat(f, T, uu, m + n) /\ FlattenSeq(uu) = f[m + n]
  <2>1. AreSeqs(uu, T, m + n)
    BY <1>1, <1>2, Zenon DEF AreSeqs
  <2>. QED  BY <2>1, FlattenFunction
<1>. DEFINE K == {i \in Nat : i <= m => f[i] = g[i]}
            L == {i \in Nat : i <= n => AreJoined(f[m + i], g[m], h[i])}
<1>6. \A i \in Nat : i \in K
  <2>1. 0 \in K
    BY <1>3, <1>5 DEF IsFlat
  <2>2. ASSUME NEW i \in Nat, i \in K PROVE i + 1 \in K
    <3>. SUFFICES ASSUME i + 1 <= m PROVE f[i + 1] = g[i + 1]
      OBVIOUS
    <3>1. i + 1 \in 1 .. m /\ i + 1 \in 1 .. m + n /\ (i + 1) - 1 = i
      OBVIOUS
    <3>2. f[i + 1] = f[i] \o uu[i + 1]
      BY <1>5, <3>1 DEF IsFlat
    <3>3. g[i + 1] = g[i] \o ss[i + 1]
      BY <1>3, <3>1 DEF IsFlat
    <3>4. f[i] = g[i] /\ uu[i + 1] = ss[i + 1]
      BY <1>2, <2>2, <3>1
    <3>. QED  BY <3>2, <3>3, <3>4
  <2>. HIDE DEF K
  <2>. QED  BY <2>1, <2>2, Induction
<1>7. f[m] = g[m]
  BY <1>6
<1>8. \A i \in Nat : i \in L
  <2>0. g[m] \in Seq(T) /\ \A i \in 0 .. n : h[i] \in Seq(T)
    BY <1>3, <1>4 DEF IsFlat
  <2>1. 0 \in L
    <3>1. h[0] = <<>> /\ m + 0 = m
      BY <1>4 DEF IsFlat
    <3>2. g[m] \o <<>> = g[m]
      BY <2>0
    <3>. QED  BY <1>7, <3>1, <3>2, Zenon DEF AreJoined
  <2>2. ASSUME NEW i \in Nat, i \in L PROVE i + 1 \in L
    <3>. SUFFICES ASSUME i + 1 <= n PROVE AreJoined(f[m + (i + 1)], g[m], h[i + 1])
      OBVIOUS
    <3>1. /\ i + 1 \in 1 .. n /\ m + (i + 1) \in 1 .. m + n /\ (m + (i + 1)) - 1 = m + i
          /\ i \in 0 .. n /\ (i + 1) - 1 = i
      OBVIOUS
    <3>2. f[m + (i + 1)] = f[m + i] \o uu[m + (i + 1)]
      BY <1>5, <3>1 DEF IsFlat
    <3>3. h[i + 1] = h[i] \o tt[i + 1]
      BY <1>4, <3>1 DEF IsFlat
    <3>4. f[m + i] = g[m] \o h[i] /\ uu[m + (i + 1)] = tt[i + 1]
      <4>1. AreJoined(f[m + i], g[m], h[i])
        BY <2>2, <3>1
      <4>. QED  BY <1>2, <3>1, <4>1 DEF AreJoined
    <3>5. PICK x \in Seq(T), y \in Seq(T), z \in Seq(T) : x = g[m] /\ y = h[i] /\ z = tt[i + 1]
      BY <1>2, <2>0, <3>1
    <3>6. (x \o y) \o z = x \o (y \o z)
      OBVIOUS
    <3>. QED  BY <3>2, <3>3, <3>4, <3>5, <3>6, Zenon DEF AreJoined
  <2>. HIDE DEF L
  <2>. QED  BY <2>1, <2>2, Induction
<1>9. f[m + n] = g[m] \o h[n]
  <2>1. AreJoined(f[m + n], g[m], h[n])
    BY <1>8
  <2>. QED  BY <2>1 DEF AreJoined
<1>. QED  BY <1>2, <1>3, <1>4, <1>5, <1>9

LEMMA FlattenNone ==
    FlattenSeq(<<>>) = <<>>
<1>1. PICK T : T = {}
  OBVIOUS
<1>2. <<>> \in Seq(Seq(T)) /\ Len(<<>>) = 0 /\ 0 \in Nat
  OBVIOUS
<1>3. PICK f : IsFlat(f, T, <<>>, 0) /\ FlattenSeq(<<>>) = f[0]
  <2>1. AreSeqs(<<>>, T, 0)
    BY <1>2 DEF AreSeqs
  <2>. QED  BY <2>1, FlattenFunction
<1>. QED  BY <1>3 DEF IsFlat

LEMMA FlattenOne ==
    ASSUME NEW T, NEW s, s \in Seq(T)
    PROVE  FlattenSeq(<<s>>) = s
<1>1. PICK ss : ss = <<s>>
  OBVIOUS
<1>2. ss \in Seq(Seq(T)) /\ Len(ss) = 1 /\ ss[1] = s
  BY <1>1, OneElement
<1>3. PICK f : IsFlat(f, T, ss, 1) /\ FlattenSeq(ss) = f[1]
  <2>1. AreSeqs(ss, T, 1)
    BY <1>2 DEF AreSeqs
  <2>. QED  BY <2>1, FlattenFunction
<1>4. f[1] = <<>> \o s
  <2>1. 1 \in 1 .. 1 /\ 1 - 1 = 0
    OBVIOUS
  <2>2. f[1] = f[1 - 1] \o ss[1] /\ f[0] = <<>>
    BY <1>3, <2>1 DEF IsFlat
  <2>. QED  BY <1>2, <2>1, <2>2
<1>5. <<>> \o s = s
  OBVIOUS
<1>. QED  BY <1>1, <1>3, <1>4, <1>5

(* What is left of options that are all the same.                          *)
AreOptions(ss, T, c) ==
    /\ ss \in Seq(Seq(T)) /\ c \in T
    /\ \A i \in 1 .. Len(ss) : ss[i] = <<>> \/ ss[i] = <<c>>

AreAll(x, T, c) == x \in Seq(T) /\ \A j \in 1 .. Len(x) : x[j] = c

LEMMA FlatOptions ==
    ASSUME NEW T, NEW ss, NEW c, AreOptions(ss, T, c)
    PROVE  /\ AreAll(FlattenSeq(ss), T, c)
           /\ FlattenSeq(ss) # <<>> <=> \E i \in 1 .. Len(ss) : ss[i] = <<c>>
<1>0. /\ ss \in Seq(Seq(T)) /\ c \in T
      /\ \A i \in 1 .. Len(ss) : ss[i] = <<>> \/ ss[i] = <<c>>
  BY DEF AreOptions
<1>1. PICK o : o = <<c>> /\ o \in Seq(T) /\ o # <<>> /\ o[1] = c /\ Len(o) = 1
  <2>1. <<c>> \in Seq(T) /\ <<c>> # <<>> /\ <<c>>[1] = c /\ Len(<<c>>) = 1
    BY <1>0, OneElement
  <2>. QED  BY <2>1
<1>2. PICK n \in Nat : n = Len(ss)
  BY <1>0
<1>3. \A i \in 1 .. n : ss[i] = <<>> \/ ss[i] = o
  BY <1>0, <1>1, <1>2
<1>4. \A i \in 1 .. Len(ss) : Len(ss[i]) <= 1
  <2>1. Len(<<>>) = 0
    OBVIOUS
  <2>2. \A i \in 1 .. n : Len(ss[i]) = 0 \/ Len(ss[i]) = 1
    BY <1>1, <1>3, <2>1, Zenon
  <2>2a. 0 <= 1 /\ 1 <= 1
    OBVIOUS
  <2>3. \A i \in 1 .. n : Len(ss[i]) <= 1
    BY <2>2, <2>2a, Zenon
  <2>. QED  BY <1>2, <2>3
<1>5. PICK x, e : x = FlattenSeq(ss) /\ x \in Seq(T) /\ ComeFrom(e, x, ss, n)
  <2>1. FlattenSeq(ss) \in Seq(T) /\ \E e : ComeFrom(e, FlattenSeq(ss), ss, Len(ss))
    BY <1>0, <1>4, FlattenOptions
  <2>. QED  BY <1>2, <2>1
<1>6. PICK k \in Nat : k = Len(x)
  BY <1>5
<1>7. /\ e \in [1 .. k -> 1 .. n]
      /\ \A j \in 1 .. k : ss[e[j]] = <<x[j]>>
      /\ \A i \in 1 .. n : ss[i] # <<>> => \E j \in 1 .. k : e[j] = i
  BY <1>5, <1>6 DEF ComeFrom
<1>8. ASSUME NEW j \in 1 .. k PROVE x[j] = c
  <2>1. e[j] \in 1 .. n /\ ss[e[j]] = <<x[j]>> /\ x[j] \in T
    BY <1>5, <1>6, <1>7
  <2>2. <<x[j]>> # <<>> /\ <<x[j]>>[1] = x[j]
    OBVIOUS
  <2>3. <<x[j]>> = o
    BY <1>3, <2>1, <2>2
  <2>. QED  BY <1>1, <2>2, <2>3
<1>9. ASSUME NEW i \in 1 .. n, ss[i] = o PROVE k # 0
  <2>1. ss[i] # <<>>
    BY <1>1, <1>9
  <2>2. PICK j \in 1 .. k : e[j] = i
    BY <1>7, <2>1
  <2>. QED  BY <2>2
<1>10. ASSUME k # 0 PROVE \E i \in 1 .. n : ss[i] = o
  <2>1. 1 \in 1 .. k
    BY <1>10
  <2>2. e[1] \in 1 .. n /\ ss[e[1]] = <<x[1]>> /\ x[1] = c
    BY <1>7, <1>8, <2>1
  <2>. QED  BY <1>1, <2>2
<1>11. x # <<>> <=> k # 0
  BY <1>5, <1>6, EmptySeq
<1>12. AreAll(x, T, c)
  BY <1>5, <1>6, <1>8 DEF AreAll
<1>. QED  BY <1>1, <1>2, <1>5, <1>9, <1>10, <1>11, <1>12
=============================================================================
