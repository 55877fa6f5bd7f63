----------------------------- MODULE DataLemmas -----------------------------
(***************************************************************************)
(* Lemmas about the operators of the community modules that the models use:  *)
(* concatenating a sequence of sequences, mapping a sequence, and summing     *)
(* over a finite set.  They hold by induction, which is the minimum          *)
(* principle on Nat applied to the set of the numbers that a claim holds of. *)
(***************************************************************************)
EXTENDS Integers, SequencesExt, FiniteSetTheorems, SequenceTheorems,
        WellFoundedInduction, TLAPS

-----------------------------------------------------------------------------
(* Natural numbers                                                         *)

\* A non-empty set of naturals has a least element (library: < on Nat is
\* well-founded).
LEMMA LeastNatural ==
    ASSUME NEW T \in SUBSET Nat, T # {}
    PROVE  \E x \in T : \A y \in T : x <= y
<1>1. PICK x \in T : \A y \in T : ~ (<<y, x>> \in OpToRel(<, Nat))
  BY NatLessThanWellFounded, WFMin
<1>2. \A y \in T : ~ (y < x)
  BY <1>1 DEF OpToRel
<1>3. \A y \in T : x <= y
  BY <1>2
<1>. QED
  BY <1>3

\* A set that holds 1, and with each number below n the next, holds 1..n.
LEMMA CountUp ==
    ASSUME NEW n \in Nat, NEW T, n > 0 => 1 \in T,
           \A i \in 2..n : i - 1 \in T => i \in T
    PROVE  1..n \subseteq T
<1>. DEFINE Others == (1..n) \ T
<1>1. SUFFICES ASSUME Others # {} PROVE FALSE
  OBVIOUS
<1>2. Others \in SUBSET Nat
  OBVIOUS
<1>3. PICK m \in Others : \A y \in Others : m <= y
  BY <1>1, <1>2, LeastNatural
<1>4. m \in 2..n /\ m - 1 \in 1..n
  BY <1>3
<1>5. m - 1 \in T
  BY <1>3, <1>4
<1>. QED
  BY <1>3, <1>4, <1>5

-----------------------------------------------------------------------------
(* FlattenSeq                                                              *)

\* The function by which FlattenSeq is defined: f[i] is the concatenation of the
\* first i sequences of s.
IsFlattening(f, s, n) ==
    f = [i \in 1..n |-> IF i = 1 THEN s[i] ELSE f[i - 1] \o s[i]]

\* Such a function exists: its first n values for every n.
LEMMA FlatteningExists ==
    ASSUME NEW s, NEW n \in Nat
    PROVE  \E f : IsFlattening(f, s, n)
<1>. DEFINE T == {m \in Nat : \E f : IsFlattening(f, s, m)}
<1>1. 0 \in T
  <2>1. 1..0 = {}
    OBVIOUS
  <2>2. IsFlattening([i \in 1..0 |-> 0], s, 0)
    BY <2>1 DEF IsFlattening
  <2>. QED
    BY <2>2
<1>2. 1 \in T
  <2>1. IsFlattening([i \in 1..1 |-> s[i]], s, 1)
    BY DEF IsFlattening
  <2>. QED
    BY <2>1
<1>3. ASSUME NEW m \in 2..n, m - 1 \in T PROVE m \in T
  <2>1. PICK f : IsFlattening(f, s, m - 1)
    BY <1>3
  <2>. DEFINE g == [i \in 1..m |-> IF i < m THEN f[i] ELSE f[m - 1] \o s[m]]
  <2>2. \A i \in 1..(m - 1) : f[i] = IF i = 1 THEN s[i] ELSE f[i - 1] \o s[i]
    BY <2>1 DEF IsFlattening
  <2>3. \A i \in 1..m : g[i] = IF i = 1 THEN s[i] ELSE g[i - 1] \o s[i]
    <3>. TAKE i \in 1..m
    <3>1. CASE i = 1
      BY <2>2, <3>1
    <3>2. CASE i \in 2..m
      <4>1. i - 1 \in 1..m /\ i - 1 < m
        BY <3>2
      <4>2. g[i - 1] = f[i - 1]
        BY <4>1
      <4>3. CASE i = m
        BY <3>2, <4>2, <4>3
      <4>4. CASE i < m
        <5>1. i \in 1..(m - 1) /\ i # 1
          BY <3>2, <4>4
        <5>. QED
          BY <5>1, <2>2, <4>2, <4>4
      <4>. QED
        BY <3>2, <4>3, <4>4
    <3>. QED
      BY <3>1, <3>2
  <2>4. IsFlattening(g, s, m)
    BY <2>3 DEF IsFlattening
  <2>. QED
    BY <2>4
<1>4. 1..n \subseteq T
  <2>. HIDE DEF T
  <2>. QED
    BY <1>2, <1>3, CountUp
<1>. QED
  BY <1>1, <1>4

\* What FlattenSeq is by that function.
LEMMA FlattenByFlattening ==
    ASSUME NEW S, NEW s \in Seq(Seq(S))
    PROVE  \E f : /\ \A i \in 1..Len(s) : f[i] \in Seq(S)
                  /\ Len(s) > 0 => f[1] = s[1]
                  /\ \A i \in 2..Len(s) : f[i] = f[i - 1] \o s[i]
                  /\ FlattenSeq(s) = IF s = << >> THEN << >> ELSE f[Len(s)]
<1>. DEFINE f == CHOOSE g : g = [i \in 1..Len(s) |-> IF i = 1 THEN s[i] ELSE g[i - 1] \o s[i]]
<1>1. Len(s) \in Nat
  BY LenProperties
<1>2. f = [i \in 1..Len(s) |-> IF i = 1 THEN s[i] ELSE f[i - 1] \o s[i]]
  BY <1>1, FlatteningExists DEF IsFlattening
<1>3. s # << >> => FlattenSeq(s) = f[Len(s)]
  BY EmptySeq DEF FlattenSeq
<1>4. s = << >> => FlattenSeq(s) = << >>
  BY EmptySeq DEF FlattenSeq
<1>. HIDE DEF f
<1>5. Len(s) > 0 => f[1] = s[1]
  BY <1>1, <1>2
<1>6. \A i \in 2..Len(s) : f[i] = f[i - 1] \o s[i]
  <2>. TAKE i \in 2..Len(s)
  <2>1. i \in 1..Len(s) /\ i # 1
    BY <1>1
  <2>. QED
    BY <1>2, <2>1
<1>. DEFINE T == {i \in 1..Len(s) : f[i] \in Seq(S)}
<1>7. 1..Len(s) \subseteq T
  <2>1. Len(s) > 0 => 1 \in T
    BY <1>1, <1>5, ElementOfSeq
  <2>2. ASSUME NEW i \in 2..Len(s), i - 1 \in T PROVE i \in T
    <3>1. f[i - 1] \in Seq(S) /\ i \in 1..Len(s)
      BY <1>1, <2>2
    <3>2. s[i] \in Seq(S)
      BY <3>1, ElementOfSeq
    <3>3. f[i] = f[i - 1] \o s[i]
      BY <1>6
    <3>. QED
      BY <3>1, <3>2, <3>3, ConcatProperties
  <2>. HIDE DEF T
  <2>. QED
    BY <1>1, <2>1, <2>2, CountUp
<1>. QED
  BY <1>3, <1>4, <1>5, <1>6, <1>7

\* Appending a sequence to a sequence of sequences appends its elements to their
\* concatenation.
LEMMA FlattenAppend ==
    ASSUME NEW S, NEW s \in Seq(Seq(S)), NEW t \in Seq(S)
    PROVE  /\ FlattenSeq(s) \in Seq(S)
           /\ FlattenSeq(Append(s, t)) = FlattenSeq(s) \o t
<1>. DEFINE n == Len(s)
            u == Append(s, t)
<1>1. n \in Nat /\ u \in Seq(Seq(S)) /\ Len(u) = n + 1 /\ u # << >>
      /\ u[n + 1] = t /\ \A i \in 1..n : u[i] = s[i]
  BY LenProperties, AppendProperties
<1>2. n > 0 <=> s # << >>
  BY EmptySeq
<1>3. PICK f : /\ \A i \in 1..n : f[i] \in Seq(S)
               /\ n > 0 => f[1] = s[1]
               /\ \A i \in 2..n : f[i] = f[i - 1] \o s[i]
               /\ FlattenSeq(s) = IF s = << >> THEN << >> ELSE f[n]
  BY FlattenByFlattening
<1>. HIDE DEF n, u
<1>4. PICK g : /\ \A i \in 1..Len(u) : g[i] \in Seq(S)
               /\ Len(u) > 0 => g[1] = u[1]
               /\ \A i \in 2..Len(u) : g[i] = g[i - 1] \o u[i]
               /\ FlattenSeq(u) = IF u = << >> THEN << >> ELSE g[Len(u)]
  BY <1>1, FlattenByFlattening
<1>5. /\ g[1] = u[1] /\ FlattenSeq(u) = g[n + 1]
      /\ \A i \in 2..(n + 1) : g[i] = g[i - 1] \o u[i]
  <2>1. Len(u) > 0 /\ u # << >> /\ Len(u) = n + 1
    BY <1>1
  <2>2. FlattenSeq(u) = g[Len(u)]
    BY <1>4, <2>1
  <2>3. FlattenSeq(u) = g[n + 1]
    BY <2>1, <2>2, Zenon
  <2>4. \A i \in 2..Len(u) : g[i] = g[i - 1] \o u[i]
    BY <1>4
  <2>5. \A i \in 2..(n + 1) : g[i] = g[i - 1] \o u[i]
    BY <2>1, <2>4, Zenon
  <2>. QED
    BY <1>4, <2>1, <2>3, <2>5, Zenon
<1>. DEFINE T == {i \in 1..n : f[i] = g[i]}
<1>6. 1..n \subseteq T
  <2>1. n > 0 => 1 \in T
    BY <1>1, <1>3, <1>5
  <2>2. ASSUME NEW i \in 2..n, i - 1 \in T PROVE i \in T
    <3>1. i \in 2..(n + 1) /\ i \in 1..n
      BY <1>1
    <3>. QED
      BY <1>1, <1>3, <1>5, <2>2, <3>1
  <2>. HIDE DEF T
  <2>. QED
    BY <1>1, <2>1, <2>2, CountUp
<1>7. CASE n = 0
  <2>1. s = << >> /\ g[1] = t
    BY <1>1, <1>2, <1>5, <1>7
  <2>. QED
    BY <1>3, <1>5, <1>7, <2>1, ConcatEmptySeq, EmptySeq DEF u
<1>8. CASE n > 0
  <2>1. n \in 1..n /\ n + 1 \in 2..(n + 1) /\ (n + 1) - 1 = n
    BY <1>1, <1>8
  <2>2. f[n] = g[n] /\ FlattenSeq(s) = f[n] /\ f[n] \in Seq(S)
    BY <1>2, <1>3, <1>6, <1>8, <2>1
  <2>3. g[n + 1] = g[n] \o u[n + 1]
    BY <1>5, <2>1
  <2>. QED
    BY <1>1, <1>5, <2>2, <2>3 DEF u
<1>. QED
  BY <1>1, <1>7, <1>8

\* The concatenation of two sequences.
LEMMA FlattenPair ==
    ASSUME NEW S, NEW s \in Seq(S), NEW t \in Seq(S)
    PROVE  FlattenSeq(<<s, t>>) = s \o t
<1>. DEFINE U == Seq(S)
<1>1. << >> \in Seq(U) /\ <<s>> = Append(<< >>, s) /\ <<s>> \in Seq(U)
      /\ <<s, t>> = Append(<<s>>, t)
  OBVIOUS
<1>2. FlattenSeq(<< >>) = << >>
  BY DEF FlattenSeq
<1>3. FlattenSeq(<<s>>) = << >> \o s
  BY <1>1, <1>2, FlattenAppend
<1>4. FlattenSeq(<<s, t>>) = FlattenSeq(<<s>>) \o t
  BY <1>1, FlattenAppend
<1>. QED
  BY <1>3, <1>4, ConcatEmptySeq

\* If all the sequences are empty, so is their concatenation.
LEMMA FlattenNothing ==
    ASSUME NEW S, NEW s \in Seq(Seq(S)), \A i \in 1..Len(s) : s[i] = << >>
    PROVE  FlattenSeq(s) = << >>
<1>1. PICK f : /\ Len(s) > 0 => f[1] = s[1]
               /\ \A i \in 2..Len(s) : f[i] = f[i - 1] \o s[i]
               /\ FlattenSeq(s) = IF s = << >> THEN << >> ELSE f[Len(s)]
  BY FlattenByFlattening
<1>2. Len(s) \in Nat /\ (s = << >> <=> Len(s) = 0)
  BY LenProperties, EmptySeq
<1>. DEFINE T == {i \in 1..Len(s) : f[i] = << >>}
<1>3. 1..Len(s) \subseteq T
  <2>1. Len(s) > 0 => 1 \in T
    BY <1>1, <1>2
  <2>2. ASSUME NEW i \in 2..Len(s), i - 1 \in T PROVE i \in T
    <3>1. i \in 1..Len(s) /\ << >> \in Seq(S)
      BY <1>2, EmptySeq
    <3>2. f[i] = << >> \o << >>
      BY <1>1, <2>2, <3>1
    <3>. QED
      BY <3>1, <3>2, ConcatEmptySeq
  <2>. HIDE DEF T
  <2>. QED
    BY <1>2, <2>1, <2>2, CountUp
<1>. QED
  BY <1>1, <1>2, <1>3

\* Sequences of at most one element each: h says which of the first n of them each
\* element of t is the one of.
Origins(h, t, s, n) ==
    /\ h \in [1..Len(t) -> 1..n]
    /\ \A k \in 1..Len(t) : s[h[k]] = <<t[k]>>
    /\ \A k, l \in 1..Len(t) : h[k] = h[l] => k = l
    /\ \A i \in 1..n : s[i] # << >> => \E k \in 1..Len(t) : h[k] = i

\* One such sequence more.
LEMMA OriginsAppend ==
    ASSUME NEW S, NEW t \in Seq(S), NEW s, NEW n \in Nat, NEW h, Origins(h, t, s, n),
           s[n + 1] = << >> \/ \E x \in S : s[n + 1] = <<x>>
    PROVE  \E g : Origins(g, t \o s[n + 1], s, n + 1)
<1>. DEFINE len == Len(t)
<1>0. len \in Nat
  BY LenProperties
<1>1. CASE s[n + 1] = << >>
  <2>1. t \o s[n + 1] = t
    BY <1>1, ConcatEmptySeq
  <2>2. Origins(h, t, s, n + 1)
    <3>1. h \in [1..Len(t) -> 1..(n + 1)]
      BY DEF Origins
    <3>2. \A i \in 1..(n + 1) : s[i] # << >> => i \in 1..n
      BY <1>1
    <3>. QED
      BY <3>1, <3>2 DEF Origins
  <2>. QED
    BY <2>1, <2>2
<1>2. ASSUME NEW x \in S, s[n + 1] = <<x>>
      PROVE  \E g : Origins(g, t \o s[n + 1], s, n + 1)
  <2>. DEFINE u == t \o <<x>>
              g == [k \in 1..(len + 1) |-> IF k \in 1..len THEN h[k] ELSE n + 1]
  <2>1. /\ Len(u) = len + 1
        /\ \A k \in 1..len : u[k] = t[k]
        /\ u[len + 1] = x
    BY <1>0
  <2>. HIDE DEF u
  <2>2. /\ h \in [1..len -> 1..n]
        /\ \A k \in 1..len : g[k] = h[k] /\ g[k] \in 1..n
        /\ g[len + 1] = n + 1
    <3>1. h \in [1..len -> 1..n]
      BY DEF Origins
    <3>2. /\ len + 1 \in 1..(len + 1) /\ len + 1 \notin 1..len
          /\ \A k \in 1..len : k \in 1..(len + 1)
      BY <1>0
    <3>3. \A k \in 1..len : g[k] = h[k]
      BY <3>2
    <3>4. \A k \in 1..len : h[k] \in 1..n
      BY <3>1
    <3>5. g[len + 1] = n + 1
      BY <3>2
    <3>. QED
      BY <3>1, <3>3, <3>4, <3>5
  <2>3. g \in [1..(len + 1) -> 1..(n + 1)]
    BY <2>2
  <2>. HIDE DEF g
  <2>4. ASSUME NEW k \in 1..(len + 1)
        PROVE  s[g[k]] = <<u[k]>>
    <3>1. CASE k \in 1..len
      BY <2>1, <2>2, <3>1 DEF Origins
    <3>2. CASE k = len + 1
      BY <1>2, <2>1, <2>2, <3>2
    <3>. QED
      BY <1>0, <3>1, <3>2
  <2>5. ASSUME NEW k \in 1..(len + 1), NEW l \in 1..(len + 1), g[k] = g[l]
        PROVE  k = l
    <3>1. \A m \in 1..(len + 1) : m \in 1..len \/ m = len + 1
      BY <1>0
    <3>2. n + 1 \notin 1..n
      OBVIOUS
    <3>. QED
      BY <2>2, <2>5, <3>1, <3>2 DEF Origins
  <2>6. ASSUME NEW i \in 1..(n + 1), s[i] # << >>
        PROVE  \E k \in 1..(len + 1) : g[k] = i
    <3>1. CASE i = n + 1
      <4>1. len + 1 \in 1..(len + 1)
        BY <1>0
      <4>. QED
        BY <2>2, <3>1, <4>1
    <3>2. CASE i \in 1..n
      <4>1. PICK k \in 1..len : h[k] = i
        BY <2>6, <3>2 DEF Origins
      <4>. QED
        BY <1>0, <2>2, <4>1
    <3>. QED
      BY <3>1, <3>2
  <2>7. Origins(g, u, s, n + 1)
    BY <2>1, <2>3, <2>4, <2>5, <2>6 DEF Origins
  <2>. QED
    BY <1>2, <2>7 DEF u
<1>. QED
  BY <1>1, <1>2

\* Of sequences of at most one element each: every element of the concatenation is
\* the one of a sequence of its own, and none that is not empty is left out.
LEMMA FlattenSingles ==
    ASSUME NEW S, NEW s \in Seq(Seq(S)),
           \A i \in 1..Len(s) : s[i] = << >> \/ \E x \in S : s[i] = <<x>>
    PROVE  /\ FlattenSeq(s) \in Seq(S)
           /\ \E h : Origins(h, FlattenSeq(s), s, Len(s))
<1>1. PICK f : /\ \A i \in 1..Len(s) : f[i] \in Seq(S)
               /\ Len(s) > 0 => f[1] = s[1]
               /\ \A i \in 2..Len(s) : f[i] = f[i - 1] \o s[i]
               /\ FlattenSeq(s) = IF s = << >> THEN << >> ELSE f[Len(s)]
  BY FlattenByFlattening
<1>2. Len(s) \in Nat /\ (s = << >> <=> Len(s) = 0)
  BY LenProperties, EmptySeq
<1>3. << >> \in Seq(S) /\ Origins(<< >>, << >>, s, 0)
  BY EmptySeq DEF Origins
<1>. DEFINE T == {i \in 1..Len(s) : \E h : Origins(h, f[i], s, i)}
<1>4. 1..Len(s) \subseteq T
  <2>1. Len(s) > 0 => 1 \in T
    <3>. SUFFICES ASSUME Len(s) > 0 PROVE \E h : Origins(h, f[1], s, 1)
      BY <1>2
    <3>1. s[0 + 1] = << >> \/ \E x \in S : s[0 + 1] = <<x>>
      BY <1>2
    <3>2. \E h : Origins(h, << >> \o s[0 + 1], s, 0 + 1)
      BY <1>3, <3>1, OriginsAppend
    <3>3. << >> \o s[1] = f[1]
      BY <1>1, <1>2, ConcatEmptySeq, ElementOfSeq
    <3>. QED
      BY <3>2, <3>3
  <2>2. ASSUME NEW i \in 2..Len(s), i - 1 \in T PROVE i \in T
    <3>1. i \in 1..Len(s) /\ i - 1 \in Nat /\ i - 1 \in 1..Len(s) /\ (i - 1) + 1 = i
      BY <1>2
    <3>2. PICK h : Origins(h, f[i - 1], s, i - 1)
      BY <2>2
    <3>3. f[i - 1] \in Seq(S) /\ f[i] = f[i - 1] \o s[i]
      BY <1>1, <3>1
    <3>4. s[i] = << >> \/ \E x \in S : s[i] = <<x>>
      BY <3>1
    <3>5. \E g : Origins(g, f[i], s, i)
      BY <3>1, <3>2, <3>3, <3>4, OriginsAppend
    <3>. QED
      BY <3>1, <3>5
  <2>. HIDE DEF T
  <2>. QED
    BY <1>2, <2>1, <2>2, CountUp
<1>5. CASE s = << >>
  BY <1>1, <1>2, <1>3, <1>5
<1>6. CASE s # << >>
  <2>1. Len(s) \in 1..Len(s) /\ FlattenSeq(s) = f[Len(s)]
    BY <1>1, <1>2, <1>6
  <2>. QED
    BY <1>1, <1>4, <2>1
<1>. QED
  BY <1>5, <1>6

\* p maps S into T.
Maps(p, S, T) == p \in [S -> T]

\* p of every element of s.
Mapped(p, s) == [i \in DOMAIN s |-> p[s[i]]]

\* Mapping a sequence, one element more.
LEMMA MapAppend ==
    ASSUME NEW S, NEW T, NEW p, Maps(p, S, T), NEW s \in Seq(S), NEW x \in S
    PROVE  /\ Mapped(p, s) \in Seq(T)
           /\ Mapped(p, Append(s, x)) = Append(Mapped(p, s), p[x])
<1>. DEFINE n == Len(s)
            u == Append(s, x)
            m == [i \in 1..n |-> p[s[i]]]
<1>1. n \in Nat /\ DOMAIN s = 1..n /\ \A i \in 1..n : s[i] \in S
  BY LenProperties, ElementOfSeq
<1>2. u \in Seq(S) /\ DOMAIN u = 1..(n + 1) /\ u[n + 1] = x /\ \A i \in 1..n : u[i] = s[i]
  BY AppendProperties, LenProperties
<1>3. m \in Seq(T) /\ Len(m) = n
  BY <1>1 DEF Maps
<1>4. p[x] \in T
  BY DEF Maps
<1>. DEFINE v == Append(m, p[x])
            w == [i \in 1..(n + 1) |-> p[u[i]]]
<1>5. /\ v \in Seq(T) /\ Len(v) = n + 1 /\ v[n + 1] = p[x]
      /\ \A i \in 1..n : v[i] = m[i]
  BY <1>3, <1>4, AppendProperties
<1>. HIDE DEF n, u, v
<1>6. w \in Seq(T) /\ Len(w) = n + 1
  <2>1. \A i \in 1..(n + 1) : p[u[i]] \in T
    BY <1>1, <1>2 DEF Maps
  <2>. QED
    BY <1>1, <2>1
<1>7. \A i \in 1..(n + 1) : w[i] = v[i]
  <2>. TAKE i \in 1..(n + 1)
  <2>1. CASE i = n + 1
    BY <1>1, <1>2, <1>5, <2>1
  <2>2. CASE i \in 1..n
    BY <1>1, <1>2, <1>5, <2>2
  <2>. QED
    BY <1>1, <2>1, <2>2
<1>. HIDE DEF w, m
<1>8. w = v
  BY <1>5, <1>6, <1>7, SeqEqual
<1>9. Mapped(p, s) = m /\ Mapped(p, u) = w
  BY <1>1, <1>2 DEF Mapped, m, w
<1>. QED
  BY <1>3, <1>8, <1>9 DEF v, u

\* A sequence is a prefix of those that continue it, and of no others.
LEMMA PrefixContinues ==
    ASSUME NEW S, NEW s \in Seq(S), NEW t \in Seq(S)
    PROVE  IsPrefix(s, t) <=> \E u \in Seq(S) : t = s \o u
<1>1. Len(s) \in Nat /\ Len(t) \in Nat
  BY LenProperties
<1>2. ASSUME NEW u \in Seq(S), t = s \o u PROVE IsPrefix(s, t)
  <2>1. Len(t) = Len(s) + Len(u) /\ Len(u) \in Nat
    BY <1>2, ConcatProperties, LenProperties
  <2>2. SubSeq(t, 1, Len(s)) = SubSeq(s, 1, Len(s))
    BY <1>2, <2>1
  <2>. QED
    BY <1>1, <2>1, <2>2 DEF IsPrefix
<1>3. ASSUME IsPrefix(s, t) PROVE \E u \in Seq(S) : t = s \o u
  <2>1. Len(s) <= Len(t) /\ s = SubSeq(t, 1, Len(s))
    BY <1>3, SubSeqFull DEF IsPrefix
  <2>. DEFINE u == SubSeq(t, Len(s) + 1, Len(t))
  <2>2. u \in Seq(S)
    BY <1>1
  <2>3. SubSeq(t, 1, Len(s)) \o u = SubSeq(t, 1, Len(t))
    <3>1. /\ 1 \in 1..(Len(t) + 1) /\ Len(s) \in (1 - 1)..Len(t)
          /\ Len(t) \in Len(s)..Len(t)
      BY <1>1, <2>1
    <3>. QED
      BY <3>1, ConcatAdjacentSubSeq
  <2>4. SubSeq(t, 1, Len(t)) = t
    BY SubSeqFull
  <2>. QED
    BY <2>1, <2>2, <2>3, <2>4
<1>. QED
  BY <1>2, <1>3

\* Being a prefix is reflexive and transitive, and appending keeps it.
LEMMA PrefixOrder ==
    ASSUME NEW S, NEW s \in Seq(S), NEW t \in Seq(S), NEW u \in Seq(S)
    PROVE  /\ IsPrefix(s, s)
           /\ IsPrefix(s, t) /\ IsPrefix(t, u) => IsPrefix(s, u)
           /\ IsPrefix(s, s \o u)
<1>1. s = s \o << >> /\ << >> \in Seq(S)
  BY ConcatEmptySeq, EmptySeq
<1>2. ASSUME IsPrefix(s, t), IsPrefix(t, u) PROVE IsPrefix(s, u)
  <2>1. PICK v \in Seq(S) : t = s \o v
    BY <1>2, PrefixContinues
  <2>2. PICK w \in Seq(S) : u = t \o w
    BY <1>2, PrefixContinues
  <2>3. u = s \o (v \o w) /\ v \o w \in Seq(S)
    BY <2>1, <2>2, ConcatAssociative
  <2>. QED
    BY <2>3, PrefixContinues
<1>3. s \o u \in Seq(S)
  OBVIOUS
<1>. QED
  BY <1>1, <1>2, <1>3, PrefixContinues

-----------------------------------------------------------------------------
(* SumFunctionOnSet                                                        *)

\* The element that a fold takes out of s first.
Pick(s) == CHOOSE x \in s : TRUE

\* The function by which the sum of f over a set is defined, on the sets of U.
IsSumming(g, f, U) ==
    g = [s \in U |-> IF s = {} THEN 0 ELSE f[Pick(s)] + g[s \ {Pick(s)}]]

\* Taking an element out leaves one element fewer.
LEMMA PickRemoves ==
    ASSUME NEW s, IsFiniteSet(s), s # {}
    PROVE  /\ Pick(s) \in s
           /\ Cardinality(s) \in Nat \ {0}
           /\ \A x \in s : /\ IsFiniteSet(s \ {x})
                           /\ Cardinality(s \ {x}) = Cardinality(s) - 1
<1>1. Pick(s) \in s
  BY DEF Pick
<1>2. Cardinality(s) \in Nat /\ Cardinality(s) # 0
  BY FS_CardinalityType, FS_EmptySet
<1>. QED
  BY <1>1, <1>2, FS_RemoveElement

\* Such a function exists on the subsets of a finite set: on those with fewer
\* than m elements, for every m.
LEMMA SummingExists ==
    ASSUME NEW f, NEW S, IsFiniteSet(S)
    PROVE  \E g : IsSumming(g, f, SUBSET S)
<1>. DEFINE Small(m) == {s \in SUBSET S : Cardinality(s) < m}
            n == Cardinality(S) + 1
            T == {m \in Nat : \E g : IsSumming(g, f, Small(m))}
<1>1. \A s \in SUBSET S : IsFiniteSet(s) /\ Cardinality(s) \in Nat /\ Cardinality(s) < n
  BY FS_Subset, FS_CardinalityType
<1>2. n \in Nat
  BY FS_CardinalityType
<1>. HIDE DEF n
<1>3. 1 \in T
  <2>1. \A s \in Small(1) : s = {}
    BY <1>1, FS_EmptySet
  <2>2. IsSumming([s \in Small(1) |-> 0], f, Small(1))
    BY <2>1 DEF IsSumming
  <2>. QED
    BY <2>2
<1>4. ASSUME NEW m \in 2..n, m - 1 \in T PROVE m \in T
  <2>1. PICK g : IsSumming(g, f, Small(m - 1))
    BY <1>4
  <2>2. \A s \in Small(m - 1) :
           g[s] = IF s = {} THEN 0 ELSE f[Pick(s)] + g[s \ {Pick(s)}]
    BY <2>1 DEF IsSumming
  <2>. DEFINE h == [s \in Small(m) |-> IF s = {} THEN 0 ELSE f[Pick(s)] + g[s \ {Pick(s)}]]
  <2>3. ASSUME NEW s \in Small(m - 1) PROVE s \in Small(m) /\ h[s] = g[s]
    <3>1. s \in Small(m)
      BY <1>1, <1>4
    <3>. QED
      BY <2>2, <3>1
  <2>4. ASSUME NEW s \in Small(m), s # {} PROVE s \ {Pick(s)} \in Small(m - 1)
    <3>1. /\ IsFiniteSet(s)
          /\ s \in SUBSET S /\ Cardinality(s) < m
      BY <1>1
    <3>2. Cardinality(s \ {Pick(s)}) = Cardinality(s) - 1 /\ Cardinality(s) \in Nat
      BY <2>4, <3>1, PickRemoves
    <3>. QED
      BY <1>4, <3>1, <3>2
  <2>. HIDE DEF Small
  <2>5. \A s \in Small(m) : h[s] = IF s = {} THEN 0 ELSE f[Pick(s)] + h[s \ {Pick(s)}]
    BY <2>3, <2>4
  <2>6. IsSumming(h, f, Small(m))
    BY <2>5 DEF IsSumming
  <2>. QED
    BY <2>6, <1>2
<1>5. Small(n) = SUBSET S
  BY <1>1
<1>6. n \in T
  <2>. HIDE DEF T
  <2>1. 1..n \subseteq T
    BY <1>2, <1>3, <1>4, CountUp
  <2>2. n > 0
    BY FS_CardinalityType DEF n
  <2>. QED
    BY <1>2, <2>1, <2>2
<1>. HIDE DEF Small
<1>. QED
  BY <1>5, <1>6

\* g sums f over every subset of S.
Sums(g, f, S) == IsSumming(g, f, SUBSET S)

\* Two functions have the same values on a set.
Agree(f, e, R) == \A x \in R : f[x] = e[x]

\* Two functions that agree on a set have the same sum over it.
LEMMA SummingsAgree ==
    ASSUME NEW f, NEW g, NEW S, NEW e, NEW h, NEW T, NEW R, R \in SUBSET S, R \in SUBSET T,
           Sums(g, f, S), Sums(h, e, T), IsFiniteSet(R),
           Agree(f, e, R)
    PROVE  g[R] = h[R]
<1>. DEFINE n == Cardinality(R) + 1
            Same == {m \in Nat : \A s \in SUBSET R : Cardinality(s) + 1 = m => g[s] = h[s]}
<1>1. \A s \in SUBSET R : IsFiniteSet(s) /\ Cardinality(s) \in Nat
  BY FS_Subset, FS_CardinalityType
<1>2. n \in Nat /\ n > 0
  BY FS_CardinalityType
<1>. HIDE DEF n
<1>3. \A s \in SUBSET R :
         /\ g[s] = IF s = {} THEN 0 ELSE f[Pick(s)] + g[s \ {Pick(s)}]
         /\ h[s] = IF s = {} THEN 0 ELSE e[Pick(s)] + h[s \ {Pick(s)}]
  <2>. TAKE s \in SUBSET R
  <2>1. s \in SUBSET S /\ s \in SUBSET T
    OBVIOUS
  <2>2. g[s] = IF s = {} THEN 0 ELSE f[Pick(s)] + g[s \ {Pick(s)}]
    BY <2>1 DEF Sums, IsSumming
  <2>3. h[s] = IF s = {} THEN 0 ELSE e[Pick(s)] + h[s \ {Pick(s)}]
    BY <2>1 DEF Sums, IsSumming
  <2>. QED
    BY <2>2, <2>3
<1>4. 1 \in Same
  <2>1. \A s \in SUBSET R : Cardinality(s) + 1 = 1 => s = {}
    BY <1>1, FS_EmptySet
  <2>. QED
    BY <1>3, <2>1
<1>5. ASSUME NEW m \in 2..n, m - 1 \in Same PROVE m \in Same
  <2>. SUFFICES ASSUME NEW s \in SUBSET R, Cardinality(s) + 1 = m
                PROVE  g[s] = h[s]
    BY <1>2
  <2>1. IsFiniteSet(s) /\ s # {}
    BY <1>1, <1>5, FS_EmptySet
  <2>. DEFINE r == s \ {Pick(s)}
  <2>2. Pick(s) \in s /\ r \in SUBSET R /\ Cardinality(r) = Cardinality(s) - 1
    BY <2>1, PickRemoves
  <2>3. Cardinality(s) \in Nat /\ Cardinality(r) + 1 = m - 1
    BY <1>1, <2>2
  <2>4. g[r] = h[r]
    BY <1>5, <2>2, <2>3
  <2>5. g[s] = f[Pick(s)] + g[r] /\ h[s] = e[Pick(s)] + h[r]
    BY <1>3, <2>1
  <2>. QED
    BY <2>2, <2>4, <2>5 DEF Agree
<1>6. n \in Same
  <2>. HIDE DEF Same
  <2>1. 1..n \subseteq Same
    BY <1>2, <1>4, <1>5, CountUp
  <2>. QED
    BY <1>2, <2>1
<1>. QED
  BY <1>6 DEF n

\* The sum over a set does not depend on the larger set that it is part of.
LEMMA SummingOnSubset ==
    ASSUME NEW f, NEW S, NEW R, NEW g, NEW h, R \in SUBSET S,
           Sums(g, f, S), Sums(h, f, R), IsFiniteSet(R)
    PROVE  g[R] = h[R]
<1>1. R \in SUBSET S /\ R \in SUBSET R
  OBVIOUS
<1>2. Agree(f, f, R)
  BY DEF Agree
<1>3. IsFiniteSet(R) /\ Sums(g, f, S) /\ Sums(h, f, R)
  OBVIOUS
<1>. QED
  BY ONLY <1>1, <1>2, <1>3, SummingsAgree

\* The sum of naturals over a finite set is a natural.
LEMMA SummingTyped ==
    ASSUME NEW D, NEW f \in [D -> Nat], NEW S \in SUBSET D, IsFiniteSet(S),
           NEW g, Sums(g, f, S)
    PROVE  \A s \in SUBSET S : g[s] \in Nat
<1>. DEFINE n == Cardinality(S) + 1
            Done == {m \in Nat : \A s \in SUBSET S : Cardinality(s) + 1 = m => g[s] \in Nat}
<1>1. \A s \in SUBSET S : IsFiniteSet(s) /\ Cardinality(s) \in Nat /\ Cardinality(s) + 1 \in 1..n
  BY FS_Subset, FS_CardinalityType
<1>2. n \in Nat /\ n > 0
  BY FS_CardinalityType
<1>. HIDE DEF n
<1>3. \A s \in SUBSET S :
         g[s] = IF s = {} THEN 0 ELSE f[Pick(s)] + g[s \ {Pick(s)}]
  BY DEF Sums, IsSumming
<1>4. 1 \in Done
  <2>1. \A s \in SUBSET S : Cardinality(s) + 1 = 1 => s = {}
    BY <1>1, FS_EmptySet
  <2>. QED
    BY <1>3, <2>1
<1>5. ASSUME NEW m \in 2..n, m - 1 \in Done PROVE m \in Done
  <2>. SUFFICES ASSUME NEW s \in SUBSET S, Cardinality(s) + 1 = m
                PROVE  g[s] \in Nat
    BY <1>2
  <2>1. IsFiniteSet(s) /\ s # {} /\ Cardinality(s) \in Nat
    BY <1>1, <1>5, FS_EmptySet
  <2>2. Pick(s) \in s /\ Cardinality(s \ {Pick(s)}) + 1 = m - 1
    BY <2>1, PickRemoves
  <2>3. g[s \ {Pick(s)}] \in Nat /\ f[Pick(s)] \in Nat
    BY <1>5, <2>2
  <2>4. g[s] = f[Pick(s)] + g[s \ {Pick(s)}]
    BY <1>3, <2>1
  <2>. QED
    BY <2>3, <2>4
<1>6. 1..n \subseteq Done
  <2>. HIDE DEF Done
  <2>. QED
    BY <1>2, <1>4, <1>5, CountUp
<1>. QED
  BY <1>1, <1>6

\* A sum does not depend on the element that is taken out first.
LEMMA SummingRemoves ==
    ASSUME NEW D, NEW f \in [D -> Nat], NEW S \in SUBSET D, IsFiniteSet(S),
           NEW g, Sums(g, f, S)
    PROVE  \A y \in S : g[S] = f[y] + g[S \ {y}]
<1>. DEFINE n == Cardinality(S) + 1
            Good(s) == \A y \in s : g[s] = f[y] + g[s \ {y}]
            Done == {m \in Nat : \A s \in SUBSET S : Cardinality(s) + 1 = m => Good(s)}
<1>1. \A s \in SUBSET S : IsFiniteSet(s) /\ Cardinality(s) \in Nat /\ g[s] \in Nat
  BY FS_Subset, FS_CardinalityType, SummingTyped
<1>2. n \in Nat /\ n > 0
  BY FS_CardinalityType
<1>. HIDE DEF n
<1>3. \A s \in SUBSET S :
         g[s] = IF s = {} THEN 0 ELSE f[Pick(s)] + g[s \ {Pick(s)}]
  BY DEF Sums, IsSumming
<1>4. 1 \in Done
  <2>1. \A s \in SUBSET S : Cardinality(s) + 1 = 1 => s = {}
    BY <1>1, FS_EmptySet
  <2>. QED
    BY <1>3, <2>1
<1>5. ASSUME NEW m \in 2..n, m - 1 \in Done PROVE m \in Done
  <2>. SUFFICES ASSUME NEW s \in SUBSET S, Cardinality(s) + 1 = m, NEW y \in s
                PROVE  g[s] = f[y] + g[s \ {y}]
    BY <1>2
  <2>1. IsFiniteSet(s) /\ s # {} /\ Cardinality(s) \in Nat
    BY <1>1
  <2>2. \A z \in s : Cardinality(s \ {z}) + 1 = m - 1
    <3>1. \A z \in s : Cardinality(s \ {z}) = Cardinality(s) - 1
      BY <2>1, PickRemoves
    <3>. QED
      BY <2>1, <3>1
  <2>3. \A z \in s : Good(s \ {z})
    BY <1>5, <2>2
  <2>. DEFINE x == Pick(s)
  <2>4. x \in s
    BY <2>1, PickRemoves
  <2>5. g[s] = f[x] + g[s \ {x}]
    BY <1>3, <2>1
  <2>. HIDE DEF x
  <2>6. CASE y = x
    BY <2>5, <2>6
  <2>7. CASE y # x
    <3>. DEFINE r == (s \ {x}) \ {y}
    <3>1. r = (s \ {y}) \ {x} /\ r \in SUBSET S
      OBVIOUS
    <3>2. g[s \ {x}] = f[y] + g[r]
      BY <2>3, <2>4, <2>7
    <3>3. g[s \ {y}] = f[x] + g[r]
      BY <2>3, <2>4, <2>7, <3>1
    <3>4. g[r] \in Nat /\ f[x] \in Nat /\ f[y] \in Nat
      BY <1>1, <2>4, <3>1
    <3>. HIDE DEF r
    <3>. QED
      BY <2>5, <3>2, <3>3, <3>4
  <2>. QED
    BY <2>6, <2>7
<1>6. n \in Done
  <2>. HIDE DEF Done
  <2>1. 1..n \subseteq Done
    BY <1>2, <1>4, <1>5, CountUp
  <2>. QED
    BY <1>2, <2>1
<1>. QED
  BY <1>6 DEF n

\* What the sum is by that function.
LEMMA SumBySumming ==
    ASSUME NEW f, NEW S, IsFiniteSet(S)
    PROVE  \E g : Sums(g, f, S) /\ SumFunctionOnSet(f, S) = g[S]
<1>. DEFINE h == CHOOSE g : g = [s \in SUBSET S |->
                    IF s = {} THEN 0
                    ELSE f[CHOOSE x \in s : TRUE] + g[s \ {CHOOSE x \in s : TRUE}]]
<1>1. \E g : g = [s \in SUBSET S |->
                    IF s = {} THEN 0
                    ELSE f[CHOOSE x \in s : TRUE] + g[s \ {CHOOSE x \in s : TRUE}]]
  <2>1. PICK k : Sums(k, f, S)
    BY SummingExists DEF Sums
  <2>2. k = [s \in SUBSET S |->
                IF s = {} THEN 0
                ELSE f[CHOOSE x \in s : TRUE] + k[s \ {CHOOSE x \in s : TRUE}]]
    BY <2>1 DEF Sums, IsSumming, Pick
  <2>. QED
    BY <2>2
<1>2. h = [s \in SUBSET S |->
              IF s = {} THEN 0
              ELSE f[CHOOSE x \in s : TRUE] + h[s \ {CHOOSE x \in s : TRUE}]]
  BY <1>1, Zenon
<1>3. SumFunctionOnSet(f, S) = h[S]
  BY DEF SumFunctionOnSet, FoldFunctionOnSet, MapThenFoldSet
<1>. HIDE DEF h
<1>4. Sums(h, f, S)
  BY <1>2 DEF Sums, IsSumming, Pick
<1>. QED
  BY <1>3, <1>4

\* A function that sums f over a set sums it over the subsets.
LEMMA SumOfSubset ==
    ASSUME NEW f, NEW S, IsFiniteSet(S), NEW g, Sums(g, f, S),
           NEW R \in SUBSET S
    PROVE  SumFunctionOnSet(f, R) = g[R]
<1>1. R \in SUBSET S /\ IsFiniteSet(R)
  BY FS_Subset
<1>2. PICK h : Sums(h, f, R) /\ SumFunctionOnSet(f, R) = h[R]
  BY <1>1, SumBySumming
<1>3. Sums(g, f, S)
  OBVIOUS
<1>4. g[R] = h[R]
  BY ONLY <1>1, <1>2, <1>3, SummingOnSubset
<1>. QED
  BY <1>2, <1>4

\* What proofs use of a sum: it is a natural, the empty sum is 0, and an element
\* can be taken out of it.
LEMMA SumRemove ==
    ASSUME NEW D, NEW f \in [D -> Nat], NEW S \in SUBSET D, IsFiniteSet(S)
    PROVE  /\ SumFunctionOnSet(f, S) \in Nat
           /\ S = {} => SumFunctionOnSet(f, S) = 0
           /\ \A y \in S : SumFunctionOnSet(f, S) = f[y] + SumFunctionOnSet(f, S \ {y})
<1>1. PICK g : Sums(g, f, S) /\ SumFunctionOnSet(f, S) = g[S]
  BY SumBySumming
<1>2. g[S] \in Nat
  BY <1>1, SummingTyped
<1>3. S = {} => g[S] = 0
  BY <1>1 DEF Sums, IsSumming
<1>4. ASSUME NEW y \in S PROVE SumFunctionOnSet(f, S) = f[y] + SumFunctionOnSet(f, S \ {y})
  <2>1. SumFunctionOnSet(f, S \ {y}) = g[S \ {y}]
    BY <1>1, SumOfSubset
  <2>2. g[S] = f[y] + g[S \ {y}]
    BY <1>1, SummingRemoves
  <2>. QED
    BY <1>1, <2>1, <2>2
<1>. QED
  BY <1>1, <1>2, <1>3, <1>4

\* A part of a set has at most the sum of the whole.
LEMMA SumOfPart ==
    ASSUME NEW D, NEW f \in [D -> Nat], NEW S \in SUBSET D, IsFiniteSet(S),
           NEW R \in SUBSET S
    PROVE  SumFunctionOnSet(f, R) <= SumFunctionOnSet(f, S)
<1>1. PICK g : Sums(g, f, S) /\ SumFunctionOnSet(f, S) = g[S]
  BY SumBySumming
<1>2. SumFunctionOnSet(f, R) = g[R]
  BY <1>1, SumOfSubset
<1>3. \A s \in SUBSET S : IsFiniteSet(s) /\ Cardinality(s) \in Nat /\ g[s] \in Nat
  BY <1>1, FS_Subset, FS_CardinalityType, SummingTyped
<1>4. ASSUME NEW s \in SUBSET S, NEW y \in s PROVE g[s] = f[y] + g[s \ {y}]
  <2>1. SumFunctionOnSet(f, s) = f[y] + SumFunctionOnSet(f, s \ {y})
    <3>1. s \in SUBSET D /\ IsFiniteSet(s)
      BY <1>3
    <3>. QED
      BY <3>1, SumRemove
  <2>2. s \ {y} \in SUBSET S
    OBVIOUS
  <2>3. SumFunctionOnSet(f, s) = g[s] /\ SumFunctionOnSet(f, s \ {y}) = g[s \ {y}]
    BY <1>1, <2>2, SumOfSubset
  <2>. QED
    BY <2>1, <2>3
<1>. DEFINE n == Cardinality(S) + 1
            Done == {m \in Nat : \A s \in SUBSET S :
                        Cardinality(s) + 1 = m /\ R \subseteq s => g[R] <= g[s]}
<1>5. n \in Nat /\ n > 0 /\ \A s \in SUBSET S : Cardinality(s) + 1 \in 1..n
  BY FS_Subset, FS_CardinalityType
<1>. HIDE DEF n
<1>6. 1 \in Done
  <2>1. \A s \in SUBSET S : Cardinality(s) + 1 = 1 => s = {}
    BY <1>3, FS_EmptySet
  <2>2. \A s \in SUBSET S : Cardinality(s) + 1 = 1 /\ R \subseteq s => s = R
    BY <2>1
  <2>3. g[R] \in Nat
    BY <1>3
  <2>. QED
    BY <2>2, <2>3
<1>7. ASSUME NEW m \in 2..n, m - 1 \in Done PROVE m \in Done
  <2>. SUFFICES ASSUME NEW s \in SUBSET S, Cardinality(s) + 1 = m, R \subseteq s
                PROVE  g[R] <= g[s]
    BY <1>5
  <2>1. CASE s = R
    BY <1>3, <2>1
  <2>2. CASE s # R
    <3>1. PICK y \in s : y \notin R
      BY <2>2
    <3>2. s \ {y} \in SUBSET S /\ R \subseteq s \ {y}
      BY <3>1
    <3>3. Cardinality(s \ {y}) + 1 = m - 1
      <4>1. IsFiniteSet(s) /\ Cardinality(s) \in Nat
        BY <1>3
      <4>2. Cardinality(s \ {y}) = Cardinality(s) - 1
        BY <4>1, FS_RemoveElement
      <4>. QED
        BY <4>1, <4>2
    <3>4. g[R] <= g[s \ {y}]
      BY <1>7, <3>2, <3>3
    <3>5. g[s] = f[y] + g[s \ {y}]
      BY <1>4
    <3>. QED
      BY <1>3, <3>2, <3>4, <3>5
  <2>. QED
    BY <2>1, <2>2
<1>8. 1..n \subseteq Done
  <2>. HIDE DEF Done
  <2>. QED
    BY <1>5, <1>6, <1>7, CountUp
<1>9. g[R] <= g[S]
  BY <1>5, <1>8
<1>. QED
  BY <1>1, <1>2, <1>9

\* Zeros add up to zero.
LEMMA SumOfZeros ==
    ASSUME NEW f, NEW S, IsFiniteSet(S), \A x \in S : f[x] = 0
    PROVE  SumFunctionOnSet(f, S) = 0
<1>1. PICK g : Sums(g, f, S) /\ SumFunctionOnSet(f, S) = g[S]
  BY SumBySumming
<1>. DEFINE n == Cardinality(S) + 1
            Done == {m \in Nat : \A s \in SUBSET S : Cardinality(s) + 1 = m => g[s] = 0}
<1>2. \A s \in SUBSET S : IsFiniteSet(s) /\ Cardinality(s) \in Nat /\ Cardinality(s) + 1 \in 1..n
  BY FS_Subset, FS_CardinalityType
<1>3. n \in Nat /\ n > 0
  BY FS_CardinalityType
<1>. HIDE DEF n
<1>4. \A s \in SUBSET S : g[s] = IF s = {} THEN 0 ELSE f[Pick(s)] + g[s \ {Pick(s)}]
  BY <1>1 DEF Sums, IsSumming
<1>5. 1 \in Done
  <2>1. \A s \in SUBSET S : Cardinality(s) + 1 = 1 => s = {}
    BY <1>2, FS_EmptySet
  <2>. QED
    BY <1>4, <2>1
<1>6. ASSUME NEW m \in 2..n, m - 1 \in Done PROVE m \in Done
  <2>. SUFFICES ASSUME NEW s \in SUBSET S, Cardinality(s) + 1 = m
                PROVE  g[s] = 0
    BY <1>3
  <2>1. IsFiniteSet(s) /\ s # {} /\ Cardinality(s) \in Nat
    BY <1>2, <1>6, FS_EmptySet
  <2>2. Pick(s) \in s /\ Cardinality(s \ {Pick(s)}) + 1 = m - 1
    BY <2>1, PickRemoves
  <2>3. g[s \ {Pick(s)}] = 0 /\ f[Pick(s)] = 0
    BY <1>6, <2>2
  <2>4. g[s] = f[Pick(s)] + g[s \ {Pick(s)}]
    BY <1>4, <2>1
  <2>. QED
    BY <2>3, <2>4
<1>7. 1..n \subseteq Done
  <2>. HIDE DEF Done
  <2>. QED
    BY <1>3, <1>5, <1>6, CountUp
<1>. QED
  BY <1>1, <1>2, <1>7

\* Functions that agree on a set have the same sum over it.
LEMMA SumAgree ==
    ASSUME NEW f, NEW e, NEW S, IsFiniteSet(S), \A x \in S : f[x] = e[x]
    PROVE  SumFunctionOnSet(f, S) = SumFunctionOnSet(e, S)
<1>1. PICK g : Sums(g, f, S) /\ SumFunctionOnSet(f, S) = g[S]
  BY SumBySumming
<1>2. PICK h : Sums(h, e, S) /\ SumFunctionOnSet(e, S) = h[S]
  BY SumBySumming
<1>3. g[S] = h[S]
  <2>1. Sums(g, f, S) /\ Sums(h, e, S)
    BY <1>1, <1>2
  <2>2. S \in SUBSET S /\ Agree(f, e, S)
    BY DEF Agree
  <2>. QED
    BY <2>1, <2>2, SummingsAgree
<1>. QED
  BY <1>1, <1>2, <1>3

-----------------------------------------------------------------------------
(* Sorted sets                                                             *)

\* s lists the n elements of S in ascending order.
Ascends(s, S, n) ==
    s \in [1..n -> S] /\ \A i, j \in 1..n : i < j => s[i] < s[j]

\* A finite set of naturals can be so listed.
LEMMA AscendingExists ==
    ASSUME NEW S \in SUBSET Nat, IsFiniteSet(S)
    PROVE  \E s : Ascends(s, S, Cardinality(S))
<1>. DEFINE n == Cardinality(S) + 1
            T == {m \in Nat : \A R \in SUBSET S : Cardinality(R) + 1 = m =>
                                 \E s : Ascends(s, R, Cardinality(R))}
<1>1. \A R \in SUBSET S : IsFiniteSet(R) /\ Cardinality(R) \in Nat
  BY FS_Subset, FS_CardinalityType
<1>2. n \in Nat /\ n > 0
  BY FS_CardinalityType
<1>. HIDE DEF n
<1>3. 1 \in T
  <2>. SUFFICES ASSUME NEW R \in SUBSET S, Cardinality(R) + 1 = 1
                PROVE  \E s : Ascends(s, R, Cardinality(R))
    OBVIOUS
  <2>1. Cardinality(R) = 0 /\ 1..0 = {}
    BY <1>1
  <2>2. Ascends([i \in 1..0 |-> i], R, 0)
    BY <2>1 DEF Ascends
  <2>. QED
    BY <2>1, <2>2
<1>4. ASSUME NEW m \in 2..n, m - 1 \in T PROVE m \in T
  <2>. SUFFICES ASSUME NEW R \in SUBSET S, Cardinality(R) + 1 = m
                PROVE  \E s : Ascends(s, R, Cardinality(R))
    BY <1>2
  <2>1. IsFiniteSet(R) /\ Cardinality(R) \in Nat /\ R # {} /\ R \in SUBSET Nat
    BY <1>1, <1>4, FS_EmptySet
  <2>2. PICK x \in R : \A y \in R : x <= y
    BY <2>1, LeastNatural
  <2>. DEFINE Q == R \ {x}
              k == Cardinality(Q)
  <2>3. Q \in SUBSET S /\ k = Cardinality(R) - 1 /\ k \in Nat /\ k + 1 = m - 1
    BY <1>1, <2>1, FS_RemoveElement
  <2>4. PICK t : Ascends(t, Q, k)
    BY <1>4, <2>3
  <2>. HIDE DEF k
  <2>. DEFINE s == [i \in 1..(k + 1) |-> IF i = 1 THEN x ELSE t[i - 1]]
  <2>5. \A i \in 2..(k + 1) : i - 1 \in 1..k /\ s[i] = t[i - 1] /\ s[i] \in Q
    BY <2>3, <2>4 DEF Ascends
  <2>6. s[1] = x /\ 1 \in 1..(k + 1)
    BY <2>3
  <2>7. \A i \in 1..(k + 1) : i = 1 \/ i \in 2..(k + 1)
    BY <2>3
  <2>8. s \in [1..(k + 1) -> R]
    BY <2>5, <2>6, <2>7
  <2>9. ASSUME NEW i \in 1..(k + 1), NEW j \in 1..(k + 1), i < j PROVE s[i] < s[j]
    <3>1. j \in 2..(k + 1)
      BY <2>3, <2>9
    <3>2. CASE i = 1
      <4>1. s[j] \in R /\ s[j] # x
        BY <2>5, <3>1
      <4>2. x \in Nat /\ s[j] \in Nat /\ x <= s[j]
        BY <2>1, <2>2, <4>1
      <4>. QED
        BY <2>6, <3>2, <4>1, <4>2
    <3>3. CASE i \in 2..(k + 1)
      <4>. HIDE DEF s
      <4>1. /\ i - 1 \in 1..k /\ j - 1 \in 1..k
            /\ s[i] = t[i - 1] /\ s[j] = t[j - 1]
        BY <2>5, <3>1, <3>3
      <4>2. i - 1 < j - 1
        BY <2>3, <2>9
      <4>. QED
        BY <2>4, <4>1, <4>2 DEF Ascends
    <3>. QED
      BY <2>7, <3>2, <3>3
  <2>10. Ascends(s, R, k + 1)
    <3>. HIDE DEF s
    <3>. QED
      BY <2>8, <2>9 DEF Ascends
  <2>11. Cardinality(R) = k + 1
    BY <2>1, <2>3
  <2>. QED
    BY <2>10, <2>11
<1>5. n \in T
  <2>. HIDE DEF T
  <2>1. 1..n \subseteq T
    BY <1>2, <1>3, <1>4, CountUp
  <2>. QED
    BY <1>2, <2>1
<1>6. S \in SUBSET S
  OBVIOUS
<1>. QED
  BY <1>5, <1>6 DEF n

\* In such a list, every element is once, after as many as are smaller.
LEMMA AscendingRanks ==
    ASSUME NEW S \in SUBSET Nat, IsFiniteSet(S), NEW s, Ascends(s, S, Cardinality(S))
    PROVE  /\ \A x \in S : \E i \in 1..Cardinality(S) : s[i] = x
           /\ \A i, j \in 1..Cardinality(S) : s[i] = s[j] => i = j
           /\ \A i \in 1..Cardinality(S) : Cardinality({x \in S : x < s[i]}) = i - 1
<1>. DEFINE n == Cardinality(S)
<1>1. n \in Nat
  BY FS_CardinalityType
<1>2. /\ s \in [1..n -> S] /\ \A i, j \in 1..n : i < j => s[i] < s[j]
      /\ \A i \in 1..n : s[i] \in Nat
  BY DEF Ascends
<1>3. IsFiniteSet(1..n) /\ Cardinality(1..n) = n
  <2>. HIDE DEF n
  <2>. QED
    BY <1>1, FS_Interval
<1>4. Cardinality(S) = n
  OBVIOUS
<1>. HIDE DEF n
<1>5. \A i, j \in 1..n : s[i] = s[j] => i = j
  <2>1. \A i, j \in 1..n : i < j \/ i = j \/ j < i
    BY <1>1
  <2>. QED
    BY <1>2, <2>1
<1>6. s \in Injection(1..n, S)
  BY <1>2, <1>5 DEF Injection, IsInjective
<1>7. s \in Surjection(1..n, S)
  BY <1>3, <1>4, <1>6, FS_Injection
<1>8. \A x \in S : \E i \in 1..n : s[i] = x
  BY <1>7 DEF Surjection
<1>9. ASSUME NEW i \in 1..n PROVE Cardinality({x \in S : x < s[i]}) = i - 1
  <2>. DEFINE R == {x \in S : x < s[i]}
              t == [j \in 1..(i - 1) |-> s[j]]
  <2>1. i - 1 \in Nat /\ \A j \in 1..(i - 1) : j \in 1..n /\ j < i
    BY <1>1
  <2>2. \A j \in 1..(i - 1) : s[j] \in R
    BY <1>2, <2>1
  <2>3. \A x \in R : \E j \in 1..(i - 1) : s[j] = x
    <3>. TAKE x \in R
    <3>1. PICK j \in 1..n : s[j] = x
      BY <1>8
    <3>2. s[j] < s[i] /\ s[j] \in Nat /\ s[i] \in Nat
      BY <1>2, <3>1
    <3>3. ~ (i < j) /\ i # j
      BY <1>2, <3>2
    <3>4. j \in 1..(i - 1)
      BY <1>1, <3>3
    <3>. QED
      BY <3>1, <3>4
  <2>. HIDE DEF R
  <2>4. t \in [1..(i - 1) -> R]
    BY <2>2
  <2>5. t \in Bijection(1..(i - 1), R)
    <3>1. \A j, k \in 1..(i - 1) : t[j] = t[k] => j = k
      BY <1>5, <2>1
    <3>2. \A x \in R : \E j \in 1..(i - 1) : t[j] = x
      BY <2>3
    <3>. HIDE DEF t
    <3>. QED
      BY <2>4, <3>1, <3>2 DEF Bijection, Injection, Surjection, IsInjective
  <2>6. ExistsBijection(1..(i - 1), R)
    BY <2>5 DEF ExistsBijection
  <2>. QED
    BY <2>1, <2>6, FS_CountingElements DEF R
<1>. QED
  BY <1>5, <1>8, <1>9 DEF n

=============================================================================
