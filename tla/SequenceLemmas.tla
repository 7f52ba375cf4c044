---------------------------- MODULE SequenceLemmas ----------------------------
(***************************************************************************)
(* Least numbers, cut sequences and flattened sequences, for every set of  *)
(* elements.  Induction is by the least counterexample.                    *)
(***************************************************************************)
EXTENDS Integers, Sequences, SequencesExt, SequenceTheorems,
        WellFoundedInduction, TLAPS

\* A set of numbers that is not empty has a least element.
LEMMA LeastIn ==
    ASSUME NEW M \in SUBSET Nat, M # {}
    PROVE  \E x \in M : \A y \in M : x <= y
<1> DEFINE R == OpToRel(<, Nat)
<1>1. PICK x \in M : \A y \in M : ~ (<<y, x>> \in R)
    <2> HIDE DEF R
    <2>1. IsWellFoundedOn(R, Nat)
        BY NatLessThanWellFounded DEF R
    <2>2. QED
        BY <2>1, WFMin
<1>2. \A y \in M : ~ (y < x)
    BY <1>1 DEF OpToRel
<1>3. QED
    BY <1>2

-----------------------------------------------------------------------------
(* Pieces                                                                  *)

\* What is left behind the first n elements.
LEMMA Behind ==
    ASSUME NEW S, NEW s \in Seq(S), NEW n \in 0 .. Len(s)
    PROVE  /\ SubSeq(s, n + 1, Len(s)) \in Seq(S)
           /\ Len(SubSeq(s, n + 1, Len(s))) = Len(s) - n
           /\ \A i \in 1 .. Len(s) - n : SubSeq(s, n + 1, Len(s))[i] = s[n + i]
<1>1. Len(s) \in Nat /\ n \in Nat /\ n <= Len(s)
    BY LenProperties
<1>2. \A i \in n + 1 .. Len(s) : s[i] \in S
    BY <1>1, ElementOfSeq
<1>3. QED
    BY <1>1, <1>2, SubSeqProperties

LEMMA InFront ==
    ASSUME NEW S, NEW s \in Seq(S), NEW n \in 0 .. Len(s)
    PROVE  /\ SubSeq(s, 1, n) \in Seq(S) /\ Len(SubSeq(s, 1, n)) = n
           /\ \A i \in 1 .. n : SubSeq(s, 1, n)[i] = s[i]
<1>1. Len(s) \in Nat /\ n \in Nat /\ n <= Len(s)
    BY LenProperties
<1>2. \A i \in 1 .. n : s[i] \in S
    BY <1>1, ElementOfSeq
<1>3. QED
    BY <1>1, <1>2, SubSeqProperties

\* Cutting behind s leaves t.
LEMMA BehindFirst ==
    ASSUME NEW S, NEW s \in Seq(S), NEW t \in Seq(S)
    PROVE  SubSeq(s \o t, Len(s) + 1, Len(s \o t)) = t
<1>1. /\ s \o t \in Seq(S) /\ Len(s \o t) = Len(s) + Len(t)
      /\ \A i \in 1 .. Len(s) + Len(t) :
            (s \o t)[i] = IF i <= Len(s) THEN s[i] ELSE t[i - Len(s)]
    BY ConcatProperties
<1>2. Len(s) \in Nat /\ Len(t) \in Nat
    BY LenProperties
<1>3. Len(s) \in 0 .. Len(s \o t)
    BY <1>1, <1>2
<1> DEFINE u == SubSeq(s \o t, Len(s) + 1, Len(s \o t))
<1>4. /\ u \in Seq(S) /\ Len(u) = Len(s \o t) - Len(s)
      /\ \A i \in 1 .. Len(s \o t) - Len(s) : u[i] = (s \o t)[Len(s) + i]
    BY <1>1, <1>3, Behind
<1> HIDE DEF u
<1>5. Len(u) = Len(t)
    BY <1>1, <1>2, <1>4
<1>6. ASSUME NEW i \in 1 .. Len(t) PROVE u[i] = t[i]
  <2>1. u[i] = (s \o t)[Len(s) + i]
      BY <1>1, <1>2, <1>4
  <2>2. Len(s) + i \in 1 .. Len(s) + Len(t) /\ ~ (Len(s) + i <= Len(s))
        /\ Len(s) + i - Len(s) = i
      BY <1>2
  <2>3. QED
      BY <1>1, <2>1, <2>2
<1>7. u = t
    BY <1>4, <1>5, <1>6, SeqEqual
<1>8. QED
    BY <1>7 DEF u

\* Cutting twice.
LEMMA BehindBehind ==
    ASSUME NEW S, NEW s \in Seq(S), NEW n \in 0 .. Len(s), NEW m \in 0 .. Len(s) - n
    PROVE  LET t == SubSeq(s, n + 1, Len(s))
           IN  SubSeq(t, m + 1, Len(t)) = SubSeq(s, n + m + 1, Len(s))
<1> DEFINE t == SubSeq(s, n + 1, Len(s))
           u == SubSeq(t, m + 1, Len(t))
           v == SubSeq(s, (n + m) + 1, Len(s))
<1>1. /\ Len(s) \in Nat /\ n \in Nat /\ m \in Nat
      /\ n + m \in 0 .. Len(s) /\ Len(s) - (n + m) = Len(s) - n - m
    BY LenProperties
<1>2. /\ t \in Seq(S) /\ Len(t) = Len(s) - n
      /\ \A i \in 1 .. Len(s) - n : t[i] = s[n + i]
    BY Behind
<1>3. /\ v \in Seq(S) /\ Len(v) = Len(s) - (n + m)
      /\ \A i \in 1 .. Len(s) - (n + m) : v[i] = s[(n + m) + i]
    BY <1>1, Behind
<1> HIDE DEF t, v
<1>4. m \in 0 .. Len(t)
    BY <1>1, <1>2
<1>5. /\ u \in Seq(S) /\ Len(u) = Len(t) - m
      /\ \A i \in 1 .. Len(t) - m : u[i] = t[m + i]
    BY <1>2, <1>4, Behind
<1> HIDE DEF u
<1>6. Len(u) = Len(v)
    BY <1>1, <1>2, <1>3, <1>5
<1>7. ASSUME NEW i \in 1 .. Len(u) PROVE u[i] = v[i]
    BY <1>1, <1>2, <1>3, <1>5
<1>8. u = v
    BY <1>3, <1>5, <1>6, <1>7, SeqEqual
<1>9. QED
    BY <1>1, <1>8 DEF u, v, t

\* Cut anywhere, the pieces are the whole.
LEMMA FrontAndBehind ==
    ASSUME NEW S, NEW s \in Seq(S), NEW n \in 0 .. Len(s)
    PROVE  s = SubSeq(s, 1, n) \o SubSeq(s, n + 1, Len(s))
<1>1. Len(s) \in Nat
    BY LenProperties
<1>2. 1 \in 1 .. Len(s) + 1 /\ n \in 1 - 1 .. Len(s) /\ Len(s) \in n .. Len(s)
    BY <1>1
<1>3. SubSeq(s, 1, n) \o SubSeq(s, n + 1, Len(s)) = SubSeq(s, 1, Len(s))
    BY <1>2, ConcatAdjacentSubSeq
<1>4. QED
    BY <1>3, SubSeqFull

\* Of what is left behind the first d elements: a part of it is a part of s.
LEMMA PartBehind ==
    ASSUME NEW S, NEW s \in Seq(S), NEW u \in Seq(S), NEW d \in Nat,
           Len(s) >= d + Len(u), \A k \in 1 .. Len(u) : u[k] = s[d + k],
           NEW i \in Nat, i >= 1, NEW j \in Nat, j <= Len(u)
    PROVE  SubSeq(u, i, j) = SubSeq(s, d + i, d + j)
<1>1. Len(s) \in Nat /\ Len(u) \in Nat
    BY LenProperties
<1>2. PICK x \in Nat, y \in Nat : x = d + i /\ y = d + j
    OBVIOUS
<1>3. \A k \in i .. j : u[k] \in S
  <2>1. \A k \in i .. j : k \in 1 .. Len(u)
      BY <1>1
  <2>2. QED
      BY <2>1, ElementOfSeq
<1>4. \A k \in x .. y : s[k] \in S
  <2>1. \A k \in x .. y : k \in 1 .. Len(s)
      BY <1>1, <1>2
  <2>2. QED
      BY <2>1, ElementOfSeq
<1> DEFINE p == SubSeq(u, i, j)
           q == SubSeq(s, x, y)
<1>5. /\ p \in Seq(S) /\ Len(p) = IF i <= j THEN j - i + 1 ELSE 0
      /\ \A k \in 1 .. j - i + 1 : p[k] = u[i + k - 1]
    BY <1>3, SubSeqProperties
<1>6. /\ q \in Seq(S) /\ Len(q) = IF x <= y THEN y - x + 1 ELSE 0
      /\ \A k \in 1 .. y - x + 1 : q[k] = s[x + k - 1]
    BY <1>4, SubSeqProperties
<1> HIDE DEF p, q
<1>7. Len(p) = Len(q)
    BY <1>2, <1>5, <1>6
<1>8. ASSUME NEW k \in 1 .. Len(p) PROVE p[k] = q[k]
  <2>1. k \in 1 .. j - i + 1 /\ k \in 1 .. y - x + 1
      BY <1>2, <1>5
  <2>2. i + k - 1 \in 1 .. Len(u) /\ x + k - 1 = d + (i + k - 1)
      BY <1>1, <1>2, <2>1
  <2>3. u[i + k - 1] = s[x + k - 1]
      BY <2>2
  <2>4. QED
      BY <1>5, <1>6, <2>1, <2>3
<1>9. p = q
    BY <1>5, <1>6, <1>7, <1>8, SeqEqual
<1>10. QED
    BY <1>2, <1>9 DEF p, q

-----------------------------------------------------------------------------
(* FlattenSeq                                                              *)

\* g flattens the first k of the sequences s, from each to the next.
Flattens(g, s, k) ==
    g = [i \in 1 .. k |-> IF i = 1 THEN s[i] ELSE g[i - 1] \o s[i]]

LEMMA FlattensExists ==
    ASSUME NEW s, NEW k \in Nat
    PROVE  \E g : Flattens(g, s, k)
<1> DEFINE M == {n \in Nat : ~ \E g : Flattens(g, s, n)}
<1>1. SUFFICES ASSUME M # {} PROVE FALSE
    OBVIOUS
<1>2. PICK m \in M : \A n \in M : m <= n
    BY <1>1, LeastIn
<1>3. m # 0
  <2>1. SUFFICES ASSUME m = 0 PROVE \E g : Flattens(g, s, m)
      BY <1>2
  <2>2. Flattens([i \in 1 .. 0 |-> {}], s, 0)
      BY DEF Flattens
  <2>3. QED
      BY <2>1, <2>2
<1>4. m - 1 \in Nat /\ m - 1 \notin M
    BY <1>2, <1>3
<1>5. PICK g : Flattens(g, s, m - 1)
    BY <1>4
<1> DEFINE h == [i \in 1 .. m |-> IF i = 1 THEN s[i] ELSE g[i - 1] \o s[i]]
<1>6. ASSUME NEW i \in 1 .. m - 1 PROVE h[i] = g[i]
  <2>1. g[i] = IF i = 1 THEN s[i] ELSE g[i - 1] \o s[i]
      BY <1>5 DEF Flattens
  <2>2. i \in 1 .. m
      BY <1>4
  <2>3. QED
      BY <2>1, <2>2
<1>7. ASSUME NEW i \in 1 .. m, i # 1 PROVE h[i - 1] = g[i - 1]
  <2>1. i - 1 \in 1 .. m - 1
      BY <1>4, <1>7
  <2>2. QED
      BY <1>6, <2>1
<1>8. h = [i \in 1 .. m |-> IF i = 1 THEN s[i] ELSE h[i - 1] \o s[i]]
    BY <1>7
<1>9. Flattens(h, s, m)
    BY <1>8 DEF Flattens
<1>10. QED
    BY <1>2, <1>9

LEMMA FlattensAt ==
    ASSUME NEW s, NEW k, NEW g, Flattens(g, s, k), NEW i \in 1 .. k
    PROVE  g[i] = IF i = 1 THEN s[i] ELSE g[i - 1] \o s[i]
<1> DEFINE F == [j \in 1 .. k |-> IF j = 1 THEN s[j] ELSE g[j - 1] \o s[j]]
<1>1. g = F
    BY Zenon DEF Flattens
<1>2. F[i] = IF i = 1 THEN s[i] ELSE g[i - 1] \o s[i]
    OBVIOUS
<1> HIDE DEF F
<1>3. QED
    BY <1>1, <1>2, Zenon

LEMMA FlattensUnique ==
    ASSUME NEW s, NEW t, NEW n \in Nat, NEW k \in Nat, n <= k,
           \A i \in 1 .. n : s[i] = t[i],
           NEW g, Flattens(g, s, n), NEW h, Flattens(h, t, k)
    PROVE  \A i \in 1 .. n : g[i] = h[i]
<1> DEFINE M == {i \in 1 .. n : g[i] # h[i]}
<1>1. SUFFICES ASSUME M # {} PROVE FALSE
    OBVIOUS
<1>2. M \in SUBSET Nat
    OBVIOUS
<1>3. PICK m \in M : \A i \in M : m <= i
    BY <1>1, <1>2, LeastIn
<1>4. m \in 1 .. n /\ m \in 1 .. k /\ g[m] # h[m]
    BY <1>3
<1>5. /\ g[m] = IF m = 1 THEN s[m] ELSE g[m - 1] \o s[m]
      /\ h[m] = IF m = 1 THEN t[m] ELSE h[m - 1] \o t[m]
    BY <1>4 DEF Flattens
<1>6. m # 1 => m - 1 \in 1 .. n /\ m - 1 \notin M
    BY <1>3, <1>4
<1>7. QED
    BY <1>4, <1>5, <1>6

LEMMA FlattensLast ==
    ASSUME NEW s, NEW k \in Nat, NEW g, Flattens(g, s, k), k \in 1 .. k
    PROVE  g[k] = IF k = 1 THEN s[k] ELSE g[k - 1] \o s[k]
BY FlattensAt

\* The sequence of no sequences is empty, and one more comes at the end.
LEMMA FlattenEmpty == FlattenSeq(<<>>) = <<>>
BY EmptySeq DEF FlattenSeq

LEMMA FlattenLast ==
    ASSUME NEW s, Len(s) \in Nat \ {0}
    PROVE  \E g : Flattens(g, s, Len(s)) /\ FlattenSeq(s) = g[Len(s)]
<1> DEFINE g == CHOOSE f : f = [i \in 1 .. Len(s) |->
                                   IF i = 1 THEN s[i] ELSE f[i - 1] \o s[i]]
<1>1. \E f : Flattens(f, s, Len(s))
    BY FlattensExists
<1>2. Flattens(g, s, Len(s))
    BY <1>1, Zenon DEF Flattens
<1>3. FlattenSeq(s) = g[Len(s)]
    BY Zenon DEF FlattenSeq
<1>4. QED
    BY <1>2, <1>3, Zenon

LEMMA FlattenLonger ==
    ASSUME NEW s, NEW t, NEW n \in Nat, NEW k \in Nat, n # 0, n < k, k <= n + 1,
           \A i \in 1 .. n : s[i] = t[i]
    PROVE  /\ \E g : Flattens(g, s, n) /\ FlattenSeq(s) = g[n]
           /\ \E h : Flattens(h, t, k) /\ FlattenSeq(t) = h[k]
           => FlattenSeq(t) = FlattenSeq(s) \o t[k]
<1> SUFFICES ASSUME NEW g, NEW h, Flattens(g, s, n), Flattens(h, t, k)
             PROVE  h[k] = g[n] \o t[k]
    BY Zenon
<1>1. n <= k /\ n \in 1 .. n /\ k # 1 /\ k - 1 = n
    OBVIOUS
<1>2. \A i \in 1 .. n : g[i] = h[i]
    BY <1>1, FlattensUnique
<1>3. k \in 1 .. k
    OBVIOUS
<1>4. h[k] = IF k = 1 THEN t[k] ELSE h[k - 1] \o t[k]
    BY <1>3, FlattensLast
<1>5. QED
    BY <1>1, <1>2, <1>4

LEMMA FlattenSingle ==
    ASSUME NEW t, Len(t) = 1
    PROVE  FlattenSeq(t) = t[1]
<1>1. PICK k \in Nat : k = 1
    OBVIOUS
<1>2. Len(t) \in Nat \ {0} /\ k \in 1 .. k
    BY <1>1
<1>3. PICK h : Flattens(h, t, Len(t)) /\ FlattenSeq(t) = h[Len(t)]
    BY <1>2, FlattenLast
<1>4. Flattens(h, t, k)
    BY <1>1, <1>3
<1>5. h[k] = IF k = 1 THEN t[k] ELSE h[k - 1] \o t[k]
    BY <1>2, <1>4, FlattensAt
<1>6. QED
    BY <1>1, <1>3, <1>5

LEMMA FlattenAppendTo ==
    ASSUME NEW T, NEW s \in Seq(T), NEW x \in T
    PROVE  FlattenSeq(Append(s, x)) = IF s = <<>> THEN x ELSE FlattenSeq(s) \o x
<1>1. PICK t, u : t = Append(s, x) /\ u = s
    OBVIOUS
<1>2. PICK n \in Nat, k \in Nat : n = Len(s) /\ k = n + 1
    BY LenProperties
<1>3. Len(t) = k /\ t[k] = x /\ \A i \in 1 .. n : u[i] = t[i]
    BY <1>1, <1>2, AppendProperties
<1>4. CASE n = 0
  <2>1. FlattenSeq(t) = t[1] /\ t[1] = x
      BY <1>2, <1>3, <1>4, FlattenSingle
  <2>2. s = <<>>
      BY <1>2, <1>4, EmptySeq
  <2>3. QED
      BY <1>1, <2>1, <2>2
<1>5. CASE n # 0
  <2>1. \E g : Flattens(g, u, n) /\ FlattenSeq(u) = g[n]
      BY <1>1, <1>2, <1>5, FlattenLast
  <2>2. \E h : Flattens(h, t, k) /\ FlattenSeq(t) = h[k]
      BY <1>2, <1>3, FlattenLast
  <2>3. n < k /\ k <= n + 1 /\ \A i \in 1 .. n : u[i] = t[i]
      BY <1>2, <1>3
  <2>4. FlattenSeq(t) = FlattenSeq(u) \o t[k]
      BY <1>5, <2>1, <2>2, <2>3, FlattenLonger
  <2>5. s # <<>>
      BY <1>2, <1>5, EmptySeq
  <2>6. QED
      BY <1>1, <1>3, <2>4, <2>5
<1>6. QED
    BY <1>4, <1>5

LEMMA FlattenAppend ==
    ASSUME NEW S, NEW s \in Seq(Seq(S)), NEW x \in Seq(S)
    PROVE  FlattenSeq(Append(s, x)) = FlattenSeq(s) \o x
<1>1. FlattenSeq(Append(s, x)) = IF s = <<>> THEN x ELSE FlattenSeq(s) \o x
    BY FlattenAppendTo
<1>2. <<>> \o x = x
    BY ConcatEmptySeq
<1>3. QED
    BY <1>1, <1>2, FlattenEmpty

\* Flattening is done in parts.
LEMMA FlattenOne ==
    ASSUME NEW S, NEW x \in Seq(S)
    PROVE  FlattenSeq(<<x>>) = x
<1>1. <<>> \in Seq(Seq(S)) /\ Append(<<>>, x) = <<x>>
    BY EmptySeq
<1>2. FlattenSeq(<<x>>) = <<>> \o x
    BY <1>1, FlattenAppend, FlattenEmpty
<1>3. QED
    BY <1>2, ConcatEmptySeq

LEMMA FlattenConcat ==
    ASSUME NEW S
    PROVE  \A s \in Seq(Seq(S)), t \in Seq(Seq(S)) :
              /\ FlattenSeq(s) \in Seq(S)
              /\ FlattenSeq(s \o t) = FlattenSeq(s) \o FlattenSeq(t)
<1>3. \A p \in Seq(S), q \in Seq(S), r \in Seq(S) : p \o (q \o r) = (p \o q) \o r
    BY ConcatAssociative
<1> TAKE s \in Seq(Seq(S)), t \in Seq(Seq(S))
<1> DEFINE Typed(u) == FlattenSeq(u) \in Seq(S)
           Parts(u) == FlattenSeq(s \o u) = FlattenSeq(s) \o FlattenSeq(u)
           M == {n \in Nat : \E u \in Seq(Seq(S)) :
                    Len(u) = n /\ ~ (Typed(u) /\ (Typed(s) => Parts(u)))}
<1>1. ASSUME M # {} PROVE FALSE
  <2>1. PICK m \in M : \A n \in M : m <= n
      BY <1>1, LeastIn
  <2>2. PICK u \in Seq(Seq(S)) :
           Len(u) = m /\ ~ (Typed(u) /\ (Typed(s) => Parts(u)))
      BY <2>1
  <2>3. u # <<>>
    <3>1. SUFFICES ASSUME u = <<>> PROVE FALSE
        OBVIOUS
    <3>2. Typed(u)
        BY <3>1, FlattenEmpty, EmptySeq
    <3>3. ASSUME Typed(s) PROVE Parts(u)
        BY <3>1, <3>3, FlattenEmpty, ConcatEmptySeq
    <3>4. QED
        BY <2>2, <3>2, <3>3
  <2>4. PICK v \in Seq(Seq(S)), x \in Seq(S) : u = Append(v, x)
      BY <2>3, SequenceEmptyOrAppend
  <2>5. Len(v) \in Nat /\ m = Len(v) + 1
      BY <2>2, <2>4, LenProperties, AppendProperties
  <2>6. Typed(v) /\ (Typed(s) => Parts(v))
    <3>1. Len(v) \notin M
      <4> HIDE DEF M
      <4>1. ~ (m <= Len(v))
          BY <2>5
      <4>2. QED
          BY <2>1, <4>1
    <3> HIDE DEF Typed, Parts
    <3>2. QED
        BY <2>5, <3>1
  <2>7. FlattenSeq(u) = FlattenSeq(v) \o x
      BY <2>4, FlattenAppend
  <2>8. Typed(u)
      BY <2>6, <2>7, ConcatProperties
  <2>9. ASSUME Typed(s) PROVE Parts(u)
    <3>1. s \o u = Append(s \o v, x) /\ s \o v \in Seq(Seq(S))
      <4>1. u = v \o <<x>> /\ <<x>> \in Seq(Seq(S))
          BY <2>4, AppendIsConcat
      <4>2. s \o v \in Seq(Seq(S)) /\ s \o u = (s \o v) \o <<x>>
          BY <4>1, ConcatProperties, ConcatAssociative
      <4>3. QED
          BY <4>2, AppendIsConcat
    <3>2. FlattenSeq(s \o u) = FlattenSeq(s \o v) \o x
        BY <3>1, FlattenAppend
    <3>3. FlattenSeq(s \o v) = FlattenSeq(s) \o FlattenSeq(v)
        BY <2>6, <2>9
    <3>4. FlattenSeq(s) \o (FlattenSeq(v) \o x) = (FlattenSeq(s) \o FlattenSeq(v)) \o x
      <4>1. PICK p \in Seq(S), q \in Seq(S) : p = FlattenSeq(s) /\ q = FlattenSeq(v)
          BY <2>6, <2>9
      <4>2. p \o (q \o x) = (p \o q) \o x
          BY <1>3, Zenon
      <4>3. QED
          BY <4>1, <4>2
    <3>5. QED
        BY <2>7, <3>2, <3>3, <3>4
  <2>10. QED
      BY <2>2, <2>8, <2>9
<1>2. \A u \in Seq(Seq(S)) : Typed(u) /\ (Typed(s) => Parts(u))
  <2>1. \A u \in Seq(Seq(S)) : Len(u) \in Nat
      BY LenProperties
  <2> HIDE DEF Typed, Parts
  <2>2. QED
      BY <1>1, <2>1
<1>4. QED
    BY <1>2

\* Of nothing but empty sequences nothing is left.
AllEmpty(s) == \A i \in 1 .. Len(s) : s[i] = <<>>

LEMMA FlattenNothing ==
    ASSUME NEW S
    PROVE  \A s \in Seq(Seq(S)) : AllEmpty(s) => FlattenSeq(s) = <<>>
<1> DEFINE Wrong(s) == AllEmpty(s) /\ FlattenSeq(s) # <<>>
           M == {n \in Nat : \E s \in Seq(Seq(S)) : Len(s) = n /\ Wrong(s)}
<1>1. ASSUME M # {} PROVE FALSE
  <2>1. PICK m \in M : \A n \in M : m <= n
      BY <1>1, LeastIn
  <2>2. PICK s \in Seq(Seq(S)) : Len(s) = m /\ Wrong(s)
      BY <2>1
  <2>3. s # <<>>
      BY <2>2, FlattenEmpty
  <2>4. PICK v \in Seq(Seq(S)), x \in Seq(S) : s = Append(v, x)
      BY <2>3, SequenceEmptyOrAppend
  <2>5. PICK k \in Nat : k = Len(v)
      BY LenProperties
  <2>6. /\ m = k + 1 /\ s[k + 1] = x /\ \A i \in 1 .. k : s[i] = v[i]
      BY <2>2, <2>4, <2>5, AppendProperties
  <2>7. \A i \in 1 .. k + 1 : s[i] = <<>>
      BY <2>2, <2>6 DEF AllEmpty
  <2>8. x = <<>> /\ AllEmpty(v)
    <3>1. k + 1 \in 1 .. k + 1 /\ \A i \in 1 .. k : i \in 1 .. k + 1
        OBVIOUS
    <3>2. x = <<>>
        BY <2>6, <2>7, <3>1, Zenon
    <3>3. \A i \in 1 .. k : v[i] = <<>>
        BY <2>6, <2>7, <3>1, Zenon
    <3>4. QED
        BY <2>5, <3>2, <3>3 DEF AllEmpty
  <2>9. FlattenSeq(s) = FlattenSeq(v) \o x
      BY <2>4, FlattenAppend
  <2>10. FlattenSeq(v) = <<>>
    <3>1. k \notin M
        BY <2>1, <2>6
    <3>2. QED
        BY <2>5, <2>8, <3>1
  <2>11. FlattenSeq(s) = <<>>
      BY <2>8, <2>9, <2>10, EmptySeq, ConcatEmptySeq
  <2>12. QED
      BY <2>2, <2>11
<1>2. \A s \in Seq(Seq(S)) : Len(s) \in Nat
    BY LenProperties
<1>3. QED
    BY <1>1, <1>2

\* Of a sequence of sequences: the first of them, and any of them with what is
\* before and behind it.
LEMMA FlattenFirst ==
    ASSUME NEW S, NEW s \in Seq(Seq(S)), s # <<>>
    PROVE  \E t \in Seq(Seq(S)) :
              /\ Len(t) = Len(s) - 1 /\ \A i \in 1 .. Len(s) - 1 : t[i] = s[1 + i]
              /\ s[1] \in Seq(S) /\ FlattenSeq(t) \in Seq(S)
              /\ FlattenSeq(s) = s[1] \o FlattenSeq(t)
<1>0. Len(s) \in Nat /\ Len(s) # 0
    BY LenProperties, EmptySeq
<1>1. 1 \in 0 .. Len(s) /\ 1 \in 1 .. Len(s)
    BY <1>0
<1>2. PICK f \in Seq(Seq(S)) : f = SubSeq(s, 1, 1) /\ Len(f) = 1 /\ f[1] = s[1]
  <2>1. /\ SubSeq(s, 1, 1) \in Seq(Seq(S)) /\ Len(SubSeq(s, 1, 1)) = 1
        /\ \A i \in 1 .. 1 : SubSeq(s, 1, 1)[i] = s[i]
      BY <1>1, InFront
  <2>2. 1 \in 1 .. 1
      OBVIOUS
  <2>3. SubSeq(s, 1, 1)[1] = s[1]
      BY <2>1, <2>2, Zenon
  <2>4. QED
      BY <2>1, <2>3, Zenon
<1>3. PICK t \in Seq(Seq(S)) : /\ t = SubSeq(s, 1 + 1, Len(s)) /\ Len(t) = Len(s) - 1
                               /\ \A i \in 1 .. Len(s) - 1 : t[i] = s[1 + i]
  <2>1. LET t == SubSeq(s, 1 + 1, Len(s))
        IN  /\ t \in Seq(Seq(S)) /\ Len(t) = Len(s) - 1
            /\ \A i \in 1 .. Len(s) - 1 : t[i] = s[1 + i]
      BY <1>1, Behind
  <2>2. QED
      BY <2>1
<1>4. s = f \o t
    BY <1>1, <1>2, <1>3, FrontAndBehind
<1>5. FlattenSeq(f) = s[1]
    BY <1>2, FlattenSingle
<1>6. FlattenSeq(t) \in Seq(S) /\ FlattenSeq(f \o t) = FlattenSeq(f) \o FlattenSeq(t)
    BY FlattenConcat
<1>7. s[1] \in Seq(S)
    BY <1>1
<1>8. QED
    BY <1>3, <1>4, <1>5, <1>6, <1>7

LEMMA FlattenAround ==
    ASSUME NEW S, NEW s \in Seq(Seq(S)), NEW k \in Nat, k < Len(s)
    PROVE  /\ FlattenSeq(SubSeq(s, 1, k)) \in Seq(S) /\ s[k + 1] \in Seq(S)
           /\ FlattenSeq(SubSeq(s, 1, k + 1)) = FlattenSeq(SubSeq(s, 1, k)) \o s[k + 1]
           /\ \E c \in Seq(S) : FlattenSeq(s) = FlattenSeq(SubSeq(s, 1, k + 1)) \o c
<1>0. Len(s) \in Nat
    BY LenProperties
<1>1. k \in 0 .. Len(s) /\ k + 1 \in 0 .. Len(s) /\ k + 1 \in 1 .. Len(s)
    BY <1>0
<1>2. PICK f \in Seq(Seq(S)) : f = SubSeq(s, 1, k) /\ Len(f) = k
                               /\ \A i \in 1 .. k : f[i] = s[i]
    BY <1>1, InFront
<1>3. PICK g \in Seq(Seq(S)) : g = SubSeq(s, 1, k + 1) /\ Len(g) = k + 1
                               /\ \A i \in 1 .. k + 1 : g[i] = s[i]
    BY <1>1, InFront
<1>4. PICK t \in Seq(Seq(S)) : t = SubSeq(s, (k + 1) + 1, Len(s))
    BY <1>1, Behind
<1>5. s = g \o t
    BY <1>1, <1>3, <1>4, FrontAndBehind
<1>6. PICK x \in Seq(S) : x = s[k + 1]
    BY <1>1
<1>7. g = Append(f, x)
  <2>1. /\ Append(f, x) \in Seq(Seq(S)) /\ Len(Append(f, x)) = k + 1
        /\ Append(f, x)[k + 1] = x /\ \A i \in 1 .. k : Append(f, x)[i] = f[i]
      BY <1>2, AppendProperties
  <2>2. \A i \in 1 .. k + 1 : Append(f, x)[i] = g[i]
      BY <1>2, <1>3, <1>6, <2>1
  <2>3. QED
      BY <1>3, <2>1, <2>2, SeqEqual
<1>8. FlattenSeq(g) = FlattenSeq(f) \o x
    BY <1>7, FlattenAppend
<1>9. /\ FlattenSeq(f) \in Seq(S) /\ FlattenSeq(t) \in Seq(S)
      /\ FlattenSeq(g \o t) = FlattenSeq(g) \o FlattenSeq(t)
    BY FlattenConcat
<1>10. QED
    BY <1>2, <1>3, <1>5, <1>6, <1>8, <1>9
=============================================================================
