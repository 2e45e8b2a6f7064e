----------------------------- MODULE DataLemmas -----------------------------
(***************************************************************************)
(* Facts about numbers, finite sets and sequences that the proofs of       *)
(* several modules need.                                                   *)
(***************************************************************************)
EXTENDS Naturals, SequencesExt, TLAPS, FiniteSetTheorems, SequenceTheorems

-----------------------------------------------------------------------------
(***************************************************************************)
(* Induction, stated for a set of numbers.                                 *)
(***************************************************************************)

\* A non-empty set of naturals has a least element.
LEMMA LeastNumber ==
  ASSUME NEW S \in SUBSET Nat, S # {}
  PROVE  \E x \in S : \A y \in S : x <= y
<1>. DEFINE R == {ss \in Nat \X Nat : ss[1] < ss[2]}
<1>1. R = OpToRel(<, Nat)
  BY Zenon DEF OpToRel
<1>2. IsWellFoundedOn(R, Nat)
  BY <1>1, NatLessThanWellFounded, Zenon
<1>3. PICK x \in S : \A y \in S : ~(<<y, x>> \in R)
  <2>. HIDE DEF R
  <2>. QED BY <1>2, WFMin
<1>4. ASSUME NEW y \in S PROVE x <= y
  <2>1. <<y, x>> \in R <=> y < x
    OBVIOUS
  <2>. QED BY <1>3, <2>1
<1>. QED BY <1>4

\* A set of naturals with 0 and every successor is all of them.
LEMMA SetInduction ==
  ASSUME NEW S, 0 \in S, \A n \in Nat : n \in S => n + 1 \in S
  PROVE  \A n \in Nat : n \in S
<1>. DEFINE T == {n \in Nat : n \notin S}
<1>. SUFFICES ASSUME T # {} PROVE FALSE
  OBVIOUS
<1>1. PICK x \in T : \A y \in T : x <= y
  BY LeastNumber
<1>2. x # 0 /\ x - 1 \in Nat /\ x - 1 \notin T
  BY <1>1
<1>. QED BY <1>2

\* What holds at m and is passed on below n holds from m to n.
LEMMA UpTo ==
  ASSUME NEW S, NEW m \in Nat, NEW n \in Nat, m \in S,
         \A i \in m..(n - 1) : i \in S => i + 1 \in S
  PROVE  \A i \in m..n : i \in S
<1>. SUFFICES ASSUME NEW k \in m..n, k \notin S PROVE FALSE
  OBVIOUS
<1>. DEFINE T == {i \in m..n : i \notin S}
<1>1. T \in SUBSET Nat /\ T # {}
  OBVIOUS
<1>2. PICK x \in T : \A y \in T : x <= y
  <2>. HIDE DEF T
  <2>. QED BY <1>1, LeastNumber
<1>3. x \in m..n /\ x \notin S /\ x # m
  BY <1>2
<1>4. x - 1 \in m..(n - 1) /\ x - 1 \notin T
  BY <1>2, <1>3
<1>5. x - 1 \in S
  BY <1>4
<1>. QED BY <1>3, <1>4, <1>5

\* Quotient and remainder.
LEMMA DivMod ==
  ASSUME NEW a \in Nat, NEW m \in Nat \ {0}
  PROVE  a \div m \in Nat /\ a % m \in 0..(m - 1) /\ a = m * (a \div m) + (a % m)
OBVIOUS

LEMMA DivModOf ==
  ASSUME NEW q \in Nat, NEW r \in Nat, NEW m \in Nat \ {0}, r < m
  PROVE  (m * q + r) \div m = q /\ (m * q + r) % m = r
OBVIOUS

\* The minimum of a non-empty set of naturals is in the set and below all others.
LEMMA MinIsLeast ==
  ASSUME NEW S \in SUBSET Nat, S # {}
  PROVE  Min(S) \in S /\ \A y \in S : Min(S) <= y
BY LeastNumber DEF Min

-----------------------------------------------------------------------------
(***************************************************************************)
(* Finite sets and sequences.                                              *)
(***************************************************************************)

\* One element more or less.
LEMMA CountAdded ==
  ASSUME NEW D, IsFiniteSet(D), NEW e, e \notin D
  PROVE  Cardinality(D \cup {e}) = Cardinality(D) + 1 /\ Cardinality(D) \in Nat
BY FS_AddElement, FS_CardinalityType

LEMMA CountRemoved ==
  ASSUME NEW D, IsFiniteSet(D), NEW e \in D
  PROVE  Cardinality(D \ {e}) = Cardinality(D) - 1 /\ Cardinality(D) \in Nat \ {0}
<1>1. D # {}
  OBVIOUS
<1>. QED BY <1>1, FS_RemoveElement, FS_CardinalityType, FS_EmptySet

\* Taking element i out of a sequence without repetition takes out that element.
LEMMA RemoveAtTakesOut ==
  ASSUME NEW S, NEW s \in Seq(S), IsInjective(s), NEW i \in DOMAIN s
  PROVE  /\ RemoveAt(s, i) \in Seq(S)
         /\ IsInjective(RemoveAt(s, i))
         /\ {RemoveAt(s, i)[j] : j \in DOMAIN RemoveAt(s, i)} = {s[j] : j \in DOMAIN s} \ {s[i]}
         /\ Len(RemoveAt(s, i)) = Len(s) - 1
<1>. DEFINE r == RemoveAt(s, i)
<1>1. /\ r \in Seq(S)
      /\ Len(s) \in Nat /\ DOMAIN s = 1..Len(s)
      /\ Len(r) = Len(s) - 1 /\ DOMAIN r = 1..(Len(s) - 1)
      /\ \A j \in 1..(Len(s) - 1) : r[j] = IF j < i THEN s[j] ELSE s[j + 1]
  <2>. DEFINE a == SubSeq(s, 1, i - 1)
              b == SubSeq(s, i + 1, Len(s))
  <2>1. Len(s) \in Nat /\ DOMAIN s = 1..Len(s) /\ \A j \in 1..Len(s) : s[j] \in S
    OBVIOUS
  <2>2. a \in Seq(S) /\ Len(a) = i - 1 /\ \A j \in 1..(i - 1) : a[j] = s[j]
    BY <2>1, SubSeqProperties
  <2>3. b \in Seq(S) /\ Len(b) = Len(s) - i /\ \A j \in 1..(Len(s) - i) : b[j] = s[j + i]
    BY <2>1, SubSeqProperties
  <2>. HIDE DEF a, b
  <2>4. r = a \o b
    BY DEF RemoveAt, a, b
  <2>5. /\ a \o b \in Seq(S) /\ Len(a \o b) = Len(a) + Len(b)
        /\ \A j \in 1..(Len(a) + Len(b)) : (a \o b)[j] = IF j <= Len(a) THEN a[j] ELSE b[j - Len(a)]
    BY <2>2, <2>3, ConcatProperties
  <2>. HIDE DEF r
  <2>6. r \in Seq(S) /\ Len(r) = Len(s) - 1 /\ DOMAIN r = 1..(Len(s) - 1)
    <3>1. Len(r) = (i - 1) + (Len(s) - i) /\ r \in Seq(S)
      BY <2>2, <2>3, <2>4, <2>5, Zenon
    <3>. QED BY <2>1, <3>1, LenProperties
  <2>7. ASSUME NEW j \in 1..(Len(s) - 1) PROVE r[j] = IF j < i THEN s[j] ELSE s[j + 1]
    <3>1. j \in 1..(Len(a) + Len(b)) /\ Len(a) = i - 1
      BY <2>1, <2>2, <2>3
    <3>2. r[j] = IF j <= i - 1 THEN a[j] ELSE b[j - (i - 1)]
      BY <2>4, <2>5, <3>1, Zenon
    <3>3. CASE j < i
      <4>. QED BY <2>1, <2>2, <3>2, <3>3
    <3>4. CASE ~(j < i)
      <4>1. j - (i - 1) \in 1..(Len(s) - i) /\ (j - (i - 1)) + i = j + 1
        BY <2>1, <3>4
      <4>2. b[j - (i - 1)] = s[(j - (i - 1)) + i]
        BY <2>3, <4>1
      <4>3. r[j] = b[j - (i - 1)]
        BY <2>1, <3>2, <3>4
      <4>. QED BY <3>4, <4>1, <4>2, <4>3
    <3>. QED BY <3>3, <3>4
  <2>. QED BY <2>1, <2>6, <2>7
<1>. HIDE DEF r
<1>2. IsInjective(r)
  <2>. SUFFICES ASSUME NEW x \in DOMAIN r, NEW y \in DOMAIN r, r[x] = r[y] PROVE x = y
    BY DEF IsInjective
  <2>. DEFINE at(j) == IF j < i THEN j ELSE j + 1
  <2>1. at(x) \in DOMAIN s /\ at(y) \in DOMAIN s /\ s[at(x)] = s[at(y)]
    BY <1>1
  <2>2. at(x) = at(y)
    BY <2>1 DEF IsInjective
  <2>. QED BY <1>1, <2>2
<1>3. ASSUME NEW x, x \in {s[j] : j \in DOMAIN s}, x # s[i]
      PROVE  x \in {r[j] : j \in DOMAIN r}
  <2>1. PICK j \in 1..Len(s) : s[j] = x
    BY <1>1, <1>3
  <2>2. CASE j < i
    <3>1. j \in DOMAIN r /\ r[j] = x
      BY <1>1, <2>1, <2>2
    <3>. QED BY <3>1
  <2>3. CASE j > i
    <3>1. j - 1 \in DOMAIN r /\ r[j - 1] = x
      BY <1>1, <2>1, <2>3
    <3>. QED BY <3>1
  <2>4. j # i
    BY <1>3, <2>1
  <2>. QED BY <1>1, <2>1, <2>2, <2>3, <2>4
<1>4. ASSUME NEW j \in DOMAIN r PROVE r[j] \in {s[k] : k \in DOMAIN s} \ {s[i]}
  BY <1>1 DEF IsInjective
<1>5. {r[j] : j \in DOMAIN r} = {s[j] : j \in DOMAIN s} \ {s[i]}
  BY <1>3, <1>4
<1>. QED BY <1>1, <1>2, <1>5 DEF r

\* An element more at the end.
LEMMA AppendAddsOne ==
  ASSUME NEW S, NEW s \in Seq(S), IsInjective(s), NEW e \in S, e \notin ToSet(s)
  PROVE  /\ Append(s, e) \in Seq(S) /\ IsInjective(Append(s, e))
         /\ ToSet(Append(s, e)) = ToSet(s) \cup {e}
<1>1. /\ Len(s) \in Nat /\ DOMAIN s = 1..Len(s) /\ Append(s, e) \in Seq(S)
      /\ DOMAIN Append(s, e) = 1..(Len(s) + 1) /\ Append(s, e)[Len(s) + 1] = e
      /\ \A j \in 1..Len(s) : Append(s, e)[j] = s[j]
  OBVIOUS
<1>2. PICK r : r = Append(s, e)
  OBVIOUS
<1>3. IsInjective(r)
  BY <1>1, <1>2 DEF IsInjective, ToSet
<1>4. ASSUME NEW j \in DOMAIN r PROVE r[j] \in ToSet(s) \cup {e}
  <2>1. CASE j = Len(s) + 1
    BY <1>1, <1>2, <2>1
  <2>2. CASE j # Len(s) + 1
    <3>1. j \in 1..Len(s)
      BY <1>1, <1>2, <2>2
    <3>. QED BY <1>1, <1>2, <3>1 DEF ToSet
  <2>. QED BY <2>1, <2>2
<1>5. ASSUME NEW d \in ToSet(s) \cup {e} PROVE d \in ToSet(r)
  <2>1. CASE d = e
    BY <1>1, <1>2, <2>1 DEF ToSet
  <2>2. CASE d # e
    <3>1. PICK j \in 1..Len(s) : s[j] = d
      BY <1>1, <1>5, <2>2 DEF ToSet
    <3>2. j \in DOMAIN r /\ r[j] = d
      BY <1>1, <1>2, <3>1
    <3>. QED BY <3>2 DEF ToSet
  <2>. QED BY <2>1, <2>2
<1>6. ToSet(r) = ToSet(s) \cup {e}
  BY <1>4, <1>5 DEF ToSet
<1>. QED BY <1>1, <1>2, <1>3, <1>6

\* Taking an element out again that was added at the end.
LEMMA AppendUndone ==
  ASSUME NEW S, NEW s \in Seq(S), NEW e \in S, e \notin ToSet(s),
         NEW i \in DOMAIN Append(s, e), Append(s, e)[i] = e
  PROVE  RemoveAt(Append(s, e), i) = s
<1>1. PICK l : l = Append(s, e)
  OBVIOUS
<1>2. /\ Len(s) \in Nat /\ DOMAIN s = 1..Len(s) /\ l \in Seq(S) /\ Len(l) = Len(s) + 1
      /\ DOMAIN l = 1..(Len(s) + 1) /\ l[Len(s) + 1] = e
      /\ \A j \in 1..Len(s) : l[j] = s[j] /\ s[j] \in S
  BY <1>1
<1>3. i \in DOMAIN l /\ l[i] = e
  BY <1>1
<1>4. i = Len(s) + 1
  BY <1>2, <1>3 DEF ToSet
<1>5. SubSeq(l, Len(s) + 2, Len(l)) = <<>>
  BY <1>2
<1>6. SubSeq(l, 1, Len(s)) = s
  <2>1. PICK r : r = SubSeq(l, 1, Len(s))
    OBVIOUS
  <2>2. r \in Seq(S) /\ Len(r) = Len(s) /\ \A j \in 1..Len(s) : r[j] = l[j]
    BY <1>2, <2>1
  <2>. QED BY <1>2, <2>1, <2>2
<1>7. RemoveAt(l, i) = s \o <<>>
  <2>1. i - 1 = Len(s) /\ i + 1 = Len(s) + 2
    BY <1>2, <1>4
  <2>. QED BY <1>5, <1>6, <2>1 DEF RemoveAt
<1>8. s \o <<>> = s
  OBVIOUS
<1>. QED BY <1>1, <1>7, <1>8

\* At most one element more, at most three.
LEMMA OneMore ==
  ASSUME NEW S, IsFiniteSet(S), NEW e, NEW T, T = S \cup {e}
  PROVE  /\ IsFiniteSet(T) /\ Cardinality(T) \in Nat /\ Cardinality(S) \in Nat
         /\ Cardinality(T) <= Cardinality(S) + 1
<1>1. Cardinality(S) \in Nat
  BY FS_CardinalityType
<1>2. CASE e \in S
  <2>1. T = S
    BY <1>2
  <2>2. Cardinality(T) = Cardinality(S) /\ IsFiniteSet(T)
    BY <2>1
  <2>. QED BY <1>1, <2>2
<1>3. CASE e \notin S
  <2>1. IsFiniteSet(T) /\ Cardinality(T) = Cardinality(S) + 1
    BY <1>3, FS_AddElement
  <2>. QED BY <1>1, <2>1
<1>. QED BY <1>2, <1>3

LEMMA ThreeMore ==
  ASSUME NEW S, IsFiniteSet(S), NEW a, NEW b, NEW c, NEW T, T \subseteq S \cup {a, b, c}
  PROVE  Cardinality(T) \in Nat /\ Cardinality(S) \in Nat /\ Cardinality(T) <= Cardinality(S) + 3
<1>1. PICK A : A = S \cup {a}
  OBVIOUS
<1>2. PICK B : B = A \cup {b}
  OBVIOUS
<1>3. PICK C : C = B \cup {c}
  OBVIOUS
<1>4. IsFiniteSet(A) /\ Cardinality(A) \in Nat /\ Cardinality(S) \in Nat /\ Cardinality(A) <= Cardinality(S) + 1
  BY <1>1, OneMore
<1>5. IsFiniteSet(B) /\ Cardinality(B) \in Nat /\ Cardinality(B) <= Cardinality(A) + 1
  BY <1>2, <1>4, OneMore
<1>6. IsFiniteSet(C) /\ Cardinality(C) \in Nat /\ Cardinality(C) <= Cardinality(B) + 1
  BY <1>3, <1>5, OneMore
<1>7. T \subseteq C
  BY <1>1, <1>2, <1>3
<1>8. Cardinality(T) <= Cardinality(C) /\ Cardinality(T) \in Nat
  BY <1>6, <1>7, FS_Subset, FS_CardinalityType
<1>. QED BY <1>4, <1>5, <1>6, <1>8

-----------------------------------------------------------------------------
(***************************************************************************)
(* Sequences of sequences put together.                                    *)
(***************************************************************************)

\* Whatever g puts the first i sequences together for every i puts all of them together.
LEMMA Flattened ==
  ASSUME NEW S, NEW n \in Nat \ {0}, NEW seqs \in [1..n -> Seq(S)], NEW g \in [1..n -> Seq(S)],
         g[1] = seqs[1], \A i \in 2..n : g[i] = g[i - 1] \o seqs[i]
  PROVE  FlattenSeq(seqs) = g[n]
<1>. DEFINE P(f) == f = [i \in 1..n |-> IF i = 1 THEN seqs[i] ELSE f[i - 1] \o seqs[i]]
<1>1. seqs \in Seq(Seq(S)) /\ Len(seqs) = n
  OBVIOUS
<1>2. PICK f : f = CHOOSE h : P(h)
  OBVIOUS
<1>3. P(g)
  <2>1. \A i \in 1..n : g[i] = IF i = 1 THEN seqs[i] ELSE g[i - 1] \o seqs[i]
    <3>1. \A i \in 1..n : i = 1 \/ (i # 1 /\ i \in 2..n)
      OBVIOUS
    <3>. QED BY <3>1
  <2>2. g = [i \in 1..n |-> g[i]]
    OBVIOUS
  <2>. QED BY <2>1, <2>2
<1>4. P(f)
  <2>. HIDE DEF P
  <2>. QED BY <1>2, <1>3
<1>5. FlattenSeq(seqs) = f[n]
  BY <1>1, <1>2 DEF FlattenSeq
<1>6. \A i \in 1..n : f[i] = IF i = 1 THEN seqs[i] ELSE f[i - 1] \o seqs[i]
  BY <1>4
<1>. HIDE DEF P
<1>. DEFINE K == {k \in Nat : k + 1 \in 1..n => f[k + 1] = g[k + 1]}
<1>7. 0 \in K
  BY <1>6
<1>8. ASSUME NEW k \in Nat, k \in K PROVE k + 1 \in K
  <2>. SUFFICES ASSUME k + 2 \in 1..n PROVE f[k + 2] = g[k + 2]
    OBVIOUS
  <2>1. k + 1 \in 1..n /\ k + 2 \in 2..n /\ (k + 2) - 1 = k + 1 /\ k + 2 # 1
    OBVIOUS
  <2>2. f[k + 1] = g[k + 1]
    BY <1>8, <2>1
  <2>3. f[k + 2] = f[k + 1] \o seqs[k + 2]
    BY <1>6, <2>1
  <2>4. g[k + 2] = g[k + 1] \o seqs[k + 2]
    BY <2>1
  <2>. QED BY <2>2, <2>3, <2>4
<1>. HIDE DEF K
<1>9. \A k \in Nat : k \in K
  BY <1>7, <1>8, SetInduction
<1>10. f[n] = g[n]
  <2>1. n - 1 \in Nat /\ (n - 1) + 1 = n /\ n \in 1..n
    OBVIOUS
  <2>2. n - 1 \in K
    BY <1>9, <2>1
  <2>. QED BY <2>1, <2>2 DEF K
<1>. QED BY <1>5, <1>10

\* One sequence alone, and a sequence taken apart into its elements.
LEMMA FlattenOne ==
  ASSUME NEW S, NEW s \in Seq(S), NEW seqs, seqs = [i \in 1..1 |-> s]
  PROVE  FlattenSeq(seqs) = s
<1>1. seqs \in [1..1 -> Seq(S)] /\ seqs[1] = s /\ 1 \in Nat \ {0} /\ \A i \in 2..1 : FALSE
  OBVIOUS
<1>2. PICK n : n = 1
  OBVIOUS
<1>. QED BY <1>1, Flattened

LEMMA FlattenElements ==
  ASSUME NEW S, NEW s \in Seq(S), NEW seqs, seqs = [i \in DOMAIN s |-> <<s[i]>>]
  PROVE  FlattenSeq(seqs) = s
<1>1. PICK n \in Nat : n = Len(s) /\ DOMAIN s = 1..n /\ s \in [1..n -> S]
  OBVIOUS
<1>2. seqs \in [1..n -> Seq(S)] /\ \A i \in 1..n : seqs[i] = <<s[i]>>
  BY <1>1
<1>3. CASE n = 0
  <2>1. seqs \in Seq(Seq(S)) /\ Len(seqs) = 0
    BY <1>2, <1>3
  <2>2. seqs = <<>> /\ s = <<>>
    BY <1>1, <1>3, <2>1, EmptySeq
  <2>. QED BY <2>1, <2>2 DEF FlattenSeq
<1>4. CASE n # 0
  <2>1. ASSUME NEW i \in 1..n
        PROVE  SubSeq(s, 1, i) \in Seq(S) /\ Len(SubSeq(s, 1, i)) = i /\ \A j \in 1..i : SubSeq(s, 1, i)[j] = s[j]
    BY <1>1, SubSeqProperties
  <2>2. PICK g : g = [i \in 1..n |-> SubSeq(s, 1, i)]
    OBVIOUS
  <2>3. g \in [1..n -> Seq(S)] /\ \A i \in 1..n : Len(g[i]) = i /\ \A j \in 1..i : g[i][j] = s[j]
    BY <2>1, <2>2
  <2>4. g[1] = seqs[1]
    <3>1. 1 \in 1..n /\ g[1] \in Seq(S) /\ Len(g[1]) = 1 /\ g[1][1] = s[1] /\ seqs[1] = <<s[1]>> /\ s[1] \in S
      BY <1>1, <1>2, <1>4, <2>3
    <3>. QED BY <3>1
  <2>5. ASSUME NEW i \in 2..n PROVE g[i] = g[i - 1] \o seqs[i]
    <3>1. i \in 1..n /\ i - 1 \in 1..n /\ i \in Nat /\ i - 1 \in Nat
      BY <1>1
    <3>2. PICK a \in Seq(S) : a = g[i] /\ Len(a) = i /\ \A j \in 1..i : a[j] = s[j]
      BY <2>3, <3>1
    <3>3. PICK b \in Seq(S) : b = g[i - 1] /\ Len(b) = i - 1 /\ \A j \in 1..(i - 1) : b[j] = s[j]
      BY <2>3, <3>1
    <3>4. PICK e \in S : e = s[i] /\ seqs[i] = <<e>>
      BY <1>1, <1>2, <3>1
    <3>5. PICK c : c = <<e>>
      OBVIOUS
    <3>6. c \in Seq(S) /\ Len(c) = 1 /\ c[1] = e
      BY <3>5
    <3>7. /\ b \o c \in Seq(S) /\ Len(b \o c) = i
          /\ \A j \in 1..i : (b \o c)[j] = IF j <= i - 1 THEN b[j] ELSE c[j - (i - 1)]
      <4>1. /\ b \o c \in Seq(S) /\ Len(b \o c) = Len(b) + Len(c)
            /\ \A j \in 1..(Len(b) + Len(c)) : (b \o c)[j] = IF j <= Len(b) THEN b[j] ELSE c[j - Len(b)]
        BY <3>6, ConcatProperties, Zenon
      <4>2. Len(b) + Len(c) = i
        BY <3>1, <3>3, <3>6
      <4>. QED BY <3>3, <4>1, <4>2
    <3>8. \A j \in 1..i : (b \o c)[j] = a[j]
      BY <3>1, <3>2, <3>3, <3>4, <3>6, <3>7
    <3>9. a = b \o c
      BY <3>2, <3>7, <3>8, SeqEqual
    <3>. QED BY <3>2, <3>3, <3>4, <3>5, <3>9
  <2>6. g[n] = s
    <3>1. n \in 1..n /\ g[n] \in Seq(S) /\ Len(g[n]) = n /\ \A j \in 1..n : g[n][j] = s[j]
      BY <1>4, <2>3
    <3>. QED BY <1>1, <3>1, SeqEqual
  <2>7. n \in Nat \ {0}
    BY <1>4
  <2>8. seqs \in [1..n -> Seq(S)] /\ g \in [1..n -> Seq(S)]
    BY <1>2, <2>3
  <2>9. FlattenSeq(seqs) = g[n]
    <3>1. \A i \in 2..n : g[i] = g[i - 1] \o seqs[i]
      BY <2>5, Zenon
    <3>2. ASSUME NEW m \in Nat \ {0}, NEW q \in [1..m -> Seq(S)], NEW h \in [1..m -> Seq(S)],
                 h[1] = q[1], \A i \in 2..m : h[i] = h[i - 1] \o q[i]
          PROVE  FlattenSeq(q) = h[m]
      BY <3>2, Flattened
    <3>. QED BY <2>4, <2>7, <2>8, <3>1, <3>2, Zenon
  <2>. QED BY <2>6, <2>9
<1>. QED BY <1>3, <1>4

\* A new first element.
LEMMA PrependAddsOne ==
  ASSUME NEW S, NEW s \in Seq(S), NEW e \in S
  PROVE  /\ <<e>> \o s \in Seq(S)
         /\ ToSet(<<e>> \o s) = ToSet(s) \cup {e}
         /\ IsInjective(s) /\ e \notin ToSet(s) => IsInjective(<<e>> \o s)
<1>1. PICK one : one = <<e>>
  OBVIOUS
<1>2. one \in Seq(S) /\ Len(one) = 1 /\ one[1] = e
  BY <1>1
<1>3. PICK n \in Nat : n = Len(s) /\ DOMAIN s = 1..n
  OBVIOUS
<1>4. PICK l : l = one \o s
  OBVIOUS
<1>5. /\ l \in Seq(S) /\ Len(l) = Len(one) + Len(s)
      /\ \A j \in 1..(Len(one) + Len(s)) : l[j] = IF j <= Len(one) THEN one[j] ELSE s[j - Len(one)]
  BY <1>2, <1>4, ConcatProperties, Zenon
<1>6. Len(one) + Len(s) = n + 1
  BY <1>2, <1>3
<1>7. DOMAIN l = 1..(n + 1) /\ l[1] = e
  BY <1>2, <1>3, <1>5, <1>6
<1>8. \A j \in 1..n : j + 1 \in DOMAIN l /\ l[j + 1] = s[j]
  <2>1. ASSUME NEW j \in 1..n PROVE l[j + 1] = s[j]
    <3>1. j + 1 \in 1..(n + 1) /\ ~(j + 1 <= 1) /\ (j + 1) - 1 = j
      OBVIOUS
    <3>. QED BY <1>2, <1>5, <1>6, <3>1
  <2>. QED BY <1>7, <2>1
<1>9. \A i \in DOMAIN l : i = 1 \/ (i - 1 \in 1..n /\ l[i] = s[i - 1])
  <2>1. ASSUME NEW i \in 1..(n + 1), i # 1 PROVE i - 1 \in 1..n /\ l[i] = s[i - 1]
    <3>1. i - 1 \in 1..n /\ (i - 1) + 1 = i
      BY <2>1
    <3>2. l[(i - 1) + 1] = s[i - 1]
      BY <1>8, <3>1, Zenon
    <3>. QED BY <3>1, <3>2
  <2>. QED BY <1>7, <2>1
<1>10. ToSet(l) = ToSet(s) \cup {e}
  <2>1. ASSUME NEW x \in ToSet(l) PROVE x \in ToSet(s) \cup {e}
    <3>1. PICK i \in DOMAIN l : l[i] = x
      BY DEF ToSet
    <3>. QED BY <1>3, <1>7, <1>9, <3>1 DEF ToSet
  <2>2. ASSUME NEW x \in ToSet(s) PROVE x \in ToSet(l)
    <3>1. PICK j \in 1..n : s[j] = x
      BY <1>3 DEF ToSet
    <3>. QED BY <1>8, <3>1 DEF ToSet
  <2>3. e \in ToSet(l)
    <3>1. 1 \in DOMAIN l
      BY <1>7
    <3>. QED BY <1>7, <3>1 DEF ToSet
  <2>. QED BY <2>1, <2>2, <2>3
<1>11. ASSUME IsInjective(s), e \notin ToSet(s) PROVE IsInjective(l)
  <2>. SUFFICES ASSUME NEW a \in DOMAIN l, NEW b \in DOMAIN l, l[a] = l[b] PROVE a = b
    BY DEF IsInjective
  <2>1. \A j \in 1..n : s[j] # e
    BY <1>3, <1>11 DEF ToSet
  <2>2. CASE a = 1 /\ b = 1
    BY <2>2
  <2>3. CASE a = 1 /\ b # 1
    <3>1. b - 1 \in 1..n /\ l[b] = s[b - 1]
      BY <1>9, <2>3
    <3>. QED BY <1>7, <2>1, <2>3, <3>1
  <2>4. CASE a # 1 /\ b = 1
    <3>1. a - 1 \in 1..n /\ l[a] = s[a - 1]
      BY <1>9, <2>4
    <3>. QED BY <1>7, <2>1, <2>4, <3>1
  <2>5. CASE a # 1 /\ b # 1
    <3>1. a - 1 \in 1..n /\ l[a] = s[a - 1] /\ b - 1 \in 1..n /\ l[b] = s[b - 1]
      BY <1>9, <2>5
    <3>2. a - 1 = b - 1
      BY <1>3, <1>11, <3>1 DEF IsInjective
    <3>. QED BY <1>7, <3>2
  <2>. QED BY <2>2, <2>3, <2>4, <2>5
<1>. QED BY <1>1, <1>4, <1>5, <1>10, <1>11

LEMMA SingleElement ==
  ASSUME NEW S, NEW e \in S
  PROVE  <<e>> \in Seq(S) /\ ToSet(<<e>>) = {e} /\ IsInjective(<<e>>)
<1>1. PICK one : one = <<e>>
  OBVIOUS
<1>2. one \in Seq(S) /\ DOMAIN one = {1} /\ one[1] = e
  BY <1>1
<1>3. ToSet(one) = {e} /\ IsInjective(one)
  BY <1>2 DEF ToSet, IsInjective
<1>. QED BY <1>1, <1>2, <1>3
=============================================================================
