--------------------------- MODULE FsServiceProofs ---------------------------
(***************************************************************************)
(* Proofs about FsService, for any names, root, directories, trees,        *)
(* contents and requesters.                                                *)
(***************************************************************************)
EXTENDS FsService, SequenceTheorems, FiniteSetTheorems, NaturalsInduction,
        WellFoundedInduction, TLAPS

-----------------------------------------------------------------------------
(* Induction over natural numbers, by a set of them.                       *)

LEMMA Wf == IsWellFoundedOn({pair \in Nat \X Nat : pair[1] < pair[2]}, Nat)
  BY NatLessThanWellFounded DEF OpToRel

\* A set that holds 0, and n + 1 if it holds n, holds every natural number.
LEMMA SetInduction ==
  ASSUME NEW S, 0 \in S, \A n \in Nat : n \in S => n + 1 \in S
  PROVE  \A n \in Nat : n \in S
<1> DEFINE T == {n \in Nat : n \notin S}
<1>1. SUFFICES ASSUME T # {}
               PROVE  FALSE
  OBVIOUS
<1>2. PICK x \in T : \A y \in T : ~ (<<y, x>> \in {pair \in Nat \X Nat : pair[1] < pair[2]})
  <2>1. T \subseteq Nat
    OBVIOUS
  <2> HIDE DEF T
  <2> QED  BY <1>1, <2>1, Wf, WFMin, Zenon
<1>3. x \in Nat /\ x # 0 /\ x - 1 \in Nat /\ x - 1 < x
  BY <1>2
<1>4. x - 1 \in T
  BY <1>2, <1>3
<1>5. <<x - 1, x>> \in {pair \in Nat \X Nat : pair[1] < pair[2]}
  BY <1>3, SMT
<1> QED  BY <1>2, <1>4, <1>5

-----------------------------------------------------------------------------
(* Sequences and their prefixes.                                           *)

\* The first k elements of a sequence.
LEMMA Cut ==
  ASSUME NEW S, NEW s \in Seq(S), NEW k \in 0..Len(s)
  PROVE  /\ SubSeq(s, 1, k) \in Seq(S)
         /\ Len(SubSeq(s, 1, k)) = k
         /\ \A i \in 1..k : SubSeq(s, 1, k)[i] = s[i]
<1>1. Len(s) \in Nat /\ 1 \in Int /\ k \in Int /\ \A i \in 1..k : s[i] \in S
  OBVIOUS
<1>2. /\ SubSeq(s, 1, k) \in Seq(S)
      /\ Len(SubSeq(s, 1, k)) = IF 1 <= k THEN (k - 1) + 1 ELSE 0
      /\ \A i \in 1..(k - 1) + 1 : SubSeq(s, 1, k)[i] = s[(1 + i) - 1]
  BY <1>1, SubSeqProperties
<1>3. (IF 1 <= k THEN (k - 1) + 1 ELSE 0) = k /\ (k - 1) + 1 = k
  BY <1>1
<1>4. \A i \in 1..k : (1 + i) - 1 = i
  BY <1>1
<1> QED  BY <1>2, <1>3, <1>4

\* What is left of it without them.
LEMMA Drop ==
  ASSUME NEW S, NEW s \in Seq(S), NEW k \in 0..Len(s)
  PROVE  /\ SubSeq(s, k + 1, Len(s)) \in Seq(S)
         /\ Len(SubSeq(s, k + 1, Len(s))) = Len(s) - k
         /\ \A i \in 1..Len(s) - k : SubSeq(s, k + 1, Len(s))[i] = s[k + i]
<1>1. Len(s) \in Nat /\ k + 1 \in Int /\ Len(s) \in Int
      /\ \A i \in k + 1..Len(s) : s[i] \in S
  OBVIOUS
<1> DEFINE r == SubSeq(s, k + 1, Len(s))
<1>2. /\ r \in Seq(S)
      /\ Len(r) = IF k + 1 <= Len(s) THEN (Len(s) - (k + 1)) + 1 ELSE 0
      /\ \A i \in 1..(Len(s) - (k + 1)) + 1 : r[i] = s[((k + 1) + i) - 1]
  BY <1>1, SubSeqProperties
<1> HIDE DEF r
<1>3. \A l \in Nat : k <= l => (IF k + 1 <= l THEN (l - (k + 1)) + 1 ELSE 0) = l - k
  OBVIOUS
<1>4. Len(r) = Len(s) - k /\ (Len(s) - (k + 1)) + 1 = Len(s) - k
  BY <1>1, <1>2, <1>3
<1>5. \A i \in 1..Len(s) - k : ((k + 1) + i) - 1 = k + i
  BY <1>1
<1> QED  BY <1>2, <1>4, <1>5 DEF r

\* A prefix agrees with the first elements.
LEMMA PrefixIs ==
  ASSUME NEW S, NEW s \in Seq(S), NEW t \in Seq(S)
  PROVE  /\ IsPrefix(s, t) <=> Len(s) <= Len(t) /\ \A i \in 1..Len(s) : s[i] = t[i]
         /\ IsPrefix(s, t) <=> Len(s) <= Len(t) /\ s = SubSeq(t, 1, Len(s))
<1>1. SubSeq(s, 1, Len(s)) = s
  OBVIOUS
<1>2. ASSUME Len(s) <= Len(t)
      PROVE  s = SubSeq(t, 1, Len(s)) <=> \A i \in 1..Len(s) : s[i] = t[i]
  <2> DEFINE c == SubSeq(t, 1, Len(s))
  <2>1. Len(s) \in 0..Len(t)
    BY <1>2
  <2>2. c \in Seq(S) /\ Len(c) = Len(s) /\ \A i \in 1..Len(s) : c[i] = t[i]
    BY <2>1, Cut
  <2> HIDE DEF c
  <2>3. (\A i \in 1..Len(s) : s[i] = c[i]) => s = c
    BY <2>2, SeqEqual
  <2> QED  BY <2>2, <2>3 DEF c
<1> QED  BY <1>1, <1>2 DEF IsPrefix

\* A sequence joined to another has it as a prefix, and leaves the other.
LEMMA Joined ==
  ASSUME NEW S, NEW s \in Seq(S), NEW r \in Seq(S)
  PROVE  /\ s \o r \in Seq(S) /\ Len(s \o r) = Len(s) + Len(r)
         /\ IsPrefix(s, s \o r)
         /\ SubSeq(s \o r, Len(s) + 1, Len(s \o r)) = r
<1> DEFINE j == s \o r
<1>1. /\ j \in Seq(S) /\ Len(j) = Len(s) + Len(r) /\ Len(s) \in Nat /\ Len(r) \in Nat
      /\ \A i \in 1..Len(s) : j[i] = s[i]
      /\ \A i \in 1..Len(r) : j[Len(s) + i] = r[i]
  OBVIOUS
<1> HIDE DEF j
<1>2. IsPrefix(s, j)
  BY <1>1, PrefixIs
<1>3. SubSeq(j, Len(s) + 1, Len(j)) = r
  <2> DEFINE d == SubSeq(j, Len(s) + 1, Len(j))
  <2>1. Len(s) \in 0..Len(j) /\ Len(j) - Len(s) = Len(r)
    BY <1>1
  <2>2. d \in Seq(S) /\ Len(d) = Len(r) /\ \A i \in 1..Len(r) : d[i] = j[Len(s) + i]
    <3>1. /\ d \in Seq(S) /\ Len(d) = Len(j) - Len(s)
          /\ \A i \in 1..Len(j) - Len(s) : d[i] = j[Len(s) + i]
      BY <1>1, <2>1, Drop
    <3> QED  BY <2>1, <3>1
  <2> HIDE DEF d
  <2>3. \A i \in 1..Len(d) : d[i] = r[i]
    BY <1>1, <2>2
  <2> QED  BY <2>2, <2>3, SeqEqual DEF d
<1> QED  BY <1>1, <1>2, <1>3 DEF j

\* A sequence is its prefix, joined to the rest.
LEMMA Parted ==
  ASSUME NEW S, NEW s \in Seq(S), NEW t \in Seq(S), IsPrefix(s, t)
  PROVE  /\ SubSeq(t, Len(s) + 1, Len(t)) \in Seq(S)
         /\ t = s \o SubSeq(t, Len(s) + 1, Len(t))
<1> DEFINE d == SubSeq(t, Len(s) + 1, Len(t))
<1>1. Len(s) \in Nat /\ Len(t) \in Nat /\ Len(s) <= Len(t)
      /\ \A i \in 1..Len(s) : s[i] = t[i]
  BY PrefixIs
<1>2. Len(s) \in 0..Len(t)
  BY <1>1
<1>3. /\ d \in Seq(S) /\ Len(d) = Len(t) - Len(s)
      /\ \A i \in 1..Len(t) - Len(s) : d[i] = t[Len(s) + i]
  BY <1>2, Drop
<1> HIDE DEF d
<1> DEFINE j == s \o d
<1>4. /\ j \in Seq(S) /\ Len(j) = Len(s) + Len(d)
      /\ \A i \in 1..Len(s) : j[i] = s[i]
      /\ \A i \in 1..Len(d) : j[Len(s) + i] = d[i]
  BY <1>3
<1> HIDE DEF j
<1>5. ASSUME NEW i \in 1..Len(t)
      PROVE  t[i] = j[i]
  <2>1. CASE i \in 1..Len(s)
    BY <1>1, <1>4, <2>1
  <2>2. CASE i \notin 1..Len(s)
    <3>1. i - Len(s) \in 1..Len(d) /\ Len(s) + (i - Len(s)) = i
      BY <1>1, <1>3, <2>2
    <3> QED  BY <1>3, <1>4, <3>1
  <2> QED  BY <2>1, <2>2
<1>6. Len(t) = Len(j)
  BY <1>1, <1>3, <1>4
<1>7. t = j
  BY <1>4, <1>5, <1>6, SeqEqual
<1> QED  BY <1>3, <1>7 DEF j, d

\* A cut of a cut is a cut.
LEMMA CutCut ==
  ASSUME NEW S, NEW p \in Seq(S), NEW l \in 0..Len(p), NEW k \in 0..l
  PROVE  SubSeq(SubSeq(p, 1, l), 1, k) = SubSeq(p, 1, k)
<1> DEFINE c == SubSeq(p, 1, l)
           a == SubSeq(c, 1, k)
           b == SubSeq(p, 1, k)
<1>1. c \in Seq(S) /\ Len(c) = l /\ \A i \in 1..l : c[i] = p[i]
  BY Cut
<1>2. b \in Seq(S) /\ Len(b) = k /\ \A i \in 1..k : b[i] = p[i]
  <2>1. k \in 0..Len(p)
    OBVIOUS
  <2> QED  BY <2>1, Cut
<1> HIDE DEF c
<1>3. a \in Seq(S) /\ Len(a) = k /\ \A i \in 1..k : a[i] = c[i]
  BY <1>1, Cut
<1> HIDE DEF a, b
<1>4. \A i \in 1..k : a[i] = b[i]
  BY <1>1, <1>2, <1>3
<1> QED  BY <1>2, <1>3, <1>4, SeqEqual DEF a, b, c

\* A prefix of a cut is a prefix of the whole.
LEMMA CutPrefix ==
  ASSUME NEW S, NEW p \in Seq(S), NEW q \in Seq(S), NEW k \in 0..Len(q),
         IsPrefix(p, SubSeq(q, 1, k))
  PROVE  IsPrefix(p, q) /\ Len(p) <= k
<1> DEFINE c == SubSeq(q, 1, k)
<1>1. c \in Seq(S) /\ Len(c) = k /\ \A i \in 1..k : c[i] = q[i]
  BY Cut
<1> HIDE DEF c
<1>2. Len(p) <= Len(c) /\ \A i \in 1..Len(p) : p[i] = c[i]
  <2>1. IsPrefix(p, c)
    BY DEF c
  <2> QED  BY <1>1, <2>1, PrefixIs
<1>3. Len(p) <= Len(q) /\ Len(p) <= k /\ \A i \in 1..Len(p) : p[i] = q[i]
  BY <1>1, <1>2
<1> QED  BY <1>3, PrefixIs

\* A cut of two sequences joined is a cut of the first, or the first joined to a
\* cut of the second.
LEMMA CutJoined ==
  ASSUME NEW S, NEW s \in Seq(S), NEW r \in Seq(S), NEW k \in 0..Len(s) + Len(r)
  PROVE  /\ k <= Len(s) => SubSeq(s \o r, 1, k) = SubSeq(s, 1, k)
         /\ Len(s) <= k => SubSeq(s \o r, 1, k) = s \o SubSeq(r, 1, k - Len(s))
<1> DEFINE j == s \o r
           c == SubSeq(j, 1, k)
<1>1. /\ j \in Seq(S) /\ Len(j) = Len(s) + Len(r) /\ Len(s) \in Nat /\ Len(r) \in Nat
      /\ \A i \in 1..Len(s) : j[i] = s[i]
      /\ \A i \in 1..Len(r) : j[Len(s) + i] = r[i]
  OBVIOUS
<1> HIDE DEF j
<1>2. c \in Seq(S) /\ Len(c) = k /\ \A i \in 1..k : c[i] = j[i]
  BY <1>1, Cut
<1> HIDE DEF c
<1>3. ASSUME k <= Len(s)
      PROVE  c = SubSeq(s, 1, k)
  <2> DEFINE a == SubSeq(s, 1, k)
  <2>1. k \in 0..Len(s)
    BY <1>1, <1>3
  <2>2. a \in Seq(S) /\ Len(a) = k /\ \A i \in 1..k : a[i] = s[i]
    BY <2>1, Cut
  <2> HIDE DEF a
  <2>3. \A i \in 1..k : c[i] = a[i]
    BY <1>1, <1>2, <2>1, <2>2
  <2> QED  BY <1>2, <2>2, <2>3, SeqEqual DEF a
<1>4. ASSUME Len(s) <= k
      PROVE  c = s \o SubSeq(r, 1, k - Len(s))
  <2> DEFINE a == SubSeq(r, 1, k - Len(s))
             b == s \o a
  <2>1. k - Len(s) \in 0..Len(r)
    BY <1>1, <1>4
  <2>2. a \in Seq(S) /\ Len(a) = k - Len(s) /\ \A i \in 1..k - Len(s) : a[i] = r[i]
    BY <2>1, Cut
  <2> HIDE DEF a
  <2>3. /\ b \in Seq(S) /\ Len(b) = Len(s) + Len(a)
        /\ \A i \in 1..Len(s) : b[i] = s[i]
        /\ \A i \in 1..Len(a) : b[Len(s) + i] = a[i]
    BY <2>2
  <2> HIDE DEF b
  <2>4. Len(b) = k
    BY <1>1, <2>2, <2>3
  <2>5. ASSUME NEW i \in 1..k
        PROVE  c[i] = b[i]
    <3>1. CASE i \in 1..Len(s)
      BY <1>1, <1>2, <2>3, <3>1
    <3>2. CASE i \notin 1..Len(s)
      <4>1. /\ i - Len(s) \in 1..k - Len(s) /\ i - Len(s) \in 1..Len(r)
            /\ Len(s) + (i - Len(s)) = i
        BY <1>1, <2>1, <3>2
      <4>2. j[i] = r[i - Len(s)]
        BY <1>1, <4>1
      <4>3. b[i] = a[i - Len(s)]
        BY <2>2, <2>3, <4>1
      <4> QED  BY <1>2, <2>2, <4>1, <4>2, <4>3
    <3> QED  BY <3>1, <3>2
  <2> QED  BY <1>2, <2>3, <2>4, <2>5, SeqEqual DEF a, b
<1> QED  BY <1>3, <1>4 DEF j, c

-----------------------------------------------------------------------------
(* Names.                                                                  *)

Segs == Seq(Names \cup Dots)

\* What a name and the two dots do to a path.
LEMMA Walks ==
  ASSUME NEW here, NEW seg
  PROVE  /\ seg = "." => Walk(here, seg) = here
         /\ seg = ".." => Walk(here, seg) = IF here = <<>> THEN here ELSE Front(here)
         /\ seg \notin Dots => Walk(here, seg) = Append(here, seg)
<1>1. CASE seg = "."
  BY <1>1, Zenon DEF Walk, Dots
<1>2. CASE seg = ".."
  BY <1>2, Zenon DEF Walk, Dots
<1>3. CASE seg \notin Dots
  BY <1>3, Zenon DEF Walk, Dots
<1> QED  BY <1>1, <1>2, <1>3, Zenon DEF Dots

\* normalize walks the segments in turn.
LEMMA NormalizeTurns ==
  ASSUME NEW segs, Len(segs) \in Nat
  PROVE  \E at :
           /\ at[0] = <<>>
           /\ \A k \in 1..Len(segs) : at[k] = Walk(at[k - 1], segs[k])
           /\ normalize(segs) = at[Len(segs)]
<1> DEFINE Turn(g, n) == [k \in 0..n |-> IF k = 0 THEN <<>>
                                         ELSE LET here == g[k - 1] IN Walk(here, segs[k])]
           S == {n \in Nat : \E g : g = Turn(g, n)}
<1>1. 0 \in S
  <2>1. [k \in 0..0 |-> <<>>] = Turn([k \in 0..0 |-> <<>>], 0)
    OBVIOUS
  <2> QED  BY <2>1
<1>2. ASSUME NEW n \in Nat, n \in S
      PROVE  n + 1 \in S
  <2>1. PICK g : g = Turn(g, n)
    BY <1>2
  <2> DEFINE h == [k \in 0..n + 1 |-> IF k = n + 1 THEN Walk(g[n], segs[n + 1])
                                      ELSE g[k]]
  <2>2. ASSUME NEW k \in 0..n + 1
        PROVE  h[k] = IF k = 0 THEN <<>> ELSE Walk(h[k - 1], segs[k])
    <3>1. CASE k = n + 1
      BY <3>1
    <3>2. CASE k \in 0..n
      <4>1. h[k] = g[k] /\ (k # 0 => h[k - 1] = g[k - 1])
        BY <3>2
      <4>2. g[k] = IF k = 0 THEN <<>> ELSE Walk(g[k - 1], segs[k])
        BY <2>1, <3>2
      <4> QED  BY <4>1, <4>2
    <3> QED  BY <3>1, <3>2
  <2>3. h = [k \in 0..n + 1 |-> h[k]]
    OBVIOUS
  <2> HIDE DEF h
  <2>4. h = Turn(h, n + 1)
    BY <2>2, <2>3
  <2> QED  BY <2>4
<1>3. PICK g : g = Turn(g, Len(segs))
  <2> HIDE DEF S
  <2>1. Len(segs) \in S
    BY <1>1, <1>2, SetInduction
  <2> QED  BY <2>1 DEF S
<1> DEFINE at == CHOOSE a : a = Turn(a, Len(segs))
<1>4. at = Turn(at, Len(segs))
  BY <1>3
<1>5. normalize(segs) = at[Len(segs)]
  BY DEF normalize
<1> HIDE DEF at
<1>6. at[0] = <<>>
  BY <1>4
<1>7. \A k \in 1..Len(segs) : at[k] = Walk(at[k - 1], segs[k])
  BY <1>4
<1> QED  BY <1>5, <1>6, <1>7

\* Within j..k the next segment adds itself to the names or to the ups.
LEMMA Counts ==
  ASSUME NEW segs, NEW j \in Nat, NEW k \in Nat
  PROVE  /\ Cardinality(NamesIn(segs, j, k)) \in Nat
         /\ Cardinality(UpsIn(segs, j, k)) \in Nat
         /\ j <= k + 1 =>
              /\ Cardinality(NamesIn(segs, j, k + 1)) =
                   IF segs[k + 1] \notin Dots THEN Cardinality(NamesIn(segs, j, k)) + 1
                   ELSE Cardinality(NamesIn(segs, j, k))
              /\ Cardinality(UpsIn(segs, j, k + 1)) =
                   IF segs[k + 1] = ".." THEN Cardinality(UpsIn(segs, j, k)) + 1
                   ELSE Cardinality(UpsIn(segs, j, k))
<1>1. /\ IsFiniteSet(NamesIn(segs, j, k)) /\ Cardinality(NamesIn(segs, j, k)) \in Nat
      /\ IsFiniteSet(UpsIn(segs, j, k)) /\ Cardinality(UpsIn(segs, j, k)) \in Nat
  <2>1. IsFiniteSet(j..k)
    BY FS_Interval
  <2>2. NamesIn(segs, j, k) \in SUBSET (j..k) /\ UpsIn(segs, j, k) \in SUBSET (j..k)
    BY DEF NamesIn, UpsIn
  <2>3. IsFiniteSet(NamesIn(segs, j, k)) /\ IsFiniteSet(UpsIn(segs, j, k))
    BY <2>1, <2>2, FS_Subset
  <2> QED  BY <2>3, FS_CardinalityType
<1>2. ASSUME j <= k + 1
      PROVE  /\ NamesIn(segs, j, k + 1) =
                  IF segs[k + 1] \notin Dots THEN NamesIn(segs, j, k) \cup {k + 1}
                  ELSE NamesIn(segs, j, k)
             /\ UpsIn(segs, j, k + 1) =
                  IF segs[k + 1] = ".." THEN UpsIn(segs, j, k) \cup {k + 1}
                  ELSE UpsIn(segs, j, k)
             /\ k + 1 \notin NamesIn(segs, j, k) /\ k + 1 \notin UpsIn(segs, j, k)
  <2>1. j..k + 1 = (j..k) \cup {k + 1} /\ k + 1 \notin j..k
    BY <1>2
  <2> QED  BY <2>1 DEF NamesIn, UpsIn
<1> QED  BY <1>1, <1>2, FS_AddElement

\* How many names of i..k are not taken away by ups of it.
Open(segs, i, k) ==
  Cardinality(NamesIn(segs, i, k)) - Cardinality(UpsIn(segs, i, k))

LeftAt(segs, k) ==
  {i \in NamesIn(segs, 1, k) : \A m \in i..k : Open(segs, i, m) > 0}

\* The next segment opens one, closes one or does neither.
LEMMA Opens ==
  ASSUME NEW segs, NEW i \in Nat, NEW k \in Nat, i <= k + 1
  PROVE  /\ Open(segs, i, k) \in Int
         /\ i = k + 1 => Open(segs, i, k) = 0
         /\ segs[k + 1] \notin Dots => Open(segs, i, k + 1) = Open(segs, i, k) + 1
         /\ segs[k + 1] = ".." => Open(segs, i, k + 1) = Open(segs, i, k) - 1
         /\ segs[k + 1] = "." => Open(segs, i, k + 1) = Open(segs, i, k)
<1> DEFINE n(m) == Cardinality(NamesIn(segs, i, m))
           u(m) == Cardinality(UpsIn(segs, i, m))
<1>1. n(k) \in Nat /\ u(k) \in Nat
  BY Counts
<1>2. segs[k + 1] \notin Dots => n(k + 1) = n(k) + 1 /\ u(k + 1) = u(k)
  BY Counts, Zenon DEF Dots
<1>3. segs[k + 1] = ".." => n(k + 1) = n(k) /\ u(k + 1) = u(k) + 1
  BY Counts, Zenon DEF Dots
<1>4. segs[k + 1] = "." => n(k + 1) = n(k) /\ u(k + 1) = u(k)
  BY Counts, Zenon DEF Dots
<1>5. i = k + 1 => n(k) = 0 /\ u(k) = 0
  <2>1. i = k + 1 => NamesIn(segs, i, k) = {} /\ UpsIn(segs, i, k) = {}
    BY DEF NamesIn, UpsIn
  <2> QED  BY <2>1, FS_EmptySet
<1>6. Open(segs, i, k) = n(k) - u(k) /\ Open(segs, i, k + 1) = n(k + 1) - u(k + 1)
  BY DEF Open
<1> HIDE DEF n, u
<1> QED  BY <1>1, <1>2, <1>3, <1>4, <1>5, <1>6

\* What is left is what was left and is still open, and a name just read.
LEMMA LeftNext ==
  ASSUME NEW segs, NEW k \in Nat
  PROVE  LeftAt(segs, k + 1) =
           {i \in LeftAt(segs, k) : Open(segs, i, k + 1) > 0}
             \cup (IF segs[k + 1] \notin Dots THEN {k + 1} ELSE {})
<1>1. NamesIn(segs, 1, k + 1) =
        NamesIn(segs, 1, k) \cup (IF segs[k + 1] \notin Dots THEN {k + 1} ELSE {})
  <2>1. 1..k + 1 = (1..k) \cup {k + 1}
    OBVIOUS
  <2> QED  BY <2>1 DEF NamesIn
<1>2. ASSUME NEW i \in NamesIn(segs, 1, k)
      PROVE  (\A m \in i..k + 1 : Open(segs, i, m) > 0)
               <=> (\A m \in i..k : Open(segs, i, m) > 0) /\ Open(segs, i, k + 1) > 0
  <2>1. i \in 1..k /\ i..k + 1 = (i..k) \cup {k + 1}
    BY DEF NamesIn
  <2> QED  BY <2>1
<1>3. segs[k + 1] \notin Dots => \A m \in k + 1..k + 1 : Open(segs, k + 1, m) > 0
  <2>1. k + 1 \in Nat /\ k + 1..k + 1 = {k + 1}
    OBVIOUS
  <2> DEFINE i == k + 1
  <2>2. i \in Nat /\ i <= k + 1 /\ i = k + 1
    OBVIOUS
  <2> HIDE DEF i
  <2>3. Open(segs, i, k) = 0
    BY <2>2, Opens
  <2>4. segs[k + 1] \notin Dots => Open(segs, i, k + 1) = Open(segs, i, k) + 1
    BY <2>2, Opens
  <2>5. segs[k + 1] \notin Dots => Open(segs, k + 1, k + 1) = 1
    BY <2>3, <2>4 DEF i
  <2> QED  BY <2>1, <2>5
<1>4. k + 1 \notin NamesIn(segs, 1, k)
  BY DEF NamesIn
<1> QED  BY <1>1, <1>2, <1>3, <1>4 DEF LeftAt

\* Positions s, in order, are the ones left of the first k segments; each is as
\* many names deep as come after it.
Places(s, segs, k) ==
  /\ s \in Seq(1..k)
  /\ \A n \in 1..Len(s) : s[n] \in LeftAt(segs, k)
  /\ \A i \in LeftAt(segs, k) : \E n \in 1..Len(s) : s[n] = i
  /\ \A n, m \in 1..Len(s) : n < m => s[n] < s[m]
  /\ \A n \in 1..Len(s) : Open(segs, s[n], k) = (Len(s) - n) + 1

\* The segments at positions s.
Read(s, segs) == [n \in 1..Len(s) |-> segs[s[n]]]

\* What is read at such positions is a path of names, as long as the list, since a
\* position that is left never holds a dot.
LEMMA ReadFacts ==
  ASSUME NEW segs \in Segs, NEW k \in 0..Len(segs), NEW s, Places(s, segs, k)
  PROVE  /\ Read(s, segs) \in Seq(Names) /\ Len(Read(s, segs)) = Len(s)
         /\ s = <<>> <=> Read(s, segs) = <<>>
<1>1. Len(s) \in Nat /\ s \in [1..Len(s) -> 1..k]
  BY DEF Places
<1>2. ASSUME NEW n \in 1..Len(s)
      PROVE  segs[s[n]] \in Names
  <2>1. s[n] \in 1..k /\ s[n] \in LeftAt(segs, k)
    BY DEF Places
  <2>2. segs[s[n]] \notin Dots
    BY <2>1 DEF LeftAt, NamesIn
  <2>3. segs[s[n]] \in Names \cup Dots
    BY <2>1 DEF Segs
  <2> QED  BY <2>2, <2>3
<1>3. Read(s, segs) \in [1..Len(s) -> Names]
  BY <1>2 DEF Read
<1>4. Read(s, segs) \in Seq(Names) /\ Len(Read(s, segs)) = Len(s)
  BY <1>1, <1>3
<1>5. s \in Seq(1..k)
  BY DEF Places
<1> HIDE DEF Read
<1> QED  BY <1>1, <1>4, <1>5, EmptySeq

\* A dot leaves the positions as they are.
LEMMA PlacesDot ==
  ASSUME NEW segs \in Segs, NEW k \in Nat, NEW s, Places(s, segs, k),
         segs[k + 1] = "."
  PROVE  Places(s, segs, k + 1)
<1>1. segs[k + 1] \in Dots
  BY DEF Dots
<1>2. LeftAt(segs, k) \subseteq 1..k
  BY DEF LeftAt, NamesIn
<1>3. \A i \in LeftAt(segs, k) : Open(segs, i, k) > 0
  BY DEF LeftAt, NamesIn
<1>4. \A i \in LeftAt(segs, k) : Open(segs, i, k + 1) = Open(segs, i, k)
  BY <1>2, Opens
<1>5. LeftAt(segs, k + 1) = LeftAt(segs, k)
  <2>1. LeftAt(segs, k + 1) = {i \in LeftAt(segs, k) : Open(segs, i, k + 1) > 0}
    BY <1>1, LeftNext
  <2>2. \A i \in LeftAt(segs, k) : Open(segs, i, k + 1) > 0
    BY <1>3, <1>4
  <2> QED  BY <2>1, <2>2
<1>6. s \in Seq(1..k + 1)
  BY DEF Places
<1> QED  BY <1>4, <1>5, <1>6 DEF Places

\* A name adds its position.
LEMMA PlacesName ==
  ASSUME NEW segs \in Segs, NEW k \in Nat, NEW s, Places(s, segs, k),
         segs[k + 1] \notin Dots
  PROVE  /\ Places(Append(s, k + 1), segs, k + 1)
         /\ Read(Append(s, k + 1), segs) = Append(Read(s, segs), segs[k + 1])
<1> DEFINE t == Append(s, k + 1)
<1>1. LeftAt(segs, k) \subseteq 1..k
  BY DEF LeftAt, NamesIn
<1>2. \A i \in LeftAt(segs, k) : Open(segs, i, k) > 0
  BY DEF LeftAt, NamesIn
<1>3. \A i \in LeftAt(segs, k) : /\ Open(segs, i, k) \in Int
                                 /\ Open(segs, i, k + 1) = Open(segs, i, k) + 1
  BY <1>1, Opens
<1>4. LeftAt(segs, k + 1) = LeftAt(segs, k) \cup {k + 1}
  BY <1>2, <1>3, LeftNext
<1>5. Open(segs, k + 1, k + 1) = 1
  <2>1. k + 1 \in Nat /\ k + 1 <= k + 1
    OBVIOUS
  <2> QED  BY <2>1, Opens
<1>6. /\ s \in Seq(1..k) /\ Len(s) \in Nat
      /\ t \in Seq(1..k + 1) /\ Len(t) = Len(s) + 1
      /\ \A n \in 1..Len(s) : t[n] = s[n]
      /\ t[Len(s) + 1] = k + 1
  BY DEF Places
<1>7. ASSUME NEW n \in 1..Len(t)
      PROVE  n \in 1..Len(s) \/ n = Len(s) + 1
  BY <1>6
<1> HIDE DEF t
<1>8. \A n \in 1..Len(t) : t[n] \in LeftAt(segs, k + 1)
  BY <1>4, <1>6, <1>7 DEF Places
<1>9. ASSUME NEW i \in LeftAt(segs, k + 1)
      PROVE  \E n \in 1..Len(t) : t[n] = i
  <2>1. CASE i = k + 1
    BY <1>6, <2>1
  <2>2. CASE i \in LeftAt(segs, k)
    <3>1. PICK n \in 1..Len(s) : s[n] = i
      BY <2>2 DEF Places
    <3>2. n \in 1..Len(t) /\ t[n] = i
      BY <1>6, <3>1
    <3> QED  BY <3>2
  <2> QED  BY <1>4, <2>1, <2>2
<1>10. \A n \in 1..Len(s) : s[n] \in 1..k
  BY <1>6
<1>11. \A n, m \in 1..Len(t) : n < m => t[n] < t[m]
  <2> TAKE n, m \in 1..Len(t)
  <2> HAVE n < m
  <2>1. n \in 1..Len(s) /\ (m \in 1..Len(s) \/ m = Len(s) + 1)
    <3> DEFINE ls == Len(s)
               lt == Len(t)
    <3>1. ls \in Nat /\ lt = ls + 1 /\ n \in 1..lt /\ m \in 1..lt
      BY <1>6
    <3> HIDE DEF ls, lt
    <3>2. n \in 1..ls /\ (m \in 1..ls \/ m = ls + 1)
      BY <3>1
    <3> QED  BY <3>2 DEF ls, lt
  <2>2. CASE m \in 1..Len(s)
    <3>1. s[n] < s[m]
      BY <2>1, <2>2 DEF Places
    <3> QED  BY <1>6, <2>1, <2>2, <3>1
  <2>3. CASE m = Len(s) + 1
    <3>1. t[n] = s[n] /\ t[m] = k + 1 /\ s[n] \in 1..k
      BY <1>6, <1>10, <2>1, <2>3
    <3> QED  BY <3>1
  <2> QED  BY <2>1, <2>2, <2>3
<1>12. \A n \in 1..Len(t) : Open(segs, t[n], k + 1) = (Len(t) - n) + 1
  <2> TAKE n \in 1..Len(t)
  <2>1. CASE n \in 1..Len(s)
    <3>1. s[n] \in LeftAt(segs, k) /\ Open(segs, s[n], k) = (Len(s) - n) + 1
      BY <2>1 DEF Places
    <3>2. Open(segs, s[n], k + 1) = ((Len(s) - n) + 1) + 1
      BY <1>3, <3>1
    <3>3. t[n] = s[n] /\ Len(t) = Len(s) + 1 /\ Len(s) \in Nat
      BY <1>6, <2>1
    <3>4. ((Len(s) - n) + 1) + 1 = (Len(t) - n) + 1
      BY <2>1, <3>3
    <3> QED  BY <3>2, <3>3, <3>4
  <2>2. CASE n = Len(s) + 1
    BY <1>5, <1>6, <2>2
  <2> QED  BY <1>7, <2>1, <2>2
<1>13. Read(t, segs) = Append(Read(s, segs), segs[k + 1])
  <2>1. Read(s, segs) = [n \in 1..Len(s) |-> segs[s[n]]] /\ Len(Read(s, segs)) = Len(s)
    BY <1>6 DEF Read
  <2>2. Append(Read(s, segs), segs[k + 1])
          = [n \in 1..Len(s) + 1 |-> IF n = Len(s) + 1 THEN segs[k + 1] ELSE segs[s[n]]]
    BY <1>6, <2>1
  <2>3. Read(t, segs) = [n \in 1..Len(s) + 1 |-> segs[t[n]]]
    BY <1>6 DEF Read
  <2>4. \A n \in 1..Len(s) + 1 :
          segs[t[n]] = IF n = Len(s) + 1 THEN segs[k + 1] ELSE segs[s[n]]
    BY <1>6
  <2> HIDE DEF Read
  <2> QED  BY <2>2, <2>3, <2>4
<1> QED  BY <1>6, <1>8, <1>9, <1>11, <1>12, <1>13 DEF Places, t

\* Two dots take the last position away, if there is one.
LEMMA PlacesUp ==
  ASSUME NEW segs \in Segs, NEW k \in Nat, NEW s, Places(s, segs, k),
         segs[k + 1] = ".."
  PROVE  /\ s = <<>> => Places(s, segs, k + 1)
         /\ s # <<>> => /\ Places(Front(s), segs, k + 1)
                        /\ Read(Front(s), segs) = Front(Read(s, segs))
<1>1. segs[k + 1] \in Dots
  BY DEF Dots
<1>2. LeftAt(segs, k) \subseteq 1..k
  BY DEF LeftAt, NamesIn
<1>3. \A i \in LeftAt(segs, k) : /\ Open(segs, i, k) \in Int
                                 /\ Open(segs, i, k + 1) = Open(segs, i, k) - 1
  BY <1>2, Opens
<1>4. LeftAt(segs, k + 1) = {i \in LeftAt(segs, k) : Open(segs, i, k + 1) > 0}
  BY <1>1, LeftNext
<1>5. /\ s \in Seq(1..k) /\ Len(s) \in Nat
      /\ \A n \in 1..Len(s) : s[n] \in 1..k /\ s[n] \in LeftAt(segs, k)
      /\ \A i \in LeftAt(segs, k) : \E n \in 1..Len(s) : s[n] = i
      /\ \A n, m \in 1..Len(s) : n < m => s[n] < s[m]
      /\ \A n \in 1..Len(s) : Open(segs, s[n], k) = (Len(s) - n) + 1
  BY DEF Places
<1>6. ASSUME s = <<>>
      PROVE  Places(s, segs, k + 1)
  <2>1. Len(s) = 0 /\ s \in Seq(1..k + 1)
    BY <1>6
  <2>2. LeftAt(segs, k + 1) = {}
    BY <1>4, <1>5, <2>1
  <2>3. 1..Len(s) = {}
    BY <2>1
  <2> QED  BY <2>1, <2>2, <2>3 DEF Places
<1>7. ASSUME s # <<>>
      PROVE  /\ Places(Front(s), segs, k + 1)
             /\ Read(Front(s), segs) = Front(Read(s, segs))
  <2> DEFINE t == Front(s)
  <2>1. Len(s) # 0 /\ Len(s) - 1 \in Nat
    BY <1>5, <1>7, EmptySeq
  <2>2. /\ t \in Seq(1..k + 1) /\ Len(t) = Len(s) - 1
        /\ \A n \in 1..Len(s) - 1 : t[n] = s[n]
    <3>1. s \in Seq(1..k + 1) /\ Len(s) - 1 \in 0..Len(s)
      BY <1>5, <2>1
    <3>2. /\ SubSeq(s, 1, Len(s) - 1) \in Seq(1..k + 1)
          /\ Len(SubSeq(s, 1, Len(s) - 1)) = Len(s) - 1
          /\ \A n \in 1..Len(s) - 1 : SubSeq(s, 1, Len(s) - 1)[n] = s[n]
      BY <3>1, Cut
    <3> QED  BY <3>2 DEF Front
  <2> HIDE DEF t
  <2>3. \A n \in 1..Len(s) : Open(segs, s[n], k + 1) = Len(s) - n
    BY <1>3, <1>5
  <2>4. \A n \in 1..Len(t) : n \in 1..Len(s) /\ Len(s) - n > 0
    BY <2>1, <2>2
  <2>5. \A n \in 1..Len(t) : t[n] \in LeftAt(segs, k + 1)
    BY <1>4, <1>5, <2>2, <2>3, <2>4
  <2>6. ASSUME NEW i \in LeftAt(segs, k + 1)
        PROVE  \E n \in 1..Len(t) : t[n] = i
    <3>1. PICK n \in 1..Len(s) : s[n] = i
      BY <1>4, <1>5
    <3>2. Open(segs, s[n], k + 1) > 0
      BY <1>4, <3>1
    <3>3. n \in 1..Len(s) - 1
      BY <1>5, <2>3, <3>2
    <3> QED  BY <2>2, <3>1, <3>3
  <2>7. \A n, m \in 1..Len(t) : n < m => t[n] < t[m]
    BY <1>5, <2>2, <2>4
  <2>8. \A n \in 1..Len(t) : Open(segs, t[n], k + 1) = (Len(t) - n) + 1
    <3> TAKE n \in 1..Len(t)
    <3>1. Open(segs, t[n], k + 1) = Len(s) - n
      BY <2>2, <2>3, <2>4
    <3>2. Len(s) - n = ((Len(s) - 1) - n) + 1
      BY <1>5, <2>4
    <3> QED  BY <2>2, <3>1, <3>2
  <2>9. Read(t, segs) = Front(Read(s, segs))
    <3>1. Read(t, segs) = [n \in 1..Len(s) - 1 |-> segs[t[n]]]
      BY <2>2 DEF Read
    <3>2. Len(Read(s, segs)) = Len(s) /\ Read(s, segs) = [n \in 1..Len(s) |-> segs[s[n]]]
      BY <1>5 DEF Read
    <3>3. Front(Read(s, segs)) = SubSeq([n \in 1..Len(s) |-> segs[s[n]]], 1, Len(s) - 1)
      BY <3>2 DEF Front
    <3>4. SubSeq([n \in 1..Len(s) |-> segs[s[n]]], 1, Len(s) - 1)
            = [n \in 1..Len(s) - 1 |-> segs[s[n]]]
      BY <1>5, <2>1
    <3>5. \A n \in 1..Len(s) - 1 : segs[t[n]] = segs[s[n]]
      BY <2>2
    <3> QED  BY <3>1, <3>3, <3>4, <3>5
  <2> QED  BY <2>2, <2>5, <2>6, <2>7, <2>8, <2>9 DEF Places, t
<1> QED  BY <1>6, <1>7

\* At each segment normalize holds the names at the positions left.
LEMMA WalkPlaces ==
  ASSUME NEW segs \in Segs
  PROVE  \E s : Places(s, segs, Len(segs)) /\ normalize(segs) = Read(s, segs)
<1>1. Len(segs) \in Nat
  BY DEF Segs
<1>2. PICK at :
        /\ at[0] = <<>>
        /\ \A k \in 1..Len(segs) : at[k] = Walk(at[k - 1], segs[k])
        /\ normalize(segs) = at[Len(segs)]
  BY <1>1, NormalizeTurns
<1> DEFINE P(k) == \E s : Places(s, segs, k) /\ at[k] = Read(s, segs)
           S == {k \in Nat : k <= Len(segs) => P(k)}
<1>3. 0 \in S
  <2>1. LeftAt(segs, 0) = {} /\ <<>> \in Seq(1..0) /\ Len(<<>>) = 0
    BY DEF LeftAt, NamesIn
  <2>2. Places(<<>>, segs, 0)
    BY <2>1 DEF Places
  <2>3. Read(<<>>, segs) = <<>>
    BY DEF Read
  <2> QED  BY <1>2, <2>2, <2>3
<1>4. ASSUME NEW k \in Nat, k \in S
      PROVE  k + 1 \in S
  <2>1. SUFFICES ASSUME k + 1 <= Len(segs)
                 PROVE  P(k + 1)
    BY <1>4
  <2>2. k \in 0..Len(segs) /\ k + 1 \in 1..Len(segs) /\ (k + 1) - 1 = k
    BY <1>1, <2>1
  <2>3. PICK s : Places(s, segs, k) /\ at[k] = Read(s, segs)
    BY <1>4, <2>2
  <2>4. at[k + 1] = Walk(Read(s, segs), segs[k + 1])
    <3>1. at[k + 1] = Walk(at[(k + 1) - 1], segs[k + 1])
      BY <1>2, <2>2
    <3> QED  BY <2>2, <2>3, <3>1
  <2>5. s = <<>> <=> Read(s, segs) = <<>>
    BY <2>2, <2>3, ReadFacts
  <2>6. CASE segs[k + 1] = "."
    <3>1. Places(s, segs, k + 1)
      BY <2>3, <2>6, PlacesDot
    <3>2. at[k + 1] = Read(s, segs)
      BY <2>4, <2>6, Walks, Zenon
    <3> QED  BY <3>1, <3>2
  <2>7. CASE segs[k + 1] = ".."
    <3>1. at[k + 1] = IF s = <<>> THEN Read(s, segs) ELSE Front(Read(s, segs))
      BY <2>4, <2>5, <2>7, Walks, Zenon
    <3>2. CASE s = <<>>
      BY <2>3, <2>7, <3>1, <3>2, PlacesUp
    <3>3. CASE s # <<>>
      <4>1. Places(Front(s), segs, k + 1) /\ Read(Front(s), segs) = Front(Read(s, segs))
        BY <2>3, <2>7, <3>3, PlacesUp
      <4> QED  BY <3>1, <3>3, <4>1
    <3> QED  BY <3>2, <3>3
  <2>8. CASE segs[k + 1] \notin Dots
    <3>1. at[k + 1] = Append(Read(s, segs), segs[k + 1])
      BY <2>4, <2>8, Walks, Zenon
    <3>2. /\ Places(Append(s, k + 1), segs, k + 1)
          /\ Read(Append(s, k + 1), segs) = Append(Read(s, segs), segs[k + 1])
      BY <2>3, <2>8, PlacesName
    <3> QED  BY <3>1, <3>2
  <2> QED  BY <2>6, <2>7, <2>8 DEF Dots
<1> HIDE DEF S
<1>5. Len(segs) \in S
  BY <1>1, <1>3, <1>4, SetInduction
<1> QED  BY <1>1, <1>2, <1>5 DEF S

\* That is what is left of them all.
LEMMA LeftAtEnd ==
  ASSUME NEW segs
  PROVE  Left(segs) = LeftAt(segs, Len(segs))
<1>1. ASSUME NEW i \in NamesIn(segs, 1, Len(segs)), NEW m \in i..Len(segs)
      PROVE  Cardinality(UpsIn(segs, i, m)) < Cardinality(NamesIn(segs, i, m))
               <=> Open(segs, i, m) > 0
  <2>1. i \in Nat /\ m \in Nat
    BY DEF NamesIn
  <2>2. /\ Cardinality(NamesIn(segs, i, m)) \in Nat
        /\ Cardinality(UpsIn(segs, i, m)) \in Nat
    BY <2>1, Counts
  <2> QED  BY <2>2 DEF Open
<1> QED  BY <1>1 DEF Left, LeftAt

\* The n-th position of an increasing sequence is the one with n positions up to it.
LEMMA NthPlace ==
  ASSUME NEW segs \in Segs, NEW s, Places(s, segs, Len(segs))
  PROVE  /\ Cardinality(Left(segs)) = Len(s)
         /\ \A n \in 1..Len(s) :
              (CHOOSE i \in Left(segs) : Cardinality(Left(segs) \cap 1..i) = n) = s[n]
<1> DEFINE L == Left(segs)
<1>0. L = LeftAt(segs, Len(segs))
  BY LeftAtEnd
<1> HIDE DEF L
<1>1. /\ Len(s) \in Nat /\ Len(segs) \in Nat
      /\ L \subseteq 1..Len(segs)
      /\ \A n \in 1..Len(s) : s[n] \in L
      /\ \A i \in L : \E n \in 1..Len(s) : s[n] = i
      /\ \A n, m \in 1..Len(s) : n < m => s[n] < s[m]
  BY <1>0 DEF Places, Segs, LeftAt, NamesIn
<1>2. ASSUME NEW n \in 1..Len(s)
      PROVE  s[n] \in Nat /\ s[n] \in 1..Len(segs)
  <2>1. s[n] \in 1..Len(segs)
    BY <1>1
  <2> QED  BY <1>1, <2>1
<1>3. ASSUME NEW n \in 0..Len(s)
      PROVE  Cardinality({s[m] : m \in 1..n}) = n
  <2> DEFINE f == [m \in 1..n |-> s[m]]
             T == {s[m] : m \in 1..n}
  <2>1. \A m \in 1..n : m \in 1..Len(s)
    BY <1>1
  <2>2. \A l, m \in 1..n : f[l] = f[m] => l = m
    <3> TAKE l, m \in 1..n
    <3>1. l \in 1..Len(s) /\ m \in 1..Len(s) /\ s[l] \in Nat /\ s[m] \in Nat
      BY <1>2, <2>1
    <3>2. l < m \/ m < l \/ l = m
      BY <3>1
    <3> QED  BY <1>1, <3>1, <3>2
  <2>3. f \in Bijection(1..n, T)
    BY <2>2, Zenon DEF Bijection, Injection, Surjection, IsInjective
  <2>4. ExistsBijection(1..n, T)
    BY <2>3 DEF ExistsBijection
  <2>5. IsFiniteSet(1..n) /\ Cardinality(1..n) = n
    BY FS_Interval
  <2> HIDE DEF T
  <2>6. Cardinality(T) = n
    BY <2>4, <2>5, FS_Bijection
  <2> QED  BY <2>6 DEF T
<1>4. Cardinality(L) = Len(s)
  <2>1. L = {s[m] : m \in 1..Len(s)}
    BY <1>1
  <2>2. Len(s) \in 0..Len(s)
    BY <1>1
  <2> QED  BY <1>3, <2>1, <2>2
<1>5. ASSUME NEW n \in 1..Len(s)
      PROVE  Cardinality(L \cap 1..s[n]) = n
  <2>1. L \cap 1..s[n] = {s[m] : m \in 1..n}
    <3>1. ASSUME NEW m \in 1..Len(s)
          PROVE  s[m] <= s[n] <=> m <= n
      <4>1. m < n => s[m] < s[n]
        BY <1>1
      <4>2. n < m => s[n] < s[m]
        BY <1>1
      <4> QED  BY <1>2, <4>1, <4>2
    <3>2. ASSUME NEW i \in L, i \in 1..s[n]
          PROVE  \E m \in 1..n : i = s[m]
      <4>1. PICK m \in 1..Len(s) : s[m] = i
        BY <1>1
      <4>2. m \in 1..n
        BY <3>1, <3>2, <4>1
      <4> QED  BY <4>1, <4>2
    <3>3. ASSUME NEW m \in 1..n
          PROVE  s[m] \in L /\ s[m] \in 1..s[n]
      <4>1. m \in 1..Len(s) /\ m <= n
        BY <1>1
      <4>2. s[m] \in L /\ s[m] <= s[n] /\ s[m] \in 1..Len(segs) /\ s[n] \in Nat
        BY <1>1, <1>2, <3>1, <4>1
      <4> QED  BY <4>2
    <3> QED  BY <3>2, <3>3
  <2>2. n \in 0..Len(s)
    BY <1>1
  <2> QED  BY <1>3, <2>1, <2>2
<1>6. ASSUME NEW n \in 1..Len(s)
      PROVE  (CHOOSE i \in L : Cardinality(L \cap 1..i) = n) = s[n]
  <2>1. s[n] \in L /\ Cardinality(L \cap 1..s[n]) = n
    BY <1>1, <1>5
  <2>2. ASSUME NEW i \in L, Cardinality(L \cap 1..i) = n
        PROVE  i = s[n]
    <3>1. PICK m \in 1..Len(s) : s[m] = i
      BY <1>1
    <3> QED  BY <1>5, <2>2, <3>1
  <2> QED  BY <2>1, <2>2
<1> QED  BY <1>4, <1>6 DEF L

\* normalize finds what a path means, and that has no dots.
THEOREM NormalizeMeans ==
  ASSUME NEW segs \in Segs
  PROVE  normalize(segs) = Meaning(segs) /\ normalize(segs) \in Seq(Names)
<1>1. PICK s : Places(s, segs, Len(segs)) /\ normalize(segs) = Read(s, segs)
  BY WalkPlaces
<1>2. Len(segs) \in Nat /\ Len(segs) \in 0..Len(segs)
  BY DEF Segs
<1>3. normalize(segs) \in Seq(Names)
  BY <1>1, <1>2, ReadFacts
<1>4. Meaning(segs) = [n \in 1..Len(s) |-> segs[s[n]]]
  <2> DEFINE nth(n) == CHOOSE i \in Left(segs) : Cardinality(Left(segs) \cap 1..i) = n
  <2>1. Cardinality(Left(segs)) = Len(s) /\ \A n \in 1..Len(s) : nth(n) = s[n]
    BY <1>1, NthPlace
  <2>2. Meaning(segs) = [n \in 1..Cardinality(Left(segs)) |-> segs[nth(n)]]
    BY DEF Meaning
  <2> HIDE DEF nth
  <2> QED  BY <2>1, <2>2
<1> QED  BY <1>1, <1>3, <1>4 DEF Read

\* A path without dots walks to itself, and one that starts without dots goes on
\* from there.
LEMMA PlainWalk ==
  ASSUME NEW p \in Seq(Names)
  PROVE  normalize(p) = p
<1>1. Len(p) \in Nat
  OBVIOUS
<1>2. PICK at :
        /\ at[0] = <<>>
        /\ \A k \in 1..Len(p) : at[k] = Walk(at[k - 1], p[k])
        /\ normalize(p) = at[Len(p)]
  BY <1>1, NormalizeTurns
<1> DEFINE S == {k \in Nat : k <= Len(p) => at[k] = SubSeq(p, 1, k)}
<1>3. 0 \in S
  <2>1. SubSeq(p, 1, 0) = <<>>
    BY SubSeqEmpty
  <2> QED  BY <1>2, <2>1
<1>4. ASSUME NEW k \in Nat, k \in S
      PROVE  k + 1 \in S
  <2>1. SUFFICES ASSUME k + 1 <= Len(p)
                 PROVE  at[k + 1] = SubSeq(p, 1, k + 1)
    BY <1>4
  <2>2. k \in 0..Len(p) /\ k + 1 \in 1..Len(p) /\ k + 1 \in 0..Len(p) /\ (k + 1) - 1 = k
    BY <1>1, <2>1
  <2>3. at[k + 1] = Walk(SubSeq(p, 1, k), p[k + 1])
    <3>1. at[k + 1] = Walk(at[(k + 1) - 1], p[k + 1])
      BY <1>2, <2>2
    <3>2. k <= Len(p)
      BY <1>1, <2>1
    <3>3. at[k] = SubSeq(p, 1, k)
      BY <1>4, <3>2
    <3> QED  BY <2>2, <3>1, <3>3
  <2>4. p[k + 1] \notin Dots
    BY <2>2, FsAssumption
  <2>5. at[k + 1] = Append(SubSeq(p, 1, k), p[k + 1])
    BY <2>3, <2>4, Walks, Zenon
  <2> DEFINE a == SubSeq(p, 1, k)
             b == SubSeq(p, 1, k + 1)
  <2>6. /\ a \in Seq(Names) /\ Len(a) = k /\ \A i \in 1..k : a[i] = p[i]
        /\ b \in Seq(Names) /\ Len(b) = k + 1 /\ \A i \in 1..k + 1 : b[i] = p[i]
    <3>1. a \in Seq(Names) /\ Len(a) = k /\ \A i \in 1..k : a[i] = p[i]
      BY <2>2, Cut
    <3>2. b \in Seq(Names) /\ Len(b) = k + 1 /\ \A i \in 1..k + 1 : b[i] = p[i]
      BY <2>2, Cut
    <3> QED  BY <3>1, <3>2
  <2> HIDE DEF a, b
  <2>7. p[k + 1] \in Names
    BY <2>2
  <2>8. Append(a, p[k + 1]) = b
    BY <2>6, <2>7
  <2> QED  BY <2>5, <2>8 DEF a, b
<1> HIDE DEF S
<1>5. Len(p) \in S
  BY <1>1, <1>3, <1>4, SetInduction
<1>6. SubSeq(p, 1, Len(p)) = p
  OBVIOUS
<1> QED  BY <1>1, <1>2, <1>5, <1>6 DEF S

-----------------------------------------------------------------------------
(* Client and jail agree.                                                  *)

\* What a requester asks for, by its fields.
Ops == {"read", "write", "list", "delete", "stat", "mkdir", "rename"}
Kinds == Ops \cup {"none"}
Stages == {"idle", "begin", "open", "sample", "readFile", "write", "done"}
Answers == {"none", "ok", "FS_ERROR", "SECURITY_ERROR"}

Reals == {"inside", "outside", "unasked"}

Requests ==
  [kind : Kinds, at : Stages, path : Seq(Names), to : Seq(Names),
   meant : Seq(Seq(Names)), real : Seq(Reals), content : Seq(Blocks), node : Nat, size : Nat,
   encoding : {"utf8", "base64"}, touched : BOOLEAN, answer : Answers]

\* A path as a client sends it is one the jail can resolve.
LEMMA SentSegs ==
  ASSUME NEW t \in Typed, NEW cwd \in Cwds
  PROVE  /\ t.segs \in Segs
         /\ Base(t, cwd) \in Seq(Names)
         /\ resolvePath(t, cwd) \in Seq(Names)
         /\ resolvePath(t, cwd) = OfHost(t, cwd)
<1>1. t.segs \in Segs
  BY FsAssumption DEF Segs
<1>2. Base(t, cwd) \in Seq(Names)
  <2>1. Base(t, cwd) \in {<<>>, Home, cwd}
    BY Zenon DEF Base
  <2>2. <<>> \in Seq(Names) /\ Home \in Seq(Names) /\ cwd \in Seq(Names)
    BY FsAssumption
  <2> QED  BY <2>1, <2>2
<1>3. Base(t, cwd) \o t.segs \in Segs
  BY <1>1, <1>2 DEF Segs
<1> QED  BY <1>1, <1>2, <1>3, NormalizeMeans DEF resolvePath, OfHost

\* The jail finds the path that is meant, and denies what leads out of the root.
LEMMA ResolveAgrees ==
  ASSUME NEW cli \in BOOLEAN, NEW t \in Typed, NEW cwd \in Cwds, NEW real
  PROVE  /\ Meant(cli, cwd, t) \in Seq(Names)
         /\ resolve(Sent(cli, cwd, t), real).path = Meant(cli, cwd, t)
         /\ resolve(Sent(cli, cwd, t), real).denied =
              (~IsPrefix(Root, Meant(cli, cwd, t)) \/ real = "outside")
         /\ RealPath(Sent(cli, cwd, t)) \subseteq Reals
<1> DEFINE sent == Sent(cli, cwd, t)
           meant == Meant(cli, cwd, t)
<1>0. /\ cli => sent = resolvePath(t, cwd)
              /\ meant = Root \o OfHost(t, cwd)
      /\ ~cli => sent = t.segs /\ meant = Meaning(Root \o t.segs)
  BY DEF Sent, Meant
<1> HIDE DEF sent, meant
<1>1. Root \in Seq(Names)
  BY FsAssumption
<1>2. normalize(Root \o sent) = meant /\ meant \in Seq(Names)
  <2>1. CASE cli
    <3> DEFINE p == resolvePath(t, cwd)
    <3>1. p \in Seq(Names) /\ p = OfHost(t, cwd)
      BY SentSegs
    <3> HIDE DEF p
    <3>2. Root \o p \in Seq(Names)
      BY <1>1, <3>1
    <3>3. normalize(Root \o p) = Root \o p
      BY <3>2, PlainWalk
    <3>4. sent = p /\ meant = Root \o p
      BY <1>0, <2>1, <3>1 DEF p
    <3> QED  BY <3>2, <3>3, <3>4
  <2>2. CASE ~cli
    <3>1. t.segs \in Segs
      BY SentSegs
    <3>2. Root \o t.segs \in Segs
      BY <1>1, <3>1 DEF Segs
    <3>3. sent = t.segs /\ meant = Meaning(Root \o t.segs)
      BY <1>0, <2>2
    <3> QED  BY <3>2, <3>3, NormalizeMeans
  <2> QED  BY <2>1, <2>2
<1>3. resolve(sent, real) = [path |-> normalize(Root \o sent),
                             denied |-> ~IsPrefix(Root, normalize(Root \o sent))
                                          \/ real = "outside"]
  BY DEF resolve, Outside
<1>4. RealPath(sent) \subseteq Reals
  BY DEF RealPath, Reals
<1> QED  BY <1>2, <1>3, <1>4 DEF sent, meant

\* Where the root is the top, the file used is the one meant on the host.
THEOREM HostPathsAtTheTop ==
  ASSUME Root = <<>>, NEW t \in Typed, NEW cwd \in Cwds, NEW real
  PROVE  resolve(Sent(TRUE, cwd, t), real).path = OfHost(t, cwd)
<1>1. OfHost(t, cwd) \in Seq(Names)
  BY SentSegs
<1>2. Meant(TRUE, cwd, t) = Root \o OfHost(t, cwd)
  BY DEF Meant
<1>3. Root \o OfHost(t, cwd) = OfHost(t, cwd)
  BY <1>1
<1> QED  BY <1>2, <1>3, ResolveAgrees

-----------------------------------------------------------------------------
(* The invariant.                                                          *)

\* Every path lies in directories, and every file has its blocks.
TreeTypes(t, d) ==
  /\ DOMAIN t \subseteq Seq(Names) /\ t \in [DOMAIN t -> Nat]
  /\ \A p \in DOMAIN t : t[p] = Dir \/ t[p] \in DOMAIN d
  /\ \A p \in DOMAIN t : \A k \in 0..Len(p) - 1 :
       SubSeq(p, 1, k) \in DOMAIN t /\ t[SubSeq(p, 1, k)] = Dir
  /\ IsFiniteSet(DOMAIN d) /\ d \in [DOMAIN d -> Seq(Blocks)]

\* A path there is a file that holds these blocks.
FileHas(t, d, p, blocks) ==
  p \in DOMAIN t /\ t[p] # Dir /\ d[t[p]] = blocks

Binary(blocks) == blocks # <<>> /\ Head(blocks) = "n"

\* What a request knows of its path at each stage: before, as long as no other
\* request has changed it, and whatever the others do.
ReadStands(o, t, d) ==
  /\ o.at \in {"open", "sample", "readFile"} =>
       /\ o.path \in DOMAIN t /\ o.size <= MaxRead
       /\ t[o.path] # Dir => o.size = Len(d[t[o.path]])
  /\ o.at = "sample" => o.node = t[o.path]
  /\ o.at = "readFile" =>
       t[o.path] # Dir /\ (o.encoding = "base64" <=> Binary(d[t[o.path]]))
  /\ o.answer = "ok" =>
       /\ FileHas(t, d, o.path, o.content)
       /\ o.size = Len(o.content) /\ o.size <= MaxRead
       /\ o.encoding = "base64" <=> Binary(o.content)

WriteStands(o, t, d) ==
  /\ o.at = "write" => FileHas(t, d, o.path, <<>>) /\ o.node = t[o.path]
  /\ o.answer = "ok" => FileHas(t, d, o.path, o.content)

OtherStands(o, t) ==
  o.answer = "ok" =>
    /\ o.kind = "delete" => o.path \notin DOMAIN t
    /\ o.kind = "mkdir" => o.path \in DOMAIN t /\ t[o.path] = Dir
    /\ o.kind = "rename" => /\ o.to \in DOMAIN t /\ t[o.to] = o.node
                            /\ o.to # o.path => o.path \notin DOMAIN t

Stands(o, t, d) ==
  ~o.touched => /\ o.kind = "read" => ReadStands(o, t, d)
                /\ o.kind = "write" => WriteStands(o, t, d)
                /\ OtherStands(o, t)

InOrder(o) ==
  /\ o.answer # "none" => o.at = "done"
  /\ o.at \in {"sample", "readFile"} => o.kind = "read"
  /\ o.at = "write" => o.kind = "write"
  /\ o.at \in {"begin", "open", "sample"} => o.encoding = "utf8"

Agrees(o) ==
  o.at # "idle" =>
    LET inside == \A k \in 1..2 : IsPrefix(Root, o.meant[k])
        linkedOut == \E k \in 1..2 : o.real[k] = "outside" IN
    /\ o.answer = "SECURITY_ERROR" <=> ~inside \/ linkedOut
    /\ inside => <<o.path, o.to>> = o.meant

IInv ==
  /\ TreeTypes(tree, data)
  /\ op \in [Requesters -> Requests]
  /\ \A r \in Requesters : InOrder(op[r]) /\ Agrees(op[r]) /\ Stands(op[r], tree, data)

-----------------------------------------------------------------------------
(* Steps of others.                                                        *)

\* What a tree shows at a path tells what it has there.
LEMMA SeenSame ==
  ASSUME NEW t, NEW d, NEW t2, NEW d2, NEW p, Seen(t2, d2, p) = Seen(t, d, p)
  PROVE  /\ p \in DOMAIN t2 <=> p \in DOMAIN t
         /\ p \in DOMAIN t => t2[p] = t[p]
         /\ p \in DOMAIN t /\ t[p] # Dir => d2[t2[p]] = d[t[p]]
<1>1. \A a, b, c : /\ <<>> # <<a>> /\ <<>> # <<b, c>> /\ <<a>> # <<b, c>>
  OBVIOUS
<1>2. \A a, b : <<a>> = <<b>> => a = b
  OBVIOUS
<1>3. \A a, b, c, e : <<a, b>> = <<c, e>> => a = c /\ b = e
  OBVIOUS
<1>4. p \in DOMAIN t2 <=> p \in DOMAIN t
  BY <1>1 DEF Seen
<1>5. ASSUME p \in DOMAIN t
      PROVE  t2[p] = t[p] /\ (t[p] # Dir => d2[t2[p]] = d[t[p]])
  <2>1. CASE t[p] = Dir
    <3>1. Seen(t, d, p) = <<Dir>>
      BY <1>5, <2>1 DEF Seen
    <3>2. t2[p] = Dir
      BY <1>1, <1>4, <1>5, <3>1 DEF Seen
    <3> QED  BY <2>1, <3>2
  <2>2. CASE t[p] # Dir
    <3>1. Seen(t, d, p) = <<t[p], d[t[p]]>>
      BY <1>5, <2>2 DEF Seen
    <3>2. t2[p] # Dir
      BY <1>1, <1>4, <1>5, <3>1 DEF Seen
    <3>3. <<t2[p], d2[t2[p]]>> = <<t[p], d[t[p]]>>
      BY <1>4, <1>5, <3>1, <3>2 DEF Seen
    <3> QED  BY <1>3, <3>3
  <2> QED  BY <2>1, <2>2
<1> QED  BY <1>4, <1>5

\* What stands of a request stands as long as nothing it sees changes.
LEMMA Untouched ==
  ASSUME NEW o, NEW t, NEW d, NEW t2, NEW d2, Stands(o, t, d),
         Seen(t2, d2, o.path) = Seen(t, d, o.path),
         Seen(t2, d2, o.to) = Seen(t, d, o.to)
  PROVE  Stands(o, t2, d2)
<1> DEFINE p == o.path
           q == o.to
<1>1. /\ p \in DOMAIN t2 <=> p \in DOMAIN t
      /\ p \in DOMAIN t => t2[p] = t[p]
      /\ p \in DOMAIN t /\ t[p] # Dir => d2[t2[p]] = d[t[p]]
  BY SeenSame
<1>2. /\ q \in DOMAIN t2 <=> q \in DOMAIN t
      /\ q \in DOMAIN t => t2[q] = t[q]
  BY SeenSame
<1>3. ASSUME ReadStands(o, t, d)
      PROVE  ReadStands(o, t2, d2)
  BY <1>1, <1>3 DEF ReadStands, FileHas
<1>4. ASSUME WriteStands(o, t, d)
      PROVE  WriteStands(o, t2, d2)
  BY <1>1, <1>4 DEF WriteStands, FileHas
<1>5. ASSUME OtherStands(o, t)
      PROVE  OtherStands(o, t2)
  BY <1>1, <1>2, <1>5 DEF OtherStands
<1> QED  BY <1>3, <1>4, <1>5 DEF Stands

\* A requester that keeps its own part of the invariant, on a tree that is kept,
\* keeps it whole.
LEMMA OthersKept ==
  ASSUME IInv, NEW r \in Requesters, NEW next \in Requests, Step(r, next),
         TreeTypes(tree', data'),
         InOrder(next), Agrees(next), Stands(next, tree', data')
  PROVE  IInv'
<1>1. ASSUME NEW q \in Requesters
      PROVE  /\ op'[q] \in Requests /\ InOrder(op'[q]) /\ Agrees(op'[q])
             /\ Stands(op'[q], tree', data')
  <2>1. CASE q = r
    <3>1. op'[q] = next
      BY <2>1 DEF Step
    <3> QED  BY <3>1
  <2>2. CASE q # r
    <3> DEFINE o == op[q]
               c == Changes(o.path) \/ Changes(o.to)
               o2 == [o EXCEPT !.touched = @ \/ c]
    <3>1. op'[q] = [op[q] EXCEPT !.touched =
                      @ \/ Changes(op[q].path) \/ Changes(op[q].to)]
      BY <2>2 DEF Step
    <3>2. o \in Requests /\ InOrder(o) /\ Agrees(o) /\ Stands(o, tree, data)
      BY DEF IInv
    <3>3. c \in BOOLEAN /\ o.touched \in BOOLEAN
      BY <3>2 DEF Requests, Changes
    <3>4. /\ o2 \in Requests /\ o2.touched = (o.touched \/ c)
          /\ o2.kind = o.kind /\ o2.at = o.at /\ o2.path = o.path /\ o2.to = o.to
          /\ o2.meant = o.meant /\ o2.real = o.real /\ o2.content = o.content /\ o2.node = o.node
          /\ o2.size = o.size /\ o2.encoding = o.encoding /\ o2.answer = o.answer
      BY <3>2, <3>3 DEF Requests
    <3>5. op'[q] = o2
      BY <3>1
    <3> HIDE DEF o2
    <3>6. InOrder(o2) /\ Agrees(o2)
      BY <3>2, <3>4 DEF InOrder, Agrees
    <3>7. ASSUME ~o2.touched
          PROVE  Stands(o, tree', data') /\ ~o.touched
      <4>1. ~c /\ ~o.touched
        BY <3>3, <3>4, <3>7
      <4>2. /\ Seen(tree', data', o.path) = Seen(tree, data, o.path)
            /\ Seen(tree', data', o.to) = Seen(tree, data, o.to)
        BY <4>1 DEF Changes
      <4> QED  BY <3>2, <4>1, <4>2, Untouched
    <3>8. Stands(o2, tree', data')
      BY <3>4, <3>7 DEF Stands, ReadStands, WriteStands, OtherStands
    <3> QED  BY <3>4, <3>5, <3>6, <3>8
  <2> QED  BY <2>1, <2>2
<1>2. op' \in [Requesters -> Requests]
  <2>1. op' = [q \in Requesters |-> op'[q]]
    BY DEF Step
  <2> QED  BY <1>1, <2>1
<1> QED  BY <1>1, <1>2 DEF IInv

-----------------------------------------------------------------------------
(* Steps that leave the tree as it is.                                     *)

\* The requester whose turn it is.
LEMMA Mine ==
  ASSUME IInv, NEW r \in Requesters
  PROVE  /\ op[r] \in Requests /\ InOrder(op[r]) /\ Agrees(op[r])
         /\ Stands(op[r], tree, data)
  BY DEF IInv

\* A request that was let in and is not denied later agrees as it did.
LEMMA StillAgrees ==
  ASSUME NEW o, NEW o2, InOrder(o), Agrees(o), o.at \notin {"idle", "done"},
         o2.path = o.path, o2.to = o.to, o2.meant = o.meant, o2.real = o.real,
         o2.answer # "SECURITY_ERROR"
  PROVE  Agrees(o2)
<1>1. o.answer = "none"
  BY DEF InOrder
<1>2. /\ \A k \in 1..2 : IsPrefix(Root, o.meant[k])
      /\ \A k \in 1..2 : o.real[k] # "outside"
  BY <1>1 DEF Agrees
<1> QED  BY <1>2 DEF Agrees

\* The fields of a request that is done.
LEMMA DoneFields ==
  ASSUME NEW r, op[r] \in Requests, NEW a \in Answers
  PROVE  LET o == op[r]  p == Done(r, a) IN
         /\ p \in Requests /\ p.at = "done" /\ p.answer = a
         /\ p.kind = o.kind /\ p.path = o.path /\ p.to = o.to /\ p.meant = o.meant
         /\ p.real = o.real
         /\ p.content = o.content /\ p.node = o.node /\ p.size = o.size
         /\ p.encoding = o.encoding /\ p.touched = o.touched
  BY DEF Done, Requests, Stages

\* A request answered ok by a change of its own is untouched by others from then on, and
\* keeps what was asked for.
LEMMA FreshFields ==
  ASSUME NEW r, op[r] \in Requests
  PROVE  LET o == op[r]  p == Fresh(r) IN
         /\ p \in Requests /\ p.at = "done" /\ p.answer = "ok" /\ p.touched = FALSE
         /\ p.kind = o.kind /\ p.path = o.path /\ p.to = o.to /\ p.meant = o.meant
         /\ p.real = o.real
         /\ p.content = o.content /\ p.node = o.node /\ p.size = o.size
         /\ p.encoding = o.encoding
  BY DEF Fresh, Done, Requests, Stages, Answers

\* A call that fails.
LEMMA ThrowsStep ==
  ASSUME IInv, NEW r \in Requesters, handleFsThrows(r)
  PROVE  IInv'
<1> DEFINE o == op[r]
           p == Done(r, "FS_ERROR")
<1>1. /\ o \in Requests /\ InOrder(o) /\ Agrees(o) /\ o.at \notin {"idle", "done"}
      /\ Step(r, p) /\ TreeTypes(tree', data')
  BY Mine DEF handleFsThrows, Throws, IInv
<1>2. "FS_ERROR" \in Answers
  BY DEF Answers
<1>3. /\ p \in Requests /\ p.at = "done" /\ p.answer = "FS_ERROR"
      /\ p.path = o.path /\ p.to = o.to /\ p.meant = o.meant
      /\ p.real = o.real
  BY <1>1, <1>2, DoneFields
<1> HIDE DEF p
<1>4. Agrees(p)
  BY <1>1, <1>3, StillAgrees
<1>5. InOrder(p) /\ Stands(p, tree', data')
  BY <1>3 DEF InOrder, Stands, ReadStands, WriteStands, OtherStands
<1> QED  BY <1>1, <1>3, <1>4, <1>5, OthersKept

\* A list or a stat.
LEMMA ListStep ==
  ASSUME IInv, NEW r \in Requesters, opList(r) \/ opStat(r)
  PROVE  IInv'
<1> DEFINE o == op[r]
           p == Fresh(r)
<1>1. /\ o \in Requests /\ InOrder(o) /\ Agrees(o)
      /\ o.at = "begin" /\ o.kind \in {"list", "stat"}
      /\ Step(r, p) /\ TreeTypes(tree', data')
  BY Mine DEF opList, opStat, Begins, IInv
<1>2. /\ p \in Requests /\ p.at = "done" /\ p.answer = "ok" /\ p.kind = o.kind
      /\ p.path = o.path /\ p.to = o.to /\ p.meant = o.meant
      /\ p.real = o.real
  BY <1>1, FreshFields
<1> HIDE DEF p
<1>3. Agrees(p)
  BY <1>1, <1>2, StillAgrees
<1>4. InOrder(p) /\ Stands(p, tree', data')
  BY <1>1, <1>2 DEF InOrder, Stands, ReadStands, WriteStands, OtherStands
<1> QED  BY <1>1, <1>2, <1>3, <1>4, OthersKept

\* A new request: denied, or begun.
LEMMA RequestStep ==
  ASSUME IInv, NEW r \in Requesters, Request(r)
  PROVE  IInv'
<1>1. PICK kind \in Ops, cli \in BOOLEAN, cwd \in Cwds, t \in Typed, u \in Typed,
           c \in Contents \cup {<<>>},
           x \in Reals, y \in Reals :
        /\ UNCHANGED <<tree, data>>
        /\ Step(r, Asked(kind, resolve(Sent(cli, cwd, t), x), resolve(Sent(cli, cwd, u), y),
                         <<Meant(cli, cwd, t), Meant(cli, cwd, u)>>, <<x, y>>, c))
  <2> DEFINE Steps(kind, cli, cwd, t, u, c, x, y) ==
               /\ cli \/ (IsPath(t) /\ IsPath(u))
               /\ Step(r, Asked(kind, resolve(Sent(cli, cwd, t), x),
                                resolve(Sent(cli, cwd, u), y),
                                <<Meant(cli, cwd, t), Meant(cli, cwd, u)>>, <<x, y>>, c))
  <2>1. /\ UNCHANGED <<tree, data>>
        /\ \E kind \in Ops, cli \in BOOLEAN, cwd \in Cwds, t \in Typed :
           \E u \in IF kind = "rename" THEN Typed ELSE {t},
              c \in IF kind = "write" THEN Contents \cup {<<>>} ELSE {<<>>} :
           \E x \in RealPath(Sent(cli, cwd, t)) :
           \E y \in IF u = t THEN {x} ELSE RealPath(Sent(cli, cwd, u)) :
             Steps(kind, cli, cwd, t, u, c, x, y)
    BY Zenon DEF Request, Ops
  <2> HIDE DEF Steps
  <2>2. PICK kind \in Ops, cli \in BOOLEAN, cwd \in Cwds, t \in Typed, u \in Typed,
             c \in Contents \cup {<<>>} :
          \E x \in RealPath(Sent(cli, cwd, t)) :
          \E y \in IF u = t THEN {x} ELSE RealPath(Sent(cli, cwd, u)) :
            Steps(kind, cli, cwd, t, u, c, x, y)
    <3>1. PICK kind \in Ops, cli \in BOOLEAN, cwd \in Cwds, t \in Typed :
            \E u \in IF kind = "rename" THEN Typed ELSE {t},
               c \in IF kind = "write" THEN Contents \cup {<<>>} ELSE {<<>>} :
            \E x \in RealPath(Sent(cli, cwd, t)) :
            \E y \in IF u = t THEN {x} ELSE RealPath(Sent(cli, cwd, u)) :
              Steps(kind, cli, cwd, t, u, c, x, y)
      BY <2>1
    <3>2. /\ (IF kind = "rename" THEN Typed ELSE {t}) \subseteq Typed
          /\ (IF kind = "write" THEN Contents \cup {<<>>} ELSE {<<>>})
               \subseteq Contents \cup {<<>>}
      OBVIOUS
    <3> QED  BY <3>1, <3>2, Zenon
  <2>3. /\ RealPath(Sent(cli, cwd, t)) \subseteq Reals
        /\ RealPath(Sent(cli, cwd, u)) \subseteq Reals
    BY ResolveAgrees
  <2>4. PICK x \in Reals, y \in Reals : Steps(kind, cli, cwd, t, u, c, x, y)
    BY <2>2, <2>3
  <2>5. Step(r, Asked(kind, resolve(Sent(cli, cwd, t), x), resolve(Sent(cli, cwd, u), y),
                      <<Meant(cli, cwd, t), Meant(cli, cwd, u)>>, <<x, y>>, c))
    BY <2>4 DEF Steps
  <2> QED  BY <2>1, <2>5
<1> DEFINE mt == Meant(cli, cwd, t)
           mu == Meant(cli, cwd, u)
           from == resolve(Sent(cli, cwd, t), x)
           to == resolve(Sent(cli, cwd, u), y)
           denied == from.denied \/ to.denied
           p == Asked(kind, from, to, <<mt, mu>>, <<x, y>>, c)
<1>2. Step(r, p) /\ TreeTypes(tree', data')
  BY <1>1 DEF IInv
<1>3. /\ mt \in Seq(Names) /\ from.path = mt /\ x \in Reals
      /\ from.denied = (~IsPrefix(Root, mt) \/ x = "outside")
  BY ResolveAgrees
<1>4. /\ mu \in Seq(Names) /\ to.path = mu
      /\ to.denied = (~IsPrefix(Root, mu) \/ y = "outside")
  BY ResolveAgrees
<1> HIDE DEF p, denied, from, to, mt, mu
<1>5. c \in Seq(Blocks)
  <2>1. Contents \subseteq Seq(Blocks) /\ <<>> \in Seq(Blocks)
    BY FsAssumption
  <2> QED  BY <2>1
<1>6. /\ p.kind = kind /\ p.path = mt /\ p.to = mu
      /\ p.meant = <<mt, mu>> /\ p.real = <<x, y>> /\ p.encoding = "utf8"
      /\ p.at = IF denied THEN "done" ELSE "begin"
      /\ p.answer = IF denied THEN "SECURITY_ERROR" ELSE "none"
  BY <1>3, <1>4 DEF p, Asked, denied, NoOp
<1>7. p \in Requests
  <2>1. <<mt, mu>> \in Seq(Seq(Names)) /\ <<x, y>> \in Seq(Reals)
    BY <1>3, <1>4
  <2> QED  BY <1>3, <1>4, <1>5, <2>1 DEF p, Asked, denied, NoOp, Requests, Ops, Kinds,
                                           Stages, Answers, Dir
<1>8. denied <=> \/ ~ (\A k \in 1..2 : IsPrefix(Root, p.meant[k]))
                 \/ \E k \in 1..2 : p.real[k] = "outside"
  <2>1. p.meant[1] = mt /\ p.meant[2] = mu /\ p.real[1] = x /\ p.real[2] = y
    BY <1>6
  <2>2. /\ (\A k \in 1..2 : IsPrefix(Root, p.meant[k]))
             <=> IsPrefix(Root, mt) /\ IsPrefix(Root, mu)
        /\ (\E k \in 1..2 : p.real[k] = "outside") <=> x = "outside" \/ y = "outside"
    BY <2>1
  <2> QED  BY <1>3, <1>4, <2>2 DEF denied
<1>9. Agrees(p)
  BY <1>6, <1>8 DEF Agrees
<1>10. InOrder(p) /\ Stands(p, tree', data')
  BY <1>6 DEF InOrder, Stands, ReadStands, WriteStands, OtherStands
<1> QED  BY <1>2, <1>7, <1>9, <1>10, OthersKept

\* A read: what stat told, the node opened, the sample and the content are those
\* of one file as long as nobody changes it.
LEMMA ReadStep ==
  ASSUME IInv, NEW r \in Requesters, opRead(r)
  PROVE  IInv'
<1> DEFINE o == op[r]
           size == IF IsDir(o.path) THEN 1 ELSE Len(data[tree[o.path]])
<1>1. /\ o \in Requests /\ InOrder(o) /\ Agrees(o) /\ Stands(o, tree, data)
      /\ tree' = tree /\ data' = data /\ TreeTypes(tree', data')
  BY Mine DEF opRead, IInv
<1>2. ASSUME NEW p \in DOMAIN tree
      PROVE  /\ tree[p] \in Nat
             /\ tree[p] # Dir => data[tree[p]] \in Seq(Blocks)
  BY DEF IInv, TreeTypes
<1>3. ASSUME Begins(r, "read"), Exists(o.path), size <= MaxRead,
             Step(r, [o EXCEPT !.at = "open", !.size = size, !.touched = FALSE])
      PROVE  IInv'
  <2> DEFINE p == [o EXCEPT !.at = "open", !.size = size, !.touched = FALSE]
  <2>1. o.path \in DOMAIN tree /\ o.at = "begin" /\ o.kind = "read"
    BY <1>3 DEF Begins, Exists
  <2>2. size \in Nat /\ (tree[o.path] # Dir => size = Len(data[tree[o.path]]))
    BY <1>2, <2>1 DEF IsDir, Exists
  <2>3. size <= MaxRead
    BY <1>3
  <2> HIDE DEF size
  <2>4. /\ p \in Requests /\ p.at = "open" /\ p.size = size /\ p.kind = o.kind
        /\ p.path = o.path /\ p.to = o.to /\ p.meant = o.meant
        /\ p.real = o.real
        /\ p.encoding = o.encoding /\ p.answer = o.answer
    BY <1>1, <2>2 DEF Requests, Stages
  <2>5. Step(r, p)
    BY <1>3 DEF size
  <2> HIDE DEF p
  <2>6. o.answer = "none" /\ o.encoding = "utf8"
    BY <1>1, <2>1 DEF InOrder
  <2>7. Agrees(p)
    BY <1>1, <2>1, <2>4, <2>6, StillAgrees
  <2>8. InOrder(p)
    BY <2>4, <2>6 DEF InOrder
  <2>9. Stands(p, tree', data')
    BY <1>1, <2>1, <2>2, <2>3, <2>4, <2>6 DEF Stands, ReadStands, OtherStands
  <2> QED  BY <1>1, <2>4, <2>5, <2>7, <2>8, <2>9, OthersKept
<1>4. ASSUME o.at = "open", o.kind = "read", Exists(o.path),
             Step(r, [o EXCEPT !.at = "sample", !.node = tree[o.path]])
      PROVE  IInv'
  <2> DEFINE p == [o EXCEPT !.at = "sample", !.node = tree[o.path]]
  <2>1. o.path \in DOMAIN tree /\ tree[o.path] \in Nat
    BY <1>2, <1>4 DEF Exists
  <2>2. /\ p \in Requests /\ p.at = "sample" /\ p.node = tree[o.path]
        /\ p.size = o.size /\ p.kind = o.kind
        /\ p.path = o.path /\ p.to = o.to /\ p.meant = o.meant
        /\ p.real = o.real
        /\ p.encoding = o.encoding /\ p.answer = o.answer /\ p.touched = o.touched
    BY <1>1, <2>1 DEF Requests, Stages
  <2>3. Step(r, p)
    BY <1>4
  <2> HIDE DEF p
  <2>4. o.answer = "none" /\ o.encoding = "utf8"
    BY <1>1, <1>4 DEF InOrder
  <2>5. Agrees(p)
    BY <1>1, <1>4, <2>2, <2>4, StillAgrees
  <2>6. InOrder(p)
    BY <1>4, <2>2, <2>4 DEF InOrder
  <2>7. Stands(p, tree', data')
    BY <1>1, <1>4, <2>2, <2>4 DEF Stands, ReadStands, OtherStands
  <2> QED  BY <1>1, <2>2, <2>3, <2>5, <2>6, <2>7, OthersKept
<1>5. ASSUME o.at = "sample", o.node # Dir,
             LET blocks == data[o.node]
                 isBinary == o.size > 0 /\ (blocks = <<>> \/ Head(blocks) = "n") IN
             Step(r, [o EXCEPT !.at = "readFile",
                               !.encoding = IF isBinary THEN "base64" ELSE @])
      PROVE  IInv'
  <2> DEFINE blocks == data[o.node]
             isBinary == o.size > 0 /\ (blocks = <<>> \/ Head(blocks) = "n")
             p == [o EXCEPT !.at = "readFile",
                            !.encoding = IF isBinary THEN "base64" ELSE @]
  <2>1. o.answer = "none" /\ o.encoding = "utf8" /\ o.kind = "read"
    BY <1>1, <1>5 DEF InOrder
  <2>2. Step(r, p)
    BY <1>5
  <2>3. ~o.touched =>
          /\ o.path \in DOMAIN tree /\ tree[o.path] # Dir /\ o.size <= MaxRead
          /\ o.size = Len(data[tree[o.path]])
          /\ isBinary <=> Binary(data[tree[o.path]])
    <3>1. SUFFICES ASSUME ~o.touched
                   PROVE  /\ o.path \in DOMAIN tree /\ tree[o.path] # Dir
                          /\ o.size <= MaxRead /\ o.size = Len(data[tree[o.path]])
                          /\ isBinary <=> Binary(data[tree[o.path]])
      OBVIOUS
    <3>2. /\ o.path \in DOMAIN tree /\ o.size <= MaxRead /\ o.node = tree[o.path]
          /\ tree[o.path] # Dir => o.size = Len(data[tree[o.path]])
      BY <1>1, <1>5, <2>1, <3>1 DEF Stands, ReadStands
    <3>3. blocks \in Seq(Blocks) /\ blocks = data[tree[o.path]] /\ o.size = Len(blocks)
      BY <1>2, <1>5, <3>2
    <3> HIDE DEF blocks
    <3>4. o.size > 0 <=> blocks # <<>>
      BY <3>3, EmptySeq
    <3> QED  BY <1>5, <3>2, <3>3, <3>4 DEF Binary
  <2> HIDE DEF isBinary
  <2>4. /\ p \in Requests /\ p.at = "readFile"
        /\ p.size = o.size /\ p.kind = o.kind
        /\ p.path = o.path /\ p.to = o.to /\ p.meant = o.meant
        /\ p.real = o.real
        /\ p.encoding = IF isBinary THEN "base64" ELSE "utf8"
        /\ p.answer = o.answer /\ p.touched = o.touched
    BY <1>1, <2>1 DEF Requests, Stages
  <2> HIDE DEF p
  <2>5. Agrees(p)
    BY <1>1, <1>5, <2>1, <2>4, StillAgrees
  <2>6. InOrder(p)
    BY <2>1, <2>4 DEF InOrder
  <2>7. Stands(p, tree', data')
    BY <1>1, <2>1, <2>3, <2>4 DEF Stands, ReadStands, OtherStands
  <2> QED  BY <1>1, <2>2, <2>4, <2>5, <2>6, <2>7, OthersKept
<1>6. ASSUME o.at = "readFile", Exists(o.path), ~IsDir(o.path),
             Step(r, [Done(r, "ok") EXCEPT !.content = data[tree[o.path]]])
      PROVE  IInv'
  <2> DEFINE e == Done(r, "ok")
             p == [e EXCEPT !.content = data[tree[o.path]]]
  <2>1. "ok" \in Answers
    BY DEF Answers
  <2>2. /\ e \in Requests /\ e.at = "done" /\ e.answer = "ok"
        /\ e.size = o.size /\ e.kind = o.kind
        /\ e.path = o.path /\ e.to = o.to /\ e.meant = o.meant
        /\ e.real = o.real
        /\ e.encoding = o.encoding /\ e.touched = o.touched
    BY <1>1, <2>1, DoneFields
  <2>3. /\ o.path \in DOMAIN tree /\ tree[o.path] # Dir
        /\ data[tree[o.path]] \in Seq(Blocks)
    BY <1>2, <1>6 DEF Exists, IsDir
  <2>4. Step(r, p)
    BY <1>6
  <2> HIDE DEF e
  <2>5. /\ p \in Requests /\ p.at = "done" /\ p.answer = "ok"
        /\ p.size = o.size /\ p.kind = o.kind
        /\ p.path = o.path /\ p.to = o.to /\ p.meant = o.meant
        /\ p.real = o.real
        /\ p.encoding = o.encoding /\ p.touched = o.touched
        /\ p.content = data[tree[o.path]]
    BY <2>2, <2>3 DEF Requests
  <2> HIDE DEF p
  <2>6. o.answer = "none" /\ o.kind = "read"
    BY <1>1, <1>6 DEF InOrder
  <2>7. Agrees(p)
    BY <1>1, <1>6, <2>5, StillAgrees
  <2>8. InOrder(p)
    BY <2>5 DEF InOrder
  <2>9. Stands(p, tree', data')
    BY <1>1, <1>6, <2>3, <2>5, <2>6 DEF Stands, ReadStands, OtherStands, FileHas
  <2> QED  BY <1>1, <2>4, <2>5, <2>7, <2>8, <2>9, OthersKept
<1> QED  BY <1>3, <1>4, <1>5, <1>6 DEF opRead

-----------------------------------------------------------------------------
(* Steps that change the tree.                                             *)

\* The directories on the way to a path, itself included or not.
LEMMA OnTheWay ==
  ASSUME NEW p \in Seq(Names)
  PROVE  /\ p \in Ancestors(p) /\ Ancestors(p) \subseteq Seq(Names)
         /\ \A q \in Ancestors(p) : \A k \in 0..Len(q) - 1 : SubSeq(q, 1, k) \in Ancestors(p)
<1>1. Len(p) \in Nat /\ Len(p) \in 0..Len(p) /\ SubSeq(p, 1, Len(p)) = p
  OBVIOUS
<1>2. p \in Ancestors(p)
  BY <1>1 DEF Ancestors
<1>3. ASSUME NEW q \in Ancestors(p)
      PROVE  /\ q \in Seq(Names)
             /\ \A k \in 0..Len(q) - 1 : SubSeq(q, 1, k) \in Ancestors(p)
  <2>1. PICK l \in 0..Len(p) : q = SubSeq(p, 1, l)
    BY DEF Ancestors
  <2>2. q \in Seq(Names) /\ Len(q) = l
    BY <2>1, Cut
  <2>3. ASSUME NEW k \in 0..Len(q) - 1
        PROVE  SubSeq(q, 1, k) \in Ancestors(p)
    <3>1. k \in 0..l /\ k \in 0..Len(p)
      BY <1>1, <2>2
    <3>2. SubSeq(q, 1, k) = SubSeq(p, 1, k)
      BY <2>1, <3>1, CutCut
    <3> QED  BY <3>1, <3>2 DEF Ancestors
  <2> QED  BY <2>2, <2>3
<1> QED  BY <1>2, <1>3

\* Making a directory with those on the way to it keeps the tree closed under prefixes,
\* and the directory stands afterwards.
LEMMA MkdirTree ==
  ASSUME TreeTypes(tree, data), NEW p \in Seq(Names), Mkdir(p), UNCHANGED data
  PROVE  TreeTypes(tree', data') /\ p \in DOMAIN tree' /\ tree'[p] = Dir
<1> DEFINE A == Ancestors(p)
<1>1. /\ p \in A /\ A \subseteq Seq(Names)
      /\ \A q \in A : \A k \in 0..Len(q) - 1 : SubSeq(q, 1, k) \in A
  BY OnTheWay
<1>2. /\ DOMAIN tree \subseteq Seq(Names) /\ tree \in [DOMAIN tree -> Nat]
      /\ \A q \in DOMAIN tree : tree[q] = Dir \/ tree[q] \in DOMAIN data
      /\ \A q \in DOMAIN tree : \A k \in 0..Len(q) - 1 :
           SubSeq(q, 1, k) \in DOMAIN tree /\ tree[SubSeq(q, 1, k)] = Dir
  BY DEF TreeTypes
<1>3. /\ \A q \in A : q \in DOMAIN tree => tree[q] = Dir
      /\ tree' = [q \in DOMAIN tree \cup A |-> IF q \in DOMAIN tree THEN tree[q] ELSE Dir]
  BY DEF Mkdir, Exists, IsDir
<1> HIDE DEF A
<1>4. /\ DOMAIN tree' = DOMAIN tree \cup A
      /\ \A q \in DOMAIN tree : tree'[q] = tree[q]
      /\ \A q \in A : tree'[q] = Dir
  BY <1>3
<1>5. \A q \in DOMAIN tree' : tree'[q] \in Nat /\ (tree'[q] = Dir \/ tree'[q] \in DOMAIN data)
  BY <1>2, <1>4 DEF Dir
<1>6. tree' \in [DOMAIN tree' -> Nat]
  BY <1>3, <1>4, <1>5
<1>7. ASSUME NEW q \in DOMAIN tree', NEW k \in 0..Len(q) - 1
      PROVE  SubSeq(q, 1, k) \in DOMAIN tree' /\ tree'[SubSeq(q, 1, k)] = Dir
  <2>1. CASE q \in DOMAIN tree
    BY <1>2, <1>4, <2>1
  <2>2. CASE q \in A
    BY <1>1, <1>4, <2>2
  <2> QED  BY <1>4, <2>1, <2>2
<1>8. DOMAIN tree' \subseteq Seq(Names)
  BY <1>1, <1>2, <1>4
<1>9. IsFiniteSet(DOMAIN data') /\ data' \in [DOMAIN data' -> Seq(Blocks)] /\ data' = data
  BY DEF TreeTypes
<1> QED  BY <1>1, <1>4, <1>5, <1>6, <1>7, <1>8, <1>9 DEF TreeTypes

\* Truncating keeps the tree closed under prefixes, for the directory above must stand,
\* and the file is empty afterwards, whether it was there or is new.
LEMMA TruncateTree ==
  ASSUME TreeTypes(tree, data), NEW p \in Seq(Names), Truncate(p)
  PROVE  TreeTypes(tree', data') /\ FileHas(tree', data', p, <<>>)
<1> DEFINE f == IF Exists(p) THEN tree[p] ELSE Cardinality(DOMAIN data) + 1
<1>1. /\ DOMAIN tree \subseteq Seq(Names) /\ tree \in [DOMAIN tree -> Nat]
      /\ \A q \in DOMAIN tree : tree[q] = Dir \/ tree[q] \in DOMAIN data
      /\ \A q \in DOMAIN tree : \A k \in 0..Len(q) - 1 :
           SubSeq(q, 1, k) \in DOMAIN tree /\ tree[SubSeq(q, 1, k)] = Dir
      /\ IsFiniteSet(DOMAIN data) /\ data \in [DOMAIN data -> Seq(Blocks)]
  BY DEF TreeTypes
<1>2. /\ tree' = [q \in DOMAIN tree \cup {p} |-> IF q = p THEN f ELSE tree[q]]
      /\ data' = [g \in DOMAIN data \cup {f} |-> IF g = f THEN <<>> ELSE data[g]]
      /\ p # <<>> /\ ~ (p \in DOMAIN tree /\ tree[p] = Dir)
      /\ Front(p) \in DOMAIN tree /\ tree[Front(p)] = Dir
  BY DEF Truncate, Exists, IsDir
<1>3. f \in Nat /\ f # Dir
  <2>1. Cardinality(DOMAIN data) \in Nat
    BY <1>1, FS_CardinalityType
  <2>2. p \in DOMAIN tree => tree[p] \in Nat /\ tree[p] # Dir
    BY <1>1, <1>2
  <2> QED  BY <2>1, <2>2 DEF Exists, Dir
<1> HIDE DEF f
<1>4. /\ DOMAIN tree' = DOMAIN tree \cup {p} /\ tree'[p] = f
      /\ \A q \in DOMAIN tree : q # p => tree'[q] = tree[q]
  BY <1>2
<1>5. DOMAIN data' = DOMAIN data \cup {f} /\ data'[f] = <<>>
      /\ data' \in [DOMAIN data' -> Seq(Blocks)]
  <2>1. <<>> \in Seq(Blocks)
    OBVIOUS
  <2> QED  BY <1>1, <1>2, <2>1
<1>6. IsFiniteSet(DOMAIN data')
  <2> DEFINE D == DOMAIN data
  <2>1. IsFiniteSet(D)
    BY <1>1
  <2> HIDE DEF D
  <2>2. IsFiniteSet(D \cup {f})
    BY <2>1, FS_AddElement
  <2> QED  BY <1>5, <2>2 DEF D
<1>7. ASSUME NEW k \in 0..Len(p) - 1
      PROVE  SubSeq(p, 1, k) \in DOMAIN tree /\ tree[SubSeq(p, 1, k)] = Dir
  <2> DEFINE c == Front(p)
  <2>1. Len(p) \in Nat /\ Len(p) - 1 \in 0..Len(p)
    OBVIOUS
  <2>2. c = SubSeq(p, 1, Len(p) - 1) /\ c \in Seq(Names) /\ Len(c) = Len(p) - 1
    BY <2>1, Cut DEF Front
  <2>3. SubSeq(c, 1, k) = SubSeq(p, 1, k)
    BY <2>1, <2>2, CutCut
  <2>4. CASE k = Len(p) - 1
    BY <1>2, <2>2, <2>4
  <2>5. CASE k \in 0..Len(c) - 1
    <3>1. SubSeq(c, 1, k) \in DOMAIN tree /\ tree[SubSeq(c, 1, k)] = Dir
      BY <1>1, <1>2, <2>5
    <3> QED  BY <2>3, <3>1
  <2>6. k = Len(p) - 1 \/ k \in 0..Len(c) - 1
    <3> HIDE DEF c
    <3> QED  BY <2>1, <2>2
  <2> QED  BY <2>4, <2>5, <2>6
<1>8. ASSUME NEW q \in DOMAIN tree', NEW k \in 0..Len(q) - 1
      PROVE  SubSeq(q, 1, k) \in DOMAIN tree' /\ tree'[SubSeq(q, 1, k)] = Dir
  <2>1. SubSeq(q, 1, k) \in DOMAIN tree /\ tree[SubSeq(q, 1, k)] = Dir
    BY <1>1, <1>4, <1>7
  <2>2. SubSeq(q, 1, k) # p
    BY <1>2, <2>1
  <2> QED  BY <1>4, <2>1, <2>2
<1>9. tree' \in [DOMAIN tree' -> Nat]
  BY <1>1, <1>2, <1>3, <1>4
<1>10. \A q \in DOMAIN tree' : tree'[q] = Dir \/ tree'[q] \in DOMAIN data'
  BY <1>1, <1>4, <1>5
<1>11. DOMAIN tree' \subseteq Seq(Names)
  BY <1>1, <1>4
<1> QED  BY <1>3, <1>4, <1>5, <1>6, <1>8, <1>9, <1>10, <1>11 DEF TreeTypes, FileHas

\* A delete takes a path and what is below it.
LEMMA DeleteTree ==
  ASSUME TreeTypes(tree, data), NEW p \in DOMAIN tree, UNCHANGED data,
         tree' = [q \in DOMAIN tree \ Below(p) |-> tree[q]]
  PROVE  TreeTypes(tree', data') /\ p \notin DOMAIN tree'
<1>1. /\ DOMAIN tree \subseteq Seq(Names) /\ tree \in [DOMAIN tree -> Nat]
      /\ \A q \in DOMAIN tree : tree[q] = Dir \/ tree[q] \in DOMAIN data
      /\ \A q \in DOMAIN tree : \A k \in 0..Len(q) - 1 :
           SubSeq(q, 1, k) \in DOMAIN tree /\ tree[SubSeq(q, 1, k)] = Dir
      /\ IsFiniteSet(DOMAIN data) /\ data \in [DOMAIN data -> Seq(Blocks)]
  BY DEF TreeTypes
<1>2. DOMAIN tree' = DOMAIN tree \ Below(p) /\ \A q \in DOMAIN tree' : tree'[q] = tree[q]
  OBVIOUS
<1>3. p \in Below(p)
  <2>1. p \in Seq(Names)
    BY <1>1
  <2> QED  BY <2>1 DEF Below, IsPrefix
<1>4. ASSUME NEW q \in DOMAIN tree', NEW k \in 0..Len(q) - 1
      PROVE  SubSeq(q, 1, k) \in DOMAIN tree' /\ tree'[SubSeq(q, 1, k)] = Dir
  <2> DEFINE c == SubSeq(q, 1, k)
  <2>1. c \in DOMAIN tree /\ tree[c] = Dir /\ q \in DOMAIN tree /\ q \notin Below(p)
    BY <1>1, <1>2
  <2>2. q \in Seq(Names) /\ p \in Seq(Names) /\ k \in 0..Len(q)
    BY <1>1, <2>1
  <2>3. IsPrefix(p, c) => IsPrefix(p, q)
    BY <2>2, CutPrefix
  <2> HIDE DEF c
  <2>4. c \notin Below(p)
    BY <2>1, <2>3 DEF Below
  <2> QED  BY <1>2, <2>1, <2>4 DEF c
<1>5. tree' \in [DOMAIN tree' -> Nat]
  BY <1>1, <1>2
<1> QED  BY <1>1, <1>2, <1>3, <1>4, <1>5 DEF TreeTypes

\* What a path of the tree starts with is a directory of the tree, or the path.
LEMMA PrefixInTree ==
  ASSUME NEW t, NEW d, TreeTypes(t, d), NEW p \in Seq(Names), NEW q \in DOMAIN t,
         IsPrefix(p, q)
  PROVE  p \in DOMAIN t /\ (p # q => t[p] = Dir)
<1>1. q \in Seq(Names)
  BY DEF TreeTypes
<1>2. Len(p) <= Len(q) /\ p = SubSeq(q, 1, Len(p)) /\ Len(p) \in Nat /\ Len(q) \in Nat
  BY <1>1, PrefixIs
<1>3. CASE Len(p) = Len(q)
  <2>1. SubSeq(q, 1, Len(q)) = q
    BY <1>1
  <2> QED  BY <1>2, <1>3, <2>1
<1>4. CASE Len(p) \in 0..Len(q) - 1
  <2>1. SubSeq(q, 1, Len(p)) \in DOMAIN t /\ t[SubSeq(q, 1, Len(p))] = Dir
    BY <1>4 DEF TreeTypes
  <2> QED  BY <1>2, <2>1
<1>5. Len(p) = Len(q) \/ Len(p) \in 0..Len(q) - 1
  BY <1>2
<1> QED  BY <1>3, <1>4, <1>5

\* Where what is at q after a rename was before.
Came(from, to, q) ==
  \/ q \in DOMAIN tree /\ tree'[q] = tree[q] /\ ~IsPrefix(from, q)
  \/ \E r \in Seq(Names) : /\ q = to \o r /\ from \o r \in DOMAIN tree
                            /\ tree'[q] = tree[from \o r]

\* A rename moves a path with what is below it; nothing else is in its place,
\* and all that was there is there.
LEMMA RenameTree ==
  ASSUME TreeTypes(tree, data), NEW from \in Seq(Names), NEW to \in Seq(Names),
         Renamable(from, to), Rename(from, to), UNCHANGED data
  PROVE  /\ TreeTypes(tree', data')
         /\ to \in DOMAIN tree' /\ tree'[to] = tree[from]
         /\ to # from => from \notin DOMAIN tree'
         /\ \A q \in DOMAIN tree : ~IsPrefix(from, q) => q \in DOMAIN tree'
         /\ \A q \in DOMAIN tree' : Came(from, to, q)
<1> DEFINE D == DOMAIN tree
           B == Below(from)
           Moved(q) == to \o SubSeq(q, Len(from) + 1, Len(q))
           Old(q) == IF IsPrefix(to, q) THEN from \o SubSeq(q, Len(to) + 1, Len(q)) ELSE q
<1>1. /\ D \subseteq Seq(Names) /\ tree \in [D -> Nat]
      /\ \A q \in D : tree[q] = Dir \/ tree[q] \in DOMAIN data
      /\ \A q \in D : \A k \in 0..Len(q) - 1 :
           SubSeq(q, 1, k) \in D /\ tree[SubSeq(q, 1, k)] = Dir
      /\ IsFiniteSet(DOMAIN data) /\ data \in [DOMAIN data -> Seq(Blocks)]
  BY DEF TreeTypes
<1>2. /\ from \in D /\ from # <<>> /\ to # <<>>
      /\ Front(to) \in D /\ tree[Front(to)] = Dir
      /\ to = from \/ ~IsPrefix(from, to)
      /\ to \in D /\ to # from =>
           IF tree[from] = Dir THEN Below(to) = {to} ELSE tree[to] # Dir
  BY DEF Renamable, Exists, IsDir
<1>3. B = {q \in D : IsPrefix(from, q)}
  BY DEF Below
<1>4. tree' = [q \in (D \ B) \cup {Moved(b) : b \in B} |-> tree[Old(q)]]
  BY DEF Rename
<1>5. ASSUME NEW r \in Seq(Names)
      PROVE  /\ Moved(from \o r) = to \o r /\ Old(to \o r) = from \o r
             /\ from \o r \in Seq(Names) /\ to \o r \in Seq(Names)
             /\ IsPrefix(from, from \o r) /\ IsPrefix(to, to \o r)
  <2>1. /\ from \o r \in Seq(Names) /\ IsPrefix(from, from \o r)
        /\ SubSeq(from \o r, Len(from) + 1, Len(from \o r)) = r
    BY Joined
  <2>2. /\ to \o r \in Seq(Names) /\ IsPrefix(to, to \o r)
        /\ SubSeq(to \o r, Len(to) + 1, Len(to \o r)) = r
    BY Joined
  <2> QED  BY <2>1, <2>2
<1>6. ASSUME NEW b \in B
      PROVE  \E r \in Seq(Names) : b = from \o r /\ Moved(b) = to \o r
  <2>1. b \in Seq(Names) /\ IsPrefix(from, b)
    BY <1>1, <1>3
  <2>2. /\ SubSeq(b, Len(from) + 1, Len(b)) \in Seq(Names)
        /\ b = from \o SubSeq(b, Len(from) + 1, Len(b))
    BY <2>1, Parted
  <2> QED  BY <2>2
<1>7. from \o <<>> = from /\ to \o <<>> = to /\ <<>> \in Seq(Names)
  OBVIOUS
<1>8. Moved(from) = to /\ Old(to) = from /\ IsPrefix(from, from)
  BY <1>5, <1>7
<1> HIDE DEF Moved, Old, D, B
<1>9. from \in B
  BY <1>2, <1>3, <1>8
\* What stays is not below the place moved to, but for that place itself.
<1>10. ASSUME NEW q \in D \ B, IsPrefix(to, q)
       PROVE  q = to /\ to # from
  <2>1. to \in D /\ (to # q => tree[to] = Dir)
    BY <1>10, PrefixInTree DEF D
  <2>2. to # from
    BY <1>3, <1>10
  <2>3. q \in Below(to)
    BY <1>10 DEF Below, D
  <2> QED  BY <1>2, <2>1, <2>2, <2>3
<1>11. ASSUME NEW q \in D \ B
       PROVE  Old(q) = IF q = to THEN from ELSE q
  <2>1. CASE q = to
    BY <1>8, <2>1
  <2>2. CASE q # to
    <3>1. ~IsPrefix(to, q)
      BY <1>10, <2>2
    <3> QED  BY <2>2, <3>1 DEF Old
  <2> QED  BY <2>1, <2>2
<1>12. /\ DOMAIN tree' = (D \ B) \cup {Moved(b) : b \in B}
       /\ \A q \in DOMAIN tree' : tree'[q] = tree[Old(q)]
  BY <1>4
<1>13. ASSUME NEW q \in DOMAIN tree'
       PROVE  q \in Seq(Names) /\ Old(q) \in D
  <2>1. CASE q \in D \ B
    BY <1>1, <1>2, <1>11, <2>1
  <2>2. CASE q \notin D \ B
    <3>1. PICK b \in B : q = Moved(b)
      BY <1>12, <2>2
    <3>2. PICK r \in Seq(Names) : b = from \o r /\ Moved(b) = to \o r
      BY <1>6
    <3>3. Old(q) = b /\ q \in Seq(Names)
      BY <1>5, <3>1, <3>2
    <3> QED  BY <1>3, <3>3
  <2> QED  BY <2>1, <2>2
\* The place moved to lies in directories that stay.
<1>14. ASSUME NEW k \in 0..Len(to) - 1
       PROVE  /\ SubSeq(to, 1, k) \in D \ B /\ tree[SubSeq(to, 1, k)] = Dir
              /\ SubSeq(to, 1, k) # to
  <2> DEFINE c == Front(to)
             e == SubSeq(to, 1, k)
  <2>1. Len(to) \in Nat /\ Len(to) - 1 \in 0..Len(to) /\ k \in 0..Len(to)
    BY <1>2, EmptySeq
  <2>2. c = SubSeq(to, 1, Len(to) - 1) /\ c \in Seq(Names) /\ Len(c) = Len(to) - 1
    BY <2>1, Cut DEF Front
  <2>3. SubSeq(c, 1, k) = e
    BY <2>1, <2>2, CutCut
  <2>4. ASSUME k = Len(to) - 1
        PROVE  e \in D /\ tree[e] = Dir
    BY <1>2, <2>2, <2>4
  <2>5. ASSUME k \in 0..Len(c) - 1
        PROVE  e \in D /\ tree[e] = Dir
    <3>1. SubSeq(c, 1, k) \in D /\ tree[SubSeq(c, 1, k)] = Dir
      BY <1>1, <1>2, <2>5
    <3> QED  BY <2>3, <3>1
  <2>6. k = Len(to) - 1 \/ k \in 0..Len(c) - 1
    <3> HIDE DEF c
    <3> QED  BY <2>1, <2>2
  <2>7. e \in D /\ tree[e] = Dir
    BY <2>2, <2>4, <2>5, <2>6
  <2>8. IsPrefix(from, e) => IsPrefix(from, to) /\ Len(from) <= k
    BY <2>1, CutPrefix
  <2>9. e \notin B
    <3>1. IsPrefix(from, e) => to = from /\ Len(from) <= k
      BY <1>2, <2>8
    <3>2. ~IsPrefix(from, e)
      BY <2>1, <3>1
    <3> QED  BY <1>3, <3>2
  <2>10. Len(e) = k
    BY <2>1, Cut
  <2>11. e # to
    BY <2>1, <2>10
  <2> QED  BY <2>7, <2>9, <2>11
<1>15. ASSUME NEW q \in DOMAIN tree', NEW k \in 0..Len(q) - 1
       PROVE  SubSeq(q, 1, k) \in DOMAIN tree' /\ tree'[SubSeq(q, 1, k)] = Dir
  <2> DEFINE c == SubSeq(q, 1, k)
  <2>1. CASE q \in D \ B
    <3>1. c \in D /\ tree[c] = Dir /\ q \in Seq(Names) /\ k \in 0..Len(q)
      BY <1>1, <2>1
    <3>2. IsPrefix(from, c) => IsPrefix(from, q)
      BY <3>1, CutPrefix
    <3>3. c \in D \ B
      BY <1>3, <2>1, <3>1, <3>2
    <3>4. Len(c) = k
      BY <3>1, Cut
    <3>5. c # to
      <4>1. SUFFICES ASSUME c = to
                     PROVE  FALSE
        OBVIOUS
      <4>2. IsPrefix(to, c)
        BY <1>5, <1>7, <4>1
      <4>3. IsPrefix(to, q)
        BY <3>1, <4>2, CutPrefix
      <4>4. q = to
        BY <1>10, <2>1, <4>3
      <4> QED  BY <3>4, <4>1, <4>4
    <3> HIDE DEF c
    <3>6. Old(c) = c
      BY <1>11, <3>3, <3>5
    <3> QED  BY <1>12, <3>1, <3>3, <3>6 DEF c
  <2>2. CASE q \notin D \ B
    <3>1. PICK b \in B : q = Moved(b)
      BY <1>12, <2>2
    <3>2. PICK r \in Seq(Names) : b = from \o r /\ Moved(b) = to \o r
      BY <1>6
    <3>3. q = to \o r /\ Len(q) = Len(to) + Len(r) /\ b \in D
          /\ Len(to) \in Nat /\ Len(r) \in Nat /\ Len(from) \in Nat
      BY <1>3, <3>1, <3>2
    <3>4. k \in 0..Len(to) + Len(r)
      BY <3>3
    <3>5. CASE k < Len(to)
      <4>1. c = SubSeq(to, 1, k)
        BY <3>3, <3>4, <3>5, CutJoined
      <4>2. k \in 0..Len(to) - 1
        BY <3>3, <3>5
      <4>3. c \in D \ B /\ tree[c] = Dir /\ c # to
        BY <1>14, <4>1, <4>2
      <4> HIDE DEF c
      <4>4. Old(c) = c
        BY <1>11, <4>3
      <4> QED  BY <1>12, <4>3, <4>4 DEF c
    <3>6. CASE Len(to) <= k
      <4> DEFINE l == k - Len(to)
                 a == SubSeq(r, 1, l)
                 e == from \o a
      <4>1. c = to \o a
        BY <3>3, <3>4, <3>6, CutJoined
      <4>2. l \in 0..Len(r) - 1 /\ l \in 0..Len(r)
        BY <3>3, <3>6
      <4>3. a \in Seq(Names)
        BY <4>2, Cut
      <4>4. Len(from) + l \in 0..Len(b) - 1 /\ Len(from) + l \in 0..Len(from) + Len(r)
            /\ Len(from) <= Len(from) + l /\ (Len(from) + l) - Len(from) = l
        <5>1. Len(b) = Len(from) + Len(r)
          BY <3>2
        <5> HIDE DEF l
        <5> QED  BY <3>3, <4>2, <5>1
      <4> HIDE DEF l
      <4>5. SubSeq(b, 1, Len(from) + l) = e
        <5> DEFINE m == Len(from) + l
        <5>1. m \in 0..Len(from) + Len(r) /\ Len(from) <= m /\ m - Len(from) = l
          BY <4>4
        <5> HIDE DEF m
        <5>2. SubSeq(from \o r, 1, m) = from \o SubSeq(r, 1, m - Len(from))
          BY <5>1, CutJoined
        <5> QED  BY <3>2, <5>1, <5>2 DEF m
      <4>6. e \in D /\ tree[e] = Dir
        BY <1>1, <3>3, <4>4, <4>5
      <4> HIDE DEF a, c
      <4>7. IsPrefix(from, e) /\ Moved(e) = to \o a /\ Old(to \o a) = e
        BY <1>5, <4>3
      <4>8. e \in B
        BY <1>3, <4>6, <4>7
      <4> QED  BY <1>12, <4>1, <4>6, <4>7, <4>8 DEF c
    <3> QED  BY <3>3, <3>4, <3>5, <3>6
  <2> QED  BY <2>1, <2>2
<1>16. to \in DOMAIN tree' /\ tree'[to] = tree[from]
  BY <1>8, <1>9, <1>12
<1>17. ASSUME from \in DOMAIN tree'
       PROVE  to = from
  <2>1. from \notin D \ B
    BY <1>9
  <2>2. PICK b \in B : from = Moved(b)
    BY <1>12, <1>17, <2>1
  <2>3. IsPrefix(to, from)
    <3>1. PICK r \in Seq(Names) : Moved(b) = to \o r
      BY <1>6
    <3> QED  BY <1>5, <2>2, <3>1
  <2>4. to \in D /\ (to # from => tree[to] = Dir)
    BY <1>2, <2>3, PrefixInTree DEF D
  <2>5. from \in Below(to)
    BY <1>2, <2>3 DEF Below, D
  <2> QED  BY <1>2, <2>4, <2>5
<1>18. \A q \in DOMAIN tree' : /\ tree'[q] \in Nat
                               /\ tree'[q] = Dir \/ tree'[q] \in DOMAIN data'
  BY <1>1, <1>12, <1>13
<1>19. tree' \in [DOMAIN tree' -> Nat]
  BY <1>4, <1>12, <1>18
<1>20. DOMAIN tree' \subseteq Seq(Names)
  BY <1>13
<1>21. IsFiniteSet(DOMAIN data') /\ data' \in [DOMAIN data' -> Seq(Blocks)]
  BY <1>1
<1>22. TreeTypes(tree', data')
  BY <1>15, <1>18, <1>19, <1>20, <1>21 DEF TreeTypes
<1>23. ASSUME NEW q \in D, ~IsPrefix(from, q)
       PROVE  q \in DOMAIN tree'
  BY <1>3, <1>12, <1>23
<1>24. ASSUME NEW q \in DOMAIN tree'
       PROVE  Came(from, to, q)
  <2>1. CASE q \in D \ B /\ q # to
    BY <1>3, <1>11, <1>12, <2>1 DEF Came, D
  <2>2. CASE q = to
    BY <1>2, <1>7, <1>16, <2>2 DEF Came, D
  <2>3. CASE q \notin D \ B
    <3>1. PICK b \in B : q = Moved(b)
      BY <1>12, <2>3
    <3>2. PICK r \in Seq(Names) : b = from \o r /\ Moved(b) = to \o r
      BY <1>6
    <3> QED  BY <1>3, <1>5, <1>12, <3>1, <3>2 DEF Came, D
  <2> QED  BY <2>1, <2>2, <2>3
<1> QED  BY <1>16, <1>17, <1>22, <1>23, <1>24 DEF D

-----------------------------------------------------------------------------
(* Requests that change the tree.                                          *)

\* A path's directory is a path.
LEMMA FrontPath ==
  ASSUME NEW p \in Seq(Names), p # <<>>
  PROVE  Front(p) \in Seq(Names)
<1>1. Len(p) - 1 \in 0..Len(p)
  BY EmptySeq
<1> QED  BY <1>1, Cut DEF Front

\* A delete leaves nothing at or below its path; the other requests whose paths it took
\* away are marked as touched.
LEMMA DeleteStep ==
  ASSUME IInv, NEW r \in Requesters, opDelete(r)
  PROVE  IInv'
<1> DEFINE o == op[r]
           p == Fresh(r)
<1>1. /\ o \in Requests /\ InOrder(o) /\ Agrees(o)
      /\ o.at = "begin" /\ o.kind = "delete" /\ o.path \in DOMAIN tree
      /\ data' = data /\ tree' = [q \in DOMAIN tree \ Below(o.path) |-> tree[q]]
      /\ Step(r, p)
  BY Mine DEF opDelete, Begins, Exists
<1>2. TreeTypes(tree', data') /\ o.path \notin DOMAIN tree'
  BY <1>1, DeleteTree DEF IInv
<1>3. /\ p \in Requests /\ p.at = "done" /\ p.answer = "ok" /\ p.kind = o.kind
      /\ p.path = o.path /\ p.to = o.to /\ p.meant = o.meant
      /\ p.real = o.real
  BY <1>1, FreshFields
<1> HIDE DEF p
<1>4. Agrees(p)
  BY <1>1, <1>3, StillAgrees
<1>5. InOrder(p) /\ Stands(p, tree', data')
  BY <1>1, <1>2, <1>3 DEF InOrder, Stands, OtherStands
<1> QED  BY <1>1, <1>2, <1>3, <1>4, <1>5, OthersKept

\* A mkdir leaves a directory at its path, and takes nothing away from the others.
LEMMA MkdirStep ==
  ASSUME IInv, NEW r \in Requesters, opMkdir(r)
  PROVE  IInv'
<1> DEFINE o == op[r]
           p == Fresh(r)
<1>1. /\ o \in Requests /\ InOrder(o) /\ Agrees(o)
      /\ o.at = "begin" /\ o.kind = "mkdir" /\ Mkdir(o.path)
      /\ data' = data /\ Step(r, p)
  BY Mine DEF opMkdir, Begins
<1>2. o.path \in Seq(Names)
  BY <1>1 DEF Requests
<1>3. TreeTypes(tree', data') /\ o.path \in DOMAIN tree' /\ tree'[o.path] = Dir
  BY <1>1, <1>2, MkdirTree DEF IInv
<1>4. /\ p \in Requests /\ p.at = "done" /\ p.answer = "ok" /\ p.kind = o.kind
      /\ p.path = o.path /\ p.to = o.to /\ p.meant = o.meant
      /\ p.real = o.real
  BY <1>1, FreshFields
<1> HIDE DEF p
<1>5. Agrees(p)
  BY <1>1, <1>4, StillAgrees
<1>6. InOrder(p) /\ Stands(p, tree', data')
  BY <1>1, <1>3, <1>4 DEF InOrder, Stands, OtherStands
<1> QED  BY <1>1, <1>3, <1>4, <1>5, <1>6, OthersKept

\* A rename leaves the old path empty and the new one with the file that was moved; what
\* it moved, and what it replaced, is touched for the others.
LEMMA RenameStep ==
  ASSUME IInv, NEW r \in Requesters, opRename(r)
  PROVE  IInv'
<1> DEFINE o == op[r]
           e == Fresh(r)
           p == [e EXCEPT !.node = tree[o.path]]
<1>1. /\ o \in Requests /\ InOrder(o) /\ Agrees(o)
      /\ o.at = "begin" /\ o.kind = "rename"
      /\ Renamable(o.path, o.to) /\ Rename(o.path, o.to)
      /\ data' = data /\ Step(r, p)
  BY Mine DEF opRename, Begins
<1>2. o.path \in Seq(Names) /\ o.to \in Seq(Names)
  BY <1>1 DEF Requests
<1>3. /\ TreeTypes(tree', data')
      /\ o.to \in DOMAIN tree' /\ tree'[o.to] = tree[o.path]
      /\ o.to # o.path => o.path \notin DOMAIN tree'
  BY <1>1, <1>2, RenameTree DEF IInv
<1>4. tree[o.path] \in Nat
  BY <1>1 DEF IInv, TreeTypes, Renamable, Exists
<1>5. /\ e \in Requests /\ e.at = "done" /\ e.answer = "ok" /\ e.kind = o.kind
      /\ e.path = o.path /\ e.to = o.to /\ e.meant = o.meant
      /\ e.real = o.real
  BY <1>1, FreshFields
<1> HIDE DEF e
<1>6. /\ p \in Requests /\ p.at = "done" /\ p.answer = "ok" /\ p.kind = o.kind
      /\ p.path = o.path /\ p.to = o.to /\ p.meant = o.meant /\ p.node = tree[o.path]
      /\ p.real = o.real
  BY <1>4, <1>5 DEF Requests
<1> HIDE DEF p
<1>7. Agrees(p)
  BY <1>1, <1>6, StillAgrees
<1>8. InOrder(p) /\ Stands(p, tree', data')
  BY <1>1, <1>3, <1>6 DEF InOrder, Stands, OtherStands
<1> QED  BY <1>1, <1>3, <1>6, <1>7, <1>8, OthersKept

\* A write: its directory, its file emptied, and what goes into the file, which is
\* still empty if nobody has changed it.
LEMMA WriteStep ==
  ASSUME IInv, NEW r \in Requesters, opWrite(r)
  PROVE  IInv'
<1> DEFINE o == op[r]
<1>1. /\ o \in Requests /\ InOrder(o) /\ Agrees(o) /\ Stands(o, tree, data)
      /\ TreeTypes(tree, data) /\ o.path \in Seq(Names) /\ o.content \in Seq(Blocks)
  BY Mine DEF IInv, Requests
<1>2. ASSUME Begins(r, "write"), o.path # <<>>, Mkdir(Front(o.path)), UNCHANGED data,
             Step(r, [o EXCEPT !.at = "open"])
      PROVE  IInv'
  <2> DEFINE p == [o EXCEPT !.at = "open"]
  <2>1. TreeTypes(tree', data')
    BY <1>1, <1>2, FrontPath, MkdirTree
  <2>2. o.at = "begin" /\ o.kind = "write"
    BY <1>2 DEF Begins
  <2>3. /\ p \in Requests /\ p.at = "open" /\ p.kind = o.kind
        /\ p.path = o.path /\ p.to = o.to /\ p.meant = o.meant
        /\ p.real = o.real
        /\ p.encoding = o.encoding /\ p.answer = o.answer
    BY <1>1 DEF Requests, Stages
  <2>4. Step(r, p)
    BY <1>2
  <2> HIDE DEF p
  <2>5. o.answer = "none" /\ o.encoding = "utf8"
    BY <1>1, <2>2 DEF InOrder
  <2>6. Agrees(p)
    BY <1>1, <2>2, <2>3, <2>5, StillAgrees
  <2>7. InOrder(p) /\ Stands(p, tree', data')
    BY <2>2, <2>3, <2>5 DEF InOrder, Stands, WriteStands, OtherStands
  <2> QED  BY <2>1, <2>3, <2>4, <2>6, <2>7, OthersKept
<1>3. ASSUME o.at = "open", o.kind = "write", Truncate(o.path),
             Step(r, [o EXCEPT !.at = "write", !.node = tree'[o.path], !.touched = FALSE])
      PROVE  IInv'
  <2> DEFINE p == [o EXCEPT !.at = "write", !.node = tree'[o.path], !.touched = FALSE]
  <2>1. TreeTypes(tree', data') /\ FileHas(tree', data', o.path, <<>>)
    BY <1>1, <1>3, TruncateTree
  <2>2. tree'[o.path] \in Nat
    BY <2>1 DEF TreeTypes, FileHas
  <2>3. /\ p \in Requests /\ p.at = "write" /\ p.kind = o.kind
        /\ p.path = o.path /\ p.to = o.to /\ p.meant = o.meant
        /\ p.real = o.real
        /\ p.encoding = o.encoding /\ p.answer = o.answer /\ p.node = tree'[o.path]
    BY <1>1, <2>2 DEF Requests, Stages
  <2>4. Step(r, p)
    BY <1>3
  <2> HIDE DEF p
  <2>5. o.answer = "none"
    BY <1>1, <1>3 DEF InOrder
  <2>6. Agrees(p)
    BY <1>1, <1>3, <2>3, <2>5, StillAgrees
  <2>7. InOrder(p) /\ Stands(p, tree', data')
    BY <1>3, <2>1, <2>3, <2>5 DEF InOrder, Stands, WriteStands, OtherStands
  <2> QED  BY <2>1, <2>3, <2>4, <2>6, <2>7, OthersKept
<1>4. ASSUME o.at = "write", data' = [data EXCEPT ![o.node] = Over(@, o.content)],
             UNCHANGED tree, Step(r, Done(r, "ok"))
      PROVE  IInv'
  <2> DEFINE p == Done(r, "ok")
  <2>1. ASSUME NEW old \in Seq(Blocks)
        PROVE  /\ Over(old, o.content) \in Seq(Blocks)
               /\ old = <<>> => Over(old, o.content) = o.content
    <3> DEFINE n == Len(o.content) + 1
               rest == SubSeq(old, n, Len(old))
    <3>1. n \in Nat /\ n >= 1 /\ Len(old) \in Nat /\ \A i \in n..Len(old) : old[i] \in Blocks
      BY <1>1
    <3> HIDE DEF n
    <3>2. rest \in Seq(Blocks)
      BY <3>1, SubSeqProperties
    <3>3. old = <<>> => rest = <<>>
      BY <3>1, SubSeqEmpty
    <3>4. Over(old, o.content) = o.content \o rest
      BY DEF Over, n
    <3> HIDE DEF rest
    <3>5. /\ o.content \o rest \in Seq(Blocks)
          /\ rest = <<>> => o.content \o rest = o.content
      BY <1>1, <3>2, ConcatEmptySeq, ConcatProperties
    <3> QED  BY <3>3, <3>4, <3>5
  <2>2. /\ DOMAIN data' = DOMAIN data /\ data' \in [DOMAIN data' -> Seq(Blocks)]
        /\ o.node \in DOMAIN data => data'[o.node] = Over(data[o.node], o.content)
    BY <1>1, <1>4, <2>1 DEF TreeTypes
  <2>3. TreeTypes(tree', data')
    BY <1>1, <1>4, <2>2 DEF TreeTypes
  <2>4. o.answer = "none" /\ o.kind = "write"
    BY <1>1, <1>4 DEF InOrder
  <2>5. ~o.touched => FileHas(tree', data', o.path, o.content)
    <3>1. SUFFICES ASSUME ~o.touched
                   PROVE  FileHas(tree', data', o.path, o.content)
      OBVIOUS
    <3>2. /\ o.path \in DOMAIN tree /\ tree[o.path] # Dir /\ data[o.node] = <<>>
          /\ o.node = tree[o.path]
      BY <1>1, <1>4, <2>4, <3>1 DEF Stands, WriteStands, FileHas
    <3>3. o.node \in DOMAIN data /\ data[o.node] \in Seq(Blocks)
      BY <1>1, <3>2 DEF TreeTypes
    <3> QED  BY <1>4, <2>1, <2>2, <3>2, <3>3 DEF FileHas
  <2>6. "ok" \in Answers
    BY DEF Answers
  <2>7. /\ p \in Requests /\ p.at = "done" /\ p.answer = "ok" /\ p.kind = o.kind
        /\ p.path = o.path /\ p.to = o.to /\ p.meant = o.meant
        /\ p.real = o.real
        /\ p.content = o.content /\ p.touched = o.touched
    BY <1>1, <2>6, DoneFields
  <2>8. Step(r, p)
    BY <1>4
  <2> HIDE DEF p
  <2>9. Agrees(p)
    BY <1>1, <1>4, <2>7, StillAgrees
  <2>10. InOrder(p) /\ Stands(p, tree', data')
    BY <2>4, <2>5, <2>7 DEF InOrder, Stands, WriteStands, OtherStands
  <2> QED  BY <2>3, <2>7, <2>8, <2>9, <2>10, OthersKept
<1> QED  BY <1>2, <1>3, <1>4 DEF opWrite

-----------------------------------------------------------------------------
(* The theorems.                                                           *)

\* At first nothing is asked, and the tree is one there may be.
LEMMA InitIInv == Init => IInv
<1> SUFFICES ASSUME Init
             PROVE  IInv
  OBVIOUS
<1>1. /\ tree \in Trees
      /\ DOMAIN tree \subseteq Seq(Names) /\ tree \in [DOMAIN tree -> Nat]
      /\ \A p \in DOMAIN tree : \A k \in 0..Len(p) - 1 :
           SubSeq(p, 1, k) \in DOMAIN tree /\ tree[SubSeq(p, 1, k)] = Dir
  BY FsAssumption DEF Init
<1> DEFINE F == {tree[p] : p \in DOMAIN tree} \ {Dir}
<1>2. PICK c \in Contents : data = [f \in F |-> c]
  BY DEF Init
<1>3. c \in Seq(Blocks)
  BY FsAssumption
<1>4. IsFiniteSet(F)
  <2>1. PICK n \in 0..Cardinality(DOMAIN tree) : F = 1..n
    BY <1>1, FsAssumption
  <2>2. Cardinality(DOMAIN tree) \in Nat
    BY <1>1, FsAssumption, FS_CardinalityType
  <2>3. n \in Int
    BY <2>2
  <2> HIDE DEF F
  <2> QED  BY <2>1, <2>3, FS_Interval
<1>5. TreeTypes(tree, data)
  <2>1. \A p \in DOMAIN tree : tree[p] = Dir \/ tree[p] \in F
    OBVIOUS
  <2> HIDE DEF F
  <2> QED  BY <1>1, <1>2, <1>3, <1>4, <2>1 DEF TreeTypes
<1>6. NoOp \in Requests
  BY DEF NoOp, Requests, Kinds, Stages, Answers, Dir
<1>7. InOrder(NoOp) /\ Agrees(NoOp) /\ Stands(NoOp, tree, data)
  BY DEF NoOp, InOrder, Agrees, Stands, OtherStands
<1>8. op = [r \in Requesters |-> NoOp]
  BY DEF Init
<1> QED  BY <1>5, <1>6, <1>7, <1>8 DEF IInv

\* Every step keeps the invariant.
LEMMA NextIInv == IInv /\ [Next]_vars => IInv'
<1> SUFFICES ASSUME IInv, [Next]_vars
             PROVE  IInv'
  OBVIOUS
<1>1. CASE UNCHANGED vars
  BY <1>1 DEF vars, IInv
<1>2. CASE Next
  BY <1>2, RequestStep, ReadStep, WriteStep, ListStep, DeleteStep, MkdirStep, RenameStep,
     ThrowsStep DEF Next
<1> QED  BY <1>1, <1>2

\* Every tree is one of directories, every request is in order, and what it knows
\* of its path stands until another changes it.
THEOREM Inductive == Spec => []IInv
<1> QED  BY InitIInv, NextIInv, PTL DEF Spec

\* Whatever is typed, wherever the client is and whatever the root: the file used
\* has, below the root, the name that was meant, and what is denied is what leads
\* out of the root by its name or by its real path.
THEOREM MeansTheSame == Spec => []PathsAgree
<1>1. IInv => PathsAgree
  BY DEF IInv, PathsAgree, Agrees
<1> QED  BY <1>1, Inductive, PTL

\* An answer holds until another request changes the paths it is about, for any
\* requests in any order.
THEOREM AnswersTrue == Spec => []AnswersHold
<1>1. IInv => AnswersHold
  <2> SUFFICES ASSUME IInv, NEW r \in Requesters,
                      op[r].answer = "ok", ~op[r].touched
               PROVE  LET o == op[r] IN
      CASE o.kind = "read" ->
             /\ Exists(o.path) /\ o.content = data[tree[o.path]]
             /\ o.size = Len(o.content) /\ o.size <= MaxRead
             /\ o.encoding = "base64" <=> (o.content # <<>> /\ Head(o.content) = "n")
        [] o.kind = "write" -> Exists(o.path) /\ data[tree[o.path]] = o.content
        [] o.kind = "delete" -> ~Exists(o.path)
        [] o.kind = "mkdir" -> IsDir(o.path)
        [] o.kind = "rename" -> /\ Exists(o.to) /\ tree[o.to] = o.node
                                /\ o.to # o.path => ~Exists(o.path)
        [] OTHER -> TRUE
    BY DEF AnswersHold
  <2> DEFINE o == op[r]
  <2>1. /\ o.kind = "read" => ReadStands(o, tree, data)
        /\ o.kind = "write" => WriteStands(o, tree, data)
        /\ OtherStands(o, tree)
    BY DEF IInv, Stands
  <2>2. o.kind = "read" =>
             /\ Exists(o.path) /\ o.content = data[tree[o.path]]
             /\ o.size = Len(o.content) /\ o.size <= MaxRead
             /\ o.encoding = "base64" <=> (o.content # <<>> /\ Head(o.content) = "n")
    BY <2>1 DEF ReadStands, FileHas, Exists, Binary
  <2>3. o.kind = "write" => Exists(o.path) /\ data[tree[o.path]] = o.content
    BY <2>1 DEF WriteStands, FileHas, Exists
  <2>4. /\ o.kind = "delete" => ~Exists(o.path)
        /\ o.kind = "mkdir" => IsDir(o.path)
        /\ o.kind = "rename" => /\ Exists(o.to) /\ tree[o.to] = o.node
                                /\ o.to # o.path => ~Exists(o.path)
    BY <2>1 DEF OtherStands, Exists, IsDir
  <2> QED  BY <2>2, <2>3, <2>4, Zenon
<1> QED  BY <1>1, Inductive, PTL

==============================================================================
