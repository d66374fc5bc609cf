---------------------------- MODULE LevelsProofs ----------------------------
(***************************************************************************)
(* Proofs about Levels, for any options, triggers, numbers of levels and   *)
(* ranges: the files a compaction reads stay in the version until its      *)
(* results are installed.                                                  *)
(***************************************************************************)
EXTENDS Levels, FilteringProofs, FiniteSetTheorems, SequenceTheorems, TLAPS

\* The least and the greatest member of a set of numbers.
LEMMA MinFacts ==
  ASSUME NEW S \in SUBSET Nat, S # {}
  PROVE  Min(S) \in S /\ \A x \in S : Min(S) <= x
<1>1. \E x \in S : \A y \in S : x <= y
  BY LeastNatural
<1> QED BY <1>1 DEF Min

\* One of some places has the greatest value.
LEMMA Greatest ==
  ASSUME NEW n \in Nat, NEW h \in [1 .. n -> Nat], NEW S \in SUBSET (1 .. n), S # {}
  PROVE  \E i \in S : \A j \in S : h[j] <= h[i]
<1> DEFINE Good == {m \in 0 .. n : \A j \in S : j > m}
                     \cup {m \in 0 .. n : \E i \in S : \A j \in S : j <= m => h[j] <= h[i]}
<1>1. 0 \in Good
  OBVIOUS
<1>2. ASSUME NEW m \in 0 .. n, m \in Good, m < n PROVE m + 1 \in Good
  <2>1. m + 1 \in 0 .. n
    BY <1>2
  <2>2. CASE m + 1 \notin S
    <3>1. \A j \in S : (j > m => j > m + 1) /\ (j <= m + 1 => j <= m)
      BY <2>2
    <3> QED BY <1>2, <2>1, <3>1
  <2>3. CASE m + 1 \in S /\ \A j \in S : j > m
    <3>1. \A j \in S : j <= m + 1 => h[j] <= h[m + 1]
      <4>1. \A j \in S : j <= m + 1 => j = m + 1
        BY <2>3
      <4>2. h[m + 1] \in Nat
        BY <2>3
      <4> QED BY <4>1, <4>2
    <3> QED BY <2>1, <2>3, <3>1
  <2>4. CASE m + 1 \in S /\ \E i \in S : \A j \in S : j <= m => h[j] <= h[i]
    <3>1. PICK i \in S : \A j \in S : j <= m => h[j] <= h[i]
      BY <2>4
    <3>2. \A j \in S : h[j] \in Nat /\ (j <= m + 1 => j <= m \/ j = m + 1)
      OBVIOUS
    <3>3. CASE h[m + 1] <= h[i]
      <4>1. \A j \in S : j <= m + 1 => h[j] <= h[i]
        BY <3>1, <3>2, <3>3
      <4> QED BY <2>1, <4>1
    <3>4. CASE ~ (h[m + 1] <= h[i])
      <4>1. \A j \in S : j <= m + 1 => h[j] <= h[m + 1]
        BY <2>4, <3>1, <3>2, <3>4
      <4> QED BY <2>1, <2>4, <4>1
    <3> QED BY <3>3, <3>4
  <2> QED BY <1>2, <2>2, <2>3, <2>4
<1>3. n \in Good
  <2>1. \A m \in 0 .. n : m \in Good /\ m < n => m + 1 \in Good
    BY <1>2
  <2>2. 0 .. n \subseteq Good
    <3> HIDE DEF Good
    <3> QED BY <1>1, <2>1, InductionUpTo
  <2>3. n \in 0 .. n
    OBVIOUS
  <2> HIDE DEF Good
  <2> QED BY <2>2, <2>3
<1>4. PICK i \in S : \A j \in S : j <= n => h[j] <= h[i]
  <2>1. PICK j \in S : j \in 1 .. n
    OBVIOUS
  <2> QED BY <1>3, <2>1
<1> QED BY <1>4

LEMMA MaxFacts ==
  ASSUME NEW n \in Nat, NEW S \in SUBSET (1 .. n), S # {}
  PROVE  Max(S) \in S /\ \A x \in S : x <= Max(S)
<1> DEFINE h == [i \in 1 .. n |-> i]
<1>1. h \in [1 .. n -> Nat]
  OBVIOUS
<1>2. \E i \in S : \A j \in S : h[j] <= h[i]
  <2> HIDE DEF h
  <2> QED BY <1>1, Greatest
<1>3. \E i \in S : \A j \in S : i >= j
  BY <1>2
<1>4. Max(S) \in S /\ \A j \in S : Max(S) >= j
  BY <1>3 DEF Max
<1> QED BY <1>4

(* The files of a level.                                                   *)
IsFile(f) ==
  /\ f = [number |-> f.number, entries |-> f.entries, seeks |-> f.seeks,
          smallest |-> f.smallest, largest |-> f.largest]
  /\ f.number \in Nat /\ IsFiniteSet(f.entries)
AreFiles(s) == s \in Seq(ToSet(s)) /\ \A f \in ToSet(s) : IsFile(f)
Numbers(s) == {f.number : f \in ToSet(s)}
IsVersion(lvs) == lvs = [l \in Level |-> lvs[l]] /\ \A l \in Level : AreFiles(lvs[l])

\* A sequence has its elements, as many as it is long.
LEMMA SeqFacts ==
  ASSUME NEW S, NEW s \in Seq(S)
  PROVE  /\ Len(s) \in Nat /\ DOMAIN s = 1 .. Len(s)
         /\ ToSet(s) \subseteq S /\ s \in Seq(ToSet(s))
         /\ \A x : x \in ToSet(s) <=> \E i \in 1 .. Len(s) : s[i] = x
         /\ IsFiniteSet(ToSet(s))
<1>1. Len(s) \in Nat /\ DOMAIN s = 1 .. Len(s) /\ s \in [1 .. Len(s) -> S]
  BY LenProperties
<1>2. ToSet(s) = Range(s) /\ s \in Seq(Range(s))
  BY SeqOfRange DEF ToSet, Range
<1>3. ToSet(s) \subseteq S /\ \A x : x \in ToSet(s) <=> \E i \in 1 .. Len(s) : s[i] = x
  BY <1>1 DEF ToSet
<1>4. IsFiniteSet(ToSet(s))
  <2>1. IsFiniteSet(1 .. Len(s))
    BY <1>1, FS_Interval
  <2>2. s \in Surjection(1 .. Len(s), ToSet(s))
    BY <1>1, <1>3 DEF Surjection
  <2> QED BY <2>1, <2>2, FS_Surjection
<1> QED BY <1>1, <1>2, <1>3, <1>4

\* A sequence of files of some sequences of files.
LEMMA FilesFrom ==
  ASSUME NEW S, NEW s \in Seq(S), \A f \in S : IsFile(f)
  PROVE  AreFiles(s)
BY SeqFacts DEF AreFiles

LEMMA FilteredFiles ==
  ASSUME NEW s, NEW T, AreFiles(s)
  PROVE  /\ AreFiles(Filter(s, T)) /\ ToSet(Filter(s, T)) = ToSet(s) \cap T
<1> DEFINE f == Filter(s, T)
<1>1. s \in Seq(ToSet(s)) /\ \A x \in ToSet(s) : IsFile(x)
  BY DEF AreFiles
<1>2. /\ f \in Seq(ToSet(s))
      /\ \A a \in DOMAIN f : f[a] \in T
      /\ \A i \in DOMAIN s : s[i] \in T => \E a \in DOMAIN f : f[a] = s[i]
  BY <1>1, FilterFacts
<1> HIDE DEF f
<1>3. AreFiles(f)
  BY <1>1, <1>2, FilesFrom
<1>4. ToSet(f) \subseteq ToSet(s)
  BY <1>2, SeqFacts
<1>5. ToSet(f) = ToSet(s) \cap T
  BY <1>2, <1>4 DEF ToSet
<1> QED BY <1>3, <1>5 DEF f

\* The place a file is put before.
LEMMA UpperBoundFacts ==
  ASSUME NEW s, AreFiles(s), NEW f
  PROVE  UpperBound(s, f) \in 1 .. Len(s) + 1
<1> DEFINE T == {i \in DOMAIN s : BySmallestKey(f, s[i])}
<1>1. Len(s) \in Nat /\ DOMAIN s = 1 .. Len(s)
  BY SeqFacts DEF AreFiles
<1>2. {Len(s) + 1} \cup T \in SUBSET Nat /\ {Len(s) + 1} \cup T # {}
  BY <1>1
<1>3. {Len(s) + 1} \cup T \subseteq 1 .. Len(s) + 1
  BY <1>1
<1>4. UpperBound(s, f) = Min({Len(s) + 1} \cup T)
  BY DEF UpperBound
<1> HIDE DEF T
<1>5. UpperBound(s, f) \in {Len(s) + 1} \cup T
  BY <1>2, <1>4, MinFacts
<1> QED BY <1>3, <1>5

LEMMA InsertedFile ==
  ASSUME NEW s, AreFiles(s), NEW f, IsFile(f)
  PROVE  LET t == InsertAt(s, UpperBound(s, f), f)
         IN  AreFiles(t) /\ ToSet(t) = ToSet(s) \cup {f}
<1> DEFINE n == Len(s)
           i == UpperBound(s, f)
           S == ToSet(s) \cup {f}
           a == SubSeq(s, 1, i - 1)
           b == SubSeq(s, i, n)
           ab == a \o <<f>>
           t == InsertAt(s, i, f)
<1>1. n \in Nat /\ s \in Seq(ToSet(s)) /\ \A k \in 1 .. n : s[k] \in S
  BY SeqFacts DEF AreFiles
<1>2. i \in 1 .. n + 1
  BY UpperBoundFacts
<1> HIDE DEF i, n, S
<1>3. a \in Seq(S) /\ Len(a) = i - 1 /\ \A k \in 1 .. i - 1 : a[k] = s[k]
  <2>1. 1 \in Int /\ i - 1 \in Int /\ (i - 1) - 1 + 1 = i - 1 /\ \A k \in 1 .. i - 1 : s[k] \in S
    BY <1>1, <1>2
  <2>2. /\ a \in Seq(S) /\ Len(a) = IF 1 <= i - 1 THEN (i - 1) - 1 + 1 ELSE 0
        /\ \A k \in 1 .. (i - 1) - 1 + 1 : a[k] = s[1 + k - 1]
    <3> HIDE DEF a
    <3> QED BY <2>1, SubSeqProperties DEF a
  <2>3. \A k \in 1 .. i - 1 : 1 + k - 1 = k
    OBVIOUS
  <2> HIDE DEF a
  <2> QED BY <1>2, <2>1, <2>2, <2>3
<1>4. b \in Seq(S) /\ Len(b) = n - i + 1 /\ \A k \in 1 .. n - i + 1 : b[k] = s[i + k - 1]
  <2>1. i \in Int /\ n \in Int /\ \A k \in i .. n : s[k] \in S
    BY <1>1, <1>2
  <2>2. /\ b \in Seq(S) /\ Len(b) = IF i <= n THEN n - i + 1 ELSE 0
        /\ \A k \in 1 .. n - i + 1 : b[k] = s[i + k - 1]
    BY <2>1, SubSeqProperties
  <2> HIDE DEF b
  <2> QED BY <1>1, <1>2, <2>2
<1> HIDE DEF a, b
<1>5. f \in S /\ <<f>> \in Seq(S) /\ Len(<<f>>) = 1 /\ <<f>>[1] = f
  BY DEF S
<1>6. /\ ab \in Seq(S) /\ Len(ab) = i
      /\ \A k \in 1 .. i : ab[k] = IF k <= i - 1 THEN a[k] ELSE f
  <2>1. /\ ab \in Seq(S) /\ Len(ab) = Len(a) + Len(<<f>>)
        /\ \A k \in 1 .. Len(a) + Len(<<f>>) : ab[k] = IF k <= Len(a) THEN a[k] ELSE <<f>>[k - Len(a)]
    BY <1>3, <1>5, ConcatProperties
  <2> HIDE DEF ab
  <2>2. Len(a) + Len(<<f>>) = i
    BY <1>2, <1>3, <1>5
  <2>3. \A k \in 1 .. i : ~ (k <= i - 1) => k - (i - 1) = 1
    BY <1>2
  <2> QED BY <1>3, <1>5, <2>1, <2>2, <2>3
<1>7. t = ab \o b
  BY DEF InsertAt, a, b, n
<1> HIDE DEF ab, t
<1>8. /\ t \in Seq(S) /\ Len(t) = n + 1
      /\ \A k \in 1 .. n + 1 : t[k] = IF k <= i THEN ab[k] ELSE b[k - i]
  <2>1. /\ ab \o b \in Seq(S) /\ Len(ab \o b) = Len(ab) + Len(b)
        /\ \A k \in 1 .. Len(ab) + Len(b) : (ab \o b)[k] = IF k <= Len(ab) THEN ab[k] ELSE b[k - Len(ab)]
    BY <1>4, <1>6, ConcatProperties
  <2>2. Len(ab) + Len(b) = n + 1 /\ Len(ab) = i
    BY <1>1, <1>2, <1>4, <1>6
  <2> QED BY <1>7, <2>1, <2>2
<1>9. AreFiles(t)
  <2>1. \A x \in S : IsFile(x)
    BY DEF S, AreFiles
  <2> QED BY <1>8, <2>1, FilesFrom
<1>10. S \subseteq ToSet(t)
  <2>1. t[i] = f /\ i \in 1 .. n + 1
    BY <1>1, <1>2, <1>6, <1>8
  <2>2. ASSUME NEW k \in 1 .. n PROVE \E m \in 1 .. n + 1 : t[m] = s[k]
    <3>1. CASE k <= i - 1
      <4>1. k \in 1 .. i - 1 /\ k \in 1 .. i /\ k \in 1 .. n + 1 /\ k <= i
        BY <1>1, <1>2, <3>1
      <4> QED BY <1>3, <1>6, <1>8, <3>1, <4>1
    <3>2. CASE ~ (k <= i - 1)
      <4> DEFINE m == k - i + 1
      <4>1. k + 1 \in 1 .. n + 1 /\ ~ (k + 1 <= i) /\ (k + 1) - i = m
            /\ m \in 1 .. n - i + 1 /\ i + m - 1 = k
        BY <1>1, <1>2, <3>2
      <4> HIDE DEF m
      <4> QED BY <1>4, <1>8, <4>1
    <3> QED BY <3>1, <3>2
  <2>3. \A x : x \in ToSet(s) <=> \E k \in 1 .. n : s[k] = x
    BY <1>1, SeqFacts DEF n
  <2>4. \A x : x \in ToSet(t) <=> \E k \in 1 .. n + 1 : t[k] = x
    BY <1>8, SeqFacts
  <2> QED BY <2>1, <2>2, <2>3, <2>4 DEF S
<1>11. ToSet(t) \subseteq S
  BY <1>8, SeqFacts
<1> QED BY <1>9, <1>10, <1>11 DEF t, S, i

\* The files kept and those added, each put in its place.
LEMMA MergedFiles ==
  ASSUME NEW kept, NEW added, AreFiles(kept), AreFiles(added)
  PROVE  AreFiles(Merged(kept, added)) /\ ToSet(kept) \subseteq ToSet(Merged(kept, added))
<1> DEFINE n == Len(added)
           X == {s \in Seq(ToSet(kept) \cup ToSet(added)) :
                   AreFiles(s) /\ ToSet(kept) \subseteq ToSet(s)}
           F == [i \in 1 .. n |->
                   [s \in X |-> InsertAt(s, UpperBound(s, added[i]), added[i])]]
           Step(m, i) == IF i = 0 THEN kept
                         ELSE LET files == m[i - 1]
                              IN  InsertAt(files, UpperBound(files, added[i]), added[i])
           Values(m) == m = [i \in 0 .. n |-> Step(m, i)]
<1>1. n \in Nat /\ added \in Seq(ToSet(added)) /\ \A i \in 1 .. n : added[i] \in ToSet(added) /\ IsFile(added[i])
  BY SeqFacts DEF AreFiles
<1>2. kept \in X
  <2>1. kept \in Seq(ToSet(kept) \cup ToSet(added))
    BY SeqMonotonic DEF AreFiles
  <2> QED BY <2>1
<1>3. F \in [1 .. n -> [X -> X]]
  <2> SUFFICES ASSUME NEW i \in 1 .. n, NEW s \in X
               PROVE  InsertAt(s, UpperBound(s, added[i]), added[i]) \in X
    OBVIOUS
  <2> DEFINE t == InsertAt(s, UpperBound(s, added[i]), added[i])
  <2>1. AreFiles(t) /\ ToSet(t) = ToSet(s) \cup {added[i]}
    BY <1>1, InsertedFile
  <2>2. t \in Seq(ToSet(t)) /\ ToSet(s) \subseteq ToSet(kept) \cup ToSet(added)
    BY <2>1, SeqFacts DEF AreFiles
  <2> HIDE DEF t
  <2>3. ToSet(t) \subseteq ToSet(kept) \cup ToSet(added)
    BY <1>1, <2>1, <2>2
  <2>4. t \in Seq(ToSet(kept) \cup ToSet(added))
    BY <2>2, <2>3, SeqMonotonic
  <2> QED BY <2>1, <2>4 DEF t
<1>4. PICK f : Applied(f, n, X, kept, F)
  <2> HIDE DEF n, X, F
  <2> QED BY <1>1, <1>2, <1>3, Sequencing
<1>5. f \in [0 .. n -> X] /\ f = [i \in 0 .. n |-> IF i = 0 THEN kept ELSE F[i][f[i - 1]]]
  <2> HIDE DEF n, X, F
  <2> QED BY <1>4 DEF Applied
<1>6. Values(f)
  <2>1. \A i \in 0 .. n : i # 0 => i \in 1 .. n /\ i - 1 \in 0 .. n
    BY <1>1
  <2>2. \A i \in 1 .. n, s \in X : F[i][s] = InsertAt(s, UpperBound(s, added[i]), added[i])
    <3> HIDE DEF X, n
    <3> QED OBVIOUS
  <2> HIDE DEF X, F, n
  <2>3. \A i \in 0 .. n : i # 0 => F[i][f[i - 1]] = Step(f, i)
    BY <1>5, <2>1, <2>2
  <2> QED BY <1>5, <2>3
<1>7. PICK m : Values(m) /\ Merged(kept, added) = m[n]
  <2> DEFINE m == CHOOSE m : Values(m)
  <2>1. Values(m)
    <3> HIDE DEF Values
    <3> QED BY <1>6
  <2>2. Merged(kept, added) = m[n]
    BY DEF Merged
  <2> HIDE DEF m, Values
  <2> QED BY <2>1, <2>2
<1> DEFINE Good == {i \in 0 .. n : m[i] \in X}
<1>8. 0 \in Good
  <2>1. m[0] = kept
    BY <1>1, <1>7
  <2> HIDE DEF X, n
  <2> QED BY <1>1, <1>2, <2>1
<1>9. ASSUME NEW i \in 0 .. n, i \in Good, i < n PROVE i + 1 \in Good
  <2>1. i + 1 \in 1 .. n /\ i + 1 \in 0 .. n /\ (i + 1) - 1 = i /\ i + 1 # 0
    BY <1>1, <1>9
  <2>2. m[i + 1] = InsertAt(m[i], UpperBound(m[i], added[i + 1]), added[i + 1])
    BY <1>7, <2>1
  <2>3. F[i + 1][m[i]] = InsertAt(m[i], UpperBound(m[i], added[i + 1]), added[i + 1])
    <3> HIDE DEF X
    <3> QED BY <1>9, <2>1
  <2> HIDE DEF F, X, n
  <2>4. F[i + 1][m[i]] \in X
    BY <1>3, <1>9, <2>1
  <2> QED BY <2>1, <2>2, <2>3, <2>4
<1>10. n \in Good
  <2>1. \A i \in 0 .. n : i \in Good /\ i < n => i + 1 \in Good
    BY <1>9
  <2> HIDE DEF Good, n
  <2>2. 0 .. n \subseteq Good
    BY <1>1, <1>8, <2>1, InductionUpTo
  <2> QED BY <1>1, <2>2
<1> QED BY <1>7, <1>10

\* A version that is applied has the files it kept.
LEMMA ApplyFacts ==
  ASSUME IsVersion(levels), NEW deleted, NEW level, NEW added, AreFiles(added),
         Apply(deleted, level, added)
  PROVE  /\ IsVersion(levels') /\ fileToCompact' = None
         /\ deleted = {} => \A l \in Level : Numbers(levels[l]) \subseteq Numbers(levels'[l])
<1>1. ASSUME NEW l \in Level
      PROVE  /\ AreFiles(Kept(l, deleted))
             /\ deleted = {} => ToSet(Kept(l, deleted)) = ToSet(levels[l])
  BY FilteredFiles DEF IsVersion, Kept
<1>2. ASSUME NEW l \in Level
      PROVE  AreFiles(Merged(Kept(l, deleted), added))
             /\ ToSet(Kept(l, deleted)) \subseteq ToSet(Merged(Kept(l, deleted), added))
  BY <1>1, MergedFiles
<1>3. levels' = [l \in Level |-> IF l = level THEN Merged(Kept(l, deleted), added)
                                 ELSE Kept(l, deleted)]
  BY DEF Apply
<1>4. \A l \in Level : AreFiles(levels'[l])
  BY <1>1, <1>2, <1>3
<1>5. IsVersion(levels')
  BY <1>3, <1>4 DEF IsVersion
<1>6. ASSUME deleted = {}, NEW l \in Level PROVE Numbers(levels[l]) \subseteq Numbers(levels'[l])
  <2>1. ToSet(levels[l]) \subseteq ToSet(levels'[l])
    BY <1>1, <1>2, <1>3, <1>6
  <2> QED BY <2>1 DEF Numbers
<1> QED BY <1>5, <1>6 DEF Apply

\* The places in the files of a version.
Places == {r \in Level \X Nat : r[2] \in DOMAIN levels[r[1]]}

\* Charging a file for a seek leaves the files where they are.
LEMMA UpdateStatsFacts ==
  ASSUME IsVersion(levels), NEW r \in Places, UpdateStats(r)
  PROVE  /\ IsVersion(levels')
         /\ \A l \in Level : Numbers(levels[l]) \subseteq Numbers(levels'[l])
         /\ \/ fileToCompact' = fileToCompact
            \/ /\ fileToCompact'.level = r[1]
               /\ fileToCompact'.number \in Numbers(levels'[r[1]])
<1> DEFINE v == r[1]
           i == r[2]
           s == levels[v]
           left == IF FileAt(r).seeks = 0 THEN 0 ELSE FileAt(r).seeks - 1
           g == [s[i] EXCEPT !.seeks = left]
           t == [s EXCEPT ![i] = g]
<1>1. v \in Level /\ i \in 1 .. Len(s) /\ AreFiles(s) /\ s \in Seq(ToSet(s)) /\ DOMAIN s = 1 .. Len(s)
  BY SeqFacts DEF Places, IsVersion, AreFiles
<1>2. IsFile(s[i]) /\ s[i] \in ToSet(s)
  BY <1>1, SeqFacts DEF AreFiles
<1>3. IsFile(g) /\ g.number = s[i].number
  <2> HIDE DEF left
  <2> QED BY <1>2 DEF IsFile
<1>4. levels' = [levels EXCEPT ![v] = t]
  <2>1. levels' = [levels EXCEPT ![v][i].seeks = left]
    BY DEF UpdateStats
  <2> QED BY <1>1, <2>1 DEF IsVersion
<1> HIDE DEF left, g
<1>5. AreFiles(t) /\ Len(t) = Len(s) /\ DOMAIN t = 1 .. Len(s)
  <2> DEFINE S == ToSet(s) \cup {g}
  <2>1. s \in Seq(S) /\ g \in S
    BY <1>1, SeqMonotonic
  <2>2. t \in Seq(S) /\ Len(t) = Len(s)
    <3> HIDE DEF S, s, i
    <3> QED BY <1>1, <2>1, ExceptSeq
  <2>3. \A f \in S : IsFile(f)
    BY <1>1, <1>3 DEF AreFiles
  <2> HIDE DEF S, t
  <2> QED BY <2>2, <2>3, FilesFrom, LenProperties
<1>6. Numbers(s) \subseteq Numbers(t)
  <2> SUFFICES ASSUME NEW k \in 1 .. Len(s) PROVE s[k].number \in Numbers(t)
    BY <1>1 DEF Numbers, ToSet
  <2>1. t[k].number = s[k].number
    BY <1>1, <1>3
  <2>2. t[k] \in ToSet(t)
    BY <1>5 DEF ToSet
  <2> HIDE DEF t
  <2> QED BY <2>1, <2>2 DEF Numbers
<1>7. DOMAIN levels = Level
  BY DEF IsVersion
<1> HIDE DEF t, s
<1>8. levels'[v] = t /\ \A l \in Level : l # v => levels'[l] = levels[l]
  BY <1>1, <1>4, <1>7
<1>9. \A l \in Level : AreFiles(levels'[l]) /\ Numbers(levels[l]) \subseteq Numbers(levels'[l])
  BY <1>5, <1>6, <1>8 DEF IsVersion, s
<1>10. IsVersion(levels')
  BY <1>4, <1>7, <1>9 DEF IsVersion
<1>11. fileToCompact' # fileToCompact => fileToCompact' = [level |-> v, number |-> FileAt(r).number]
  BY DEF UpdateStats
<1>12. FileAt(r).number \in Numbers(levels'[v])
  <2>1. FileAt(r).number \in Numbers(s)
    BY <1>2 DEF FileAt, Numbers, s
  <2> QED BY <1>1, <1>9, <2>1 DEF s
<1> QED BY <1>9, <1>10, <1>11, <1>12

\* When there are two files to read, the first is not in the last level.
LEMMA ReadsFacts ==
  ASSUME IsVersion(levels), NEW target, Len(FilesToRead(target)) >= 2
  PROVE  FilesToRead(target)[1] \in Places /\ FilesToRead(target)[1][1] \in 0 .. NumLevels - 2
<1> DEFINE n == NumLevels - 1
           s0 == levels[0]
           newest == {<<0, i>> : i \in {j \in DOMAIN s0 :
                        OverlapsUserRange(s0[j], target.key, target.key)}}
           newestFirst(r, q) == NewestFirst(s0[r[2]], s0[q[2]])
           k == Cardinality(newest)
           nth(m) == CHOOSE x \in newest : Cardinality({y \in newest : newestFirst(y, x)}) = m - 1
           level0 == [m \in 1 .. k |-> nth(m)]
           place(l) == FindFile(levels[l], target)
           holds(l) == place(l) \in DOMAIN levels[l]
                       /\ target.key >= levels[l][place(l)].smallest.key
           Step(list, l) == IF l = 0 THEN level0
                             ELSE IF holds(l) THEN Append(list[l - 1], <<l, place(l)>>)
                             ELSE list[l - 1]
           Values(list) == list = [l \in Level |-> Step(list, l)]
           U == ToSet(level0) \cup {<<l, place(l)>> : l \in Level}
           F == [l \in 1 .. n |-> [s \in Seq(U) |-> IF holds(l) THEN Append(s, <<l, place(l)>>) ELSE s]]
<1>1. n \in Nat /\ n >= 1 /\ Level = 0 .. n /\ 0 \in Level
  BY LevelsAssumption DEF Level
<1>2. FilesToRead(target) = (CHOOSE list : Values(list))[n]
  BY DEF FilesToRead, InOrder
<1>3. Len(s0) \in Nat /\ DOMAIN s0 = 1 .. Len(s0) /\ s0 \in Seq(ToSet(s0)) /\ AreFiles(s0)
  BY <1>1, SeqFacts DEF IsVersion, AreFiles
<1> HIDE DEF n
<1>4. IsFiniteSet(newest) /\ k \in Nat /\ newest \subseteq Places
  <2>1. newest \subseteq {0} \X (1 .. Len(s0))
    BY <1>3
  <2>2. IsFiniteSet({0}) /\ IsFiniteSet(1 .. Len(s0))
    <3>1. 1 \in Int /\ Len(s0) \in Int
      BY <1>3
    <3> QED BY <3>1, FS_Singleton, FS_Interval
  <2>3. IsFiniteSet({0} \X (1 .. Len(s0)))
    BY <2>2, FS_Product
  <2>4. IsFiniteSet(newest)
    <3> HIDE DEF newest
    <3> QED BY <2>1, <2>3, FS_Subset
  <2>5. newest \subseteq Places
    BY <1>1, <1>3 DEF Places
  <2> HIDE DEF newest
  <2> QED BY <2>4, <2>5, FS_CardinalityType
<1>5. k >= 1 => level0[1] \in newest
  <2> SUFFICES ASSUME k >= 1 PROVE level0[1] \in newest
    OBVIOUS
  <2> DEFINE S == {j \in DOMAIN s0 : OverlapsUserRange(s0[j], target.key, target.key)}
             h == [j \in 1 .. Len(s0) |-> s0[j].number]
  <2>1. newest # {}
    <3>1. newest = {} => k = 0
      <4> HIDE DEF newest
      <4> QED BY FS_EmptySet
    <3> QED BY <3>1
  <2>2. S # {} /\ S \in SUBSET (1 .. Len(s0))
    BY <1>3, <2>1
  <2>3. h \in [1 .. Len(s0) -> Nat]
    <3>1. \A j \in 1 .. Len(s0) : s0[j] \in ToSet(s0)
      BY <1>3 DEF ToSet
    <3> QED BY <1>3, <3>1 DEF AreFiles, IsFile
  <2>4. PICK i \in S : \A j \in S : h[j] <= h[i]
    <3> HIDE DEF S, h
    <3> QED BY <1>3, <2>2, <2>3, Greatest
  <2> DEFINE x0 == <<0, i>>
             later(x) == {y \in newest : newestFirst(y, x)}
  <2>5. x0 \in newest
    OBVIOUS
  <2>6. later(x0) = {}
    <3> SUFFICES ASSUME NEW j \in S, newestFirst(<<0, j>>, x0) PROVE FALSE
      OBVIOUS
    <3>1. s0[j].number > s0[i].number
      BY DEF NewestFirst
    <3>2. h[j] <= h[i] /\ h[j] = s0[j].number /\ h[i] = s0[i].number /\ h[i] \in Nat /\ h[j] \in Nat
      BY <1>3, <2>3, <2>4
    <3> QED BY <3>1, <3>2
  <2>7. Cardinality(later(x0)) = 0
    BY <2>6, FS_EmptySet
  <2>8. 1 \in 1 .. k /\ 1 - 1 = 0
    BY <1>4
  <2>9. level0[1] = CHOOSE x \in newest : Cardinality(later(x)) = 1 - 1
    BY <2>8
  <2> HIDE DEF later, newest, x0, level0
  <2>10. \E x \in newest : Cardinality(later(x)) = 1 - 1
    BY <2>5, <2>7, <2>8
  <2> QED BY <2>9, <2>10
<1>6. level0 \in Seq(U) /\ Len(level0) = k
  <2> HIDE DEF newest, newestFirst, place, nth
  <2>1. \A m \in 1 .. k : level0[m] \in U
    BY DEF ToSet
  <2>2. level0 = [m \in 1 .. k |-> level0[m]] /\ DOMAIN level0 = 1 .. k
    OBVIOUS
  <2> HIDE DEF level0, U, k
  <2>3. level0 \in [1 .. k -> U]
    BY <2>1, <2>2
  <2>4. level0 \in Seq(U)
    BY <1>4, <2>3, SeqDef
  <2> QED BY <1>4, <2>2, <2>4, LenProperties
<1> HIDE DEF newest, newestFirst, level0, k, holds
<1>7. \A l \in Level : <<l, place(l)>> \in U
  OBVIOUS
<1> HIDE DEF place
<1>8. F \in [1 .. n -> [Seq(U) -> Seq(U)]]
  <2> SUFFICES ASSUME NEW l \in 1 .. n, NEW s \in Seq(U) PROVE Append(s, <<l, place(l)>>) \in Seq(U)
    OBVIOUS
  <2>1. <<l, place(l)>> \in U
    BY <1>1, <1>7
  <2> HIDE DEF U
  <2> QED BY <2>1, AppendProperties
<1> HIDE DEF U
<1>9. PICK f : Applied(f, n, Seq(U), level0, F)
  <2> DEFINE X == Seq(U)
  <2>1. level0 \in X /\ F \in [1 .. n -> [X -> X]]
    BY <1>6, <1>8
  <2> HIDE DEF X, F
  <2>2. \E f : Applied(f, n, X, level0, F)
    BY <1>1, <2>1, Sequencing
  <2> QED BY <2>2 DEF X
<1>10. f \in [0 .. n -> Seq(U)] /\ f = [l \in 0 .. n |-> IF l = 0 THEN level0 ELSE F[l][f[l - 1]]]
  <2> HIDE DEF F
  <2> QED BY <1>9 DEF Applied
<1>11. Values(f)
  <2>1. \A l \in 0 .. n : l # 0 => l \in 1 .. n /\ l - 1 \in 0 .. n
    BY <1>1
  <2>2. \A l \in 1 .. n, s \in Seq(U) :
          F[l][s] = IF holds(l) THEN Append(s, <<l, place(l)>>) ELSE s
    OBVIOUS
  <2> HIDE DEF F
  <2>3. \A l \in 0 .. n : l # 0 => F[l][f[l - 1]] = Step(f, l)
    BY <1>10, <2>1, <2>2
  <2> QED BY <1>1, <1>10, <2>3
<1>12. PICK list : Values(list) /\ FilesToRead(target) = list[n]
  <2> HIDE DEF Values
  <2> QED BY <1>2, <1>11
<1> DEFINE Above(l) == {r \in Places : r[1] <= l}
           Good == {l \in 0 .. n :
                      /\ list[l] \in Seq(U)
                      /\ Len(list[l]) >= 1 => list[l][1] \in Above(l)
                      /\ Len(list[l]) >= 2 => list[l][1] \in Above(IF l = 0 THEN 0 ELSE l - 1)}
<1>13. 0 \in Good
  <2>1. list[0] = level0
    BY <1>1, <1>12
  <2>2. k >= 1 => level0[1] \in Above(0)
    <3>1. newest \subseteq Above(0)
      BY <1>4 DEF newest
    <3> HIDE DEF Above
    <3> QED BY <1>5, <3>1
  <2>3. k >= 2 => k >= 1
    BY <1>4
  <2> HIDE DEF Above
  <2> QED BY <1>1, <1>6, <2>1, <2>2, <2>3
<1>14. ASSUME NEW l \in 0 .. n, l \in Good, l < n PROVE l + 1 \in Good
  <2>1. l + 1 \in 0 .. n /\ l + 1 # 0 /\ (l + 1) - 1 = l
    BY <1>1, <1>14
  <2>2. list[l + 1] = IF holds(l + 1) THEN Append(list[l], <<l + 1, place(l + 1)>>)
                       ELSE list[l]
    BY <1>1, <1>12, <2>1
  <2>3. Above(l) \subseteq Above(l + 1) /\ Above(IF l = 0 THEN 0 ELSE l - 1) \subseteq Above(l)
    BY DEF Places, Level
  <2>4. CASE holds(l + 1)
    <3>1. <<l + 1, place(l + 1)>> \in U /\ <<l + 1, place(l + 1)>> \in Above(l + 1)
      <4>1. <<l + 1, place(l + 1)>> \in U
        BY <1>1, <1>7, <2>1 DEF U
      <4>2. place(l + 1) \in DOMAIN levels[l + 1] /\ DOMAIN levels[l + 1] \subseteq Nat
        BY <1>1, <2>1, <2>4, SeqFacts DEF holds, IsVersion, AreFiles
      <4> QED BY <1>1, <2>1, <4>1, <4>2 DEF Places
    <3>2. LET t == Append(list[l], <<l + 1, place(l + 1)>>)
          IN  /\ t \in Seq(U) /\ Len(t) = Len(list[l]) + 1 /\ Len(list[l]) \in Nat
              /\ t[Len(list[l]) + 1] = <<l + 1, place(l + 1)>>
              /\ Len(list[l]) >= 1 => t[1] = list[l][1]
      <4>1. list[l] \in Seq(U)
        BY <1>14
      <4> QED BY <3>1, <4>1, AppendProperties, LenProperties
    <3> DEFINE t == Append(list[l], <<l + 1, place(l + 1)>>)
    <3>3. Len(t) >= 1 => t[1] \in Above(l + 1)
      <4>1. CASE Len(list[l]) >= 1
        <5> HIDE DEF Above
        <5> QED BY <1>14, <2>3, <3>2, <4>1
      <4>2. CASE ~ (Len(list[l]) >= 1)
        <5>1. Len(list[l]) + 1 = 1
          BY <3>2, <4>2
        <5> HIDE DEF Above
        <5> QED BY <3>1, <3>2, <5>1
      <4> QED BY <4>1, <4>2
    <3>4. Len(t) >= 2 => t[1] \in Above(l)
      <4>1. Len(t) >= 2 => Len(list[l]) >= 1
        BY <3>2
      <4> HIDE DEF Above
      <4> QED BY <1>14, <3>2, <4>1
    <3> HIDE DEF Above
    <3> QED BY <2>1, <2>2, <2>4, <3>2, <3>3, <3>4
  <2>5. CASE ~ holds(l + 1)
    <3> HIDE DEF Above
    <3> QED BY <1>14, <2>1, <2>2, <2>3, <2>5
  <2> QED BY <2>4, <2>5
<1>15. n \in Good
  <2>1. \A l \in 0 .. n : l \in Good /\ l < n => l + 1 \in Good
    BY <1>14
  <2>2. n \in 0 .. n
    BY <1>1
  <2> HIDE DEF Good
  <2>3. 0 .. n \subseteq Good
    BY <1>1, <1>13, <2>1, InductionUpTo
  <2> QED BY <2>2, <2>3
<1>16. list[n][1] \in Above(n - 1)
  <2>1. n # 0
    BY <1>1
  <2> HIDE DEF Above
  <2> QED BY <1>12, <1>15, <2>1
<1>17. FilesToRead(target)[1] \in Above(n - 1)
  BY <1>12, <1>16
<1>18. FilesToRead(target)[1] \in Places /\ FilesToRead(target)[1][1] <= n - 1
  BY <1>17
<1>19. FilesToRead(target)[1][1] \in 0 .. n
  BY <1>1, <1>18 DEF Places
<1>20. n - 1 = NumLevels - 2
  BY LevelsAssumption DEF n
<1> QED BY <1>1, <1>18, <1>19, <1>20

\* The entries of files are finitely many.
LEMMA EntriesAreFinite ==
  ASSUME NEW s, AreFiles(s)
  PROVE  /\ IsFiniteSet(UNION {f.entries : f \in ToSet(s)})
         /\ TotalFileSize(s) \in Nat
         /\ s = << >> => TotalFileSize(s) = 0
<1> DEFINE S == ToSet(s)
           T == {f.entries : f \in S}
           h == [f \in S |-> f.entries]
<1>1. IsFiniteSet(S) /\ \A f \in S : IsFiniteSet(f.entries)
  BY SeqFacts DEF AreFiles, IsFile
<1>2. h \in Surjection(S, T)
  <2> HIDE DEF S
  <2> QED BY DEF Surjection
<1>3. IsFiniteSet(T) /\ \A t \in T : IsFiniteSet(t)
  <2> HIDE DEF S, h
  <2>1. \A t \in T : IsFiniteSet(t)
    BY <1>1
  <2> HIDE DEF T
  <2> QED BY <1>1, <1>2, <2>1, FS_Surjection
<1> HIDE DEF S
<1>4. IsFiniteSet(UNION T)
  <2> HIDE DEF T
  <2> QED BY <1>3, FS_UNION
<1>5. TotalFileSize(s) \in Nat
  <2>1. TotalFileSize(s) = Cardinality(UNION T)
    BY DEF TotalFileSize, S
  <2> HIDE DEF T
  <2> QED BY <1>4, <2>1, FS_CardinalityType
<1>6. s = << >> => TotalFileSize(s) = 0
  <2> SUFFICES ASSUME s = << >> PROVE TotalFileSize(s) = 0
    OBVIOUS
  <2>1. S = {}
    BY DEF S, ToSet
  <2>2. UNION T = {}
    BY <2>1
  <2>3. TotalFileSize(s) = Cardinality(UNION T)
    BY DEF TotalFileSize, S
  <2> HIDE DEF T
  <2> QED BY <2>2, <2>3, FS_EmptySet
<1> QED BY <1>4, <1>5, <1>6 DEF S

\* Size and limit of a level are numbers, and a level without files is below its limit.
LEMMA LimitFacts ==
  ASSUME NEW l \in Nat
  PROVE  Limit(l) \in Nat \ {0}
<1> DEFINE X == Nat \ {0}
           F == [i \in 1 .. l |-> [v \in X |-> IF i = 1 THEN MaxBytesForLevel1 ELSE v * LevelRatio]]
           Values(f) == f = [i \in 0 .. l |-> IF i <= 1 THEN MaxBytesForLevel1
                                              ELSE f[i - 1] * LevelRatio]
<1>1. MaxBytesForLevel1 \in X /\ LevelRatio \in X /\ CompactionTrigger \in X
  BY LevelsAssumption
<1>2. \A v \in X : v * LevelRatio \in X
  <2> SUFFICES ASSUME NEW v \in X PROVE v * LevelRatio \in X
    OBVIOUS
  <2>1. PICK a \in Nat : v = a + 1
    <3>1. v - 1 \in Nat /\ v = (v - 1) + 1
      OBVIOUS
    <3> QED BY <3>1
  <2>2. PICK b \in Nat : LevelRatio = b + 1
    <3>1. LevelRatio - 1 \in Nat /\ LevelRatio = (LevelRatio - 1) + 1
      BY <1>1
    <3> QED BY <3>1
  <2>3. a * b \in Nat /\ (a + 1) * (b + 1) = a * b + a + b + 1
    OBVIOUS
  <2> QED BY <2>1, <2>2, <2>3
<1>3. F \in [1 .. l -> [X -> X]]
  <2> HIDE DEF X
  <2> QED BY <1>1, <1>2
<1>4. PICK f : Applied(f, l, X, MaxBytesForLevel1, F)
  <2> HIDE DEF X, F
  <2> QED BY <1>1, <1>3, Sequencing
<1>5. f \in [0 .. l -> X] /\ f = [i \in 0 .. l |-> IF i = 0 THEN MaxBytesForLevel1 ELSE F[i][f[i - 1]]]
  <2> HIDE DEF X, F
  <2> QED BY <1>4 DEF Applied
<1>6. Values(f)
  <2>1. \A i \in 0 .. l : i # 0 => i \in 1 .. l /\ i - 1 \in 0 .. l
    OBVIOUS
  <2>2. \A i \in 1 .. l, v \in X : F[i][v] = IF i = 1 THEN MaxBytesForLevel1 ELSE v * LevelRatio
    <3> HIDE DEF X
    <3> QED OBVIOUS
  <2> HIDE DEF X, F
  <2>3. \A i \in 0 .. l : i # 0 => F[i][f[i - 1]] = IF i <= 1 THEN MaxBytesForLevel1
                                                    ELSE f[i - 1] * LevelRatio
    BY <1>5, <2>1, <2>2
  <2>4. \A i \in 0 .. l : i = 0 => i <= 1
    OBVIOUS
  <2> QED BY <1>5, <2>3, <2>4
<1>7. PICK m : Values(m) /\ MaxBytesForLevel(l) = m[l]
  <2> DEFINE m == CHOOSE m : Values(m)
  <2>1. Values(m)
    <3> HIDE DEF Values
    <3> QED BY <1>6
  <2>2. MaxBytesForLevel(l) = m[l]
    BY DEF MaxBytesForLevel
  <2> HIDE DEF m, Values
  <2> QED BY <2>1, <2>2
<1> DEFINE Good == {i \in 0 .. l : m[i] \in X}
<1>8. 0 \in Good
  <2>1. m[0] = MaxBytesForLevel1
    BY <1>7
  <2> QED BY <1>1, <2>1
<1>9. ASSUME NEW i \in 0 .. l, i \in Good, i < l PROVE i + 1 \in Good
  <2>1. i + 1 \in 0 .. l /\ (i + 1) - 1 = i
    BY <1>9
  <2>2. m[i + 1] = IF i + 1 <= 1 THEN MaxBytesForLevel1 ELSE m[i] * LevelRatio
    BY <1>7, <2>1
  <2> HIDE DEF X
  <2> QED BY <1>1, <1>2, <1>9, <2>1, <2>2
<1>10. l \in Good
  <2>1. \A i \in 0 .. l : i \in Good /\ i < l => i + 1 \in Good
    BY <1>9
  <2> HIDE DEF Good
  <2>2. 0 .. l \subseteq Good
    BY <1>8, <2>1, InductionUpTo
  <2> QED BY <2>2
<1> QED BY <1>1, <1>7, <1>10 DEF Limit

LEMMA SizeFacts ==
  ASSUME IsVersion(levels), NEW l \in Level
  PROVE  Size(l) \in Nat /\ (levels[l] = << >> => Size(l) = 0)
<1>1. AreFiles(levels[l])
  BY DEF IsVersion
<1>2. Len(levels[l]) \in Nat /\ (levels[l] = << >> => Len(levels[l]) = 0)
  BY <1>1, SeqFacts, EmptySeq DEF AreFiles
<1> QED BY <1>1, <1>2, EntriesAreFinite DEF Size

\* The order of quotients.
LEMMA TimesGreater ==
  ASSUME NEW a \in Nat, NEW b \in Nat, NEW c \in Nat \ {0}
  PROVE  (a > b => a * c > b * c) /\ (a >= b => a * c >= b * c)
<1>1. a > b => a * c > b * c
  <2> SUFFICES ASSUME a > b PROVE a * c > b * c
    OBVIOUS
  <2>1. PICK d \in Nat : a = b + d + 1
    <3>1. a - b - 1 \in Nat /\ a = b + (a - b - 1) + 1
      OBVIOUS
    <3> QED BY <3>1
  <2>2. d * c \in Nat /\ b * c \in Nat /\ (b + d + 1) * c = b * c + d * c + c
    OBVIOUS
  <2> QED BY <2>1, <2>2
<1>2. a >= b => a > b \/ a = b
  OBVIOUS
<1>3. a * c \in Int
  OBVIOUS
<1> QED BY <1>1, <1>2, <1>3

LEMMA QuotientsOrdered ==
  ASSUME NEW s1 \in Nat, NEW s2 \in Nat, NEW s3 \in Nat,
         NEW l1 \in Nat \ {0}, NEW l2 \in Nat \ {0}, NEW l3 \in Nat \ {0},
         s1 * l2 > s2 * l1, s2 * l3 >= s3 * l2
  PROVE  s1 * l3 > s3 * l1
<1> SUFFICES ASSUME ~ (s1 * l3 > s3 * l1) PROVE FALSE
  OBVIOUS
<1>1. /\ s1 * l2 \in Nat /\ s2 * l1 \in Nat /\ s2 * l3 \in Nat /\ s3 * l2 \in Nat
      /\ s1 * l3 \in Nat /\ s3 * l1 \in Nat
  OBVIOUS
<1>2. (s1 * l2) * l3 > (s2 * l1) * l3
  BY <1>1, TimesGreater
<1>3. (s2 * l3) * l1 >= (s3 * l2) * l1
  BY <1>1, TimesGreater
<1>4. (s3 * l1) * l2 >= (s1 * l3) * l2
  BY <1>1, TimesGreater
<1>5. /\ (s1 * l2) * l3 = (s1 * l3) * l2 /\ (s2 * l1) * l3 = (s2 * l3) * l1
      /\ (s3 * l2) * l1 = (s3 * l1) * l2
  OBVIOUS
<1>6. (s1 * l3) * l2 \in Int /\ (s2 * l3) * l1 \in Int /\ (s3 * l1) * l2 \in Int
  OBVIOUS
<1> QED BY <1>2, <1>3, <1>4, <1>5, <1>6

\* A level is picked, and never the last.
LEMMA CompactionLevelFacts ==
  ASSUME IsVersion(levels)
  PROVE  CompactionLevel \in 0 .. NumLevels - 2
<1> DEFINE N == NumLevels - 2
           size == [l \in Level |-> Size(l)]
           limit == [l \in Level |-> Limit(l)]
           Ahead(b, m) == /\ size[b] * limit[m] >= size[m] * limit[b]
                          /\ m < b => size[b] * limit[m] > size[m] * limit[b]
           Good == {n \in 0 .. N : \E b \in 0 .. n : \A m \in 0 .. n : Ahead(b, m)}
<1>1. N \in Nat /\ 0 .. N \subseteq Level /\ Level \subseteq Nat
  BY LevelsAssumption DEF Level
<1>2. \A l \in 0 .. N : size[l] \in Nat /\ limit[l] \in Nat \ {0}
  BY <1>1, SizeFacts, LimitFacts
<1>3. CompactionLevel = CHOOSE l \in 0 .. N : \A m \in 0 .. N : Ahead(l, m)
  BY DEF CompactionLevel
<1> HIDE DEF N, size, limit
<1>4. 0 \in Good
  <2>1. Ahead(0, 0)
    <3>1. size[0] * limit[0] \in Nat
      BY <1>1, <1>2
    <3> QED BY <3>1
  <2>2. \A m \in 0 .. 0 : m = 0
    OBVIOUS
  <2> HIDE DEF Ahead
  <2> QED BY <1>1, <2>1, <2>2
<1>5. ASSUME NEW n \in 0 .. N, n \in Good, n < N PROVE n + 1 \in Good
  <2>1. n + 1 \in 0 .. N
    BY <1>1, <1>5
  <2>2. PICK b \in 0 .. n : \A m \in 0 .. n : Ahead(b, m)
    BY <1>5
  <2>3. /\ size[b] \in Nat /\ limit[b] \in Nat \ {0}
        /\ size[n + 1] \in Nat /\ limit[n + 1] \in Nat \ {0}
        /\ \A m \in 0 .. n : size[m] \in Nat /\ limit[m] \in Nat \ {0}
    BY <1>1, <1>2, <2>1
  <2>4. \A m \in 0 .. n + 1 : m \in 0 .. n \/ m = n + 1
    OBVIOUS
  <2>5. CASE size[b] * limit[n + 1] >= size[n + 1] * limit[b]
    <3>1. Ahead(b, n + 1)
      BY <2>5
    <3>2. b \in 0 .. n + 1
      OBVIOUS
    <3> HIDE DEF Ahead
    <3> QED BY <2>1, <2>2, <2>4, <3>1, <3>2
  <2>6. CASE ~ (size[b] * limit[n + 1] >= size[n + 1] * limit[b])
    <3>1. size[n + 1] * limit[b] > size[b] * limit[n + 1]
      <4>1. size[n + 1] * limit[b] \in Nat /\ size[b] * limit[n + 1] \in Nat
        BY <2>3
      <4> QED BY <2>6, <4>1
    <3>2. ASSUME NEW m \in 0 .. n PROVE Ahead(n + 1, m)
      <4>1. size[b] * limit[m] >= size[m] * limit[b]
        BY <2>2
      <4>2. size[n + 1] * limit[m] > size[m] * limit[n + 1]
        BY <2>3, <3>1, <4>1, QuotientsOrdered
      <4>3. size[n + 1] * limit[m] \in Nat /\ size[m] * limit[n + 1] \in Nat
        BY <2>3
      <4> QED BY <4>2, <4>3
    <3>3. Ahead(n + 1, n + 1)
      <4>1. size[n + 1] * limit[n + 1] \in Nat
        BY <2>3
      <4> QED BY <4>1
    <3>4. n + 1 \in 0 .. n + 1
      OBVIOUS
    <3> HIDE DEF Ahead
    <3> QED BY <2>1, <2>4, <3>2, <3>3, <3>4
  <2> QED BY <2>5, <2>6
<1>6. N \in Good
  <2>1. \A n \in 0 .. N : n \in Good /\ n < N => n + 1 \in Good
    BY <1>5
  <2> HIDE DEF Good
  <2>2. 0 .. N \subseteq Good
    BY <1>1, <1>4, <2>1, InductionUpTo
  <2> QED BY <1>1, <2>2
<1>7. \E l \in 0 .. N : \A m \in 0 .. N : Ahead(l, m)
  BY <1>6
<1>8. CompactionLevel \in 0 .. N
  <2> HIDE DEF Ahead
  <2> QED BY <1>3, <1>7
<1> QED BY <1>8 DEF N

\* The files of a level that overlap a range are files of the level.
LEMMA OverlappingInputs ==
  ASSUME NEW lvs, IsVersion(lvs), NEW l \in Level, NEW lo, NEW hi
  PROVE  LET s == GetOverlappingInputs(lvs, l, lo, hi)
         IN  AreFiles(s) /\ ToSet(s) \subseteq ToSet(lvs[l])
<1>1. PICK T : GetOverlappingInputs(lvs, l, lo, hi) = Filter(lvs[l], T)
  BY DEF GetOverlappingInputs
<1>2. AreFiles(lvs[l])
  BY DEF IsVersion
<1> QED BY <1>1, <1>2, FilteredFiles

(* A compaction whose inputs are in a version, above the last level.       *)
InPlace(c, lvs) ==
  /\ c.level \in 0 .. NumLevels - 2
  /\ AreFiles(c.in0) /\ AreFiles(c.in1)
  /\ Numbers(c.in0) \subseteq Numbers(lvs[c.level])
  /\ Numbers(c.in1) \subseteq Numbers(lvs[c.level + 1])

IsCompaction(c) ==
  c = [level |-> c.level, in0 |-> c.in0, in1 |-> c.in1, grandparents |-> c.grandparents,
       base |-> c.base, smallestSnapshot |-> c.smallestSnapshot, isManual |-> c.isManual]

\* The inputs of a compaction set up from files of a level are in place.
LEMMA SetupFacts ==
  ASSUME IsVersion(levels), NEW level \in 0 .. NumLevels - 2, NEW picked,
         AreFiles(picked), ToSet(picked) \subseteq ToSet(levels[level])
  PROVE  LET c == SetupOtherInputs(level, picked)
         IN  InPlace(c, levels) /\ IsCompaction(c) /\ c.isManual = FALSE
<1>1. level \in Level /\ level + 1 \in Level
  BY LevelsAssumption DEF Level
<1>2. PICK in0, in1, grandparents :
        /\ SetupOtherInputs(level, picked) = Compaction(level, in0, in1, grandparents)
        /\ in0 = picked \/ \E lo, hi : in0 = GetOverlappingInputs(levels, level, lo, hi)
        /\ \E lo, hi : in1 = GetOverlappingInputs(levels, level + 1, lo, hi)
  <2> DEFINE In(l, range) == GetOverlappingInputs(levels, l, range[1], range[2])
             inputs1 == In(level + 1, RangeOf(picked))
             expanded0 == In(level, RangeOf(picked \o inputs1))
             expanded1 == In(level + 1, RangeOf(expanded0))
             expands == /\ inputs1 # << >>
                        /\ Len(expanded0) > Len(picked)
                        /\ TotalFileSize(inputs1) + TotalFileSize(expanded0)
                             < ExpandedCompactionLimit
                        /\ Len(expanded1) = Len(inputs1)
             in0 == IF expands THEN expanded0 ELSE picked
             in1 == IF expands THEN expanded1 ELSE inputs1
             grandparents == IF level + 2 < NumLevels THEN In(level + 2, RangeOf(in0 \o in1)) ELSE << >>
  <2>1. SetupOtherInputs(level, picked) = Compaction(level, in0, in1, grandparents)
    BY DEF SetupOtherInputs
  <2> HIDE DEF expands, grandparents
  <2>2. in0 = picked \/ \E lo, hi : in0 = GetOverlappingInputs(levels, level, lo, hi)
    <3>1. in0 = picked \/ in0 = expanded0
      OBVIOUS
    <3>2. \E lo, hi : expanded0 = GetOverlappingInputs(levels, level, lo, hi)
      OBVIOUS
    <3> QED BY <3>1, <3>2
  <2>3. \E lo, hi : in1 = GetOverlappingInputs(levels, level + 1, lo, hi)
    <3>1. in1 = inputs1 \/ in1 = expanded1
      OBVIOUS
    <3>2. /\ \E lo, hi : inputs1 = GetOverlappingInputs(levels, level + 1, lo, hi)
          /\ \E lo, hi : expanded1 = GetOverlappingInputs(levels, level + 1, lo, hi)
      OBVIOUS
    <3> QED BY <3>1, <3>2
  <2> HIDE DEF in0, in1
  <2> QED BY <2>1, <2>2, <2>3
<1>3. AreFiles(in0) /\ ToSet(in0) \subseteq ToSet(levels[level])
  BY <1>1, <1>2, OverlappingInputs
<1>4. AreFiles(in1) /\ ToSet(in1) \subseteq ToSet(levels[level + 1])
  BY <1>1, <1>2, OverlappingInputs
<1>5. Numbers(in0) \subseteq Numbers(levels[level]) /\ Numbers(in1) \subseteq Numbers(levels[level + 1])
  BY <1>3, <1>4 DEF Numbers
<1> DEFINE c == Compaction(level, in0, in1, grandparents)
<1>6. c.level = level /\ c.in0 = in0 /\ c.in1 = in1 /\ c.isManual = FALSE /\ IsCompaction(c)
  BY DEF Compaction, IsCompaction
<1>7. InPlace(c, levels)
  <2> HIDE DEF c
  <2> QED BY <1>3, <1>4, <1>5, <1>6 DEF InPlace
<1> QED BY <1>2, <1>6, <1>7

\* One file of a level, as a sequence of files.
LEMMA OneFile ==
  ASSUME NEW f, IsFile(f)
  PROVE  AreFiles(<<f>>) /\ ToSet(<<f>>) = {f}
<1>1. <<f>> \in Seq({f})
  OBVIOUS
<1>2. ToSet(<<f>>) = {f}
  BY DEF ToSet
<1> QED BY <1>1, <1>2, FilesFrom

(* The file charged with too many seeks is there, above the last level.    *)
ChargedFileThere ==
  fileToCompact # None =>
    /\ fileToCompact.level \in 0 .. NumLevels - 2
    /\ fileToCompact.number \in Numbers(levels[fileToCompact.level])

\* A compaction that is picked has its inputs in place.
LEMMA PickFacts ==
  ASSUME IsVersion(levels), ChargedFileThere, NeedsCompaction
  PROVE  LET c == PickCompaction
         IN  InPlace(c, levels) /\ IsCompaction(c) /\ c.isManual = FALSE
<1> DEFINE level == IF SizeCompaction THEN CompactionLevel ELSE fileToCompact.level
           files == levels[level]
           after == {i \in DOMAIN files : \/ compactPointer[level] = None
                                          \/ Before(compactPointer[level], files[i].largest)}
           chosen == IF SizeCompaction
                   THEN files[IF after = {} THEN 1 ELSE Min(after)]
                   ELSE CHOOSE f \in ToSet(files) : f.number = fileToCompact.number
           range == RangeOf(<<chosen>>)
           picked == IF level = 0
                     THEN GetOverlappingInputs(levels, 0, range[1], range[2])
                     ELSE <<chosen>>
<1>1. PickCompaction = SetupOtherInputs(level, picked)
  BY DEF PickCompaction
<1>2. level \in 0 .. NumLevels - 2
  <2>1. CASE SizeCompaction
    BY <2>1, CompactionLevelFacts
  <2>2. CASE ~ SizeCompaction
    BY <2>2 DEF NeedsCompaction, ChargedFileThere
  <2> QED BY <2>1, <2>2
<1>3. level \in Level
  BY <1>2, LevelsAssumption DEF Level
<1>4. AreFiles(files) /\ files \in Seq(ToSet(files)) /\ Len(files) \in Nat /\ DOMAIN files = 1 .. Len(files)
  BY <1>3, SeqFacts DEF IsVersion, AreFiles
<1>5. chosen \in ToSet(files)
  <2>1. CASE SizeCompaction
    <3>1. level = CompactionLevel
      BY <2>1
    <3> HIDE DEF level
    <3>2. Size(level) \in Nat /\ Limit(level) \in Nat \ {0} /\ Size(level) >= Limit(level)
      BY <1>2, <1>3, <2>1, <3>1, SizeFacts, LimitFacts DEF SizeCompaction
    <3>3. files # << >>
      BY <1>3, <3>2, SizeFacts
    <3>4. 1 \in DOMAIN files
      <4> HIDE DEF files
      <4>1. Len(files) # 0
        BY <1>4, <3>3, EmptySeq
      <4> QED BY <1>4, <4>1
    <3>5. after # {} => Min(after) \in DOMAIN files
      <4>1. after \in SUBSET Nat
        BY <1>4
      <4>2. after \subseteq DOMAIN files
        OBVIOUS
      <4> HIDE DEF after, files
      <4> QED BY <4>1, <4>2, MinFacts
    <3>6. \E i \in DOMAIN files : chosen = files[i]
      <4>1. chosen = files[IF after = {} THEN 1 ELSE Min(after)]
        BY <2>1
      <4> HIDE DEF after, files, chosen
      <4> QED BY <3>4, <3>5, <4>1
    <3> HIDE DEF chosen, files
    <3> QED BY <3>6 DEF ToSet
  <2>2. CASE ~ SizeCompaction
    <3>1. fileToCompact # None /\ level = fileToCompact.level
      BY <2>2 DEF NeedsCompaction
    <3>2. fileToCompact.number \in Numbers(files)
      BY <3>1 DEF ChargedFileThere
    <3>3. \E f \in ToSet(files) : f.number = fileToCompact.number
      <4> HIDE DEF files
      <4> QED BY <3>2 DEF Numbers
    <3>4. chosen = CHOOSE f \in ToSet(files) : f.number = fileToCompact.number
      BY <2>2
    <3> HIDE DEF chosen, files
    <3> QED BY <3>3, <3>4
  <2> QED BY <2>1, <2>2
<1> HIDE DEF chosen, level
<1>6. AreFiles(<<chosen>>) /\ ToSet(<<chosen>>) \subseteq ToSet(files)
  <2>1. IsFile(chosen)
    BY <1>4, <1>5 DEF AreFiles
  <2> HIDE DEF files
  <2> QED BY <1>5, <2>1, OneFile
<1>7. AreFiles(picked) /\ ToSet(picked) \subseteq ToSet(levels[level])
  <2>1. CASE level = 0
    <3> HIDE DEF range
    <3> QED BY <1>3, <2>1, OverlappingInputs
  <2>2. CASE level # 0
    BY <1>6, <2>2
  <2> QED BY <2>1, <2>2
<1> HIDE DEF picked
<1> QED BY <1>1, <1>2, <1>7, SetupFacts

\* The inputs of a part of a range are files of the level.
LEMMA RangeInputsFacts ==
  ASSUME IsVersion(levels), NEW l \in Level, NEW lo, NEW hi
  PROVE  LET s == RangeInputs(l, lo, hi)
         IN  AreFiles(s) /\ ToSet(s) \subseteq ToSet(levels[l])
<1> DEFINE inputs == GetOverlappingInputs(levels, l, lo, hi)
           full == {i \in DOMAIN inputs : TotalFileSize(SubSeq(inputs, 1, i)) >= MaxFileSize}
           S == ToSet(inputs)
<1>1. AreFiles(inputs) /\ S \subseteq ToSet(levels[l])
  BY OverlappingInputs
<1>2. RangeInputs(l, lo, hi) = IF l = 0 \/ full = {} THEN inputs ELSE SubSeq(inputs, 1, Min(full))
  BY DEF RangeInputs
<1> HIDE DEF inputs
<1>3. Len(inputs) \in Nat /\ DOMAIN inputs = 1 .. Len(inputs) /\ \A i \in 1 .. Len(inputs) : inputs[i] \in S
  BY <1>1, SeqFacts DEF AreFiles
<1>4. ASSUME full # {} PROVE AreFiles(SubSeq(inputs, 1, Min(full))) /\ ToSet(SubSeq(inputs, 1, Min(full))) \subseteq S
  <2>1. full \in SUBSET Nat /\ full \subseteq 1 .. Len(inputs)
    BY <1>3
  <2> HIDE DEF full
  <2>2. Min(full) \in 1 .. Len(inputs)
    BY <1>4, <2>1, MinFacts
  <2> DEFINE m == Min(full)
  <2>3. 1 \in Int /\ m \in Int /\ \A i \in 1 .. m : inputs[i] \in S
    BY <1>3, <2>2
  <2> HIDE DEF m, S
  <2>4. SubSeq(inputs, 1, m) \in Seq(S)
    BY <2>3, SubSeqProperties
  <2>5. \A f \in S : IsFile(f)
    BY <1>1 DEF AreFiles, S
  <2> QED BY <2>4, <2>5, FilesFrom, SeqFacts DEF m
<1> HIDE DEF full
<1> QED BY <1>1, <1>2, <1>4

\* A turn of a compaction's loop keeps its outputs finite: they have entries of the input.
LEMMA CompactEntryFacts ==
  ASSUME NEW c, NEW w, NEW E, NEW e \in E, w.output \subseteq E, w.outputs \in Seq(SUBSET E)
  PROVE  LET r == CompactEntry(c, w, e)
         IN  r.output \subseteq E /\ r.outputs \in Seq(SUBSET E)
<1> DEFINE beyond == Passed(c, w.passed, e)
           overlapped == w.overlapped +
             IF w.seenKey THEN TotalFileSize(SubSeq(c.grandparents, w.passed, beyond - 1)) ELSE 0
           stop == overlapped > MaxGrandParentOverlap
           last == IF w.key = e.key THEN w.last ELSE kMaxSequenceNumber
           hidden == last <= c.smallestSnapshot
           oldDeletion == e.type = kTypeDeletion /\ e.seq <= c.smallestSnapshot
           asked == ~hidden /\ oldDeletion
           drop == hidden \/ (oldDeletion /\ IsBaseLevelForKey(c, w.levelPtrs, e.key))
           ptrs == IF asked THEN AdvancedLevelPtrs(c, w.levelPtrs, e.key) ELSE w.levelPtrs
           finished == IF stop /\ w.output # {} THEN Append(w.outputs, w.output) ELSE w.outputs
           output == (IF stop THEN {} ELSE w.output) \cup (IF drop THEN {} ELSE {e})
           full == ~drop /\ Cardinality(output) >= MaxFileSize
<1>1. CompactEntry(c, w, e)
        = [passed |-> beyond, overlapped |-> IF stop THEN 0 ELSE overlapped, seenKey |-> TRUE,
           key |-> e.key, last |-> e.seq, levelPtrs |-> ptrs,
           output |-> IF full THEN {} ELSE output,
           outputs |-> IF full THEN Append(finished, output) ELSE finished]
  BY DEF CompactEntry
<1> HIDE DEF beyond, overlapped, stop, last, hidden, oldDeletion, asked, drop, ptrs
<1>2. finished \in Seq(SUBSET E)
  <2>1. w.output \in SUBSET E
    OBVIOUS
  <2>2. Append(w.outputs, w.output) \in Seq(SUBSET E)
    BY <2>1, AppendProperties
  <2> QED BY <2>2
<1>3. output \in SUBSET E
  OBVIOUS
<1> HIDE DEF finished, output, full
<1>4. Append(finished, output) \in Seq(SUBSET E)
  BY <1>2, <1>3, AppendProperties
<1>5. /\ CompactEntry(c, w, e).output = IF full THEN {} ELSE output
      /\ CompactEntry(c, w, e).outputs = IF full THEN Append(finished, output) ELSE finished
  BY <1>1
<1> QED BY <1>2, <1>3, <1>4, <1>5

\* The outputs of a compaction become files.
LEMMA OutputFacts ==
  ASSUME NEW c, AreFiles(c.in0), AreFiles(c.in1), NEW number \in Nat
  PROVE  LET outputs == CompactionOutputs(c)
         IN  /\ Len(outputs) \in Nat
             /\ AreFiles([i \in DOMAIN outputs |-> NewFile(number + i - 1, outputs[i])])
<1> DEFINE input == MergedInput(c)
           n == Len(input)
           E == ToSet(input)
           start == [passed |-> 1, overlapped |-> 0, seenKey |-> FALSE, key |-> None,
                     last |-> kMaxSequenceNumber, levelPtrs |-> [l \in Level |-> 1],
                     output |-> {}, outputs |-> << >>]
           Step(work, i) == IF i = 0 THEN start ELSE CompactEntry(c, work[i - 1], input[i])
           Values(m, work) == work = [i \in 0 .. m |-> Step(work, i)]
<1>1. input \in Seq(E) /\ n \in Nat /\ \A i \in 1 .. n : input[i] \in E
  <2> DEFINE s == c.in0 \o c.in1
             T == UNION {f.entries : f \in ToSet(s)}
             k == Cardinality(T)
             nth(i) == CHOOSE x \in T : Cardinality({y \in T : Before(y, x)}) = i - 1
  <2>1. AreFiles(s)
    <3> DEFINE S == ToSet(c.in0) \cup ToSet(c.in1)
    <3>1. c.in0 \in Seq(S) /\ c.in1 \in Seq(S) /\ \A f \in S : IsFile(f)
      BY SeqMonotonic DEF AreFiles
    <3> HIDE DEF S
    <3>2. s \in Seq(S)
      BY <3>1, ConcatProperties
    <3> QED BY <3>1, <3>2, FilesFrom
  <2> HIDE DEF s
  <2>2. k \in Nat
    <3>1. IsFiniteSet(T)
      BY <2>1, EntriesAreFinite
    <3> HIDE DEF T
    <3> QED BY <3>1, FS_CardinalityType
  <2>3. input = [i \in 1 .. k |-> nth(i)]
    BY DEF MergedInput, InOrder, s
  <2> HIDE DEF nth, k, input
  <2>4. DOMAIN input = 1 .. k /\ input \in [1 .. k -> ToSet(input)]
    BY <2>3 DEF ToSet
  <2>5. input \in Seq(ToSet(input))
    BY <2>2, <2>4, SeqDef
  <2> QED BY <2>5, LenProperties
<1>2. IsFiniteSet(E)
  <2> HIDE DEF input
  <2> QED BY <1>1, SeqFacts
<1> HIDE DEF input, n, E
<1> DEFINE Good == {m \in 0 .. n :
                      \E work : Values(m, work)
                                /\ \A i \in 0 .. m : /\ work[i].output \subseteq E
                                                     /\ work[i].outputs \in Seq(SUBSET E)}
<1>3. start.output \subseteq E /\ start.outputs \in Seq(SUBSET E)
  BY EmptySeq
<1> HIDE DEF start
<1>4. 0 \in Good
  <2> DEFINE work == [i \in 0 .. 0 |-> start]
  <2>1. work = [i \in 0 .. 0 |-> Step(work, i)] /\ work[0] = start /\ \A i \in 0 .. 0 : i = 0
    OBVIOUS
  <2>2. 0 \in 0 .. n
    BY <1>1
  <2> HIDE DEF work, Step
  <2> QED BY <1>3, <2>1, <2>2
<1>5. ASSUME NEW m \in 0 .. n, m \in Good, m < n PROVE m + 1 \in Good
  <2>1. PICK work : /\ Values(m, work)
                    /\ \A i \in 0 .. m : /\ work[i].output \subseteq E
                                         /\ work[i].outputs \in Seq(SUBSET E)
    BY <1>5
  <2> DEFINE new == CompactEntry(c, work[m], input[m + 1])
             longer == [i \in 0 .. m + 1 |-> IF i = m + 1 THEN new ELSE work[i]]
  <2>2. m + 1 \in 0 .. n /\ m + 1 \in 1 .. n /\ m \in 0 .. m /\ (m + 1) - 1 = m /\ m + 1 # 0
    BY <1>1, <1>5
  <2>3. new.output \subseteq E /\ new.outputs \in Seq(SUBSET E)
    BY <1>1, <2>1, <2>2, CompactEntryFacts
  <2>4. longer[m + 1] = new /\ \A i \in 0 .. m : longer[i] = work[i]
    OBVIOUS
  <2>5. \A i \in 0 .. m + 1 : i \in 0 .. m \/ i = m + 1
    OBVIOUS
  <2>6. \A i \in 0 .. m + 1 : longer[i] = Step(longer, i)
    <3>1. longer[m + 1] = Step(longer, m + 1)
      BY <2>2, <2>4
    <3>2. ASSUME NEW i \in 0 .. m PROVE longer[i] = Step(longer, i)
      <4>1. work[i] = Step(work, i)
        BY <2>1
      <4>2. i # 0 => i - 1 \in 0 .. m
        OBVIOUS
      <4> HIDE DEF longer
      <4> QED BY <2>4, <4>1, <4>2
    <3> HIDE DEF longer, Step
    <3> QED BY <2>5, <3>1, <3>2
  <2>7. Values(m + 1, longer)
    <3>1. longer = [i \in 0 .. m + 1 |-> longer[i]]
      OBVIOUS
    <3> HIDE DEF longer, Step
    <3> QED BY <2>6, <3>1
  <2>8. \A i \in 0 .. m + 1 : /\ longer[i].output \subseteq E
                              /\ longer[i].outputs \in Seq(SUBSET E)
    <3> HIDE DEF new, longer
    <3> QED BY <2>1, <2>3, <2>4, <2>5
  <2> HIDE DEF longer, Values
  <2> QED BY <2>2, <2>7, <2>8
<1>6. n \in Good
  <2>1. \A m \in 0 .. n : m \in Good /\ m < n => m + 1 \in Good
    BY <1>5
  <2> HIDE DEF Good
  <2>2. 0 .. n \subseteq Good
    BY <1>1, <1>4, <2>1, InductionUpTo
  <2> QED BY <1>1, <2>2
<1> DEFINE done == (CHOOSE work : Values(n, work))[n]
<1>7. done.output \subseteq E /\ done.outputs \in Seq(SUBSET E)
  <2>1. PICK work : /\ Values(n, work)
                    /\ \A i \in 0 .. n : /\ work[i].output \subseteq E
                                         /\ work[i].outputs \in Seq(SUBSET E)
    BY <1>6
  <2> DEFINE other == CHOOSE w : Values(n, w)
  <2>2. Values(n, other)
    <3> HIDE DEF Values
    <3> QED BY <2>1
  <2> HIDE DEF other
  <2> DEFINE Same == {i \in 0 .. n : other[i] = work[i]}
  <2>3. 0 \in Same
    <3>1. 0 \in 0 .. n
      BY <1>1
    <3> QED BY <2>1, <2>2, <3>1
  <2>4. ASSUME NEW i \in 0 .. n, i \in Same, i < n PROVE i + 1 \in Same
    <3>1. i + 1 \in 0 .. n /\ (i + 1) - 1 = i /\ i + 1 # 0
      BY <1>1, <2>4
    <3>2. other[i + 1] = Step(other, i + 1) /\ work[i + 1] = Step(work, i + 1)
      <4> HIDE DEF Step
      <4> QED BY <2>1, <2>2, <3>1
    <3> QED BY <2>4, <3>1, <3>2
  <2>5. n \in Same
    <3>1. \A i \in 0 .. n : i \in Same /\ i < n => i + 1 \in Same
      BY <2>4
    <3> HIDE DEF Same
    <3>2. 0 .. n \subseteq Same
      BY <1>1, <2>3, <3>1, InductionUpTo
    <3> QED BY <1>1, <3>2
  <2>6. done = work[n]
    <3>1. done = other[n]
      BY DEF other
    <3> HIDE DEF done
    <3> QED BY <2>5, <3>1
  <2> HIDE DEF done, Values
  <2> QED BY <1>1, <2>1, <2>6
<1> DEFINE outputs == CompactionOutputs(c)
<1>8. outputs \in Seq(SUBSET E)
  <2>1. outputs = IF done.output = {} THEN done.outputs ELSE Append(done.outputs, done.output)
    BY DEF CompactionOutputs, input, n, start
  <2>2. done.output \in SUBSET E
    BY <1>7
  <2> HIDE DEF outputs, done
  <2>3. Append(done.outputs, done.output) \in Seq(SUBSET E)
    BY <1>7, <2>2, AppendProperties
  <2> QED BY <1>7, <2>1, <2>3
<1> HIDE DEF outputs, done
<1> DEFINE k == Len(outputs)
           S == {NewFile(number + i - 1, outputs[i]) : i \in 1 .. k}
           files == [i \in 1 .. k |-> NewFile(number + i - 1, outputs[i])]
<1>9. k \in Nat /\ DOMAIN outputs = 1 .. k /\ \A i \in 1 .. k : outputs[i] \in SUBSET E
  BY <1>8, LenProperties
<1>10. \A f \in S : IsFile(f)
  <2> SUFFICES ASSUME NEW i \in 1 .. k PROVE IsFile(NewFile(number + i - 1, outputs[i]))
    OBVIOUS
  <2>1. IsFiniteSet(outputs[i]) /\ number + i - 1 \in Nat
    BY <1>2, <1>9, FS_Subset
  <2> QED BY <2>1 DEF IsFile, NewFile
<1>11. files \in Seq(S)
  <2> HIDE DEF k
  <2>1. files \in [1 .. k -> S]
    OBVIOUS
  <2> HIDE DEF files, S
  <2> QED BY <1>9, <2>1, SeqDef
<1>12. AreFiles(files)
  <2> HIDE DEF files, S
  <2> QED BY <1>10, <1>11, FilesFrom
<1> HIDE DEF k
<1> QED BY <1>9, <1>12 DEF k, outputs

(* The inductive invariant: the files of a version, what was charged, the  *)
(* caller of CompactRange and the compaction being worked on fit together. *)
MemoryFinite == IsFiniteSet(mem) /\ (imm # None => IsFiniteSet(imm))

RangeShape(m) ==
  /\ m = [field \in DOMAIN m |-> m[field]] /\ {"stage", "pos", "posted"} \subseteq DOMAIN m
  /\ m.stage \in Flushing .. NumLevels - 2 /\ m.upto \in 1 .. NumLevels - 1
  /\ m.stage < m.upto
  /\ m.posted \in BOOLEAN /\ (m.posted => m.stage >= 0)

RangeAboveLastLevel == manual # None => RangeShape(manual)

WorkInPlace ==
  compaction # None =>
    /\ InPlace(compaction, levels)
    /\ compaction.isManual \in BOOLEAN /\ (compaction.isManual => RangeShape(manual))

LevelsInv ==
  /\ MemoryFinite /\ nextFile \in Nat /\ IsVersion(levels)
  /\ ChargedFileThere /\ RangeAboveLastLevel /\ WorkInPlace

\* A range whose stage, position or state of posting changes.
LEMMA RangeMoves ==
  ASSUME NEW m, RangeShape(m), NEW pos
  PROVE  /\ m.stage = Flushing => RangeShape([m EXCEPT !.stage = Waiting])
         /\ m.stage # Flushing => RangeShape([m EXCEPT !.stage = IF @ = Waiting THEN 0 ELSE @,
                                                      !.posted = TRUE])
         /\ m.posted /\ m.stage + 1 < m.upto =>
              RangeShape([m EXCEPT !.stage = @ + 1, !.pos = pos, !.posted = FALSE])
         /\ RangeShape([m EXCEPT !.pos = pos, !.posted = FALSE])
<1>1. /\ m.stage \in Flushing .. NumLevels - 2 /\ m.upto \in 1 .. NumLevels - 1
      /\ m.stage < m.upto /\ m.posted \in BOOLEAN /\ (m.posted => m.stage >= 0)
  BY DEF RangeShape
<1>2. m.stage \in Int /\ m.upto \in Int /\ NumLevels \in Int
  BY <1>1, LevelsAssumption DEF Flushing
<1>3. ASSUME NEW r, r = [field \in DOMAIN m |-> r[field]], r.upto = m.upto,
             r.stage \in Flushing .. NumLevels - 2, r.stage < m.upto,
             r.posted \in BOOLEAN, r.posted => r.stage >= 0
      PROVE  RangeShape(r)
  <2>1. DOMAIN r = DOMAIN m
    BY <1>3
  <2> QED BY <1>1, <1>3, <2>1 DEF RangeShape
<1>4. ASSUME m.stage = Flushing PROVE RangeShape([m EXCEPT !.stage = Waiting])
  <2> DEFINE r == [m EXCEPT !.stage = Waiting]
  <2>1. r = [field \in DOMAIN m |-> r[field]]
    BY DEF RangeShape
  <2>2. r.upto = m.upto
    BY DEF RangeShape
  <2>3. r.stage = Waiting
    BY DEF RangeShape
  <2>4. r.posted = m.posted
    BY DEF RangeShape
  <2> HIDE DEF r
  <2>5. Waiting \in Flushing .. NumLevels - 2 /\ Waiting < m.upto /\ ~ m.posted
    BY <1>1, <1>2, <1>4, LevelsAssumption DEF Flushing, Waiting
  <2>6. RangeShape(r)
    BY <1>1, <1>3, <2>1, <2>2, <2>3, <2>4, <2>5
  <2> QED BY <2>6 DEF r
<1>5. ASSUME m.stage # Flushing
      PROVE  RangeShape([m EXCEPT !.stage = IF @ = Waiting THEN 0 ELSE @, !.posted = TRUE])
  <2> DEFINE to == IF m.stage = Waiting THEN 0 ELSE m.stage
             r == [m EXCEPT !.stage = to, !.posted = TRUE]
  <2>1. r = [field \in DOMAIN m |-> r[field]]
    BY DEF RangeShape
  <2>2. r.upto = m.upto
    BY DEF RangeShape
  <2>3. r.stage = to
    BY DEF RangeShape
  <2>4. r.posted = TRUE
    BY DEF RangeShape
  <2>5. to \in Flushing .. NumLevels - 2 /\ to < m.upto /\ to >= 0
    BY <1>1, <1>2, <1>5, LevelsAssumption DEF Flushing, Waiting
  <2> HIDE DEF r, to
  <2>6. RangeShape(r)
    BY <1>3, <2>1, <2>2, <2>3, <2>4, <2>5
  <2> QED BY <2>6 DEF r, to
<1>6. ASSUME m.posted, m.stage + 1 < m.upto
      PROVE  RangeShape([m EXCEPT !.stage = @ + 1, !.pos = pos, !.posted = FALSE])
  <2> DEFINE r == [m EXCEPT !.stage = m.stage + 1, !.pos = pos, !.posted = FALSE]
  <2>1. r = [field \in DOMAIN m |-> r[field]]
    BY DEF RangeShape
  <2>2. r.upto = m.upto
    BY DEF RangeShape
  <2>3. r.stage = m.stage + 1
    BY DEF RangeShape
  <2>4. r.posted = FALSE
    BY DEF RangeShape
  <2> HIDE DEF r
  <2>5. m.stage + 1 \in Flushing .. NumLevels - 2
    BY <1>1, <1>2, <1>6 DEF Flushing
  <2>6. RangeShape(r)
    BY <1>3, <1>6, <2>1, <2>2, <2>3, <2>4, <2>5
  <2> QED BY <2>6 DEF r
<1>7. RangeShape([m EXCEPT !.pos = pos, !.posted = FALSE])
  <2> DEFINE r == [m EXCEPT !.pos = pos, !.posted = FALSE]
  <2>1. r = [field \in DOMAIN m |-> r[field]]
    BY DEF RangeShape
  <2>2. r.upto = m.upto
    BY DEF RangeShape
  <2>3. r.stage = m.stage
    BY DEF RangeShape
  <2>4. r.posted = FALSE
    BY DEF RangeShape
  <2> HIDE DEF r
  <2>5. RangeShape(r)
    BY <1>1, <1>3, <2>1, <2>2, <2>3, <2>4
  <2> QED BY <2>5 DEF r
<1> QED BY <1>4, <1>5, <1>6, <1>7

\* Inputs stay in place when no file of a level leaves it.
LEMMA InPlaceStays ==
  ASSUME NEW c, NEW old, NEW new, InPlace(c, old),
         \A l \in Level : Numbers(old[l]) \subseteq Numbers(new[l])
  PROVE  InPlace(c, new)
<1>1. c.level \in Level /\ c.level + 1 \in Level
  BY LevelsAssumption DEF InPlace, Level
<1> QED BY <1>1 DEF InPlace

\* At the start there are no files.
LEMMA LevelsInitInv == LevelsInit => LevelsInv
<1> SUFFICES ASSUME LevelsInit PROVE LevelsInv
  OBVIOUS
<1>1. IsFiniteSet(mem)
  BY FS_EmptySet DEF LevelsInit
<1>2. AreFiles(<< >>)
  BY EmptySeq DEF AreFiles, ToSet
<1>3. IsVersion(levels)
  BY <1>2 DEF LevelsInit, EmptyVersion, IsVersion
<1> QED BY <1>1, <1>3 DEF LevelsInit, LevelsInv, MemoryFinite, ChargedFileThere,
                          RangeAboveLastLevel, WorkInPlace

\* Writes and snapshots.
LEMMA ForegroundKeepsInv ==
  ASSUME LevelsInv,
         \/ \E k \in Keys, t \in {kTypeDeletion, kTypeValue} : WriteEntry(k, t)
         \/ SwitchMemTable
         \/ GetSnapshot
         \/ \E i \in DOMAIN snapshots : ReleaseSnapshot(i)
  PROVE  LevelsInv'
<1>1. CASE \E k \in Keys, t \in {kTypeDeletion, kTypeValue} : WriteEntry(k, t)
  <2>1. PICK k, t : WriteEntry(k, t)
    BY <1>1
  <2>2. IsFiniteSet(mem')
    BY <2>1, FS_AddElement DEF WriteEntry, LevelsInv, MemoryFinite
  <2> QED BY <2>1, <2>2 DEF WriteEntry, LevelsInv, MemoryFinite, ChargedFileThere,
                            RangeAboveLastLevel, WorkInPlace
<1>2. CASE SwitchMemTable
  <2>1. UNCHANGED <<levels, nextFile, fileToCompact, compaction>>
    BY <1>2 DEF SwitchMemTable
  <2>2. MemoryFinite'
    BY <1>2, FS_EmptySet DEF SwitchMemTable, LevelsInv, MemoryFinite
  <2>3. RangeAboveLastLevel' /\ (RangeShape(manual) => RangeShape(manual'))
    <3>1. CASE manual # None /\ manual.stage = Flushing
      <4>1. manual' = [manual EXCEPT !.stage = Waiting]
        BY <1>2, <3>1 DEF SwitchMemTable
      <4>2. RangeShape(manual)
        BY <3>1 DEF LevelsInv, RangeAboveLastLevel
      <4>3. RangeShape(manual')
        BY <3>1, <4>1, <4>2, RangeMoves DEF Flushing, Waiting
      <4> QED BY <4>3 DEF RangeAboveLastLevel
    <3>2. CASE ~ (manual # None /\ manual.stage = Flushing)
      <4>1. manual' = manual
        BY <1>2, <3>2 DEF SwitchMemTable
      <4> QED BY <4>1 DEF LevelsInv, RangeAboveLastLevel
    <3> QED BY <3>1, <3>2
  <2> QED BY <2>1, <2>2, <2>3 DEF LevelsInv, ChargedFileThere, WorkInPlace
<1>3. CASE GetSnapshot
  BY <1>3 DEF GetSnapshot, LevelsInv, MemoryFinite, ChargedFileThere, RangeAboveLastLevel,
              WorkInPlace
<1>4. CASE \E i \in DOMAIN snapshots : ReleaseSnapshot(i)
  BY <1>4 DEF ReleaseSnapshot, LevelsInv, MemoryFinite, ChargedFileThere, RangeAboveLastLevel,
              WorkInPlace
<1> QED BY <1>1, <1>2, <1>3, <1>4

\* A file read too often may become the one to compact.
LEMMA ChargesKeepInv ==
  ASSUME LevelsInv,
         \/ \E k \in Keys, s \in ReadSnapshots : ChargeGet(k, s)
         \/ RecordReadSample
  PROVE  LevelsInv'
<1>1. PICK target : Len(FilesToRead(target)) >= 2 /\ UpdateStats(FilesToRead(target)[1])
  <2>1. CASE \E k \in Keys, s \in ReadSnapshots : ChargeGet(k, s)
    <3>1. PICK k, s : SeekFile(k, s) # None /\ UpdateStats(SeekFile(k, s))
      BY <2>1 DEF ChargeGet
    <3> DEFINE list == FilesToRead(LookupKey(k, s))
    <3>2. Len(list) >= 2 /\ SeekFile(k, s) = list[1]
      BY <3>1 DEF SeekFile
    <3> HIDE DEF list
    <3>3. UpdateStats(list[1])
      BY <3>1, <3>2
    <3> QED BY <3>2, <3>3 DEF list
  <2>2. CASE RecordReadSample
    BY <2>2 DEF RecordReadSample
  <2> QED BY <2>1, <2>2
<1> DEFINE r == FilesToRead(target)[1]
<1>2. UNCHANGED <<mem, imm, nextFile, manual, compaction>>
  BY DEF ChargeGet, RecordReadSample
<1>3. IsVersion(levels)
  BY DEF LevelsInv
<1>4. r \in Places /\ r[1] \in 0 .. NumLevels - 2
  BY <1>1, <1>3, ReadsFacts
<1>5. UpdateStats(r)
  BY <1>1
<1> HIDE DEF r
<1>6. /\ IsVersion(levels')
      /\ \A l \in Level : Numbers(levels[l]) \subseteq Numbers(levels'[l])
      /\ \/ fileToCompact' = fileToCompact
         \/ /\ fileToCompact'.level = r[1]
            /\ fileToCompact'.number \in Numbers(levels'[r[1]])
  BY <1>3, <1>4, <1>5, UpdateStatsFacts
<1>7. ChargedFileThere'
  <2>1. CASE fileToCompact' = fileToCompact
    <3> SUFFICES ASSUME fileToCompact # None
                 PROVE  /\ fileToCompact.level \in 0 .. NumLevels - 2
                        /\ fileToCompact.number \in Numbers(levels'[fileToCompact.level])
      BY <2>1 DEF ChargedFileThere
    <3>1. /\ fileToCompact.level \in 0 .. NumLevels - 2
          /\ fileToCompact.number \in Numbers(levels[fileToCompact.level])
      BY DEF LevelsInv, ChargedFileThere
    <3>2. fileToCompact.level \in Level
      BY <3>1, LevelsAssumption DEF Level
    <3> QED BY <1>6, <3>1, <3>2
  <2>2. CASE /\ fileToCompact'.level = r[1]
             /\ fileToCompact'.number \in Numbers(levels'[r[1]])
    BY <1>4, <2>2 DEF ChargedFileThere
  <2> QED BY <1>6, <2>1, <2>2
<1>8. WorkInPlace'
  BY <1>2, <1>6, InPlaceStays DEF LevelsInv, WorkInPlace
<1> QED BY <1>2, <1>6, <1>7, <1>8 DEF LevelsInv, MemoryFinite, RangeAboveLastLevel

\* A caller of CompactRange, and a level's part posted for it.
LEMMA RangesKeepInv ==
  ASSUME LevelsInv,
         \/ \E range \in ManualRanges : CompactRange(range)
         \/ PostManualCompaction
  PROVE  LevelsInv'
<1>1. UNCHANGED <<mem, imm, nextFile, levels, fileToCompact, compaction>>
  BY DEF CompactRange, PostManualCompaction
<1>2. RangeShape(manual')
  <2>1. CASE \E range \in ManualRanges : CompactRange(range)
    <3>1. PICK range \in ManualRanges : CompactRange(range)
      BY <2>1
    <3> DEFINE overlapped == {l \in Level \ {0} : OverlapInLevel(levels, l, range[1], range[2])}
               upto == Max({1} \cup overlapped)
    <3>2. manual' = [lo |-> range[1], hi |-> range[2], pos |-> range[1], stage |-> Flushing,
                     upto |-> upto, posted |-> FALSE]
      BY <3>1 DEF CompactRange
    <3>3. {1} \cup overlapped \in SUBSET (1 .. NumLevels - 1)
      BY LevelsAssumption DEF Level
    <3>4. upto \in 1 .. NumLevels - 1
      <4> HIDE DEF overlapped
      <4> DEFINE S == {1} \cup overlapped
      <4>1. S # {} /\ NumLevels - 1 \in Nat
        BY LevelsAssumption
      <4>2. Max(S) \in S
        <5> HIDE DEF S
        <5> QED BY <3>3, <4>1, MaxFacts DEF S
      <4> QED BY <3>3, <4>2
    <3> HIDE DEF upto
    <3> QED BY <3>2, <3>4, LevelsAssumption DEF RangeShape, Flushing
  <2>2. CASE PostManualCompaction
    <3>1. /\ manual # None /\ manual.stage # Flushing
          /\ manual' = [manual EXCEPT !.stage = IF @ = Waiting THEN 0 ELSE @, !.posted = TRUE]
      BY <2>2 DEF PostManualCompaction
    <3>2. RangeShape(manual)
      BY <3>1 DEF LevelsInv, RangeAboveLastLevel
    <3> QED BY <3>1, <3>2, RangeMoves
  <2> QED BY <2>1, <2>2
<1> QED BY <1>1, <1>2 DEF LevelsInv, MemoryFinite, ChargedFileThere, RangeAboveLastLevel,
                          WorkInPlace

\* A memtable written out only adds a file.
LEMMA CompactMemTableKeepsInv ==
  ASSUME LevelsInv, CompactMemTable
  PROVE  LevelsInv'
<1>1. imm # None /\ imm' = None /\ UNCHANGED <<mem, manual, compaction>>
  BY DEF CompactMemTable
<1>2. nextFile' = nextFile + 1
  BY DEF CompactMemTable
<1>3. PICK level, added : AreFiles(added) /\ Apply({}, level, added)
  <2>1. CASE imm = {}
    <3>1. AreFiles(<< >>)
      BY EmptySeq DEF AreFiles, ToSet
    <3> QED BY <2>1, <3>1 DEF CompactMemTable
  <2>2. CASE imm # {}
    <3> DEFINE f == NewFile(nextFile, imm)
    <3>1. IsFile(f)
      BY <1>1 DEF IsFile, NewFile, LevelsInv, MemoryFinite
    <3>2. \E level : Apply({}, level, <<f>>)
      BY <2>2 DEF CompactMemTable
    <3> HIDE DEF f
    <3> QED BY <3>1, <3>2, OneFile
  <2> QED BY <2>1, <2>2
<1>4. /\ IsVersion(levels') /\ fileToCompact' = None
      /\ \A l \in Level : Numbers(levels[l]) \subseteq Numbers(levels'[l])
  BY <1>3, ApplyFacts DEF LevelsInv
<1>5. WorkInPlace'
  BY <1>1, <1>4, InPlaceStays DEF LevelsInv, WorkInPlace
<1> QED BY <1>1, <1>2, <1>4, <1>5
        DEF LevelsInv, MemoryFinite, ChargedFileThere, RangeAboveLastLevel

\* A compaction whose inputs are in place is begun, or its one file moved.
LEMMA BeginKeepsInv ==
  ASSUME LevelsInv, NEW c, compaction = None, Begin(c), UNCHANGED manual,
         InPlace(c, levels), c.isManual \in BOOLEAN, c.isManual => RangeShape(manual)
  PROVE  LevelsInv'
<1>1. UNCHANGED <<mem, imm, nextFile>>
  BY DEF Begin
<1>2. CASE ~c.isManual /\ IsTrivialMove(c)
  <2> DEFINE f == [c.in0[1] EXCEPT !.seeks = AllowedSeeks]
  <2>1. UNCHANGED compaction /\ Apply(InputDeletions(c), c.level + 1, <<f>>)
    BY <1>2 DEF Begin
  <2>2. IsFile(f)
    <3>1. AreFiles(c.in0) /\ Len(c.in0) = 1
      BY <1>2 DEF InPlace, IsTrivialMove
    <3>2. c.in0[1] \in ToSet(c.in0)
      BY <3>1, SeqFacts DEF AreFiles
    <3>3. IsFile(c.in0[1])
      BY <3>1, <3>2 DEF AreFiles
    <3> QED BY <3>3 DEF IsFile
  <2> HIDE DEF f
  <2>3. IsVersion(levels') /\ fileToCompact' = None
    BY <2>1, <2>2, OneFile, ApplyFacts DEF LevelsInv
  <2> QED BY <1>1, <2>1, <2>3
          DEF LevelsInv, MemoryFinite, ChargedFileThere, RangeAboveLastLevel, WorkInPlace
<1>3. CASE ~(~c.isManual /\ IsTrivialMove(c))
  <2>1. compaction' = c /\ UNCHANGED <<levels, fileToCompact>>
    BY <1>3 DEF Begin
  <2> QED BY <1>1, <2>1
          DEF LevelsInv, MemoryFinite, ChargedFileThere, RangeAboveLastLevel, WorkInPlace
<1> QED BY <1>2, <1>3

LEMMA BeginCompactionKeepsInv ==
  ASSUME LevelsInv, BeginCompaction
  PROVE  LevelsInv'
<1>1. compaction = None /\ NeedsCompaction /\ Begin(PickCompaction) /\ UNCHANGED manual
  BY DEF BeginCompaction
<1>2. InPlace(PickCompaction, levels) /\ PickCompaction.isManual = FALSE
  BY <1>1, PickFacts DEF LevelsInv
<1> QED BY <1>1, <1>2, BeginKeepsInv

\* The part of a range left in a level is compacted, or the next level is.
LEMMA BeginManualKeepsInv ==
  ASSUME LevelsInv, BeginManualCompaction
  PROVE  LevelsInv'
<1> DEFINE inputs == RangeInputs(manual.stage, manual.pos, manual.hi)
<1>1. compaction = None /\ manual # None /\ manual.posted
  BY DEF BeginManualCompaction
<1>2. RangeShape(manual)
  BY <1>1 DEF LevelsInv, RangeAboveLastLevel
<1>3. manual.stage \in 0 .. NumLevels - 2 /\ manual.stage \in Level
  <2>1. /\ manual.stage \in Flushing .. NumLevels - 2 /\ manual.stage >= 0
        /\ NumLevels \in Nat
    BY <1>1, <1>2, LevelsAssumption DEF RangeShape
  <2> QED BY <2>1 DEF Level, Flushing
<1>4. CASE inputs = << >>
  <2>1. /\ UNCHANGED <<mem, imm, levels, nextFile, fileToCompact, compaction>>
        /\ manual' = IF manual.stage + 1 < manual.upto
                     THEN [manual EXCEPT !.stage = @ + 1, !.pos = manual.lo, !.posted = FALSE]
                     ELSE None
    BY <1>4 DEF BeginManualCompaction
  <2>2. RangeAboveLastLevel'
    <3>1. CASE manual.stage + 1 < manual.upto
      BY <1>1, <1>2, <2>1, <3>1, RangeMoves DEF RangeAboveLastLevel
    <3>2. CASE ~(manual.stage + 1 < manual.upto)
      BY <2>1, <3>2 DEF RangeAboveLastLevel
    <3> QED BY <3>1, <3>2
  <2> QED BY <1>1, <2>1, <2>2 DEF LevelsInv, MemoryFinite, ChargedFileThere, WorkInPlace
<1>5. CASE inputs # << >>
  <2> DEFINE s == SetupOtherInputs(manual.stage, inputs)
             c == [s EXCEPT !.isManual = TRUE]
  <2>1. Begin(c) /\ UNCHANGED manual
    BY <1>5 DEF BeginManualCompaction
  <2>2. AreFiles(inputs) /\ ToSet(inputs) \subseteq ToSet(levels[manual.stage])
    BY <1>3, RangeInputsFacts DEF LevelsInv
  <2>3. InPlace(s, levels) /\ IsCompaction(s)
    <3> HIDE DEF inputs
    <3> QED BY <1>3, <2>2, SetupFacts DEF LevelsInv
  <2> HIDE DEF s
  <2>4. c.isManual = TRUE /\ c.level = s.level /\ c.in0 = s.in0 /\ c.in1 = s.in1
    BY <2>3 DEF IsCompaction
  <2> HIDE DEF c
  <2>5. InPlace(c, levels)
    BY <2>3, <2>4 DEF InPlace
  <2> QED BY <1>1, <1>2, <2>1, <2>4, <2>5, BeginKeepsInv
<1> QED BY <1>4, <1>5

\* The results of a compaction are installed.
LEMMA FinishCompactionKeepsInv ==
  ASSUME LevelsInv, FinishCompaction
  PROVE  LevelsInv'
<1> DEFINE outputs == CompactionOutputs(compaction)
           added == [i \in DOMAIN outputs |-> NewFile(nextFile + i - 1, outputs[i])]
<1>1. /\ compaction # None /\ compaction' = None /\ UNCHANGED <<mem, imm>>
      /\ manual' = IF compaction.isManual
                   THEN [manual EXCEPT !.pos = Last(compaction.in0).largest.key,
                                       !.posted = FALSE]
                   ELSE manual
  BY DEF FinishCompaction
<1>2. nextFile' = nextFile + Len(outputs)
  BY DEF FinishCompaction
<1>3. Apply(InputDeletions(compaction), compaction.level + 1, added)
  BY DEF FinishCompaction
<1>4. InPlace(compaction, levels) /\ (compaction.isManual => RangeShape(manual))
  BY <1>1 DEF LevelsInv, WorkInPlace
<1>5. Len(outputs) \in Nat /\ AreFiles(added)
  BY <1>4, OutputFacts DEF InPlace, LevelsInv
<1> HIDE DEF outputs, added
<1>6. IsVersion(levels') /\ fileToCompact' = None
  BY <1>3, <1>5, ApplyFacts DEF LevelsInv
<1>7. nextFile' \in Nat
  BY <1>2, <1>5 DEF LevelsInv
<1>8. RangeAboveLastLevel'
  <2>1. CASE compaction.isManual
    <3>1. manual' = [manual EXCEPT !.pos = Last(compaction.in0).largest.key, !.posted = FALSE]
      BY <1>1, <2>1
    <3> QED BY <1>4, <2>1, <3>1, RangeMoves DEF RangeAboveLastLevel
  <2>2. CASE ~compaction.isManual
    BY <1>1, <2>2 DEF LevelsInv, RangeAboveLastLevel
  <2> QED BY <2>1, <2>2
<1> QED BY <1>1, <1>6, <1>7, <1>8 DEF LevelsInv, MemoryFinite, ChargedFileThere, WorkInPlace

\* The invariant holds in every state.
LEMMA LevelsInvHolds == LevelsSpec => []LevelsInv
<1>1. LevelsInv /\ [LevelsNext]_levelsVars => LevelsInv'
  <2> SUFFICES ASSUME LevelsInv, [LevelsNext]_levelsVars PROVE LevelsInv'
    OBVIOUS
  <2>1. CASE \/ \E k \in Keys, t \in {kTypeDeletion, kTypeValue} : WriteEntry(k, t)
             \/ SwitchMemTable
             \/ GetSnapshot
             \/ \E i \in DOMAIN snapshots : ReleaseSnapshot(i)
    BY <2>1, ForegroundKeepsInv
  <2>2. CASE (\E k \in Keys, s \in ReadSnapshots : ChargeGet(k, s)) \/ RecordReadSample
    BY <2>2, ChargesKeepInv
  <2>3. CASE (\E range \in ManualRanges : CompactRange(range)) \/ PostManualCompaction
    BY <2>3, RangesKeepInv
  <2>4. CASE Background
    BY <2>4, CompactMemTableKeepsInv, BeginCompactionKeepsInv, BeginManualKeepsInv,
       FinishCompactionKeepsInv DEF Background
  <2>5. CASE UNCHANGED levelsVars
    BY <2>5 DEF levelsVars, LevelsInv, MemoryFinite, ChargedFileThere, RangeAboveLastLevel,
                WorkInPlace
  <2> QED BY <2>1, <2>2, <2>3, <2>4, <2>5 DEF LevelsNext
<1> QED BY <1>1, LevelsInitInv, PTL DEF LevelsSpec

(* The files a compaction reads stay in the version until its results are  *)
(* installed, whatever is written out, read or asked for meanwhile         *)
(* (DBImpl::DoCompactionWork gives the mutex up while it works): the edit  *)
(* of InstallCompactionResults deletes files that are there, of a level    *)
(* above the last and of the next.                                         *)
THEOREM InputsAlwaysInPlace == LevelsSpec => []InputsStayInPlace
<1>1. LevelsInv => InputsStayInPlace
  <2> SUFFICES ASSUME LevelsInv, compaction # None,
                      NEW d \in InputDeletions(compaction)
               PROVE  \E f \in ToSet(levels[d[1]]) : f.number = d[2]
    BY DEF InputsStayInPlace
  <2>1. InPlace(compaction, levels)
    BY DEF LevelsInv, WorkInPlace
  <2>2. d[2] \in Numbers(levels[d[1]])
    BY <2>1 DEF InPlace, InputDeletions, Numbers
  <2> QED BY <2>2 DEF Numbers
<1> QED BY <1>1, LevelsInvHolds, PTL
=============================================================================
