-------------------------- MODULE FilteringProofs ---------------------------
(***************************************************************************)
(* What Filter does, for sequences of any length, by induction over them,  *)
(* and that functions applied one after the other have values.             *)
(* Induction is stated of a set of naturals; it follows from the order of  *)
(* the naturals being well-founded.                                        *)
(***************************************************************************)
EXTENDS Filtering, SequenceTheorems, WellFoundedInduction, TLAPS

\* A set of naturals that is not empty has a least member.
LEMMA LeastNatural ==
  ASSUME NEW S \in SUBSET Nat, S # {}
  PROVE  \E n \in S : \A m \in S : n <= m
<1>1. IsWellFoundedOn({ss \in Nat \X Nat : ss[1] < ss[2]}, Nat)
  BY NatLessThanWellFounded DEF OpToRel
<1>2. PICK n \in S : \A m \in S : ~ (<<m, n>> \in {ss \in Nat \X Nat : ss[1] < ss[2]})
  <2> DEFINE R == {ss \in Nat \X Nat : ss[1] < ss[2]}
  <2>1. IsWellFoundedOn(R, Nat)
    BY <1>1
  <2> HIDE DEF R
  <2>2. \E n \in S : \A m \in S : ~ (<<m, n>> \in R)
    BY <2>1, WFMin
  <2> QED BY <2>2 DEF R
<1>3. ASSUME NEW m \in S PROVE n <= m
  <2>1. <<m, n>> \in Nat \X Nat /\ <<m, n>>[1] = m /\ <<m, n>>[2] = n
    OBVIOUS
  <2>2. ~ (m < n)
    BY <1>2, <2>1
  <2> QED BY <2>2
<1> QED BY <1>3

\* A set with 0 that has the successor of each of its members has every natural,
\* as far as n.
LEMMA InductionUpTo ==
  ASSUME NEW n \in Nat, NEW S, 0 \in S, \A i \in 0 .. n : i \in S /\ i < n => i + 1 \in S
  PROVE  0 .. n \subseteq S
<1> SUFFICES ASSUME ~ (0 .. n \subseteq S)
             PROVE  FALSE
  OBVIOUS
<1> DEFINE D == {i \in 0 .. n : i \notin S}
<1>1. D \in SUBSET Nat /\ D # {}
  OBVIOUS
<1>2. PICK k \in D : \A m \in D : k <= m
  BY <1>1, LeastNatural
<1>3. k # 0 /\ k - 1 \in 0 .. n /\ k - 1 < n /\ k - 1 \notin D
  BY <1>2
<1>4. k - 1 \in S
  BY <1>3
<1>5. (k - 1) + 1 \in S
  BY <1>3, <1>4
<1> QED BY <1>2, <1>5

(* The equations of the recursion.                                         *)
IsKept(kept, s, T) ==
  kept = [i \in 0 .. Len(s) |->
            IF i = 0 THEN <<>>
            ELSE IF s[i] \in T THEN Append(kept[i - 1], s[i])
            ELSE kept[i - 1]]

\* The recursion has a solution, and Filter is its last value.
LEMMA FilterIsKept ==
  ASSUME NEW S, NEW s \in Seq(S), NEW T
  PROVE  \E kept : IsKept(kept, s, T) /\ Filter(s, T) = kept[Len(s)]
<1> DEFINE n == Len(s)
           Step(k, i) == IF i = 0 THEN <<>>
                         ELSE IF s[i] \in T THEN Append(k[i - 1], s[i])
                         ELSE k[i - 1]
           Good == {m \in 0 .. n : \E k : k = [i \in 0 .. m |-> Step(k, i)]}
<1>1. n \in Nat
  BY LenProperties
<1>2. 0 \in Good
  <2> DEFINE k == [i \in 0 .. 0 |-> <<>>]
  <2>1. k = [i \in 0 .. 0 |-> Step(k, i)]
    OBVIOUS
  <2>2. 0 \in 0 .. n
    BY <1>1
  <2> HIDE DEF n, k, Step
  <2> QED BY <2>1, <2>2
<1>3. ASSUME NEW m \in 0 .. n, m \in Good, m < n PROVE m + 1 \in Good
  <2>1. PICK k : k = [i \in 0 .. m |-> Step(k, i)]
    BY <1>3
  <2> DEFINE l == [i \in 0 .. m + 1 |-> IF i = m + 1 THEN Step(k, i) ELSE k[i]]
  <2> HIDE DEF n
  <2>2. \A i \in 0 .. m + 1 : l[i] = Step(l, i)
    <3> TAKE i \in 0 .. m + 1
    <3>1. CASE i = m + 1
      <4>1. m \in 0 .. m + 1 /\ m # m + 1 /\ i - 1 = m
        BY <3>1
      <4>2. l[i - 1] = k[i - 1]
        BY <4>1
      <4> QED BY <3>1, <4>2
    <3>2. CASE i # m + 1
      <4>1. i \in 0 .. m /\ l[i] = k[i]
        BY <3>2
      <4>2. k[i] = Step(k, i)
        BY <4>1, <2>1
      <4>3. i # 0 => l[i - 1] = k[i - 1]
        BY <4>1
      <4> QED BY <4>1, <4>2, <4>3
    <3> QED BY <3>1, <3>2
  <2>3. l = [i \in 0 .. m + 1 |-> Step(l, i)]
    <3>1. l = [i \in 0 .. m + 1 |-> l[i]]
      OBVIOUS
    <3> HIDE DEF l
    <3> QED BY <2>2, <3>1
  <2>4. m + 1 \in 0 .. n
    BY <1>1, <1>3
  <2> HIDE DEF l
  <2> QED BY <2>3, <2>4
<1>4. n \in Good
  <2> HIDE DEF Good, n
  <2>1. \A i \in 0 .. n : i \in Good /\ i < n => i + 1 \in Good
    BY <1>3
  <2>2. 0 .. n \subseteq Good
    BY <1>1, <1>2, <2>1, InductionUpTo
  <2> QED BY <1>1, <2>2
<1>5. \E k : IsKept(k, s, T)
  BY <1>4 DEF IsKept
<1>6. IsKept(CHOOSE k : IsKept(k, s, T), s, T)
  BY <1>5
<1>7. Filter(s, T) = (CHOOSE k : IsKept(k, s, T))[Len(s)]
  BY DEF Filter, IsKept
<1> QED BY <1>6, <1>7

\* What is kept are the members of T, in the order they had.
LEMMA FilterFacts ==
  ASSUME NEW S, NEW s \in Seq(S), NEW T
  PROVE  /\ Filter(s, T) \in Seq(S)
         /\ \A a \in DOMAIN Filter(s, T) : Filter(s, T)[a] \in T
         /\ \A i \in DOMAIN s : s[i] \in T => \E a \in DOMAIN Filter(s, T) : Filter(s, T)[a] = s[i]
         /\ \E from \in [DOMAIN Filter(s, T) -> DOMAIN s] :
              /\ \A a \in DOMAIN Filter(s, T) : Filter(s, T)[a] = s[from[a]]
              /\ \A a, b \in DOMAIN Filter(s, T) : a < b => from[a] < from[b]
<1>1. PICK kept : IsKept(kept, s, T) /\ Filter(s, T) = kept[Len(s)]
  BY FilterIsKept
<1> DEFINE n == Len(s)
           Kept(i, from) ==
             /\ kept[i] \in Seq(S) /\ from \in [1 .. Len(kept[i]) -> 1 .. i]
             /\ \A a \in 1 .. Len(kept[i]) : kept[i][a] = s[from[a]] /\ s[from[a]] \in T
             /\ \A a, b \in 1 .. Len(kept[i]) : a < b => from[a] < from[b]
             /\ \A j \in 1 .. i : s[j] \in T => \E a \in 1 .. Len(kept[i]) : from[a] = j
           Good == {i \in 0 .. n : \E from : Kept(i, from)}
<1>2. n \in Nat /\ s \in [1 .. n -> S]
  BY LenProperties
<1>3. \A i \in 0 .. n : kept[i] = IF i = 0 THEN <<>>
                                  ELSE IF s[i] \in T THEN Append(kept[i - 1], s[i])
                                  ELSE kept[i - 1]
  BY <1>1 DEF IsKept
<1>k. Filter(s, T) = kept[n]
  BY <1>1
<1> HIDE DEF n
<1>4. 0 \in Good
  <2>1. kept[0] = <<>> /\ 0 \in 0 .. n
    BY <1>2, <1>3
  <2>2. kept[0] \in Seq(S) /\ Len(kept[0]) = 0 /\ 1 .. 0 = {}
    BY <2>1
  <2> DEFINE from == [a \in 1 .. 0 |-> 0]
  <2>3. from \in [1 .. 0 -> 1 .. 0]
    BY <2>2
  <2> HIDE DEF from
  <2> QED BY <2>1, <2>2, <2>3
<1>5. ASSUME NEW i \in 0 .. n, i \in Good, i < n PROVE i + 1 \in Good
  <2>1. PICK from : Kept(i, from)
    BY <1>5
  <2>2. i + 1 \in 1 .. n /\ i + 1 \in 0 .. n /\ (i + 1) - 1 = i /\ i + 1 # 0 /\ i \in Nat
    BY <1>2, <1>5
  <2>3. s[i + 1] \in S
    BY <1>2, <2>2
  <2> DEFINE m == Len(kept[i])
  <2>4. m \in Nat /\ kept[i] \in [1 .. m -> S]
    BY <2>1, LenProperties
  <2>5. CASE s[i + 1] \in T
    <3>1. kept[i + 1] = Append(kept[i], s[i + 1])
      BY <1>3, <2>2, <2>5
    <3>2. /\ kept[i + 1] \in Seq(S) /\ Len(kept[i + 1]) = m + 1
          /\ kept[i + 1][m + 1] = s[i + 1] /\ \A a \in 1 .. m : kept[i + 1][a] = kept[i][a]
      <4> HIDE DEF m
      <4> QED BY <2>1, <2>3, <2>4, <3>1, AppendProperties DEF m
    <3> DEFINE f == [a \in 1 .. m + 1 |-> IF a = m + 1 THEN i + 1 ELSE from[a]]
    <3>3. /\ f \in [1 .. m + 1 -> 1 .. i + 1] /\ f[m + 1] = i + 1
          /\ \A a \in 1 .. m : f[a] = from[a] /\ from[a] \in 1 .. i /\ a \in 1 .. m + 1
      <4>1. from \in [1 .. m -> 1 .. i]
        BY <2>1
      <4> HIDE DEF m
      <4> QED BY <2>2, <2>4, <4>1
    <3>m. /\ \A a \in 1 .. m : kept[i][a] = s[from[a]] /\ s[from[a]] \in T
          /\ \A a, b \in 1 .. m : a < b => from[a] < from[b]
          /\ \A j \in 1 .. i : s[j] \in T => \E a \in 1 .. m : from[a] = j
      BY <2>1
    <3> HIDE DEF f, m
    <3>4. \A a \in 1 .. m + 1 : a = m + 1 \/ a \in 1 .. m
      BY <2>4
    <3>5. \A a \in 1 .. m + 1 : kept[i + 1][a] = s[f[a]] /\ s[f[a]] \in T
      BY <2>5, <3>2, <3>3, <3>4, <3>m
    <3>6. \A a, b \in 1 .. m + 1 : a < b => f[a] < f[b]
      <4> TAKE a, b \in 1 .. m + 1
      <4> HAVE a < b
      <4>1. a \in 1 .. m
        BY <2>4
      <4>2. CASE b = m + 1
        BY <2>2, <3>3, <4>1, <4>2
      <4>3. CASE b \in 1 .. m
        BY <3>3, <3>m, <4>1, <4>3
      <4> QED BY <3>4, <4>2, <4>3
    <3>7. \A j \in 1 .. i + 1 : s[j] \in T => \E a \in 1 .. m + 1 : f[a] = j
      <4> TAKE j \in 1 .. i + 1
      <4> HAVE s[j] \in T
      <4>1. CASE j = i + 1
        BY <2>4, <3>3, <4>1
      <4>2. CASE j # i + 1
        <5>1. j \in 1 .. i
          BY <2>2, <4>2
        <5> QED BY <3>3, <3>m, <5>1
      <4> QED BY <4>1, <4>2
    <3>8. Kept(i + 1, f)
      BY <3>2, <3>3, <3>5, <3>6, <3>7
    <3> HIDE DEF Kept
    <3>9. \E g : Kept(i + 1, g)
      BY <3>8
    <3> QED BY <2>2, <3>9
  <2>6. CASE s[i + 1] \notin T
    <3>1. kept[i + 1] = kept[i]
      BY <1>3, <2>2, <2>6
    <3>2. from \in [1 .. Len(kept[i + 1]) -> 1 .. i + 1]
      BY <2>1, <2>2, <3>1
    <3>3. \A j \in 1 .. i + 1 : s[j] \in T => j \in 1 .. i
      BY <2>2, <2>6
    <3>4. \A j \in 1 .. i + 1 : s[j] \in T => \E a \in 1 .. Len(kept[i + 1]) : from[a] = j
      BY <2>1, <3>1, <3>3
    <3>5. /\ kept[i + 1] \in Seq(S)
          /\ \A a \in 1 .. Len(kept[i + 1]) : kept[i + 1][a] = s[from[a]] /\ s[from[a]] \in T
          /\ \A a, b \in 1 .. Len(kept[i + 1]) : a < b => from[a] < from[b]
      BY <2>1, <3>1
    <3>6. Kept(i + 1, from)
      BY <3>2, <3>4, <3>5
    <3> HIDE DEF Kept
    <3>7. \E f : Kept(i + 1, f)
      BY <3>6
    <3> QED BY <2>2, <3>7
  <2> QED BY <2>5, <2>6
<1>6. n \in Good
  <2> HIDE DEF Good
  <2>1. \A i \in 0 .. n : i \in Good /\ i < n => i + 1 \in Good
    BY <1>5
  <2>2. 0 .. n \subseteq Good
    BY <1>2, <1>4, <2>1, InductionUpTo
  <2> QED BY <1>2, <2>2
<1>7. PICK from : Kept(n, from)
  BY <1>6
<1>8. DOMAIN Filter(s, T) = 1 .. Len(kept[n]) /\ DOMAIN s = 1 .. n
  BY <1>2, <1>7, <1>k, LenProperties
<1>9. Filter(s, T) \in Seq(S) /\ from \in [DOMAIN Filter(s, T) -> DOMAIN s]
  BY <1>7, <1>8, <1>k
<1>10. /\ \A a \in DOMAIN Filter(s, T) : Filter(s, T)[a] = s[from[a]] /\ Filter(s, T)[a] \in T
       /\ \A a, b \in DOMAIN Filter(s, T) : a < b => from[a] < from[b]
  BY <1>7, <1>8, <1>k
<1>11. \A j \in DOMAIN s : s[j] \in T => \E a \in DOMAIN Filter(s, T) : Filter(s, T)[a] = s[j]
  BY <1>7, <1>8, <1>10
<1> HIDE DEF Kept
<1> QED BY <1>9, <1>10, <1>11

(* from takes the places of f to those of s with the same member, in order. *)
Embeds(from, f, s) ==
  /\ from \in [DOMAIN f -> DOMAIN s]
  /\ \A a \in DOMAIN f : f[a] = s[from[a]]
  /\ \A a, b \in DOMAIN f : a < b => from[a] < from[b]

\* A filtered sequence is in the order of the whole.
LEMMA FilterEmbeds ==
  ASSUME NEW S, NEW s \in Seq(S), NEW T
  PROVE  \E from : Embeds(from, Filter(s, T), s)
<1>1. PICK from \in [DOMAIN Filter(s, T) -> DOMAIN s] :
        /\ \A a \in DOMAIN Filter(s, T) : Filter(s, T)[a] = s[from[a]]
        /\ \A a, b \in DOMAIN Filter(s, T) : a < b => from[a] < from[b]
  BY FilterFacts
<1>2. Embeds(from, Filter(s, T), s)
  BY <1>1 DEF Embeds
<1> QED BY <1>2

(* The equations of a recursion that applies F[1], F[2], ... to x0.        *)
Applied(f, n, X, x0, F) ==
  /\ f \in [0 .. n -> X]
  /\ f = [i \in 0 .. n |-> IF i = 0 THEN x0 ELSE F[i][f[i - 1]]]

\* Functions applied one after the other have values.
LEMMA Sequencing ==
  ASSUME NEW n \in Nat, NEW X, NEW x0 \in X, NEW F \in [1 .. n -> [X -> X]]
  PROVE  \E f : Applied(f, n, X, x0, F)
<1> DEFINE Values(m, f) == f = [i \in 0 .. m |-> IF i = 0 THEN x0 ELSE F[i][f[i - 1]]]
           Good == {m \in 0 .. n : \E f \in [0 .. m -> X] : Values(m, f)}
<1>1. 0 \in Good
  <2> DEFINE f == [i \in 0 .. 0 |-> x0]
  <2>1. f \in [0 .. 0 -> X] /\ Values(0, f)
    OBVIOUS
  <2>2. 0 \in 0 .. n
    OBVIOUS
  <2> HIDE DEF f, Values
  <2> QED BY <2>1, <2>2
<1>2. ASSUME NEW m \in 0 .. n, m \in Good, m < n PROVE m + 1 \in Good
  <2>1. PICK f \in [0 .. m -> X] : Values(m, f)
    BY <1>2
  <2> DEFINE g == [i \in 0 .. m + 1 |-> IF i = m + 1 THEN F[m + 1][f[m]] ELSE f[i]]
  <2>2. g \in [0 .. m + 1 -> X]
    <3>1. m + 1 \in 1 .. n /\ f[m] \in X
      BY <1>2, <2>1
    <3>2. F[m + 1][f[m]] \in X
      BY <3>1
    <3> QED BY <2>1, <3>2
  <2>3. \A i \in 0 .. m + 1 : g[i] = IF i = 0 THEN x0 ELSE F[i][g[i - 1]]
    <3> TAKE i \in 0 .. m + 1
    <3>1. CASE i = m + 1
      BY <3>1
    <3>2. CASE i # m + 1
      <4>1. i \in 0 .. m /\ g[i] = f[i] /\ (i # 0 => g[i - 1] = f[i - 1])
        BY <3>2
      <4>2. f[i] = IF i = 0 THEN x0 ELSE F[i][f[i - 1]]
        BY <2>1, <4>1
      <4> QED BY <4>1, <4>2
    <3> QED BY <3>1, <3>2
  <2>4. g = [i \in 0 .. m + 1 |-> g[i]]
    OBVIOUS
  <2> HIDE DEF g
  <2>5. Values(m + 1, g)
    BY <2>3, <2>4
  <2>6. m + 1 \in 0 .. n
    BY <1>2
  <2> HIDE DEF Values
  <2> QED BY <2>2, <2>5, <2>6
<1>3. n \in Good
  <2> HIDE DEF Good
  <2>1. \A i \in 0 .. n : i \in Good /\ i < n => i + 1 \in Good
    BY <1>2
  <2>2. 0 .. n \subseteq Good
    BY <1>1, <2>1, InductionUpTo
  <2> QED BY <2>2
<1> QED BY <1>3 DEF Applied
=============================================================================
