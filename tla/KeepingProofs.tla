---------------------------- MODULE KeepingProofs ----------------------------
(***************************************************************************)
(* The laws of Keep: what it leaves is a sequence of members of the set,   *)
(* no longer than before, with the same members of the set and none of     *)
(* them twice that was there once; a sequence of members of the set is     *)
(* left as it is.                                                          *)
(***************************************************************************)
EXTENDS Keeping, WellFoundedInduction, SequenceTheorems, TLAPS

\* Induction over the natural numbers, for a set of them.
LEMMA InductiveSet ==
  ASSUME NEW S \in SUBSET Nat, 0 \in S, \A n \in S : n + 1 \in S
  PROVE  Nat = S
<1> SUFFICES ASSUME Nat \ S # {} PROVE FALSE
  OBVIOUS
<1>1. PICK n \in Nat \ S : \A k \in Nat \ S : ~(<<k, n>> \in OpToRel(<, Nat))
  BY NatLessThanWellFounded, WFMin
<1>2. n - 1 \in Nat \ S
  OBVIOUS
<1>3. <<n - 1, n>> \in {ss \in Nat \X Nat : ss[1] < ss[2]}
  BY <1>2
<1>4. <<n - 1, n>> \in OpToRel(<, Nat)
  BY <1>3, Zenon DEF OpToRel
<1> QED
  BY <1>1, <1>2, <1>4

\* One step of the filter.
Kept(r, x, S) == IF x \in S THEN Append(r, x) ELSE r

\* What the filter is computed with: its value for every beginning of s.
KeptPrefixes(g, s, S, m) ==
  g = [n \in 0 .. m |-> IF n = 0 THEN <<>> ELSE Kept(g[n - 1], s[n], S)]

LEMMA PrefixesExist ==
  ASSUME NEW s, NEW S, NEW m \in Nat
  PROVE  \E g : KeptPrefixes(g, s, S, m)
<1> DEFINE T == {n \in Nat : \E g : KeptPrefixes(g, s, S, n)}
<1>1. 0 \in T
  <2>1. KeptPrefixes([n \in 0 .. 0 |-> <<>>], s, S, 0)
    BY DEF KeptPrefixes
  <2> QED
    BY <2>1
<1>2. ASSUME NEW k \in T PROVE k + 1 \in T
  <2>1. PICK g : KeptPrefixes(g, s, S, k)
    OBVIOUS
  <2> DEFINE h == [n \in 0 .. (k + 1) |-> IF n = k + 1 THEN Kept(g[k], s[k + 1], S) ELSE g[n]]
  <2>2. \A n \in 0 .. k : h[n] = g[n] /\ g[n] = IF n = 0 THEN <<>> ELSE Kept(g[n - 1], s[n], S)
    BY <2>1 DEF KeptPrefixes
  <2>3. \A n \in 0 .. (k + 1) : h[n] = IF n = 0 THEN <<>> ELSE Kept(h[n - 1], s[n], S)
    <3> SUFFICES ASSUME NEW n \in 0 .. (k + 1)
                 PROVE  h[n] = IF n = 0 THEN <<>> ELSE Kept(h[n - 1], s[n], S)
      OBVIOUS
    <3>1. CASE n = k + 1
      <4>1. n # 0 /\ n - 1 = k /\ k \in 0 .. k
        BY <3>1
      <4> QED
        BY <3>1, <4>1, <2>2
    <3>2. CASE n \in 0 .. k
      <4>1. n = 0 \/ n - 1 \in 0 .. k
        BY <3>2
      <4> QED
        BY <3>2, <4>1, <2>2
    <3> QED
      BY <3>1, <3>2
  <2>4. KeptPrefixes(h, s, S, k + 1)
    <3> HIDE DEF h
    <3>1. h = [n \in 0 .. (k + 1) |-> h[n]]
      BY DEF h
    <3> QED
      BY <2>3, <3>1 DEF KeptPrefixes
  <2> QED
    BY <2>4
<1>3. Nat = T
  <2> HIDE DEF T
  <2>1. T \in SUBSET Nat
    BY DEF T
  <2> QED
    BY <1>1, <1>2, <2>1, InductiveSet
<1> QED
  BY <1>3

\* Keep is the last of those values.
LEMMA KeepIsLast ==
  ASSUME NEW s, NEW S, Len(s) \in Nat
  PROVE  \E g : KeptPrefixes(g, s, S, Len(s)) /\ Keep(s, S) = g[Len(s)]
<1> DEFINE g == CHOOSE h : KeptPrefixes(h, s, S, Len(s))
<1>1. KeptPrefixes(g, s, S, Len(s))
  BY PrefixesExist
<1>2. Keep(s, S) = g[Len(s)]
  BY DEF Keep, KeptPrefixes, Kept
<1> QED
  BY <1>1, <1>2

\* What holds of every beginning of s, in terms of where it came from.
Filters(r, s, S, n) ==
  /\ Len(r) <= n
  /\ \A j \in 1 .. Len(r) : r[j] \in S /\ \E i \in 1 .. n : r[j] = s[i]
  /\ \A i \in 1 .. n : s[i] \in S => \E j \in 1 .. Len(r) : r[j] = s[i]

LEMMA KeptFilters ==
  ASSUME NEW X, NEW s \in Seq(X), NEW S, NEW n \in 0 .. (Len(s) - 1),
         NEW r \in Seq(X), Filters(r, s, S, n)
  PROVE  Kept(r, s[n + 1], S) \in Seq(X) /\ Filters(Kept(r, s[n + 1], S), s, S, n + 1)
<1> DEFINE x == s[n + 1]
<1>0. x \in X
  OBVIOUS
<1>1. CASE x \in S
  <2> DEFINE q == Append(r, x)
  <2>1. q \in Seq(X) /\ Len(q) = Len(r) + 1 /\ q[Len(r) + 1] = x
        /\ \A j \in 1 .. Len(r) : q[j] = r[j]
    BY <1>0
  <2> HIDE DEF q
  <2>2. Len(q) <= n + 1 /\ Len(r) \in Nat
    BY <2>1 DEF Filters
  <2>3. ASSUME NEW j \in 1 .. Len(q)
        PROVE  q[j] \in S /\ \E i \in 1 .. n + 1 : q[j] = s[i]
    <3>1. CASE j = Len(r) + 1
      BY <3>1, <2>1, <1>1
    <3>2. CASE j \in 1 .. Len(r)
      <4>1. PICK i \in 1 .. n : r[j] = s[i]
        BY <3>2 DEF Filters
      <4>2. q[j] = r[j] /\ r[j] \in S /\ i \in 1 .. n + 1
        BY <3>2, <2>1 DEF Filters
      <4> QED
        BY <4>1, <4>2
    <3> QED
      BY <3>1, <3>2, <2>1, <2>2
  <2>4. ASSUME NEW i \in 1 .. n + 1, s[i] \in S
        PROVE  \E j \in 1 .. Len(q) : q[j] = s[i]
    <3>1. CASE i = n + 1
      BY <3>1, <2>1, <2>2
    <3>2. CASE i \in 1 .. n
      <4>1. PICK j \in 1 .. Len(r) : r[j] = s[i]
        BY <3>2, <2>4 DEF Filters
      <4> QED
        BY <4>1, <2>1, <2>2
    <3> QED
      BY <3>1, <3>2
  <2>5. Filters(q, s, S, n + 1)
    BY <2>2, <2>3, <2>4 DEF Filters
  <2> QED
    BY <1>1, <2>1, <2>5 DEF Kept, q
<1>2. CASE x \notin S
  BY <1>2 DEF Kept, Filters
<1> QED
  BY <1>1, <1>2

LEMMA PrefixesFilter ==
  ASSUME NEW X, NEW s \in Seq(X), NEW S, NEW g, KeptPrefixes(g, s, S, Len(s))
  PROVE  \A n \in 0 .. Len(s) : g[n] \in Seq(X) /\ Filters(g[n], s, S, n)
<1> DEFINE T == {n \in Nat : n <= Len(s) => g[n] \in Seq(X) /\ Filters(g[n], s, S, n)}
<1>2. 0 \in T
  <2>1. g[0] = <<>>
    BY DEF KeptPrefixes
  <2>2. <<>> \in Seq(X) /\ Len(<<>>) = 0
    BY EmptySeq
  <2>3. Filters(<<>>, s, S, 0)
    BY <2>2 DEF Filters
  <2> QED
    BY <2>1, <2>2, <2>3
<1>3. ASSUME NEW n \in T PROVE n + 1 \in T
  <2> SUFFICES ASSUME n + 1 <= Len(s)
               PROVE  g[n + 1] \in Seq(X) /\ Filters(g[n + 1], s, S, n + 1)
    OBVIOUS
  <2>1. n \in 0 .. (Len(s) - 1) /\ n + 1 \in 0 .. Len(s) /\ n + 1 # 0 /\ (n + 1) - 1 = n
    OBVIOUS
  <2>2. g[n + 1] = Kept(g[n], s[n + 1], S)
    BY <2>1 DEF KeptPrefixes
  <2> QED
    BY <2>1, <2>2, KeptFilters
<1>4. Nat = T
  <2> HIDE DEF T
  <2>1. T \in SUBSET Nat
    BY DEF T
  <2> QED
    BY <1>2, <1>3, <2>1, InductiveSet
<1>5. \A n \in 0 .. Len(s) : n \in T /\ n <= Len(s)
  <2> HIDE DEF T
  <2> QED
    BY <1>4
<1> QED
  BY <1>5

\* Keep leaves members of the set, in no more rows than there were, and
\* loses none of them.
LEMMA KeepFilters ==
  ASSUME NEW X, NEW s \in Seq(X), NEW S
  PROVE  /\ Keep(s, S) \in Seq(X)
         /\ Len(Keep(s, S)) \in 0 .. Len(s)
         /\ \A j \in 1 .. Len(Keep(s, S)) :
              Keep(s, S)[j] \in S /\ \E i \in 1 .. Len(s) : Keep(s, S)[j] = s[i]
         /\ \A i \in 1 .. Len(s) :
              s[i] \in S => \E j \in 1 .. Len(Keep(s, S)) : Keep(s, S)[j] = s[i]
<1>1. PICK g : KeptPrefixes(g, s, S, Len(s)) /\ Keep(s, S) = g[Len(s)]
  BY KeepIsLast
<1> DEFINE k == Keep(s, S)
<1> HIDE DEF k
<1>6. k \in Seq(X) /\ Filters(k, s, S, Len(s))
  BY <1>1, PrefixesFilter DEF k
<1>7. Len(k) \in 0 .. Len(s)
  BY <1>6 DEF Filters
<1> QED
  BY <1>6, <1>7 DEF Filters, k

\* Members that differ are kept once each.
Distinct(r) == \A i, j \in 1 .. Len(r) : r[i] = r[j] => i = j

LEMMA KeepDistinct ==
  ASSUME NEW X, NEW s \in Seq(X), NEW S, Distinct(s)
  PROVE  Distinct(Keep(s, S))
<1>1. PICK g : KeptPrefixes(g, s, S, Len(s)) /\ Keep(s, S) = g[Len(s)]
  BY KeepIsLast
<1> DEFINE T == {n \in Nat : n <= Len(s) => Distinct(g[n])}
<1>2. 0 \in T
  <2>1. g[0] = <<>>
    BY <1>1 DEF KeptPrefixes
  <2> QED
    BY <2>1, EmptySeq DEF Distinct
<1>3. ASSUME NEW n \in T PROVE n + 1 \in T
  <2> SUFFICES ASSUME n + 1 <= Len(s)
               PROVE  Distinct(g[n + 1])
    OBVIOUS
  <2>1. n \in 0 .. Len(s) /\ n + 1 \in 1 .. Len(s) /\ n + 1 # 0 /\ (n + 1) - 1 = n /\ n + 1 \in 0 .. Len(s)
    OBVIOUS
  <2>2. g[n + 1] = Kept(g[n], s[n + 1], S)
    BY <1>1, <2>1 DEF KeptPrefixes
  <2> DEFINE r == g[n]
  <2>3. r \in Seq(X) /\ Filters(r, s, S, n) /\ Distinct(r)
    BY <1>1, <2>1, PrefixesFilter
  <2> HIDE DEF r
  <2>4. \A j \in 1 .. Len(r) : r[j] # s[n + 1]
    <3> SUFFICES ASSUME NEW j \in 1 .. Len(r), r[j] = s[n + 1] PROVE FALSE
      OBVIOUS
    <3>1. PICK i \in 1 .. n : r[j] = s[i]
      BY <2>3 DEF Filters
    <3>2. i \in 1 .. Len(s) /\ i # n + 1
      BY <2>1, <3>1
    <3> QED
      BY <2>1, <3>1, <3>2 DEF Distinct
  <2>5. Distinct(Append(r, s[n + 1]))
    <3> DEFINE q == Append(r, s[n + 1])
    <3>1. /\ Len(q) = Len(r) + 1 /\ q[Len(r) + 1] = s[n + 1] /\ Len(r) \in Nat
          /\ \A j \in 1 .. Len(r) : q[j] = r[j]
      BY <2>1, <2>3
    <3> HIDE DEF q
    <3>2. Distinct(q)
      BY <2>3, <2>4, <3>1 DEF Distinct
    <3> QED
      BY <3>2 DEF q
  <2> QED
    BY <2>2, <2>3, <2>5 DEF Kept, r
<1>4. Nat = T
  <2> HIDE DEF T
  <2>1. T \in SUBSET Nat
    BY DEF T
  <2> QED
    BY <1>2, <1>3, <2>1, InductiveSet
<1>5. Len(s) \in T
  <2> HIDE DEF T
  <2> QED
    BY <1>4, LenProperties
<1> QED
  BY <1>1, <1>5, LenProperties

\* What is kept is a sequence over the set, too.
LEMMA KeepIn ==
  ASSUME NEW X, NEW s \in Seq(X), NEW S
  PROVE  Keep(s, S) \in Seq(X \cap S)
<1> DEFINE k == Keep(s, S)
<1>1. k \in Seq(X) /\ \A j \in 1 .. Len(k) : k[j] \in S
  BY KeepFilters
<1> HIDE DEF k
<1>2. k \in Seq(X \cap S)
  BY <1>1
<1> QED
  BY <1>2 DEF k

\* A sequence over the set is kept as it is.
LEMMA KeepAll ==
  ASSUME NEW S, NEW s \in Seq(S)
  PROVE  Keep(s, S) = s
<1>1. PICK g : KeptPrefixes(g, s, S, Len(s)) /\ Keep(s, S) = g[Len(s)]
  BY KeepIsLast
<1> DEFINE T == {n \in Nat : n <= Len(s) => g[n] = SubSeq(s, 1, n)}
<1>2. 0 \in T
  <2>1. g[0] = <<>>
    BY <1>1 DEF KeptPrefixes
  <2>2. SubSeq(s, 1, 0) = <<>>
    BY SubSeqEmpty
  <2> QED
    BY <2>1, <2>2
<1>3. ASSUME NEW n \in T PROVE n + 1 \in T
  <2> SUFFICES ASSUME n + 1 <= Len(s) PROVE g[n + 1] = SubSeq(s, 1, n + 1)
    OBVIOUS
  <2>1. n \in 0 .. Len(s) /\ n + 1 \in 1 .. Len(s) /\ (n + 1) - 1 = n
    OBVIOUS
  <2>2. g[n + 1] = Append(SubSeq(s, 1, n), s[n + 1])
    <3>1. g[n + 1] = Kept(g[n], s[n + 1], S) /\ s[n + 1] \in S
      BY <1>1, <2>1 DEF KeptPrefixes
    <3>2. g[n] = SubSeq(s, 1, n)
      BY <2>1
    <3> QED
      BY <3>1, <3>2, Zenon DEF Kept
  <2>3. SubSeq(s, 1, n) \in Seq(S) /\ Len(SubSeq(s, 1, n)) = n
        /\ \A i \in 1 .. n : SubSeq(s, 1, n)[i] = s[i]
    BY <2>1
  <2>4. SubSeq(s, 1, n + 1) \in Seq(S) /\ Len(SubSeq(s, 1, n + 1)) = n + 1
        /\ \A i \in 1 .. n + 1 : SubSeq(s, 1, n + 1)[i] = s[i]
    BY <2>1
  <2> DEFINE a == SubSeq(s, 1, n)
             b == SubSeq(s, 1, n + 1)
             c == Append(a, s[n + 1])
  <2>5. c \in Seq(S) /\ Len(c) = n + 1 /\ \A i \in 1 .. n + 1 : c[i] = s[i]
    <3> HIDE DEF a
    <3>1. a \in Seq(S) /\ Len(a) = n /\ \A i \in 1 .. n : a[i] = s[i]
      BY <2>3 DEF a
    <3>2. s[n + 1] \in S
      BY <2>1
    <3> QED
      BY <3>1, <3>2
  <2>6. b = c
    <3> HIDE DEF b, c
    <3>1. b \in Seq(S) /\ Len(b) = n + 1 /\ \A i \in 1 .. n + 1 : b[i] = s[i]
      BY <2>4 DEF b
    <3> QED
      BY <3>1, <2>5, SeqEqual
  <2> QED
    BY <2>2, <2>6
<1>4. Nat = T
  <2> HIDE DEF T
  <2>1. T \in SUBSET Nat
    BY DEF T
  <2> QED
    BY <1>2, <1>3, <2>1, InductiveSet
<1>5. g[Len(s)] = SubSeq(s, 1, Len(s))
  BY <1>4
<1> QED
  BY <1>1, <1>5, SubSeqFull
=============================================================================
