----------------------------- MODULE FlattenProofs -----------------------------
(***************************************************************************)
(* What FlattenSeq returns for every sequence of sequences, and the way of *)
(* reasoning by induction it takes.                                        *)
(***************************************************************************)
EXTENDS SequencesExt, SequenceTheorems, WellFoundedInduction, TLAPS

\* Induction for a property given as the set of the numbers that have it.
LEMMA SetInduction ==
    ASSUME NEW S, 0 \in S, \A n \in Nat : n \in S => n + 1 \in S
    PROVE  Nat \subseteq S
<1> DEFINE T == Nat \ S
<1> SUFFICES ASSUME T # {} PROVE FALSE
  OBVIOUS
<1>1. PICK x \in T : \A y \in T : ~(<<y, x>> \in OpToRel(<, Nat))
  <2>1. T \subseteq Nat
    OBVIOUS
  <2> HIDE DEF T
  <2> QED
    BY <2>1, WFMin, NatLessThanWellFounded, Zenon
<1>2. x \in Nat /\ x # 0 /\ x - 1 \in Nat
  OBVIOUS
<1>3. x - 1 \in T
  OBVIOUS
<1>4. <<x - 1, x>> \in OpToRel(<, Nat)
  BY <1>2 DEF OpToRel
<1> QED
  BY <1>1, <1>3, <1>4

\* s holds the elements of the first n sequences of ss, in their order.
Laid(s, ss, n) ==
    /\ \A k \in 1..n : \A p \in DOMAIN ss[k] : \E i \in DOMAIN s : s[i] = ss[k][p]
    /\ \A i \in DOMAIN s : \E k \in 1..n : \E p \in DOMAIN ss[k] : s[i] = ss[k][p]
    /\ \A i, j \in DOMAIN s : i < j =>
          \E k, l \in 1..n : \E p \in DOMAIN ss[k], q \in DOMAIN ss[l] :
             /\ s[i] = ss[k][p] /\ s[j] = ss[l][q]
             /\ k < l \/ (k = l /\ p < q)

LEMMA LaidBehind ==
    ASSUME NEW S, NEW ss \in Seq(Seq(S)), NEW n \in Nat, n + 1 \in 1..Len(ss),
           NEW s \in Seq(S), Laid(s, ss, n)
    PROVE  Laid(s \o ss[n + 1], ss, n + 1)
<1> DEFINE t == ss[n + 1]
           u == s \o t
<1>1. t \in Seq(S) /\ u \in Seq(S) /\ n + 1 \in 1..n + 1 /\ 1..n \subseteq 1..n + 1
  OBVIOUS
<1>2. /\ Len(s) \in Nat /\ Len(t) \in Nat /\ Len(u) = Len(s) + Len(t)
      /\ DOMAIN s = 1..Len(s) /\ DOMAIN t = 1..Len(t) /\ DOMAIN u = 1..Len(s) + Len(t)
      /\ \A i \in DOMAIN s : u[i] = s[i]
      /\ \A p \in DOMAIN t : u[Len(s) + p] = t[p]
  BY <1>1
<1>3. ss[n + 1] = t
  OBVIOUS
<1> HIDE DEF t, u
<1>4. \A i \in DOMAIN u : i \in DOMAIN s \/ \E p \in DOMAIN t : i = Len(s) + p
  <2> SUFFICES ASSUME NEW i \in DOMAIN u, i \notin DOMAIN s
               PROVE  \E p \in DOMAIN t : i = Len(s) + p
    OBVIOUS
  <2>1. i - Len(s) \in 1..Len(t) /\ i = Len(s) + (i - Len(s))
    BY <1>2
  <2> QED
    BY <1>2, <2>1
<1>5. ASSUME NEW k \in 1..n + 1, NEW p \in DOMAIN ss[k]
      PROVE  \E i \in DOMAIN u : u[i] = ss[k][p]
  <2>1. CASE k \in 1..n
    <3>1. PICK i \in DOMAIN s : s[i] = ss[k][p]
      BY <2>1 DEF Laid
    <3>2. i \in DOMAIN u /\ u[i] = s[i]
      BY <1>2
    <3> QED
      BY <3>1, <3>2
  <2>2. CASE k = n + 1
    <3>1. p \in DOMAIN t /\ ss[k][p] = t[p]
      BY <1>3, <2>2
    <3>2. Len(s) + p \in DOMAIN u /\ u[Len(s) + p] = t[p]
      BY <1>2, <3>1
    <3> QED
      BY <3>1, <3>2
  <2> QED
    BY <2>1, <2>2
<1>6. ASSUME NEW i \in DOMAIN u
      PROVE  \E k \in 1..n + 1 : \E p \in DOMAIN ss[k] : u[i] = ss[k][p]
  <2>1. CASE i \in DOMAIN s
    <3>1. PICK k \in 1..n : \E p \in DOMAIN ss[k] : s[i] = ss[k][p]
      BY <2>1 DEF Laid
    <3> QED
      BY <1>1, <1>2, <2>1, <3>1
  <2>2. CASE \E p \in DOMAIN t : i = Len(s) + p
    BY <1>1, <1>2, <1>3, <2>2
  <2> QED
    BY <1>4, <2>1, <2>2
<1>7. ASSUME NEW i \in DOMAIN u, NEW j \in DOMAIN u, i < j
      PROVE  \E k, l \in 1..n + 1 : \E p \in DOMAIN ss[k], q \in DOMAIN ss[l] :
                /\ u[i] = ss[k][p] /\ u[j] = ss[l][q]
                /\ k < l \/ (k = l /\ p < q)
  <2>1. CASE j \in DOMAIN s
    <3>1. i \in DOMAIN s
      BY <1>2, <1>7, <2>1
    <3>2. PICK k \in 1..n, l \in 1..n : \E p \in DOMAIN ss[k], q \in DOMAIN ss[l] :
                /\ s[i] = ss[k][p] /\ s[j] = ss[l][q]
                /\ k < l \/ (k = l /\ p < q)
      BY <1>7, <2>1, <3>1 DEF Laid
    <3>3. u[i] = s[i] /\ u[j] = s[j] /\ k \in 1..n + 1 /\ l \in 1..n + 1
      BY <1>1, <1>2, <2>1, <3>1
    <3> QED
      BY <3>2, <3>3
  <2>2. ASSUME i \in DOMAIN s, NEW q \in DOMAIN t, j = Len(s) + q
        PROVE  \E k, l \in 1..n + 1 : \E p \in DOMAIN ss[k], r \in DOMAIN ss[l] :
                  /\ u[i] = ss[k][p] /\ u[j] = ss[l][r]
                  /\ k < l \/ (k = l /\ p < r)
    <3>1. PICK k \in 1..n : \E p \in DOMAIN ss[k] : s[i] = ss[k][p]
      BY <2>2 DEF Laid
    <3>2. PICK p \in DOMAIN ss[k] : s[i] = ss[k][p]
      BY <3>1
    <3>3. u[i] = ss[k][p] /\ u[j] = ss[n + 1][q] /\ q \in DOMAIN ss[n + 1] /\ k < n + 1
      BY <1>2, <1>3, <2>2, <3>2
    <3> QED
      BY <1>1, <3>3
  <2>3. ASSUME NEW p \in DOMAIN t, NEW q \in DOMAIN t, i = Len(s) + p, j = Len(s) + q
        PROVE  \E k, l \in 1..n + 1 : \E r \in DOMAIN ss[k], m \in DOMAIN ss[l] :
                  /\ u[i] = ss[k][r] /\ u[j] = ss[l][m]
                  /\ k < l \/ (k = l /\ r < m)
    <3>1. p < q
      BY <1>2, <1>7, <2>3
    <3>2. /\ u[i] = ss[n + 1][p] /\ u[j] = ss[n + 1][q]
          /\ p \in DOMAIN ss[n + 1] /\ q \in DOMAIN ss[n + 1]
      BY <1>2, <1>3, <2>3
    <3> QED
      BY <1>1, <3>1, <3>2
  <2>4. ASSUME NEW p \in DOMAIN t, i = Len(s) + p, j \in DOMAIN s PROVE FALSE
    BY <1>2, <1>7, <2>4
  <2> QED
    BY <1>4, <2>1, <2>2, <2>3, <2>4
<1> QED
  BY <1>5, <1>6, <1>7 DEF Laid, t, u

\* Sequences of elements of S are laid one behind the other, and make a sequence
\* of them.
LEMMA FlattenProperties ==
    ASSUME NEW S, NEW ss \in Seq(Seq(S))
    PROVE  FlattenSeq(ss) \in Seq(S) /\ Laid(FlattenSeq(ss), ss, Len(ss))
<1> DEFINE n == Len(ss)
           Value(f, i) == IF i = 1 THEN ss[i] ELSE f[i - 1] \o ss[i]
           Solves(f, k) == f = [i \in 1..k |-> Value(f, i)]
           flatten == CHOOSE f : Solves(f, n)
<1>1. n \in Nat /\ \A i \in 1..n : ss[i] \in Seq(S)
  OBVIOUS
<1>2. CASE n = 0
  <2>1. FlattenSeq(ss) = ss /\ ss = <<>>
    BY <1>2 DEF FlattenSeq
  <2>2. Laid(ss, ss, n)
    BY <1>2, <2>1 DEF Laid
  <2> QED
    BY <2>1, <2>2
<1>3. CASE n # 0
  <2>1. FlattenSeq(ss) = flatten[n]
    BY <1>3 DEF FlattenSeq
  <2>2. \E f : Solves(f, n)
    <3> DEFINE D == {k \in Nat : \E f : Solves(f, k)}
    <3>1. 0 \in D
      <4>1. Solves([i \in 1..0 |-> 0], 0)
        OBVIOUS
      <4> QED
        BY <4>1
    <3>2. ASSUME NEW k \in Nat, k \in D PROVE k + 1 \in D
      <4>1. PICK f : Solves(f, k)
        BY <3>2
      <4> DEFINE g == [i \in 1..k + 1 |-> Value(f, i)]
      <4>2. ASSUME NEW i \in 1..k + 1 PROVE Value(f, i) = Value(g, i)
        <5>1. CASE i = 1
          BY <5>1
        <5>2. CASE i # 1
          <6>1. i - 1 \in 1..k /\ i - 1 \in 1..k + 1
            BY <5>2
          <6>2. f[i - 1] = Value(f, i - 1)
            BY <4>1, <6>1
          <6>3. g[i - 1] = Value(f, i - 1)
            BY <6>1
          <6> QED
            BY <6>2, <6>3
        <5> QED
          BY <5>1, <5>2
      <4>3. Solves(g, k + 1)
        BY <4>2
      <4>4. k + 1 \in Nat
        OBVIOUS
      <4>5. \E h : Solves(h, k + 1)
        <5> HIDE DEF g
        <5> QED
          BY <4>3, Zenon
      <4> HIDE DEF g, Solves
      <4> QED
        BY <4>4, <4>5
    <3>3. Nat \subseteq D
      <4> HIDE DEF D
      <4>1. \A k \in Nat : k \in D => k + 1 \in D
        BY <3>2
      <4> QED
        BY <3>1, <4>1, SetInduction
    <3> QED
      BY <1>1, <3>3
  <2>3. Solves(flatten, n)
    BY <2>2
  <2> DEFINE Good(k) == flatten[k] \in Seq(S) /\ Laid(flatten[k], ss, k)
             E == {k \in Nat : k \in 1..n => Good(k)}
  <2> HIDE DEF flatten
  <2>4. 0 \in E
    OBVIOUS
  <2>5. ASSUME NEW k \in Nat, k \in E PROVE k + 1 \in E
    <3> SUFFICES ASSUME k + 1 \in 1..n PROVE Good(k + 1)
      OBVIOUS
    <3>1. flatten[k + 1] = Value(flatten, k + 1)
      BY <2>3
    <3>2. CASE k = 0
      <4>1. flatten[1] = ss[1] /\ ss[1] \in Seq(S)
        BY <1>1, <3>1, <3>2
      <4> DEFINE s == ss[1]
      <4>2. Laid(s, ss, 1)
        <5>1. s \in Seq(S) /\ s = ss[1] /\ 1..1 = {1}
          BY <4>1
        <5>2. DOMAIN s = 1..Len(s)
          BY <5>1
        <5> HIDE DEF s
        <5> QED
          BY <5>1, <5>2 DEF Laid
      <4> HIDE DEF Solves
      <4> QED
        BY <3>2, <4>1, <4>2
    <3>3. CASE k # 0
      <4>1. k \in 1..n /\ k + 1 # 1 /\ k + 1 - 1 = k
        BY <3>3, <1>1
      <4>2. Good(k) /\ ss[k + 1] \in Seq(S)
        BY <4>1, <2>5, <1>1
      <4>3. flatten[k + 1] = flatten[k] \o ss[k + 1]
        <5> DEFINE j == k + 1
        <5> HIDE DEF j
        <5>1. j # 1 /\ j - 1 = k /\ flatten[j] = Value(flatten, j)
          BY <3>1, <4>1 DEF j
        <5> QED
          BY <5>1 DEF j
      <4>4. flatten[k] \o ss[k + 1] \in Seq(S)
        BY <4>2
      <4>5. Laid(flatten[k] \o ss[k + 1], ss, k + 1)
        BY <4>2, LaidBehind
      <4> QED
        BY <4>3, <4>4, <4>5
    <3> QED
      BY <3>2, <3>3
  <2>6. Nat \subseteq E
    <3> HIDE DEF E
    <3>1. \A k \in Nat : k \in E => k + 1 \in E
      BY <2>5
    <3> QED
      BY <2>4, <3>1, SetInduction
  <2>7. Good(n)
    BY <1>1, <1>3, <2>6
  <2> HIDE DEF Solves
  <2> QED
    BY <2>1, <2>7
<1> QED
  BY <1>2, <1>3
===============================================================================
