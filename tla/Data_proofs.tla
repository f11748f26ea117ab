----------------------------- MODULE Data_proofs -----------------------------
(***************************************************************************)
(* What the other proofs use of numbers, sequences and folds, and of the   *)
(* dictionary of the memory level: one slot per key, no more slots than    *)
(* the bound, no slot that was not there or put there.                     *)
(***************************************************************************)
EXTENDS LruStore, Integers, FiniteSets, SequencesExt, FiniteSetTheorems, FunctionTheorems,
        SequenceTheorems, WellFoundedInduction, TLAPS

(***************************************************************************)
(* The first of a set of numbers exists.                                   *)
(***************************************************************************)
LEMMA LeastExists ==
  ASSUME NEW S \in SUBSET Nat, S # {}
  PROVE  \E x \in S : \A y \in S : x <= y
<1> DEFINE Below(x) == S \cap (0 .. x)
           T == {Below(x) : x \in S}
<1>1. \A x \in S : Below(x) \in FiniteSubsetsOf(S)
  <2> SUFFICES ASSUME NEW x \in S PROVE IsFiniteSet(Below(x))
    BY DEF FiniteSubsetsOf
  <2>1. IsFiniteSet(0 .. x) BY FS_Interval
  <2> QED BY <2>1, FS_Subset
<1>2. T \subseteq FiniteSubsetsOf(S) /\ T # {} BY <1>1
<1>3. IsWellFoundedOn(StrictSubsetOrdering(S), FiniteSubsetsOf(S))
  BY FS_StrictSubsetOrderingWellFounded
<1> HIDE DEF T
<1>4. PICK U \in T : \A V \in T : <<V, U>> \notin StrictSubsetOrdering(S)
  BY <1>2, <1>3, WFMin
<1>5. PICK x \in S : U = Below(x) BY <1>4 DEF T
<1>6. ASSUME NEW y \in S, y < x PROVE FALSE
  <2>1. Below(y) \in T BY DEF T
  <2>2. Below(y) \subseteq Below(x) /\ x \in Below(x) /\ x \notin Below(y)
    BY <1>6
  <2>3. <<Below(y), Below(x)>> \in StrictSubsetOrdering(S)
    BY <2>2 DEF StrictSubsetOrdering
  <2> QED BY <2>1, <2>3, <1>4, <1>5
<1> QED BY <1>6

\* Induction, for what can be said of a number as its being in a set.
LEMMA Induction ==
  ASSUME NEW P, 0 \in P, \A n \in Nat : n \in P => n + 1 \in P
  PROVE  Nat \subseteq P
<1> DEFINE S == Nat \ P
<1> SUFFICES ASSUME S # {} PROVE FALSE
  OBVIOUS
<1>1. S \in SUBSET Nat OBVIOUS
<1> HIDE DEF S
<1>2. PICK x \in S : \A y \in S : x <= y BY <1>1, LeastExists
<1>3. x \in Nat /\ x \notin P BY DEF S
<1>4. x - 1 \in Nat /\ (x - 1) + 1 = x BY <1>3
<1>5. x - 1 \notin S BY <1>2, <1>3
<1> QED BY <1>3, <1>4, <1>5 DEF S

(***************************************************************************)
(* A fold has a value: a function of the subsets of a finite set that      *)
(* takes one element at a time, the one C chooses, into account.           *)
(***************************************************************************)
Folds2(g, S, b, F, C) ==
  \A s \in SUBSET S : g[s] = IF s = {} THEN b ELSE F[<<g[s \ {C[s]}], C[s]>>]

LEMMA FoldExists ==
  ASSUME NEW S, IsFiniteSet(S), NEW X, NEW b \in X, NEW F \in [X \X S -> X],
         NEW C, \A s \in SUBSET S : s # {} => C[s] \in s
  PROVE  \E g \in [SUBSET S -> X] : Folds2(g, S, b, F, C)
<1> DEFINE Small(k) == {s \in SUBSET S : Cardinality(s) <= k}
           Upto(k, g) == \A s \in Small(k) : g[s] = IF s = {} THEN b ELSE F[<<g[s \ {C[s]}], C[s]>>]
           P == {k \in Nat : \E g \in [Small(k) -> X] : Upto(k, g)}
<1>1. \A s \in SUBSET S : /\ IsFiniteSet(s) /\ Cardinality(s) \in Nat
                          /\ Cardinality(s) <= Cardinality(S)
                          /\ (Cardinality(s) = 0 <=> s = {})
  BY FS_Subset, FS_CardinalityType, FS_EmptySet
<1>2. \A s \in SUBSET S : s # {} =>
        /\ C[s] \in S /\ s \ {C[s]} \in SUBSET S
        /\ Cardinality(s \ {C[s]}) = Cardinality(s) - 1
  BY <1>1, FS_RemoveElement
<1>3. 0 \in P
  <2> DEFINE g == [s \in Small(0) |-> b]
  <2>1. \A s \in Small(0) : s = {} BY <1>1
  <2>2. g \in [Small(0) -> X] /\ Upto(0, g) BY <2>1
  <2> QED BY <2>2
<1>4. ASSUME NEW k \in Nat, k \in P PROVE k + 1 \in P
  <2>1. PICK g \in [Small(k) -> X] : Upto(k, g) BY <1>4
  <2> DEFINE h == [s \in Small(k + 1) |-> IF s \in Small(k) THEN g[s] ELSE F[<<g[s \ {C[s]}], C[s]>>]]
  <2>2. \A s \in Small(k + 1) : s # {} => s \ {C[s]} \in Small(k)
    <3> SUFFICES ASSUME NEW s \in Small(k + 1), s # {} PROVE s \ {C[s]} \in Small(k)
      OBVIOUS
    <3>1. Cardinality(s) \in Nat /\ Cardinality(s) <= k + 1 BY <1>1
    <3>2. Cardinality(s) - 1 <= k BY <3>1
    <3> QED BY <1>2, <3>2
  <2>3. \A s \in Small(k + 1) : s \notin Small(k) => s # {}
    BY <1>1
  <2>4. Small(k) \subseteq Small(k + 1)
    <3> SUFFICES ASSUME NEW s \in Small(k) PROVE Cardinality(s) <= k + 1
      OBVIOUS
    <3>1. Cardinality(s) \in Nat /\ Cardinality(s) <= k BY <1>1
    <3> QED BY <3>1
  <2>5. \A s \in Small(k) : s # {} => s \ {C[s]} \in Small(k) BY <2>2, <2>4
  <2> DEFINE A == Small(k)
             B == Small(k + 1)
  <2>6. h = [s \in B |-> IF s \in A THEN g[s] ELSE F[<<g[s \ {C[s]}], C[s]>>]] OBVIOUS
  <2>7. \A s \in B : s # {} => C[s] \in S BY <1>2
  <2>8. g \in [A -> X] /\ \A s \in A : g[s] = IF s = {} THEN b ELSE F[<<g[s \ {C[s]}], C[s]>>] BY <2>1
  <2>9. /\ \A s \in B : s # {} => s \ {C[s]} \in A
        /\ \A s \in B : s \notin A => s # {}
        /\ A \subseteq B
    BY <2>2, <2>3, <2>4
  <2> HIDE DEF A, B, h
  <2>10. h \in [B -> X]
    <3> SUFFICES ASSUME NEW s \in B PROVE (IF s \in A THEN g[s] ELSE F[<<g[s \ {C[s]}], C[s]>>]) \in X
      BY <2>6
    <3>1. CASE s \in A BY <2>8, <3>1
    <3>2. CASE s \notin A
      <4>1. g[s \ {C[s]}] \in X /\ C[s] \in S BY <2>7, <2>8, <2>9, <3>2
      <4> QED BY <3>2, <4>1
    <3> QED BY <3>1, <3>2
  <2>11. \A s \in A : h[s] = g[s] BY <2>6, <2>9
  <2>12. \A s \in B : h[s] = IF s = {} THEN b ELSE F[<<h[s \ {C[s]}], C[s]>>]
    <3> SUFFICES ASSUME NEW s \in B PROVE h[s] = IF s = {} THEN b ELSE F[<<h[s \ {C[s]}], C[s]>>]
      OBVIOUS
    <3>1. CASE s = {}
      <4>1. s \in A BY <2>9, <3>1
      <4> QED BY <2>8, <2>11, <3>1, <4>1
    <3>2. CASE s # {}
      <4>1. h[s \ {C[s]}] = g[s \ {C[s]}] BY <2>9, <2>11, <3>2
      <4>2. h[s] = F[<<g[s \ {C[s]}], C[s]>>] BY <2>6, <2>8, <3>2
      <4> QED BY <3>2, <4>1, <4>2
    <3> QED BY <3>1, <3>2
  <2>13. h \in [Small(k + 1) -> X] /\ Upto(k + 1, h) BY <2>10, <2>12 DEF B
  <2>14. \E e \in [Small(k + 1) -> X] : Upto(k + 1, e) BY <2>13
  <2>15. k + 1 \in Nat OBVIOUS
  <2> HIDE DEF Small, Upto
  <2> QED BY <2>14, <2>15
<1> HIDE DEF P
<1>5. Nat \subseteq P BY <1>3, <1>4, Induction
<1>6. Cardinality(S) \in Nat /\ Small(Cardinality(S)) = SUBSET S BY <1>1
<1>7. PICK g \in [Small(Cardinality(S)) -> X] : Upto(Cardinality(S), g) BY <1>5, <1>6 DEF P
<1> QED BY <1>6, <1>7 DEF Folds2

(***************************************************************************)
(* Sequences.                                                              *)
(***************************************************************************)
LEMMA FunctionIsSeq ==
  ASSUME NEW S, NEW n \in Nat, NEW f \in [1 .. n -> S]
  PROVE  f \in Seq(S) /\ Len(f) = n
<1>1. f \in Seq(S) BY SeqDef
<1>2. Len(f) \in Nat /\ DOMAIN f = 1 .. Len(f) BY <1>1, LenProperties
<1>3. 1 .. Len(f) = 1 .. n BY <1>2
<1>4. Len(f) = n
  <2>1. CASE Len(f) < n
    <3>1. n \in 1 .. n /\ n \notin 1 .. Len(f) BY <1>2, <2>1
    <3> QED BY <1>3, <3>1
  <2>2. CASE Len(f) > n
    <3>1. Len(f) \in 1 .. Len(f) /\ Len(f) \notin 1 .. n BY <1>2, <2>2
    <3> QED BY <1>3, <3>1
  <2> QED BY <1>2, <2>1, <2>2
<1> QED BY <1>1, <1>4

\* A sequence without its element at p.
LEMMA RemoveAtPlace ==
  ASSUME NEW S, NEW s \in Seq(S), NEW p \in 1 .. Len(s)
  PROVE  /\ SubSeq(s, 1, p - 1) \o SubSeq(s, p + 1, Len(s)) \in Seq(S)
         /\ Len(SubSeq(s, 1, p - 1) \o SubSeq(s, p + 1, Len(s))) = Len(s) - 1
         /\ \A i \in 1 .. Len(s) - 1 :
              (SubSeq(s, 1, p - 1) \o SubSeq(s, p + 1, Len(s)))[i] = IF i < p THEN s[i] ELSE s[i + 1]
<1> DEFINE a == SubSeq(s, 1, p - 1)
           b == SubSeq(s, p + 1, Len(s))
<1>1. Len(s) \in Nat /\ s \in [1 .. Len(s) -> S] /\ p \in Int /\ p >= 1 /\ p <= Len(s)
  BY LenProperties
<1>2. /\ a \in Seq(S) /\ Len(a) = p - 1 /\ \A i \in 1 .. p - 1 : a[i] = s[i]
  <2>1. 1 \in Int /\ p - 1 \in Int /\ \A i \in 1 .. p - 1 : s[i] \in S BY <1>1
  <2>2. /\ a \in Seq(S) /\ Len(a) = IF 1 <= p - 1 THEN p - 1 - 1 + 1 ELSE 0
        /\ \A i \in 1 .. (p - 1) - 1 + 1 : a[i] = s[1 + i - 1]
    BY <2>1, SubSeqProperties
  <2> HIDE DEF a
  <2> QED BY <1>1, <2>2
<1>3. /\ b \in Seq(S) /\ Len(b) = Len(s) - p
      /\ \A i \in 1 .. Len(s) - p : b[i] = s[p + i]
  <2>1. p + 1 \in Int /\ Len(s) \in Int /\ \A i \in p + 1 .. Len(s) : s[i] \in S BY <1>1
  <2>2. /\ b \in Seq(S) /\ Len(b) = IF p + 1 <= Len(s) THEN Len(s) - (p + 1) + 1 ELSE 0
        /\ \A i \in 1 .. Len(s) - (p + 1) + 1 : b[i] = s[p + 1 + i - 1]
    BY <2>1, SubSeqProperties
  <2> HIDE DEF b
  <2>3. \A i \in 1 .. Len(s) - p : i \in 1 .. Len(s) - (p + 1) + 1 /\ p + 1 + i - 1 = p + i
    BY <1>1
  <2>4. \A i \in 1 .. Len(s) - p : b[i] = s[p + i] BY <2>2, <2>3
  <2>5. Len(b) = Len(s) - p
    <3>1. Len(b) = IF p + 1 <= Len(s) THEN Len(s) - (p + 1) + 1 ELSE 0 BY <2>2
    <3>2. CASE p + 1 <= Len(s) BY <1>1, <3>1, <3>2
    <3>3. CASE ~(p + 1 <= Len(s))
      <4>1. \A m, n \in Int : m <= n /\ ~(m + 1 <= n) => n - m = 0 OBVIOUS
      <4>2. p \in Int /\ Len(s) \in Int /\ p <= Len(s) BY <1>1
      <4>3. Len(s) - p = 0 BY <3>3, <4>1, <4>2
      <4> QED BY <3>1, <3>3, <4>3
    <3> QED BY <3>2, <3>3
  <2> QED BY <2>2, <2>4, <2>5
<1> HIDE DEF a, b
<1>4. /\ a \o b \in Seq(S) /\ Len(a \o b) = Len(a) + Len(b)
      /\ \A i \in 1 .. Len(a) + Len(b) : (a \o b)[i] = IF i <= Len(a) THEN a[i] ELSE b[i - Len(a)]
  BY <1>2, <1>3, ConcatProperties
<1>5. ASSUME NEW i \in 1 .. Len(s) - 1
      PROVE  (a \o b)[i] = IF i < p THEN s[i] ELSE s[i + 1]
  <2>1. CASE i < p
    <3>1. i <= Len(a) /\ i \in 1 .. p - 1 /\ i \in 1 .. Len(a) + Len(b) BY <1>1, <1>2, <1>3, <2>1
    <3>2. (a \o b)[i] = a[i] BY <1>4, <3>1
    <3> QED BY <1>2, <2>1, <3>1, <3>2
  <2>2. CASE ~(i < p)
    <3>1. ~(i <= Len(a)) /\ i - Len(a) \in 1 .. Len(s) - p /\ i \in 1 .. Len(a) + Len(b)
          /\ p + (i - Len(a)) = i + 1
      BY <1>1, <1>2, <1>3, <2>2
    <3>2. (a \o b)[i] = b[i - Len(a)] BY <1>4, <3>1
    <3>3. b[i - Len(a)] = s[p + (i - Len(a))] BY <1>3, <3>1
    <3> QED BY <2>2, <3>1, <3>2, <3>3
  <2> QED BY <2>1, <2>2
<1>6. Len(a \o b) = Len(s) - 1 BY <1>1, <1>2, <1>3, <1>4
<1> QED BY <1>4, <1>5, <1>6 DEF a, b

LEMMA Prefix ==
  ASSUME NEW S, NEW s \in Seq(S), NEW n \in 0 .. Len(s)
  PROVE  /\ SubSeq(s, 1, n) \in Seq(S) /\ Len(SubSeq(s, 1, n)) = n
         /\ \A i \in 1 .. n : SubSeq(s, 1, n)[i] = s[i]
<1>1. Len(s) \in Nat /\ s \in [1 .. Len(s) -> S] BY LenProperties
<1>2. 1 \in Int /\ n \in Int /\ n >= 0 /\ \A i \in 1 .. n : s[i] \in S BY <1>1
<1>3. /\ SubSeq(s, 1, n) \in Seq(S) /\ Len(SubSeq(s, 1, n)) = IF 1 <= n THEN n - 1 + 1 ELSE 0
      /\ \A i \in 1 .. n - 1 + 1 : SubSeq(s, 1, n)[i] = s[1 + i - 1]
  BY <1>2, SubSeqProperties
<1> QED BY <1>2, <1>3

LEMMA Suffix ==
  ASSUME NEW S, NEW s \in Seq(S), NEW n \in 0 .. Len(s)
  PROVE  /\ SubSeq(s, n + 1, Len(s)) \in Seq(S) /\ Len(SubSeq(s, n + 1, Len(s))) = Len(s) - n
         /\ \A i \in 1 .. Len(s) - n : SubSeq(s, n + 1, Len(s))[i] = s[n + i]
<1>1. Len(s) \in Nat /\ s \in [1 .. Len(s) -> S] BY LenProperties
<1>2. n + 1 \in Int /\ Len(s) \in Int /\ \A i \in n + 1 .. Len(s) : s[i] \in S BY <1>1
<1> DEFINE r == SubSeq(s, n + 1, Len(s))
<1>3. /\ r \in Seq(S) /\ Len(r) = IF n + 1 <= Len(s) THEN Len(s) - (n + 1) + 1 ELSE 0
      /\ \A i \in 1 .. Len(s) - (n + 1) + 1 : r[i] = s[n + 1 + i - 1]
  BY <1>2, SubSeqProperties
<1> HIDE DEF r
<1>4. n \in Int /\ Len(s) \in Int /\ n <= Len(s) BY <1>1
<1>5. (IF n + 1 <= Len(s) THEN Len(s) - (n + 1) + 1 ELSE 0) = Len(s) - n BY <1>4
<1>6. \A i \in 1 .. Len(s) - n : i \in 1 .. Len(s) - (n + 1) + 1 /\ n + 1 + i - 1 = n + i BY <1>4
<1>7. \A i \in 1 .. Len(s) - n : r[i] = s[n + i] BY <1>3, <1>6
<1>8. r \in Seq(S) /\ Len(r) = Len(s) - n BY <1>3, <1>5
<1> QED BY <1>7, <1>8 DEF r

(***************************************************************************)
(* Concatenation, flattening and membership.                               *)
(***************************************************************************)
LEMMA ConcatType ==
  \A S : \A s, t \in Seq(S) : s \o t \in Seq(S)
BY ConcatProperties

\* Under a name of its own the provers do not take \o apart.
Concat(s, t) == s \o t

LEMMA Associative ==
  \A S : \A s, t, u \in Seq(S) : Concat(Concat(s, t), u) = Concat(s, Concat(t, u))
BY ConcatAssociative DEF Concat

(***************************************************************************)
(* Joining texts.                                                          *)
(***************************************************************************)
\* f[i] is what the first i sequences of s give.
Joins(f, s, S) ==
  /\ f \in [0 .. Len(s) -> Seq(S)] /\ f[0] = <<>>
  /\ \A i \in 1 .. Len(s) : f[i] = f[i - 1] \o s[i]

IsJoin(s, g) == g = [i \in 1 .. Len(s) |-> IF i = 1 THEN s[i] ELSE g[i - 1] \o s[i]]

Joined(s) == CHOOSE g : IsJoin(s, g)

LEMMA JoinExists ==
  ASSUME NEW S, NEW s \in Seq(Seq(S))
  PROVE  \E g : IsJoin(s, g)
<1> DEFINE T(k) == {g \in [1 .. k -> Seq(S)] :
                      \A i \in 1 .. k : g[i] = IF i = 1 THEN s[i] ELSE g[i - 1] \o s[i]}
           P == {k \in Nat : k <= Len(s) => T(k) # {}}
<1>1. Len(s) \in Nat /\ \A i \in 1 .. Len(s) : s[i] \in Seq(S) BY LenProperties
<1>2. 0 \in P
  <2>1. [i \in 1 .. 0 |-> <<>>] \in T(0) OBVIOUS
  <2> QED BY <2>1
<1>3. ASSUME NEW k \in Nat, k \in P, k + 1 <= Len(s) PROVE T(k + 1) # {}
  <2>1. k <= Len(s) /\ k + 1 \in 1 .. Len(s)
    <3>1. k \in Nat /\ k + 1 <= Len(s) /\ Len(s) \in Nat BY <1>1, <1>3
    <3> HIDE DEF P, T
    <3> QED BY <3>1
  <2>2. PICK g \in T(k) : TRUE BY <1>3, <2>1
  <2> DEFINE h == [i \in 1 .. k + 1 |-> IF i = k + 1 THEN IF k = 0 THEN s[1] ELSE g[k] \o s[k + 1]
                                        ELSE g[i]]
  <2>3. /\ g \in [1 .. k -> Seq(S)]
        /\ \A i \in 1 .. k : g[i] = IF i = 1 THEN s[i] ELSE g[i - 1] \o s[i]
    BY <2>2
  <2>4. (IF k = 0 THEN s[1] ELSE g[k] \o s[k + 1]) \in Seq(S)
    <3>1. CASE k = 0 BY <1>1, <2>1, <3>1
    <3>2. CASE k # 0
      <4>1. k \in 1 .. k BY <3>2
      <4>2. g[k] \in Seq(S) /\ s[k + 1] \in Seq(S) BY <1>1, <2>1, <2>3, <4>1
      <4>3. g[k] \o s[k + 1] \in Seq(S) BY <4>2, ConcatProperties
      <4> QED BY <3>2, <4>3
    <3> QED BY <3>1, <3>2
  <2>5. \A i \in 1 .. k + 1 : i # k + 1 => i \in 1 .. k OBVIOUS
  <2>6. h \in [1 .. k + 1 -> Seq(S)] BY <2>3, <2>4, <2>5
  <2>7. ASSUME NEW i \in 1 .. k + 1 PROVE h[i] = IF i = 1 THEN s[i] ELSE h[i - 1] \o s[i]
    <3>1. CASE i = k + 1
      <4>1. CASE k = 0 BY <3>1, <4>1
      <4>2. CASE k # 0
        <5>1. i # 1 /\ i - 1 = k /\ k \in 1 .. k + 1 /\ k # k + 1 BY <3>1, <4>2
        <5>2. h[i - 1] = g[k] BY <5>1
        <5> QED BY <3>1, <4>2, <5>1, <5>2
      <4> QED BY <4>1, <4>2
    <3>2. CASE i # k + 1
      <4>1. i \in 1 .. k /\ h[i] = g[i] BY <2>5, <3>2
      <4>2. i # 1 => i - 1 \in 1 .. k + 1 /\ i - 1 # k + 1 /\ h[i - 1] = g[i - 1] BY <4>1
      <4> QED BY <2>3, <4>1, <4>2
    <3> QED BY <3>1, <3>2
  <2>8. h \in T(k + 1) BY <2>6, <2>7
  <2> QED BY <2>8
<1> HIDE DEF T
<1>3a. \A k \in Nat : k \in P => k + 1 \in P
  <2> SUFFICES ASSUME NEW k \in Nat, k \in P PROVE k + 1 \in P
    OBVIOUS
  <2>1. k + 1 <= Len(s) => T(k + 1) # {} BY <1>3
  <2>2. k + 1 \in Nat OBVIOUS
  <2> QED BY <2>1, <2>2
<1> HIDE DEF P
<1>4. Nat \subseteq P BY <1>2, <1>3a, Induction
<1>5. T(Len(s)) # {} BY <1>1, <1>4 DEF P
<1>6. PICK g \in T(Len(s)) : TRUE BY <1>5
<1>7. g \in [1 .. Len(s) -> Seq(S)]
      /\ \A i \in 1 .. Len(s) : g[i] = IF i = 1 THEN s[i] ELSE g[i - 1] \o s[i]
  BY <1>6 DEF T
<1>8. g = [i \in 1 .. Len(s) |-> IF i = 1 THEN s[i] ELSE g[i - 1] \o s[i]] BY <1>7
<1> QED BY <1>8 DEF IsJoin

LEMMA JoinedIs ==
  ASSUME NEW S, NEW s \in Seq(Seq(S))
  PROVE  Joined(s) = [i \in 1 .. Len(s) |-> IF i = 1 THEN s[i] ELSE Joined(s)[i - 1] \o s[i]]
<1>1. \E g : IsJoin(s, g) BY JoinExists
<1>2. IsJoin(s, Joined(s)) BY <1>1 DEF Joined
<1> QED BY <1>2 DEF IsJoin

LEMMA FlattenIs ==
  ASSUME NEW s
  PROVE  FlattenSeq(s) = IF Len(s) = 0 THEN s ELSE Joined(s)[Len(s)]
BY DEF FlattenSeq, Joined, IsJoin

LEMMA FlattenJoins ==
  ASSUME NEW S, NEW s \in Seq(Seq(S))
  PROVE  \E f : Joins(f, s, S) /\ FlattenSeq(s) = f[Len(s)]
<1> DEFINE g == Joined(s)
           n == Len(s)
           f == [i \in 0 .. n |-> IF i = 0 THEN <<>> ELSE g[i]]
           P == {k \in Nat : k <= n => f[k] \in Seq(S)}
<1>1. n \in Nat /\ \A i \in 1 .. n : s[i] \in Seq(S) BY LenProperties
<1>2. g = [i \in 1 .. n |-> IF i = 1 THEN s[i] ELSE g[i - 1] \o s[i]] BY JoinedIs
<1> HIDE DEF g
<1>2a. \A i \in 1 .. n : g[i] = IF i = 1 THEN s[i] ELSE g[i - 1] \o s[i]
  <2> DEFINE h == [i \in 1 .. n |-> IF i = 1 THEN s[i] ELSE g[i - 1] \o s[i]]
  <2>1. \A i \in 1 .. n : h[i] = IF i = 1 THEN s[i] ELSE g[i - 1] \o s[i] OBVIOUS
  <2>2. g = h BY <1>2
  <2> HIDE DEF h
  <2> QED BY <2>1, <2>2
<1>3. \A i \in 1 .. n : /\ i - 1 \in 0 .. n /\ i \in 0 .. n /\ i # 0 /\ f[i] = g[i]
                        /\ i # 1 => f[i - 1] = g[i - 1]
  BY <1>1
<1>4. f[0] = <<>> BY <1>1
<1>5. DOMAIN f = 0 .. n OBVIOUS
<1> HIDE DEF n, f
<1>6. \A i \in 1 .. n : f[i] = f[i - 1] \o s[i]
  <2> SUFFICES ASSUME NEW i \in 1 .. n PROVE f[i] = f[i - 1] \o s[i]
    OBVIOUS
  <2>1. CASE i = 1
    <3>1. f[i - 1] = <<>> BY <1>4, <2>1
    <3>2. <<>> \o s[i] = s[i] BY <1>1, ConcatEmptySeq
    <3> QED BY <1>2a, <1>3, <2>1, <3>1, <3>2
  <2>2. CASE i # 1 BY <1>2a, <1>3, <2>2
  <2> QED BY <2>1, <2>2
<1>7. 0 \in P
  <2>1. <<>> \in Seq(S) BY EmptySeq
  <2> QED BY <1>4, <2>1
<1>8. ASSUME NEW k \in Nat, k \in P PROVE k + 1 \in P
  <2> SUFFICES ASSUME k + 1 <= n PROVE f[k + 1] \in Seq(S)
    OBVIOUS
  <2>1. k + 1 \in 1 .. n /\ (k + 1) - 1 = k /\ k <= n BY <1>1
  <2>2. f[k] \in Seq(S) /\ s[k + 1] \in Seq(S) BY <1>1, <1>8, <2>1
  <2>3. f[k] \o s[k + 1] \in Seq(S) BY <2>2, ConcatProperties
  <2> QED BY <1>6, <2>1, <2>3
<1>9. Nat \subseteq P
  <2> HIDE DEF P
  <2> QED BY <1>7, <1>8, Induction
<1>10. f \in [0 .. n -> Seq(S)]
  <2>1. \A i \in 0 .. n : i \in P BY <1>1, <1>9
  <2>2. \A i \in 0 .. n : f[i] \in Seq(S) BY <1>1, <2>1
  <2>3. f = [i \in 0 .. n |-> f[i]] BY DEF f
  <2> QED BY <2>2, <2>3
<1>11. FlattenSeq(s) = f[n]
  <2>1. CASE n = 0
    <3>1. s = <<>> BY <2>1, EmptySeq DEF n
    <3> QED BY <1>4, <2>1, <3>1, FlattenIs DEF n
  <2>2. CASE n # 0
    <3>1. n \in 1 .. n BY <1>1, <2>2
    <3>2. FlattenSeq(s) = g[n] BY <2>2, FlattenIs DEF n, g
    <3> QED BY <1>3, <3>1, <3>2
  <2> QED BY <2>1, <2>2
<1> QED BY <1>4, <1>6, <1>10, <1>11 DEF Joins, n

\* Two joins are the same as far as their sequences are.
LEMMA JoinsAgree ==
  ASSUME NEW S, NEW s \in Seq(Seq(S)), NEW t \in Seq(Seq(S)), NEW f, NEW g,
         Joins(f, s, S), Joins(g, t, S), NEW n \in Nat, n <= Len(s), n <= Len(t),
         \A i \in 1 .. n : s[i] = t[i]
  PROVE  f[n] = g[n]
<1> DEFINE P == {k \in Nat : k <= n => f[k] = g[k]}
<1>0. Len(s) \in Nat /\ Len(t) \in Nat BY LenProperties
<1>1. /\ f[0] = g[0]
      /\ \A i \in 1 .. Len(s) : f[i] = f[i - 1] \o s[i]
      /\ \A i \in 1 .. Len(t) : g[i] = g[i - 1] \o t[i]
  BY DEF Joins
<1>2. 0 \in P BY <1>1
<1>3. ASSUME NEW k \in Nat, k \in P PROVE k + 1 \in P
  <2> SUFFICES ASSUME k + 1 <= n PROVE f[k + 1] = g[k + 1]
    OBVIOUS
  <2>1. k + 1 \in 1 .. Len(s) /\ k + 1 \in 1 .. Len(t) /\ k + 1 \in 1 .. n /\ (k + 1) - 1 = k /\ k <= n
    BY <1>0
  <2>2. f[k] = g[k] BY <1>3, <2>1
  <2> QED BY <1>1, <2>1, <2>2
<1> HIDE DEF P
<1>4. Nat \subseteq P BY <1>2, <1>3, Induction
<1> QED BY <1>4 DEF P

LEMMA JoinsAgreeAll ==
  ASSUME NEW S, NEW s \in Seq(Seq(S)), NEW t \in Seq(Seq(S)),
         \A i \in 1 .. Len(s) : s[i] = t[i], Len(s) <= Len(t)
  PROVE  \A f, g : Joins(f, s, S) /\ Joins(g, t, S) => f[Len(s)] = g[Len(s)]
<1> SUFFICES ASSUME NEW f, NEW g, Joins(f, s, S), Joins(g, t, S) PROVE f[Len(s)] = g[Len(s)]
  OBVIOUS
<1>1. Len(s) \in Nat /\ Len(s) <= Len(s) BY LenProperties
<1> QED BY <1>1, JoinsAgree

LEMMA FlattenAppend ==
  ASSUME NEW S, NEW s \in Seq(Seq(S)), NEW x \in Seq(S)
  PROVE  /\ FlattenSeq(s) \in Seq(S)
         /\ FlattenSeq(Append(s, x)) = FlattenSeq(s) \o x
<1> DEFINE t == Append(s, x)
           n == Len(s)
<1>1. n \in Nat BY LenProperties
<1>2. /\ t \in Seq(Seq(S)) /\ Len(t) = n + 1 /\ t[n + 1] = x
      /\ \A i \in 1 .. n : t[i] = s[i]
  BY AppendProperties
<1> HIDE DEF t
<1>3. PICK f : Joins(f, s, S) /\ FlattenSeq(s) = f[n] BY FlattenJoins
<1>4. PICK g : Joins(g, t, S) /\ FlattenSeq(t) = g[Len(t)] BY <1>2, FlattenJoins
<1>5. g[n] = f[n]
  <2>1. Len(s) <= Len(t) /\ \A i \in 1 .. Len(s) : s[i] = t[i] BY <1>1, <1>2
  <2>2. \A d, e : Joins(d, s, S) /\ Joins(e, t, S) => d[Len(s)] = e[Len(s)]
    BY <1>2, <2>1, JoinsAgreeAll
  <2>3. f[Len(s)] = g[Len(s)] BY <1>3, <1>4, <2>2
  <2> QED BY <2>3
<1>6. g[n + 1] = g[n] \o x
  <2>1. n + 1 \in 1 .. Len(t) /\ (n + 1) - 1 = n BY <1>1, <1>2
  <2> QED BY <1>2, <1>4, <2>1 DEF Joins
<1>7. f[n] \in Seq(S)
  <2>1. n \in 0 .. n BY <1>1
  <2> QED BY <1>3, <2>1 DEF Joins
<1> QED BY <1>2, <1>3, <1>4, <1>5, <1>6, <1>7 DEF t

LEMMA FlattenEmpty == FlattenSeq(<<>>) = <<>>
BY FlattenIs

LEMMA JoinsAgreeBefore ==
  ASSUME NEW S, NEW s \in Seq(Seq(S)), NEW t \in Seq(Seq(S)), NEW n \in Nat,
         \A i \in 1 .. n : s[i] = t[i], n <= Len(s), n <= Len(t)
  PROVE  \A f, g : Joins(f, s, S) /\ Joins(g, t, S) => f[n] = g[n]
<1> SUFFICES ASSUME NEW f, NEW g, Joins(f, s, S), Joins(g, t, S) PROVE f[n] = g[n]
  OBVIOUS
<1> QED BY JoinsAgree

\* A text added to the last sequence is added to the whole.
LEMMA FlattenLast ==
  ASSUME NEW S, NEW s \in Seq(Seq(S)), NEW x \in Seq(S), s # <<>>
  PROVE  /\ [s EXCEPT ![Len(s)] = @ \o x] \in Seq(Seq(S))
         /\ FlattenSeq([s EXCEPT ![Len(s)] = @ \o x]) = FlattenSeq(s) \o x
<1> DEFINE n == Len(s)
           t == [s EXCEPT ![n] = @ \o x]
<1>1. /\ n \in Nat /\ n # 0 /\ DOMAIN s = 1 .. n /\ s \in [1 .. n -> Seq(S)]
  BY LenProperties, EmptySeq
<1>2. n \in 1 .. n /\ s[n] \in Seq(S) BY <1>1
<1>3. s[n] \o x \in Seq(S) BY <1>2, ConcatProperties
<1>4. /\ t \in [1 .. n -> Seq(S)] /\ t[n] = s[n] \o x
      /\ \A i \in 1 .. n : i # n => t[i] = s[i]
  BY <1>1, <1>2, <1>3
<1> HIDE DEF t
<1>5. t \in Seq(Seq(S)) /\ Len(t) = n
  <2> HIDE DEF n
  <2> QED BY <1>1, <1>4, FunctionIsSeq
<1>6. PICK f : Joins(f, s, S) /\ FlattenSeq(s) = f[n] BY FlattenJoins
<1>7. PICK g : Joins(g, t, S) /\ FlattenSeq(t) = g[n]
  <2>1. \E g : Joins(g, t, S) /\ FlattenSeq(t) = g[Len(t)] BY <1>5, FlattenJoins
  <2> QED BY <1>5, <2>1
<1> HIDE DEF n
<1>8. n - 1 \in Nat /\ n - 1 <= Len(s) /\ n - 1 <= Len(t) /\ \A i \in 1 .. n - 1 : s[i] = t[i]
  <2>1. n \in Nat /\ n # 0 /\ Len(s) = n /\ Len(t) = n BY <1>1, <1>5 DEF n
  <2>2. \A i \in 1 .. n - 1 : i \in 1 .. n /\ i # n BY <2>1
  <2>3. \A i \in 1 .. n - 1 : s[i] = t[i] BY <1>4, <2>2
  <2>4. n - 1 \in Nat /\ n - 1 <= Len(s) /\ n - 1 <= Len(t) BY <2>1
  <2> QED BY <2>3, <2>4
<1>9. g[n - 1] = f[n - 1]
  <2>1. \A d, e : Joins(d, s, S) /\ Joins(e, t, S) => d[n - 1] = e[n - 1]
    <3> DEFINE k == n - 1
    <3>1. k \in Nat /\ k <= Len(s) /\ k <= Len(t) /\ \A i \in 1 .. k : s[i] = t[i] BY <1>8
    <3> HIDE DEF k
    <3>2. \A d, e : Joins(d, s, S) /\ Joins(e, t, S) => d[k] = e[k] BY <1>5, <3>1, JoinsAgreeBefore
    <3> QED BY <3>2 DEF k
  <2> QED BY <1>6, <1>7, <2>1
<1>10. f[n] = f[n - 1] \o s[n] /\ f[n - 1] \in Seq(S)
  <2>1. n \in 1 .. Len(s) /\ n - 1 \in 0 .. Len(s) BY <1>1 DEF n
  <2> QED BY <1>6, <2>1 DEF Joins
<1>11. g[n] = g[n - 1] \o t[n]
  <2>1. n \in 1 .. Len(t) BY <1>2, <1>5
  <2> QED BY <1>7, <2>1 DEF Joins
<1>12. (f[n - 1] \o s[n]) \o x = f[n - 1] \o (s[n] \o x)
  <2>1. f[n - 1] \in Seq(S) /\ s[n] \in Seq(S) /\ x \in Seq(S) BY <1>2, <1>10 DEF n
  <2>2. Concat(Concat(f[n - 1], s[n]), x) = Concat(f[n - 1], Concat(s[n], x)) BY <2>1, Associative
  <2> QED BY <2>2 DEF Concat
<1>13. FlattenSeq(t) = FlattenSeq(s) \o x BY <1>4, <1>6, <1>7, <1>9, <1>10, <1>11, <1>12
<1> QED BY <1>5, <1>13 DEF t, n

LEMMA AppendContains ==
  ASSUME NEW S, NEW s \in Seq(S), NEW x \in S
  PROVE  \A e : Contains(Append(s, x), e) <=> Contains(s, e) \/ e = x
<1>1. Len(s) \in Nat BY LenProperties
<1>2. /\ Len(Append(s, x)) = Len(s) + 1 /\ Append(s, x)[Len(s) + 1] = x
      /\ \A i \in 1 .. Len(s) : Append(s, x)[i] = s[i]
  BY AppendProperties
<1> DEFINE t == Append(s, x)
           n == Len(s)
<1> HIDE DEF t
<1>3. \A i \in 1 .. n + 1 : i = n + 1 \/ i \in 1 .. n BY <1>1
<1>4. n + 1 \in 1 .. n + 1 /\ \A i \in 1 .. n : i \in 1 .. n + 1 BY <1>1
<1>5. Len(t) = n + 1 /\ t[n + 1] = x /\ \A i \in 1 .. n : t[i] = s[i] BY <1>2 DEF t
<1> HIDE DEF n
<1>6. ASSUME NEW e PROVE Contains(t, e) <=> Contains(s, e) \/ e = x
  <2>1. Contains(t, e) <=> \E i \in 1 .. n + 1 : t[i] = e BY <1>5 DEF Contains
  <2>2. Contains(s, e) <=> \E i \in 1 .. n : s[i] = e BY DEF Contains, n
  <2> QED BY <1>3, <1>4, <1>5, <2>1, <2>2
<1> QED BY <1>6 DEF t

\* One of the sequences of cs has u.
HasUnit(cs, u) == \E j \in 1 .. Len(cs) : Contains(cs[j], u)

LEMMA AppendHasUnit ==
  ASSUME NEW S, NEW cs \in Seq(S), NEW c \in S
  PROVE  \A u : HasUnit(Append(cs, c), u) <=> HasUnit(cs, u) \/ Contains(c, u)
<1>1. Len(cs) \in Nat BY LenProperties
<1>2. /\ Len(Append(cs, c)) = Len(cs) + 1 /\ Append(cs, c)[Len(cs) + 1] = c
      /\ \A i \in 1 .. Len(cs) : Append(cs, c)[i] = cs[i]
  BY AppendProperties
<1> DEFINE t == Append(cs, c)
           n == Len(cs)
<1> HIDE DEF t
<1>3. \A i \in 1 .. n + 1 : i = n + 1 \/ i \in 1 .. n BY <1>1
<1>4. n + 1 \in 1 .. n + 1 /\ \A i \in 1 .. n : i \in 1 .. n + 1 BY <1>1
<1>5. Len(t) = n + 1 /\ t[n + 1] = c /\ \A i \in 1 .. n : t[i] = cs[i] BY <1>2 DEF t
<1> HIDE DEF n
<1>6. ASSUME NEW u PROVE HasUnit(t, u) <=> HasUnit(cs, u) \/ Contains(c, u)
  <2>1. HasUnit(t, u) <=> \E i \in 1 .. n + 1 : Contains(t[i], u) BY <1>5 DEF HasUnit
  <2>2. HasUnit(cs, u) <=> \E i \in 1 .. n : Contains(cs[i], u) BY DEF HasUnit, n
  <2> QED BY <1>3, <1>4, <1>5, <2>1, <2>2
<1> QED BY <1>6 DEF t

LEMMA ConcatContains ==
  ASSUME NEW S, NEW s \in Seq(S), NEW t \in Seq(S)
  PROVE  \A e : Contains(s \o t, e) <=> Contains(s, e) \/ Contains(t, e)
<1> DEFINE r == s \o t
           m == Len(s)
           n == Len(t)
<1>1. m \in Nat /\ n \in Nat BY LenProperties
<1>2. Len(r) = m + n /\ \A i \in 1 .. m + n : r[i] = IF i <= m THEN s[i] ELSE t[i - m]
  BY ConcatProperties
<1> HIDE DEF r, m, n
<1>3. \A i \in 1 .. m : i \in 1 .. m + n /\ r[i] = s[i] BY <1>1, <1>2
<1>4. ASSUME NEW i \in 1 .. n PROVE m + i \in 1 .. m + n /\ r[m + i] = t[i]
  <2>1. m + i \in 1 .. m + n /\ ~(m + i <= m) /\ (m + i) - m = i BY <1>1
  <2> QED BY <1>2, <2>1
<1>5. ASSUME NEW i \in 1 .. m + n, i \notin 1 .. m PROVE i - m \in 1 .. n /\ r[i] = t[i - m]
  <2>1. i - m \in 1 .. n /\ ~(i <= m) BY <1>1, <1>5
  <2> QED BY <1>2, <2>1
<1>6. ASSUME NEW e PROVE Contains(r, e) <=> Contains(s, e) \/ Contains(t, e)
  <2>1. Contains(r, e) <=> \E i \in 1 .. m + n : r[i] = e BY <1>2 DEF Contains
  <2>2. Contains(s, e) <=> \E i \in 1 .. m : s[i] = e BY DEF Contains, m
  <2>3. Contains(t, e) <=> \E i \in 1 .. n : t[i] = e BY DEF Contains, n
  <2>4. ASSUME Contains(r, e) PROVE Contains(s, e) \/ Contains(t, e)
    <3>1. PICK i \in 1 .. m + n : r[i] = e BY <2>1, <2>4
    <3>2. CASE i \in 1 .. m BY <1>3, <2>2, <3>1, <3>2
    <3>3. CASE i \notin 1 .. m BY <1>5, <2>3, <3>1, <3>3
    <3> QED BY <3>2, <3>3
  <2>5. ASSUME Contains(s, e) PROVE Contains(r, e) BY <1>3, <2>1, <2>2, <2>5
  <2>6. ASSUME Contains(t, e) PROVE Contains(r, e) BY <1>4, <2>1, <2>3, <2>6
  <2> QED BY <2>4, <2>5, <2>6
<1> QED BY <1>6 DEF r

LEMMA FlattenHas ==
  ASSUME NEW S, NEW s \in Seq(Seq(S))
  PROVE  /\ FlattenSeq(s) \in Seq(S)
         /\ \A e : Contains(FlattenSeq(s), e) <=> HasUnit(s, e)
<1> DEFINE n == Len(s)
<1>1. n \in Nat /\ \A i \in 1 .. n : s[i] \in Seq(S) BY LenProperties
<1>2. PICK f : Joins(f, s, S) /\ FlattenSeq(s) = f[n] BY FlattenJoins
<1>3. /\ \A i \in 0 .. n : f[i] \in Seq(S)
      /\ f[0] = <<>> /\ \A i \in 1 .. n : f[i] = f[i - 1] \o s[i]
  BY <1>2 DEF Joins
<1> HIDE DEF n
<1> DEFINE Has(k) == \A e : Contains(f[k], e) <=> \E i \in 1 .. k : Contains(s[i], e)
           P == {k \in Nat : k <= n => Has(k)}
<1>4. Has(0)
  <2>1. Len(<<>>) = 0 /\ \A i : i \notin 1 .. 0 OBVIOUS
  <2> QED BY <1>3, <2>1 DEF Contains
<1>5. ASSUME NEW k \in Nat, k + 1 <= n, Has(k) PROVE Has(k + 1)
  <2>1. k + 1 \in 1 .. n /\ (k + 1) - 1 = k /\ k \in 0 .. n BY <1>1, <1>5
  <2>2. f[k + 1] = f[k] \o s[k + 1] /\ f[k] \in Seq(S) /\ s[k + 1] \in Seq(S) BY <1>1, <1>3, <2>1
  <2>3. \A e : Contains(f[k + 1], e) <=> Contains(f[k], e) \/ Contains(s[k + 1], e)
    BY <2>2, ConcatContains
  <2>4. \A i \in 1 .. k + 1 : i \in 1 .. k \/ i = k + 1 OBVIOUS
  <2>5. k + 1 \in 1 .. k + 1 /\ \A i \in 1 .. k : i \in 1 .. k + 1 OBVIOUS
  <2> QED BY <1>5, <2>3, <2>4, <2>5
<1> HIDE DEF Has
<1>6. 0 \in P BY <1>4
<1>7. \A k \in Nat : k \in P => k + 1 \in P
  <2> SUFFICES ASSUME NEW k \in Nat, k \in P PROVE k + 1 \in P
    OBVIOUS
  <2>1. k + 1 <= n => k <= n BY <1>1
  <2>2. k + 1 <= n => Has(k + 1) BY <1>5, <2>1
  <2>3. k + 1 \in Nat OBVIOUS
  <2> QED BY <2>2, <2>3
<1>8. Has(n)
  <2>1. n <= n BY <1>1
  <2> HIDE DEF P
  <2>2. Nat \subseteq P BY <1>6, <1>7, Induction
  <2> QED BY <1>1, <2>1, <2>2 DEF P
<1>9. n \in 0 .. n BY <1>1
<1> QED BY <1>2, <1>3, <1>8, <1>9 DEF Has, HasUnit, n

(***************************************************************************)
(* Folds.                                                                  *)
(***************************************************************************)
LEMMA SubsetInduction ==
  ASSUME NEW S, IsFiniteSet(S), NEW Q, {} \in Q,
         \A s \in SUBSET S : s # {} /\ (\A x \in s : s \ {x} \in Q) => s \in Q
  PROVE  SUBSET S \subseteq Q
<1> DEFINE P == {k \in Nat : \A s \in SUBSET S : Cardinality(s) = k => s \in Q}
<1>1. \A s \in SUBSET S : /\ IsFiniteSet(s) /\ Cardinality(s) \in Nat
                          /\ (Cardinality(s) = 0 <=> s = {})
  BY FS_Subset, FS_CardinalityType, FS_EmptySet
<1>2. 0 \in P BY <1>1
<1>3. \A k \in Nat : k \in P => k + 1 \in P
  <2> SUFFICES ASSUME NEW k \in Nat, k \in P PROVE k + 1 \in P
    OBVIOUS
  <2>1. ASSUME NEW s \in SUBSET S, Cardinality(s) = k + 1 PROVE s \in Q
    <3>1. s # {} BY <1>1, <2>1
    <3>2. ASSUME NEW x \in s PROVE s \ {x} \in Q
      <4>1. Cardinality(s \ {x}) = Cardinality(s) - 1 BY <1>1, FS_RemoveElement
      <4>2. Cardinality(s \ {x}) = k /\ s \ {x} \in SUBSET S BY <2>1, <4>1
      <4> QED BY <4>2
    <3> QED BY <3>1, <3>2
  <2>2. k + 1 \in Nat OBVIOUS
  <2> QED BY <2>1, <2>2
<1> HIDE DEF P
<1>4. Nat \subseteq P BY <1>2, <1>3, Induction
<1> QED BY <1>1, <1>4 DEF P

LEMMA MaxIn ==
  ASSUME NEW n \in Nat, NEW s \in SUBSET (1 .. n), s # {}
  PROVE  Max(s) \in s /\ \A y \in s : Max(s) >= y
<1> DEFINE D == {n - x : x \in s}
<1>1. D \in SUBSET Nat /\ D # {}
  <2>1. \A x \in s : n - x \in Nat OBVIOUS
  <2>2. PICK x \in s : TRUE OBVIOUS
  <2>3. n - x \in D OBVIOUS
  <2> QED BY <2>1, <2>3
<1> HIDE DEF D
<1>2. PICK d \in D : \A e \in D : d <= e BY <1>1, LeastExists
<1>3. PICK x \in s : d = n - x BY <1>2 DEF D
<1>4. \A y \in s : x >= y
  <2> SUFFICES ASSUME NEW y \in s PROVE x >= y
    OBVIOUS
  <2>1. n - y \in D BY DEF D
  <2> QED BY <1>2, <1>3, <2>1
<1> QED BY <1>4 DEF Max

LEMMA MaxUpto ==
  ASSUME NEW k \in Nat, k # 0
  PROVE  Max(1 .. k) = k /\ (1 .. k) \ {k} = 1 .. k - 1
<1>1. 1 .. k \in SUBSET (1 .. k) /\ k \in 1 .. k OBVIOUS
<1>2. Max(1 .. k) \in 1 .. k /\ Max(1 .. k) >= k BY <1>1, MaxIn
<1> QED BY <1>2

\* A fold from left to right takes the element of the highest place last.
FoldsLeft(it, n, b, F) ==
  \A s \in SUBSET (1 .. n) : it[s] = IF s = {} THEN b ELSE F[<<it[s \ {Max(s)}], Max(s)>>]

LEMMA LeftFoldExists ==
  ASSUME NEW n \in Nat, NEW X, NEW b \in X, NEW F \in [X \X (1 .. n) -> X]
  PROVE  \E it \in [SUBSET (1 .. n) -> X] : FoldsLeft(it, n, b, F)
<1> DEFINE S == 1 .. n
           C == [s \in SUBSET S |-> Max(s)]
<1>1. IsFiniteSet(S) BY FS_Interval
<1>2. \A s \in SUBSET S : s # {} => C[s] \in s BY MaxIn
<1>3. \A s \in SUBSET S : C[s] = Max(s) OBVIOUS
<1> HIDE DEF C
<1>4. PICK it \in [SUBSET S -> X] : Folds2(it, S, b, F, C)
  <2> HIDE DEF S
  <2>1. F \in [X \X S -> X] BY DEF S
  <2> QED BY <1>1, <1>2, <2>1, FoldExists
<1> QED BY <1>3, <1>4 DEF Folds2, FoldsLeft

(***************************************************************************)
(* Sequences that say nothing twice.                                       *)
(***************************************************************************)
Distinct(s) == \A i, j \in 1 .. Len(s) : s[i] = s[j] => i = j

LEMMA ToSetIs ==
  ASSUME NEW A, NEW s \in Seq(A)
  PROVE  /\ Len(s) \in Nat /\ ToSet(s) \subseteq A
         /\ \A e : e \in ToSet(s) <=> \E i \in 1 .. Len(s) : s[i] = e
         /\ ToSet(s) = {} <=> s = <<>>
<1>1. Len(s) \in Nat /\ DOMAIN s = 1 .. Len(s) /\ \A i \in 1 .. Len(s) : s[i] \in A
  BY LenProperties
<1>2. ToSet(s) = {s[i] : i \in 1 .. Len(s)} BY <1>1 DEF ToSet
<1>3. s = <<>> <=> Len(s) = 0 BY EmptySeq
<1>4. Len(s) # 0 => 1 \in 1 .. Len(s) BY <1>1
<1> QED BY <1>1, <1>2, <1>3, <1>4

LEMMA AppendDistinct ==
  ASSUME NEW A, NEW s \in Seq(A), NEW x \in A
  PROVE  /\ Append(s, x) \in Seq(A) /\ ToSet(Append(s, x)) = ToSet(s) \cup {x}
         /\ Distinct(s) /\ x \notin ToSet(s) => Distinct(Append(s, x))
<1> DEFINE t == Append(s, x)
           m == Len(s)
<1>1. /\ t \in Seq(A) /\ Len(t) = m + 1 /\ t[m + 1] = x /\ \A i \in 1 .. m : t[i] = s[i]
  BY AppendProperties
<1>2. /\ m \in Nat
      /\ \A e : e \in ToSet(s) <=> \E i \in 1 .. m : s[i] = e
  BY ToSetIs
<1> HIDE DEF t
<1>3. \A e : e \in ToSet(t) <=> \E i \in 1 .. m + 1 : t[i] = e BY <1>1, ToSetIs
<1>4. \A i \in 1 .. m + 1 : i \in 1 .. m \/ i = m + 1 BY <1>2
<1>5. m + 1 \in 1 .. m + 1 /\ \A i \in 1 .. m : i \in 1 .. m + 1 BY <1>2
<1>6. Distinct(s) <=> \A i, j \in 1 .. m : s[i] = s[j] => i = j BY DEF Distinct
<1> HIDE DEF m
<1>7. ToSet(t) = ToSet(s) \cup {x}
  <2>1. \A e : e \in ToSet(t) <=> e \in ToSet(s) \/ e = x BY <1>1, <1>2, <1>3, <1>4, <1>5
  <2> QED BY <2>1
<1>8. ASSUME Distinct(s), x \notin ToSet(s) PROVE Distinct(t)
  <2>1. \A i \in 1 .. m : t[i] # x BY <1>1, <1>2, <1>8
  <2>2. \A i, j \in 1 .. m : t[i] = t[j] => i = j BY <1>1, <1>6, <1>8
  <2>3. \A i, j \in 1 .. m + 1 : t[i] = t[j] => i = j BY <1>1, <1>4, <2>1, <2>2
  <2> QED BY <1>1, <2>3 DEF Distinct
<1> QED BY <1>1, <1>7, <1>8 DEF t

LEMMA ConcatDistinct ==
  ASSUME NEW A, NEW s \in Seq(A), NEW t \in Seq(A)
  PROVE  /\ s \o t \in Seq(A) /\ Len(s \o t) = Len(s) + Len(t)
         /\ ToSet(s \o t) = ToSet(s) \cup ToSet(t)
         /\ Distinct(s) /\ Distinct(t) /\ ToSet(s) \cap ToSet(t) = {} => Distinct(s \o t)
<1> DEFINE r == s \o t
           m == Len(s)
           n == Len(t)
<1>1. r \in Seq(A) /\ Len(r) = m + n BY ConcatProperties
<1>2. \A i \in 1 .. m + n : r[i] = IF i <= m THEN s[i] ELSE t[i - m]
  <2>1. \A i \in 1 .. Len(s) + Len(t) : r[i] = IF i <= Len(s) THEN s[i] ELSE t[i - Len(s)]
    BY ConcatProperties
  <2> QED BY <2>1
<1>3. /\ m \in Nat /\ n \in Nat
      /\ \A e : e \in ToSet(s) <=> \E i \in 1 .. m : s[i] = e
      /\ \A e : e \in ToSet(t) <=> \E i \in 1 .. n : t[i] = e
  BY ToSetIs
<1>4. Distinct(s) <=> \A i, j \in 1 .. m : s[i] = s[j] => i = j BY DEF Distinct
<1>5. Distinct(t) <=> \A i, j \in 1 .. n : t[i] = t[j] => i = j BY DEF Distinct
<1> HIDE DEF r
<1>6. \A e : e \in ToSet(r) <=> \E i \in 1 .. m + n : r[i] = e BY <1>1, ToSetIs
<1> HIDE DEF m, n
<1>7. \A i \in 1 .. m : i \in 1 .. m + n /\ r[i] = s[i] BY <1>2, <1>3
<1>8. \A i \in 1 .. n : m + i \in 1 .. m + n /\ r[m + i] = t[i]
  <2> SUFFICES ASSUME NEW i \in 1 .. n PROVE m + i \in 1 .. m + n /\ r[m + i] = t[i]
    OBVIOUS
  <2>1. m + i \in 1 .. m + n /\ ~(m + i <= m) /\ (m + i) - m = i BY <1>3
  <2> QED BY <1>2, <2>1
<1>9. \A i \in 1 .. m + n : i \in 1 .. m \/ (i - m \in 1 .. n /\ m + (i - m) = i) BY <1>3
<1>10. \A i \in 1 .. m + n : r[i] \in ToSet(s) \/ r[i] \in ToSet(t)
  <2> SUFFICES ASSUME NEW i \in 1 .. m + n PROVE r[i] \in ToSet(s) \/ r[i] \in ToSet(t)
    OBVIOUS
  <2>1. CASE i \in 1 .. m BY <1>3, <1>7, <2>1
  <2>2. CASE i - m \in 1 .. n /\ m + (i - m) = i
    <3>1. r[i] = t[i - m] BY <1>8, <2>2
    <3> QED BY <1>3, <2>2, <3>1
  <2> QED BY <1>9, <2>1, <2>2
<1>11. ToSet(r) = ToSet(s) \cup ToSet(t)
  <2>1. \A e : e \in ToSet(r) => e \in ToSet(s) \/ e \in ToSet(t) BY <1>6, <1>10
  <2>2. \A e : e \in ToSet(s) => e \in ToSet(r) BY <1>3, <1>6, <1>7
  <2>3. \A e : e \in ToSet(t) => e \in ToSet(r) BY <1>3, <1>6, <1>8
  <2> QED BY <2>1, <2>2, <2>3
<1>12. ASSUME Distinct(s), Distinct(t), ToSet(s) \cap ToSet(t) = {} PROVE Distinct(r)
  <2> SUFFICES ASSUME NEW i \in 1 .. m + n, NEW j \in 1 .. m + n, r[i] = r[j] PROVE i = j
    BY <1>1 DEF Distinct
  <2>1. CASE i \in 1 .. m /\ j \in 1 .. m BY <1>4, <1>7, <1>12, <2>1
  <2>2. CASE i - m \in 1 .. n /\ j - m \in 1 .. n /\ m + (i - m) = i /\ m + (j - m) = j
    <3>1. r[i] = t[i - m] /\ r[j] = t[j - m] BY <1>8, <2>2
    <3>2. i - m = j - m BY <1>5, <1>12, <2>2, <3>1
    <3> QED BY <2>2, <3>2
  <2>3. \A k \in 1 .. m, l \in 1 .. m + n : l - m \in 1 .. n /\ m + (l - m) = l => r[k] # r[l]
    <3> SUFFICES ASSUME NEW k \in 1 .. m, NEW l \in 1 .. m + n,
                        l - m \in 1 .. n, m + (l - m) = l, r[k] = r[l]
                 PROVE  FALSE
      OBVIOUS
    <3>1. r[k] \in ToSet(s) BY <1>3, <1>7
    <3>2. r[l] = t[l - m] BY <1>8
    <3>3. r[l] \in ToSet(t) BY <1>3, <3>2
    <3> QED BY <1>12, <3>1, <3>3
  <2> QED BY <1>9, <2>1, <2>2, <2>3
<1> QED BY <1>1, <1>11, <1>12 DEF r, m, n

LEMMA DistinctCounts ==
  ASSUME NEW A, NEW s \in Seq(A)
  PROVE  /\ IsFiniteSet(ToSet(s)) /\ Cardinality(ToSet(s)) \in Nat
         /\ Distinct(s) <=> Cardinality(ToSet(s)) = Len(s)
<1> DEFINE D == 1 .. Len(s)
           R == ToSet(s)
<1>1. Len(s) \in Nat /\ s \in [D -> A] BY LenProperties
<1>2. \A e : e \in R <=> \E i \in D : s[i] = e BY ToSetIs
<1>3. IsFiniteSet(D) /\ Cardinality(D) = Len(s) BY <1>1, FS_Interval
<1>4. Distinct(s) <=> \A i, j \in D : s[i] = s[j] => i = j BY DEF Distinct
<1> HIDE DEF D, R
<1>5. s \in [D -> R] BY <1>1, <1>2
<1>6. s \in Surjection(D, R) BY <1>2, <1>5 DEF Surjection
<1>7. /\ IsFiniteSet(R)
      /\ Cardinality(R) = Cardinality(D) <=> s \in Injection(D, R)
  BY <1>3, <1>6, FS_Surjection
<1>8. s \in Injection(D, R) <=> \A i, j \in D : s[i] = s[j] => i = j
  BY <1>5 DEF Injection, IsInjective
<1>9. Cardinality(R) \in Nat BY <1>7, FS_CardinalityType
<1> QED BY <1>3, <1>4, <1>7, <1>8, <1>9 DEF R

(***************************************************************************)
(* The dictionary.                                                         *)
(***************************************************************************)
OneSlotEach(s) == \A i, j \in DOMAIN s : s[i].key = s[j].key => i = j

LEMMA PlaceOfKey ==
  ASSUME NEW s, NEW k, HasKey(s, k)
  PROVE  Place(s, k) \in DOMAIN s /\ s[Place(s, k)].key = k
<1>1. \E i \in DOMAIN s : s[i].key = k BY DEF HasKey, Slots
<1> QED BY <1>1 DEF Place

LEMMA SlotOfKey ==
  ASSUME NEW s, NEW k, HasKey(s, k)
  PROVE  SlotOf(s, k) \in Slots(s) /\ SlotOf(s, k).key = k
BY PlaceOfKey DEF SlotOf, Slots

\* Drop removes the slot of a key and nothing else.
LEMMA DropSlots ==
  ASSUME NEW S, NEW s \in Seq(S), NEW k, OneSlotEach(s)
  PROVE  /\ Drop(s, k) \in Seq(S) /\ Len(Drop(s, k)) <= Len(s)
         /\ HasKey(s, k) => Len(Drop(s, k)) = Len(s) - 1
         /\ OneSlotEach(Drop(s, k)) /\ ~HasKey(Drop(s, k), k)
         /\ Slots(Drop(s, k)) \subseteq Slots(s)
<1>1. Len(s) \in Nat /\ DOMAIN s = 1 .. Len(s) BY LenProperties
<1>2. CASE ~HasKey(s, k)
  <2>1. Drop(s, k) = s BY <1>2 DEF Drop
  <2>2. Len(s) <= Len(s) /\ Slots(s) \subseteq Slots(s) BY <1>1
  <2> QED BY <1>2, <2>1, <2>2, Zenon
<1>3. CASE HasKey(s, k)
  <2> DEFINE p == Place(s, k)
             q == Drop(s, k)
  <2>1. p \in 1 .. Len(s) /\ s[p].key = k BY <1>1, <1>3, PlaceOfKey
  <2>2. q = SubSeq(s, 1, p - 1) \o SubSeq(s, p + 1, Len(s)) BY <1>3 DEF Drop
  <2> HIDE DEF p, q
  <2>3. /\ q \in Seq(S) /\ Len(q) = Len(s) - 1
        /\ \A i \in 1 .. Len(s) - 1 : q[i] = IF i < p THEN s[i] ELSE s[i + 1]
    BY <2>1, <2>2, RemoveAtPlace
  <2>4. DOMAIN q = 1 .. Len(s) - 1 BY <2>3, LenProperties
  <2> DEFINE from(i) == IF i < p THEN i ELSE i + 1
  <2>5. \A i \in DOMAIN q : /\ i \in Int /\ from(i) \in DOMAIN s /\ from(i) # p /\ q[i] = s[from(i)]
    BY <1>1, <2>1, <2>3, <2>4
  <2>6. \A i, j \in Int : from(i) = from(j) => i = j BY <2>1
  <2> HIDE DEF from
  <2>7. OneSlotEach(q) BY <2>5, <2>6 DEF OneSlotEach
  <2>8. ~HasKey(q, k)
    <3> SUFFICES ASSUME NEW i \in DOMAIN q, q[i].key = k PROVE FALSE
      BY DEF HasKey, Slots
    <3>1. s[from(i)].key = s[p].key /\ from(i) \in DOMAIN s /\ p \in DOMAIN s
      BY <1>1, <2>1, <2>5
    <3> QED BY <2>5, <3>1 DEF OneSlotEach
  <2>9. Slots(q) \subseteq Slots(s) BY <2>5 DEF Slots
  <2>10. Len(q) <= Len(s) BY <1>1, <2>3
  <2> QED BY <2>3, <2>7, <2>8, <2>9, <2>10 DEF q
<1> QED BY <1>2, <1>3

LEMMA AppendSlot ==
  ASSUME NEW S, NEW s \in Seq(S), NEW x \in S, OneSlotEach(s), ~HasKey(s, x.key)
  PROVE  /\ Append(s, x) \in Seq(S) /\ Len(Append(s, x)) = Len(s) + 1
         /\ OneSlotEach(Append(s, x)) /\ Slots(Append(s, x)) = Slots(s) \cup {x}
<1> DEFINE q == Append(s, x)
<1>1. Len(s) \in Nat /\ DOMAIN s = 1 .. Len(s) BY LenProperties
<1>2. /\ q \in Seq(S) /\ Len(q) = Len(s) + 1
      /\ \A i \in 1 .. Len(s) : q[i] = s[i]
      /\ q[Len(s) + 1] = x
  BY AppendProperties
<1>3. DOMAIN q = 1 .. Len(s) + 1 BY <1>2, LenProperties
<1> HIDE DEF q
<1>4. \A i \in DOMAIN q : i \in DOMAIN s \/ i = Len(s) + 1 BY <1>1, <1>3
<1>5. Len(s) + 1 \in DOMAIN q /\ \A i \in DOMAIN s : i \in DOMAIN q BY <1>1, <1>3
<1>6. \A i \in DOMAIN s : s[i].key # x.key BY DEF HasKey, Slots
<1>7. OneSlotEach(q)
  <2> SUFFICES ASSUME NEW i \in DOMAIN q, NEW j \in DOMAIN q, q[i].key = q[j].key PROVE i = j
    BY DEF OneSlotEach
  <2>1. CASE i \in DOMAIN s /\ j \in DOMAIN s BY <1>1, <1>2, <2>1 DEF OneSlotEach
  <2> QED BY <1>1, <1>2, <1>4, <1>6, <2>1
<1>8. Slots(q) = Slots(s) \cup {x}
  <2>1. \A y \in Slots(q) : y \in Slots(s) \cup {x} BY <1>1, <1>2, <1>4 DEF Slots
  <2>2. \A y \in Slots(s) \cup {x} : y \in Slots(q) BY <1>1, <1>2, <1>5 DEF Slots
  <2> QED BY <2>1, <2>2
<1> QED BY <1>2, <1>7, <1>8 DEF q

LEMMA TailSlots ==
  ASSUME NEW S, NEW s \in Seq(S), s # <<>>, OneSlotEach(s)
  PROVE  /\ Tail(s) \in Seq(S) /\ Len(Tail(s)) = Len(s) - 1
         /\ OneSlotEach(Tail(s)) /\ Slots(Tail(s)) \subseteq Slots(s)
<1> DEFINE q == Tail(s)
<1>1. Len(s) \in Nat /\ DOMAIN s = 1 .. Len(s) BY LenProperties
<1>2. q \in Seq(S) /\ Len(q) = Len(s) - 1 /\ \A i \in 1 .. Len(q) : q[i] = s[i + 1]
  BY HeadTailProperties
<1>3. DOMAIN q = 1 .. Len(s) - 1 BY <1>2, LenProperties
<1> HIDE DEF q
<1>4. \A i \in DOMAIN q : i \in Int /\ i + 1 \in DOMAIN s /\ q[i] = s[i + 1] BY <1>1, <1>2, <1>3
<1>5. OneSlotEach(q)
  <2> SUFFICES ASSUME NEW i \in DOMAIN q, NEW j \in DOMAIN q, q[i].key = q[j].key PROVE i = j
    BY DEF OneSlotEach
  <2>1. i + 1 = j + 1 BY <1>4 DEF OneSlotEach
  <2> QED BY <1>4, <2>1
<1>6. Slots(q) \subseteq Slots(s) BY <1>4 DEF Slots
<1> QED BY <1>2, <1>5, <1>6 DEF q

\* A use of a slot moves it to the end.
LEMMA TouchSlots ==
  ASSUME NEW S, NEW s \in Seq(S), NEW k, OneSlotEach(s), HasKey(s, k)
  PROVE  /\ Touch(s, k) \in Seq(S) /\ Len(Touch(s, k)) = Len(s)
         /\ OneSlotEach(Touch(s, k)) /\ Slots(Touch(s, k)) \subseteq Slots(s)
<1>1. SlotOf(s, k) \in Slots(s) /\ SlotOf(s, k).key = k BY SlotOfKey
<1>2. SlotOf(s, k) \in S BY <1>1, LenProperties DEF Slots
<1>3. /\ Drop(s, k) \in Seq(S) /\ Len(Drop(s, k)) = Len(s) - 1
      /\ OneSlotEach(Drop(s, k)) /\ ~HasKey(Drop(s, k), k) /\ Slots(Drop(s, k)) \subseteq Slots(s)
  BY DropSlots
<1>4. Len(s) \in Nat BY LenProperties
<1>5. /\ Touch(s, k) \in Seq(S) /\ Len(Touch(s, k)) = Len(Drop(s, k)) + 1
      /\ OneSlotEach(Touch(s, k)) /\ Slots(Touch(s, k)) = Slots(Drop(s, k)) \cup {SlotOf(s, k)}
  BY <1>1, <1>2, <1>3, AppendSlot DEF Touch
<1> QED BY <1>1, <1>3, <1>4, <1>5

\* A write keeps the store within its bound.
LEMMA PutSlots ==
  ASSUME NEW S, NEW s \in Seq(S), NEW x \in S, NEW max \in Nat \ {0}, OneSlotEach(s), Len(s) <= max
  PROVE  /\ Put(s, x, max) \in Seq(S) /\ Len(Put(s, x, max)) <= max
         /\ OneSlotEach(Put(s, x, max)) /\ Slots(Put(s, x, max)) \subseteq Slots(s) \cup {x}
<1> DEFINE t == Append(Drop(s, x.key), x)
<1>1. /\ Drop(s, x.key) \in Seq(S) /\ Len(Drop(s, x.key)) <= Len(s)
      /\ OneSlotEach(Drop(s, x.key)) /\ ~HasKey(Drop(s, x.key), x.key)
      /\ Slots(Drop(s, x.key)) \subseteq Slots(s)
  BY DropSlots
<1>2. /\ t \in Seq(S) /\ Len(t) = Len(Drop(s, x.key)) + 1 /\ OneSlotEach(t)
      /\ Slots(t) = Slots(Drop(s, x.key)) \cup {x}
  BY <1>1, AppendSlot
<1>3. Len(s) \in Nat /\ Len(Drop(s, x.key)) \in Nat /\ max \in Nat
  BY <1>1, LenProperties
<1>4. Put(s, x, max) = IF Len(t) > max THEN Tail(t) ELSE t BY DEF Put
<1> HIDE DEF t
<1>5. t # <<>> BY <1>2, <1>3
<1>6. /\ Tail(t) \in Seq(S) /\ Len(Tail(t)) = Len(t) - 1
      /\ OneSlotEach(Tail(t)) /\ Slots(Tail(t)) \subseteq Slots(t)
  BY <1>2, <1>5, TailSlots
<1> QED BY <1>1, <1>2, <1>3, <1>4, <1>6
==============================================================================
