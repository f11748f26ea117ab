----------------------------- MODULE Texts_proofs -----------------------------
(***************************************************************************)
(* Texts on their way to an answer: what the cleaning of pages keeps       *)
(* (TextKept), what the chunks of a file hold and may cost (ChunksFit,     *)
(* UnitsKept), what an answer is generated from (ContextSound).            *)
(*                                                                         *)
(* The algorithms are folds.  Each gets a lemma that it runs in steps      *)
(* (PiecesInSteps, RowsInSteps, ListInSteps, UniqueInSteps, WithoutInSteps,*)
(* AssembledInSteps, UnreservedInSteps), and a proof about it is an        *)
(* induction over the steps.                                               *)
(***************************************************************************)
EXTENDS PageCleaning, Chunking, ContextAssembly, Data_proofs

(***************************************************************************)
(* Page cleaning.                                                          *)
(***************************************************************************)
Items == [page : Nat, part : {"header", "rest"}]

CleaningTypes ==
  /\ raw \in Seq([header : BOOLEAN, rest : Nat])
  /\ next \in 1 .. Len(raw) + 1
  /\ cleaned \in Seq(Seq(Items)) /\ short \in Seq(Seq(Items))

CleaningInv == CleaningTypes /\ TextKept

TextsTo(n) == [i \in 1 .. n |-> CleanText(i)]

LEMMA CleanTextType ==
  ASSUME CleaningTypes, NEW i \in 1 .. Len(raw)
  PROVE  CleanText(i) \in Seq(Items)
<1>1. Len(raw) \in Nat BY LenProperties DEF CleaningTypes
<1>2. /\ [page |-> i, part |-> "header"] \in Items /\ [page |-> i, part |-> "rest"] \in Items
  BY <1>1 DEF Items
<1>3. HeaderOf(i) \in Seq(Items) /\ RestOf(i) \in Seq(Items) BY <1>2 DEF HeaderOf, RestOf
<1> QED BY <1>3, ConcatProperties DEF CleanText

LEMMA TextsToType ==
  ASSUME CleaningTypes, NEW n \in 0 .. Len(raw)
  PROVE  TextsTo(n) \in Seq(Seq(Items)) /\ Len(TextsTo(n)) = n
<1>1. Len(raw) \in Nat BY LenProperties DEF CleaningTypes
<1>2. n \in Nat /\ \A i \in 1 .. n : i \in 1 .. Len(raw) BY <1>1
<1>3. TextsTo(n) \in [1 .. n -> Seq(Items)] BY <1>2, CleanTextType DEF TextsTo
<1> QED BY <1>2, <1>3, FunctionIsSeq

\* One page more.
LEMMA NextText ==
  ASSUME CleaningTypes, next <= Len(raw)
  PROVE  /\ CleanText(next) \in Seq(Items)
         /\ FlattenSeq(TextsTo(next)) = FlattenSeq(TextsTo(next - 1)) \o CleanText(next)
<1>1. Len(raw) \in Nat /\ next \in 1 .. Len(raw) /\ next - 1 \in 0 .. Len(raw) /\ next \in 0 .. Len(raw)
  <2>1. Len(raw) \in Nat /\ next \in 1 .. Len(raw) + 1 BY LenProperties DEF CleaningTypes
  <2> QED BY <2>1
<1>2. CleanText(next) \in Seq(Items) BY <1>1, CleanTextType
<1> DEFINE s == TextsTo(next - 1)
           t == TextsTo(next)
           x == CleanText(next)
<1>3. s \in Seq(Seq(Items)) /\ Len(s) = next - 1 /\ t \in Seq(Seq(Items)) /\ Len(t) = next
  BY <1>1, TextsToType
<1>4. t[next] = x /\ \A i \in 1 .. next - 1 : t[i] = s[i] BY <1>1 DEF TextsTo
<1> HIDE DEF s, t, x
<1>5. /\ Append(s, x) \in Seq(Seq(Items)) /\ Len(Append(s, x)) = next
      /\ Append(s, x)[next] = x /\ \A i \in 1 .. next - 1 : Append(s, x)[i] = s[i]
  <2>1. x \in Seq(Items) BY <1>2 DEF x
  <2>2. /\ Append(s, x) \in Seq(Seq(Items)) /\ Len(Append(s, x)) = Len(s) + 1
        /\ Append(s, x)[Len(s) + 1] = x /\ \A i \in 1 .. Len(s) : Append(s, x)[i] = s[i]
    BY <1>3, <2>1, AppendProperties
  <2>3. Len(s) + 1 = next BY <1>1, <1>3
  <2> QED BY <1>3, <2>2, <2>3
<1>6. t = Append(s, x)
  <2>1. \A i \in 1 .. Len(t) : t[i] = Append(s, x)[i]
    <3> SUFFICES ASSUME NEW i \in 1 .. next PROVE t[i] = Append(s, x)[i]
      BY <1>3
    <3>1. i = next \/ i \in 1 .. next - 1 BY <1>1
    <3> QED BY <1>4, <1>5, <3>1
  <2> QED BY <1>3, <1>5, <2>1, SeqEqual
<1>7. FlattenSeq(Append(s, x)) = FlattenSeq(s) \o x
  <2>1. x \in Seq(Items) BY <1>2 DEF x
  <2> QED BY <1>3, <2>1, FlattenAppend
<1> QED BY <1>2, <1>6, <1>7 DEF s, t, x

LEMMA CleaningStart == CleaningInit => CleaningInv
<1> SUFFICES ASSUME CleaningInit PROVE CleaningInv
  OBVIOUS
<1> DEFINE R == [header : BOOLEAN, rest : Nat]
<1>1. PICK n \in 0 .. MaxPages : raw \in [1 .. n -> [header : BOOLEAN, rest : 0 .. MaxChars]]
  BY DEF CleaningInit
<1>2. n \in Nat /\ raw \in [1 .. n -> R] BY <1>1, CleaningAssumption
<1>3. raw \in Seq(R) /\ Len(raw) = n
  <2> HIDE DEF R
  <2> QED BY <1>2, FunctionIsSeq
<1>4. <<>> \in Seq(Seq(Items)) BY EmptySeq
<1>5. CleaningTypes BY <1>2, <1>3, <1>4 DEF CleaningInit, CleaningTypes
<1>6. TextKept
  <2>1. [i \in 1 .. next - 1 |-> CleanText(i)] = <<>>
    <3>1. TextsTo(0) \in Seq(Seq(Items)) /\ Len(TextsTo(0)) = 0 BY <1>2, <1>3, <1>5, TextsToType
    <3>2. TextsTo(0) = <<>> BY <3>1, EmptySeq
    <3>3. next - 1 = 0 BY DEF CleaningInit
    <3> QED BY <3>2, <3>3 DEF TextsTo
  <2>2. <<>> \o <<>> = <<>> OBVIOUS
  <2> QED BY <2>1, <2>2, FlattenEmpty DEF TextKept, CleaningInit
<1> QED BY <1>5, <1>6 DEF CleaningInv

LEMMA CleaningStep == CleaningInv /\ [CleaningNext]_cleaningVars => CleaningInv'
<1> SUFFICES ASSUME CleaningInv, [CleaningNext]_cleaningVars PROVE CleaningInv'
  OBVIOUS
<1>1. CleaningTypes /\ TextKept BY DEF CleaningInv
<1>2. CASE CleanPage
  <2> DEFINE x == CleanText(next)
             old == FlattenSeq(TextsTo(next - 1))
  <2>1. Len(raw) \in Nat /\ next \in 1 .. Len(raw) + 1 /\ next <= Len(raw)
    BY <1>1, <1>2, LenProperties DEF CleaningTypes, CleanPage
  <2>2. raw' = raw /\ next' = next + 1 /\ next' \in 1 .. Len(raw) + 1 /\ next' - 1 = next
    BY <1>2, <2>1 DEF CleanPage
  <2>3. x \in Seq(Items) /\ FlattenSeq(TextsTo(next)) = old \o x
    BY <1>1, <2>1, NextText
  <2>4. \A i : CleanText(i)' = CleanText(i)
    BY <2>2 DEF CleanText, HeaderOf, RestOf, IsRunning
  <2>5. [i \in 1 .. next - 1 |-> CleanText(i)]' = TextsTo(next) BY <2>2, <2>4 DEF TextsTo
  <2>6. FlattenSeq(cleaned) \o FlattenSeq(short) = old BY <1>1 DEF TextKept, TextsTo
  <2>7. /\ cleaned \in Seq(Seq(Items)) /\ short \in Seq(Seq(Items))
        /\ FlattenSeq(cleaned) \in Seq(Items) /\ FlattenSeq(short) \in Seq(Items)
    <3>1. cleaned \in Seq(Seq(Items)) /\ short \in Seq(Seq(Items)) BY <1>1 DEF CleaningTypes
    <3> QED BY <2>3, <3>1, FlattenAppend
  <2> HIDE DEF x, old
  <2>8. /\ cleaned' \in Seq(Seq(Items)) /\ short' \in Seq(Seq(Items))
        /\ FlattenSeq(cleaned') \o FlattenSeq(short') = old \o x
    <3>1. CASE x = <<>> /\ UNCHANGED <<cleaned, short>>
      <4>1. old \in Seq(Items) BY <2>6, <2>7, ConcatType
      <4>2. old \o x = old BY <3>1, <4>1, ConcatEmptySeq
      <4> QED BY <2>6, <2>7, <3>1, <4>2
    <3>2. CASE short' = Append(short, x) /\ UNCHANGED cleaned
      <4>1. short' \in Seq(Seq(Items)) /\ FlattenSeq(short') = FlattenSeq(short) \o x
        BY <2>3, <2>7, <3>2, FlattenAppend, AppendProperties
      <4>2. FlattenSeq(cleaned) \o (FlattenSeq(short) \o x)
              = (FlattenSeq(cleaned) \o FlattenSeq(short)) \o x
        <5>1. Concat(FlattenSeq(cleaned), Concat(FlattenSeq(short), x))
                = Concat(Concat(FlattenSeq(cleaned), FlattenSeq(short)), x)
          BY <2>3, <2>7, Associative
        <5> QED BY <5>1 DEF Concat
      <4> QED BY <2>6, <2>7, <3>2, <4>1, <4>2
    <3>3. CASE cleaned' = Append(cleaned, FlattenSeq(short) \o x) /\ short' = <<>>
      <4> DEFINE y == FlattenSeq(short) \o x
      <4>1. y \in Seq(Items) BY <2>3, <2>7, ConcatType
      <4>2. /\ FlattenSeq(cleaned) \o y = (FlattenSeq(cleaned) \o FlattenSeq(short)) \o x
            /\ FlattenSeq(cleaned) \o y \in Seq(Items)
        <5>1. Concat(FlattenSeq(cleaned), Concat(FlattenSeq(short), x))
                = Concat(Concat(FlattenSeq(cleaned), FlattenSeq(short)), x)
          BY <2>3, <2>7, Associative
        <5>2. FlattenSeq(cleaned) \o y \in Seq(Items) BY <2>7, <4>1, ConcatType
        <5> QED BY <5>1, <5>2 DEF Concat
      <4> HIDE DEF y
      <4>3. cleaned' = Append(cleaned, y) BY <3>3 DEF y
      <4>4. cleaned' \in Seq(Seq(Items)) /\ FlattenSeq(cleaned') = FlattenSeq(cleaned) \o y
        BY <2>7, <4>1, <4>3, FlattenAppend, AppendProperties
      <4>5. FlattenSeq(short') = <<>> BY <3>3, FlattenEmpty
      <4>6. FlattenSeq(cleaned') \o <<>> = FlattenSeq(cleaned) \o y
        BY <4>2, <4>4, ConcatEmptySeq
      <4>7. short' \in Seq(Seq(Items)) BY <3>3, EmptySeq
      <4> QED BY <2>6, <4>2, <4>4, <4>5, <4>6, <4>7
    <3> QED BY <1>2, <3>1, <3>2, <3>3 DEF CleanPage, x
  <2>9. TextKept' BY <2>3, <2>5, <2>8 DEF TextKept
  <2>10. CleaningTypes' BY <1>1, <2>2, <2>8 DEF CleaningTypes
  <2> QED BY <2>9, <2>10 DEF CleaningInv
<1>3. CASE FlushShort
  <2>1. /\ UNCHANGED <<raw, next>> /\ short # <<>> /\ short' = <<>>
        /\ cleaned' = IF cleaned = <<>> THEN short
                      ELSE [cleaned EXCEPT ![Len(cleaned)] = @ \o FlattenSeq(short)]
    BY <1>3 DEF FlushShort
  <2>2. \A i : CleanText(i)' = CleanText(i)
    BY <2>1 DEF CleanText, HeaderOf, RestOf, IsRunning
  <2>3. [i \in 1 .. next - 1 |-> CleanText(i)]' = [i \in 1 .. next - 1 |-> CleanText(i)]
    BY <2>1, <2>2
  <2>4. cleaned \in Seq(Seq(Items)) /\ short \in Seq(Seq(Items)) BY <1>1 DEF CleaningTypes
  <2>5. FlattenSeq(cleaned) \in Seq(Items) /\ FlattenSeq(short) \in Seq(Items)
    <3>1. <<>> \in Seq(Items) BY EmptySeq
    <3> QED BY <2>4, <3>1, FlattenAppend
  <2>6. /\ cleaned' \in Seq(Seq(Items))
        /\ FlattenSeq(cleaned') = FlattenSeq(cleaned) \o FlattenSeq(short)
    <3>1. CASE cleaned = <<>>
      <4>1. FlattenSeq(cleaned) = <<>> BY <3>1, FlattenEmpty
      <4>2. <<>> \o FlattenSeq(short) = FlattenSeq(short) BY <2>5, ConcatEmptySeq
      <4> QED BY <2>1, <2>4, <3>1, <4>1, <4>2
    <3>2. CASE cleaned # <<>>
      <4> DEFINE x == FlattenSeq(short)
      <4>1. x \in Seq(Items) /\ cleaned' = [cleaned EXCEPT ![Len(cleaned)] = @ \o x]
        BY <2>1, <2>5, <3>2
      <4> HIDE DEF x
      <4>2. /\ [cleaned EXCEPT ![Len(cleaned)] = @ \o x] \in Seq(Seq(Items))
            /\ FlattenSeq([cleaned EXCEPT ![Len(cleaned)] = @ \o x]) = FlattenSeq(cleaned) \o x
        BY <2>4, <3>2, <4>1, FlattenLast
      <4> QED BY <4>1, <4>2 DEF x
    <3> QED BY <3>1, <3>2
  <2>7. FlattenSeq(cleaned') \o FlattenSeq(short') = FlattenSeq(cleaned) \o FlattenSeq(short)
    <3>1. FlattenSeq(cleaned) \o FlattenSeq(short) \in Seq(Items) BY <2>5, ConcatType
    <3>2. FlattenSeq(short') = <<>> BY <2>1, FlattenEmpty
    <3> QED BY <2>6, <3>1, <3>2, ConcatEmptySeq
  <2>8. TextKept' BY <1>1, <2>3, <2>7 DEF TextKept
  <2>9. CleaningTypes'
    <3>1. <<>> \in Seq(Seq(Items)) BY EmptySeq
    <3> QED BY <1>1, <2>1, <2>6, <3>1 DEF CleaningTypes
  <2> QED BY <2>8, <2>9 DEF CleaningInv
<1>4. CASE UNCHANGED cleaningVars
  <2>1. UNCHANGED <<raw, next, cleaned, short>> BY <1>4 DEF cleaningVars
  <2>2. \A i : CleanText(i)' = CleanText(i)
    BY <2>1 DEF CleanText, HeaderOf, RestOf, IsRunning
  <2> QED BY <1>1, <2>1, <2>2 DEF CleaningInv, CleaningTypes, TextKept
<1> QED BY <1>2, <1>3, <1>4 DEF CleaningNext

\* Cleaning keeps every text once and in its order: nothing but running headers
\* and empty pages is left out (_clean_documents).
THEOREM CleaningKeepsText == CleaningSpec => []TextKept
<1>1. CleaningInv => TextKept BY DEF CleaningInv
<1> QED BY <1>1, CleaningStart, CleaningStep, PTL DEF CleaningSpec

(***************************************************************************)
(* Chunking: what units cost.                                              *)
(***************************************************************************)
Some(s) == CHOOSE x \in s : TRUE

IsCost(units, it) ==
  it = [s \in SUBSET DOMAIN units |->
          IF s = {} THEN 0 ELSE it[s \ {Some(s)}] + TokensOf[units[Some(s)]]]

LEMMA CostIs ==
  ASSUME NEW units
  PROVE  Cost(units) = (CHOOSE it : IsCost(units, it))[DOMAIN units]
BY DEF Cost, FoldSeq, FoldFunction, FoldFunctionOnSet, MapThenFoldSet, IsCost, Some

LEMMA CostOf ==
  ASSUME NEW units \in Seq(Texts)
  PROVE  \E it : /\ IsCost(units, it)
                 /\ Cost(units) = it[DOMAIN units]
<1> DEFINE S == DOMAIN units
           F == [p \in Nat \X S |-> p[1] + TokensOf[units[p[2]]]]
           C == [s \in SUBSET S |-> Some(s)]
<1>1. Len(units) \in Nat /\ S = 1 .. Len(units) BY LenProperties
<1>2. IsFiniteSet(S) BY <1>1, FS_Interval
<1>3. \A i \in S : TokensOf[units[i]] \in Nat
  <2> SUFFICES ASSUME NEW i \in S PROVE TokensOf[units[i]] \in Nat
    OBVIOUS
  <2>1. units[i] \in Texts BY <1>1, LenProperties
  <2> QED BY <2>1, ChunkingAssumption
<1>4. F \in [Nat \X S -> Nat] BY <1>3
<1>5. \A s \in SUBSET S : s # {} => C[s] \in s BY DEF Some
<1>6. /\ \A s \in SUBSET S : C[s] = Some(s)
      /\ \A m \in Nat, i \in S : F[<<m, i>>] = m + TokensOf[units[i]]
  OBVIOUS
<1> HIDE DEF C, F, S
<1>7. PICK it \in [SUBSET S -> Nat] : Folds2(it, S, 0, F, C)
  <2>1. 0 \in Nat OBVIOUS
  <2> QED BY <1>2, <1>4, <1>5, <2>1, FoldExists
<1>8. \A s \in SUBSET S : it[s] = IF s = {} THEN 0 ELSE it[s \ {Some(s)}] + TokensOf[units[Some(s)]]
  <2> SUFFICES ASSUME NEW s \in SUBSET S
               PROVE  it[s] = IF s = {} THEN 0 ELSE it[s \ {Some(s)}] + TokensOf[units[Some(s)]]
    OBVIOUS
  <2>1. CASE s = {} BY <1>7, <2>1 DEF Folds2
  <2>2. CASE s # {}
    <3>1. Some(s) \in S /\ C[s] = Some(s) /\ s \ {Some(s)} \in SUBSET S BY <1>5, <1>6, <2>2
    <3>2. it[s] = F[<<it[s \ {Some(s)}], Some(s)>>] BY <1>7, <2>2, <3>1 DEF Folds2
    <3>3. it[s \ {Some(s)}] \in Nat BY <1>7, <3>1
    <3> QED BY <1>6, <2>2, <3>1, <3>2, <3>3
  <2> QED BY <2>1, <2>2
<1>9. IsCost(units, it) BY <1>7, <1>8 DEF IsCost, S
<1>10. IsCost(units, CHOOSE e : IsCost(units, e)) BY <1>9
<1> QED BY <1>10, CostIs

LEMMA CostType ==
  ASSUME NEW units \in Seq(Texts)
  PROVE  Cost(units) \in Nat
<1>1. PICK it : IsCost(units, it) /\ Cost(units) = it[DOMAIN units] BY CostOf
<1> DEFINE S == DOMAIN units
           Q == {s \in SUBSET S : it[s] \in Nat}
<1>2. Len(units) \in Nat /\ S = 1 .. Len(units) BY LenProperties
<1>3. IsFiniteSet(S) BY <1>2, FS_Interval
<1>4. \A s \in SUBSET S : it[s] = IF s = {} THEN 0 ELSE it[s \ {Some(s)}] + TokensOf[units[Some(s)]]
  BY <1>1 DEF IsCost
<1>5. {} \in Q
  <2>1. {} \in SUBSET S OBVIOUS
  <2>2. it[{}] = 0 BY <1>4, <2>1
  <2> QED BY <2>1, <2>2
<1>6. \A s \in SUBSET S : s # {} /\ (\A x \in s : s \ {x} \in Q) => s \in Q
  <2> SUFFICES ASSUME NEW s \in SUBSET S, s # {}, \A x \in s : s \ {x} \in Q PROVE s \in Q
    OBVIOUS
  <2>1. Some(s) \in s BY DEF Some
  <2>2. it[s \ {Some(s)}] \in Nat BY <2>1
  <2>3. TokensOf[units[Some(s)]] \in Nat
    <3>1. units[Some(s)] \in Texts BY <1>2, <2>1, LenProperties
    <3> QED BY <3>1, ChunkingAssumption
  <2>4. it[s] = it[s \ {Some(s)}] + TokensOf[units[Some(s)]] BY <1>4
  <2> QED BY <2>2, <2>3, <2>4
<1> HIDE DEF Q
<1>7. SUBSET S \subseteq Q BY <1>3, <1>5, <1>6, SubsetInduction
<1>8. S \in Q BY <1>7
<1> QED BY <1>1, <1>8 DEF Q

LEMMA CostOfOne ==
  /\ Cost(<<>>) = 0
  /\ \A u \in Texts : Cost(<<u>>) = TokensOf[u]
<1>1. Cost(<<>>) = 0
  <2>1. <<>> \in Seq(Texts) BY EmptySeq
  <2>2. PICK it : IsCost(<<>>, it) /\ Cost(<<>>) = it[DOMAIN <<>>] BY <2>1, CostOf
  <2>3. DOMAIN <<>> = {} OBVIOUS
  <2> QED BY <2>2, <2>3 DEF IsCost
<1>2. ASSUME NEW u \in Texts PROVE Cost(<<u>>) = TokensOf[u]
  <2>1. <<u>> \in Seq(Texts) OBVIOUS
  <2>2. PICK it : IsCost(<<u>>, it) /\ Cost(<<u>>) = it[DOMAIN <<u>>] BY <2>1, CostOf
  <2>3. DOMAIN <<u>> = {1} /\ <<u>>[1] = u OBVIOUS
  <2>4. Some({1}) = 1 /\ {1} \ {1} = {} BY DEF Some
  <2>5. \A s \in SUBSET {1} :
          it[s] = IF s = {} THEN 0 ELSE it[s \ {Some(s)}] + TokensOf[<<u>>[Some(s)]]
    BY <2>2, <2>3 DEF IsCost
  <2>6. it[{}] = 0 BY <2>5
  <2>7. it[{1}] = it[{}] + TokensOf[u] BY <2>3, <2>4, <2>5
  <2>8. TokensOf[u] \in Nat BY ChunkingAssumption
  <2> QED BY <2>2, <2>3, <2>6, <2>7, <2>8
<1> QED BY <1>1, <1>2

Kinds == {"table", "code", "list", "text"}

LEMMA TokensType ==
  ASSUME NEW units \in Seq(Texts), NEW kind
  PROVE  Tokens(units, kind) \in Nat
<1>1. Len(units) \in Nat /\ (units # <<>> => Len(units) # 0) BY LenProperties, EmptySeq
<1> QED BY <1>1, CostType DEF Tokens

\* One unit fits in a chunk.
LEMMA OneFits ==
  ASSUME NEW u \in Texts, NEW kind
  PROVE  Tokens(<<u>>, kind) = TokensOf[u] /\ Tokens(<<u>>, kind) <= ChunkSize
         /\ Tokens(<<>>, kind) = 0
<1>1. Len(<<u>>) = 1 /\ TokensOf[u] \in 1 .. ChunkSize /\ ChunkSize \in Nat BY ChunkingAssumption
<1>2. Tokens(<<u>>, kind) = TokensOf[u] BY <1>1, CostOfOne DEF Tokens
<1>3. Tokens(<<>>, kind) = 0 BY CostOfOne DEF Tokens
<1> QED BY <1>1, <1>2, <1>3

\* The end of a group that the splitter repeats exists, and fits together with
\* the next unit.
LEMMA RepeatedFits ==
  ASSUME NEW g \in Seq(Texts), NEW u \in Texts, NEW overlap \in Nat, NEW kind
  PROVE  /\ Repeated(g, u, overlap, kind) \in Seq(Texts)
         /\ Tokens(Append(Repeated(g, u, overlap, kind), u), kind) <= ChunkSize
<1> DEFINE end(n) == SubSeq(g, Len(g) - n + 1, Len(g))
           ends == {n \in 0 .. Len(g) : /\ Cost(end(n)) <= overlap
                                        /\ Tokens(Append(end(n), u), kind) <= ChunkSize}
           m == CHOOSE k \in ends : \A j \in ends : j <= k
<1>1. Len(g) \in Nat BY LenProperties
<1>2. \A n \in 0 .. Len(g) : end(n) \in Seq(Texts) /\ Len(end(n)) = n
  <2> SUFFICES ASSUME NEW n \in 0 .. Len(g) PROVE end(n) \in Seq(Texts) /\ Len(end(n)) = n
    OBVIOUS
  <2> DEFINE k == Len(g) - n
  <2>1. k \in 0 .. Len(g) /\ Len(g) - k = n BY <1>1
  <2> HIDE DEF k
  <2>2. SubSeq(g, k + 1, Len(g)) \in Seq(Texts) /\ Len(SubSeq(g, k + 1, Len(g))) = Len(g) - k
    BY <2>1, Suffix
  <2> QED BY <2>1, <2>2 DEF k
<1>3. 0 \in ends
  <2>1. 0 \in 0 .. Len(g) BY <1>1
  <2>2. end(0) \in Seq(Texts) /\ Len(end(0)) = 0 BY <1>2, <2>1
  <2>3. end(0) = <<>> BY <2>2, EmptySeq
  <2>4. Append(<<>>, u) = <<u>> OBVIOUS
  <2>5. Cost(<<>>) <= overlap BY CostOfOne
  <2>6. Tokens(<<u>>, kind) <= ChunkSize BY OneFits
  <2> HIDE DEF end
  <2> QED BY <2>1, <2>3, <2>4, <2>5, <2>6
<1>4. ends \subseteq 0 .. Len(g) OBVIOUS
<1>5. Repeated(g, u, overlap, kind) = end(m) BY DEF Repeated
<1>6. m \in ends
  <2> HIDE DEF ends
  <2> DEFINE up == {k + 1 : k \in ends}
  <2>1. up \in SUBSET (1 .. Len(g) + 1) /\ up # {} BY <1>1, <1>3, <1>4
  <2>2. Len(g) + 1 \in Nat BY <1>1
  <2> HIDE DEF up
  <2>3. Max(up) \in up /\ \A y \in up : Max(up) >= y BY <2>1, <2>2, MaxIn
  <2>4. PICK k \in ends : Max(up) = k + 1 BY <2>3 DEF up
  <2>5. \A j \in ends : j <= k
    <3> SUFFICES ASSUME NEW j \in ends PROVE j <= k
      OBVIOUS
    <3>1. j + 1 \in up BY DEF up
    <3>2. j \in Nat /\ k \in Nat BY <1>1, <1>4
    <3> QED BY <2>3, <2>4, <3>1, <3>2
  <2> QED BY <2>5
<1> HIDE DEF m
<1>7. m \in 0 .. Len(g) /\ Tokens(Append(end(m), u), kind) <= ChunkSize BY <1>6
<1> QED BY <1>2, <1>5, <1>7

Groups == [groups : Seq(Seq(Texts)), last : Seq(Texts)]

LEMMA GroupsGrow ==
  ASSUME NEW g \in Groups, NEW u \in Texts, NEW open \in Seq(Texts)
  PROVE  Grows(g, u) \in Groups /\ Closes(g, open, u) \in Groups /\ NoGroups(open) \in Groups
<1>1. Append(g.last, u) \in Seq(Texts) /\ Append(open, u) \in Seq(Texts)
      /\ Append(g.groups, g.last) \in Seq(Seq(Texts)) /\ <<>> \in Seq(Seq(Texts))
  BY AppendProperties, EmptySeq DEF Groups
<1> QED BY <1>1 DEF Groups, Grows, Closes, NoGroups

LEMMA AddPieceType ==
  ASSUME NEW overlap \in Nat, NEW kind
  PROVE  /\ \A g \in Groups, u \in Texts : AddPiece(g, u, overlap, kind) \in Groups
         /\ NoGroups(<<>>) \in Groups
<1>1. <<>> \in Seq(Texts) /\ <<>> \in Seq(Seq(Texts)) BY EmptySeq
<1>2. NoGroups(<<>>) \in Groups BY <1>1 DEF Groups, NoGroups
<1>3. ASSUME NEW g \in Groups, NEW u \in Texts PROVE AddPiece(g, u, overlap, kind) \in Groups
  <2>1. g.last \in Seq(Texts) BY DEF Groups
  <2>2. Repeated(g.last, u, overlap, kind) \in Seq(Texts) BY <2>1, RepeatedFits
  <2> QED BY <2>2, GroupsGrow DEF AddPiece
<1> QED BY <1>2, <1>3

\* The pieces of a text, one after the other.
IsPieces(units, overlap, kind, it) ==
  it = [s \in SUBSET DOMAIN units |->
          IF s = {} THEN NoGroups(<<>>) ELSE AddPiece(it[s \ {Max(s)}], units[Max(s)], overlap, kind)]

PiecesSteps(units, overlap, kind, h) ==
  /\ h[0] = NoGroups(<<>>)
  /\ \A i \in 1 .. Len(units) : h[i] = AddPiece(h[i - 1], units[i], overlap, kind)

LEMMA PiecesIs ==
  ASSUME NEW units, NEW overlap, NEW kind
  PROVE  Pieces(units, overlap, kind) = (CHOOSE it : IsPieces(units, overlap, kind, it))[DOMAIN units]
BY DEF Pieces, FoldLeft, MapThenFoldSet, IsPieces

LEMMA PiecesInSteps ==
  ASSUME NEW units \in Seq(Texts), NEW overlap \in Nat, NEW kind
  PROVE  \E h : PiecesSteps(units, overlap, kind, h) /\ Pieces(units, overlap, kind) = h[Len(units)]
<1> DEFINE n == Len(units)
           F == [p \in Groups \X (1 .. n) |-> AddPiece(p[1], units[p[2]], overlap, kind)]
           S == SUBSET (1 .. n)
<1>1. n \in Nat /\ DOMAIN units = 1 .. n /\ \A i \in 1 .. n : units[i] \in Texts BY LenProperties
<1>2. \A g \in Groups, i \in 1 .. n : AddPiece(g, units[i], overlap, kind) \in Groups BY <1>1, AddPieceType
<1>3. F \in [Groups \X (1 .. n) -> Groups] BY <1>2
<1>4. \A g \in Groups, i \in 1 .. n : F[<<g, i>>] = AddPiece(g, units[i], overlap, kind) OBVIOUS
<1>5. NoGroups(<<>>) \in Groups BY AddPieceType
<1> HIDE DEF n, F
<1> DEFINE b == NoGroups(<<>>)
<1> HIDE DEF b
<1>5a. b \in Groups BY <1>5 DEF b
<1>6. PICK it \in [SUBSET (1 .. n) -> Groups] : FoldsLeft(it, n, b, F)
  BY <1>1, <1>3, <1>5a, LeftFoldExists
<1>6a. \A s \in S : it[s] = IF s = {} THEN NoGroups(<<>>) ELSE F[<<it[s \ {Max(s)}], Max(s)>>]
  BY <1>6 DEF FoldsLeft, b
<1>7. \A s \in S : it[s] = IF s = {} THEN NoGroups(<<>>) ELSE AddPiece(it[s \ {Max(s)}], units[Max(s)], overlap, kind)
  <2> SUFFICES ASSUME NEW s \in S, s # {}
               PROVE  it[s] = AddPiece(it[s \ {Max(s)}], units[Max(s)], overlap, kind)
    BY <1>6a
  <2>1. Max(s) \in 1 .. n /\ s \ {Max(s)} \in S BY <1>1, MaxIn
  <2>2. it[s \ {Max(s)}] \in Groups BY <1>6, <2>1
  <2> QED BY <1>4, <1>6a, <2>1, <2>2
<1>8. IsPieces(units, overlap, kind, it) BY <1>1, <1>6, <1>7 DEF IsPieces
<1>9. PICK e : IsPieces(units, overlap, kind, e) /\ Pieces(units, overlap, kind) = e[1 .. n]
  <2>1. IsPieces(units, overlap, kind, CHOOSE e : IsPieces(units, overlap, kind, e)) BY <1>8
  <2> QED BY <1>1, <2>1, PiecesIs
<1>10. \A s \in S : e[s] = IF s = {} THEN NoGroups(<<>>) ELSE AddPiece(e[s \ {Max(s)}], units[Max(s)], overlap, kind)
  BY <1>1, <1>9 DEF IsPieces
<1> DEFINE h == [i \in 0 .. n |-> e[1 .. i]]
<1>11. h[0] = NoGroups(<<>>)
  <2>1. 1 .. 0 = {} /\ {} \in S /\ 0 \in 0 .. n BY <1>1
  <2> QED BY <1>10, <2>1
<1>12. ASSUME NEW i \in 1 .. n PROVE h[i] = AddPiece(h[i - 1], units[i], overlap, kind)
  <2>0. i \in Nat /\ i # 0 /\ i \in 0 .. n /\ i - 1 \in 0 .. n /\ i \in 1 .. i BY <1>1
  <2>1. 1 .. i \in S /\ 1 .. i # {}
    <3>1. \A j \in 1 .. i : j \in 1 .. n BY <1>1
    <3> QED BY <2>0, <3>1
  <2>2. Max(1 .. i) = i /\ (1 .. i) \ {i} = 1 .. i - 1 BY <2>0, MaxUpto
  <2>3. e[1 .. i] = AddPiece(e[1 .. i - 1], units[i], overlap, kind) BY <1>10, <2>1, <2>2
  <2>4. h[i] = e[1 .. i] /\ h[i - 1] = e[1 .. i - 1] BY <2>0
  <2> QED BY <2>3, <2>4
<1>13. n \in 0 .. n /\ h[n] = e[1 .. n] BY <1>1
<1> HIDE DEF h
<1> QED BY <1>9, <1>11, <1>12, <1>13 DEF PiecesSteps, n

(***************************************************************************)
(* The groups of a split: what they hold, and that they fit.               *)
(***************************************************************************)
Within(g, u) == HasUnit(g.groups, u) \/ Contains(g.last, u)

\* A group that grows or closes keeps every unit, and has the new one.
LEMMA UnitsStay ==
  ASSUME NEW g \in Groups, NEW u \in Texts, NEW open \in Seq(Texts)
  PROVE  \A v : Within(g, v) \/ v = u => Within(Grows(g, u), v) /\ Within(Closes(g, open, u), v)
<1>1. g.groups \in Seq(Seq(Texts)) /\ g.last \in Seq(Texts) BY DEF Groups
<1>2. /\ Grows(g, u).groups = g.groups /\ Grows(g, u).last = Append(g.last, u)
      /\ Closes(g, open, u).groups = Append(g.groups, g.last)
      /\ Closes(g, open, u).last = Append(open, u)
  BY DEF Groups, Grows, Closes
<1>3. \A v : Contains(Append(g.last, u), v) <=> Contains(g.last, v) \/ v = u
  BY <1>1, AppendContains
<1>4. \A v : Contains(Append(open, u), v) <=> Contains(open, v) \/ v = u
  BY AppendContains
<1>5. \A v : HasUnit(Append(g.groups, g.last), v) <=> HasUnit(g.groups, v) \/ Contains(g.last, v)
  BY <1>1, AppendHasUnit
<1> QED BY <1>2, <1>3, <1>4, <1>5 DEF Within

Fitting(kind) == {c \in Seq(Texts) : Tokens(c, kind) <= ChunkSize}

FittingGroups(kind) == [groups : Seq(Fitting(kind)), last : Fitting(kind)]

LEMMA FittingIsGroups ==
  ASSUME NEW kind
  PROVE  FittingGroups(kind) \subseteq Groups /\ Seq(Fitting(kind)) \subseteq Seq(Seq(Texts))
<1>1. Fitting(kind) \subseteq Seq(Texts) BY DEF Fitting
<1> DEFINE A == Fitting(kind)
           B == Seq(Texts)
<1>2. Seq(A) \subseteq Seq(B)
  <2>0. A \subseteq B BY <1>1
  <2> HIDE DEF A, B
  <2> SUFFICES ASSUME NEW s \in Seq(A) PROVE s \in Seq(B)
    OBVIOUS
  <2>1. Len(s) \in Nat /\ s \in [1 .. Len(s) -> A] BY LenProperties
  <2>2. s \in [1 .. Len(s) -> B] BY <2>0, <2>1
  <2> QED BY <2>1, <2>2, FunctionIsSeq
<1> QED BY <1>1, <1>2 DEF FittingGroups, Groups

LEMMA AddPieceFits ==
  ASSUME NEW overlap \in Nat, NEW kind, NEW g \in FittingGroups(kind), NEW u \in Texts
  PROVE  /\ AddPiece(g, u, overlap, kind) \in FittingGroups(kind)
         /\ \A v : Within(g, v) \/ v = u => Within(AddPiece(g, u, overlap, kind), v)
<1> DEFINE r == Repeated(g.last, u, overlap, kind)
<1>1. /\ g \in Groups /\ g.last \in Seq(Texts) /\ g.last \in Fitting(kind)
      /\ g.groups \in Seq(Fitting(kind))
  BY FittingIsGroups DEF FittingGroups, Groups
<1>2. r \in Seq(Texts) /\ Tokens(Append(r, u), kind) <= ChunkSize BY <1>1, RepeatedFits
<1> HIDE DEF r
<1>3. /\ Append(r, u) \in Fitting(kind)
      /\ Append(g.groups, g.last) \in Seq(Fitting(kind))
      /\ Append(g.last, u) \in Seq(Texts)
  BY <1>1, <1>2, AppendProperties DEF Fitting
<1>4. Closes(g, r, u) \in FittingGroups(kind) BY <1>3 DEF Closes, FittingGroups
<1>5. ASSUME ~(g.last # <<>> /\ Tokens(Append(g.last, u), kind) > ChunkSize)
      PROVE  Grows(g, u) \in FittingGroups(kind)
  <2>1. Tokens(Append(g.last, u), kind) <= ChunkSize
    <3>1. CASE g.last = <<>>
      <4>1. Append(g.last, u) = <<u>> BY <3>1
      <4> QED BY <4>1, OneFits
    <3>2. CASE g.last # <<>>
      <4>1. Tokens(Append(g.last, u), kind) \in Nat /\ ChunkSize \in Nat
        BY <1>3, TokensType, ChunkingAssumption
      <4> QED BY <1>5, <3>2, <4>1
    <3> QED BY <3>1, <3>2
  <2>2. Append(g.last, u) \in Fitting(kind) BY <1>3, <2>1 DEF Fitting
  <2> QED BY <1>1, <2>2 DEF Grows, FittingGroups
<1>6. \A v : Within(g, v) \/ v = u => Within(Grows(g, u), v) /\ Within(Closes(g, r, u), v)
  BY <1>1, <1>2, UnitsStay
<1> QED BY <1>4, <1>5, <1>6 DEF AddPiece, r

\* What the splitter makes of units: every unit is in a piece, and every piece fits.
LEMMA MergedFits ==
  ASSUME NEW units \in Seq(Texts), NEW overlap \in Nat, NEW kind
  PROVE  /\ Merged(units, overlap, kind) \in Seq(Fitting(kind))
         /\ \A i \in 1 .. Len(units) : HasUnit(Merged(units, overlap, kind), units[i])
<1> DEFINE n == Len(units)
           all == Pieces(units, overlap, kind)
<1>1. n \in Nat /\ \A i \in 1 .. n : units[i] \in Texts BY LenProperties
<1>2. PICK h : PiecesSteps(units, overlap, kind, h) /\ all = h[n] BY PiecesInSteps
<1>3. /\ h[0] = NoGroups(<<>>)
      /\ \A i \in 1 .. n : h[i] = AddPiece(h[i - 1], units[i], overlap, kind)
  BY <1>2 DEF PiecesSteps
<1> HIDE DEF n, all
<1> DEFINE Holds(k) == h[k] \in FittingGroups(kind) /\ \A i \in 1 .. k : Within(h[k], units[i])
           P == {k \in Nat : k <= n => Holds(k)}
<1>4. Holds(0)
  <2>1. <<>> \in Seq(Texts) /\ <<>> \in Seq(Fitting(kind)) BY EmptySeq
  <2>2. <<>> \in Fitting(kind)
    <3>1. Tokens(<<>>, kind) = 0 BY CostOfOne DEF Tokens
    <3>2. 0 <= ChunkSize BY ChunkingAssumption
    <3> QED BY <2>1, <3>1, <3>2 DEF Fitting
  <2> QED BY <1>3, <2>1, <2>2 DEF FittingGroups, NoGroups
<1>5. ASSUME NEW k \in Nat, k + 1 <= n, Holds(k) PROVE Holds(k + 1)
  <2>1. k + 1 \in 1 .. n /\ (k + 1) - 1 = k BY <1>1, <1>5
  <2>2. h[k + 1] = AddPiece(h[k], units[k + 1], overlap, kind) /\ units[k + 1] \in Texts
    BY <1>1, <1>3, <2>1
  <2>3. /\ h[k + 1] \in FittingGroups(kind)
        /\ \A v : Within(h[k], v) \/ v = units[k + 1] => Within(h[k + 1], v)
    BY <1>5, <2>2, AddPieceFits
  <2>4. \A i \in 1 .. k + 1 : i \in 1 .. k \/ i = k + 1 OBVIOUS
  <2> QED BY <1>5, <2>3, <2>4
<1> HIDE DEF Holds
<1>6. 0 \in P BY <1>4
<1>7. \A k \in Nat : k \in P => k + 1 \in P
  <2> SUFFICES ASSUME NEW k \in Nat, k \in P PROVE k + 1 \in P
    OBVIOUS
  <2>1. k + 1 <= n => Holds(k + 1)
    <3> SUFFICES ASSUME k + 1 <= n PROVE Holds(k + 1)
      OBVIOUS
    <3>1. k <= n BY <1>1
    <3> QED BY <1>5, <3>1
  <2>2. k + 1 \in Nat OBVIOUS
  <2> QED BY <2>1, <2>2
<1>8. Holds(n)
  <2>1. n <= n BY <1>1
  <2> HIDE DEF P
  <2>2. Nat \subseteq P BY <1>6, <1>7, Induction
  <2> QED BY <1>1, <2>1, <2>2 DEF P
<1>9. all \in FittingGroups(kind) /\ \A i \in 1 .. n : Within(all, units[i])
  BY <1>2, <1>8 DEF Holds
<1>10. all.groups \in Seq(Fitting(kind)) /\ all.last \in Fitting(kind) BY <1>9 DEF FittingGroups
<1>11. Merged(units, overlap, kind)
         = IF all.last = <<>> THEN all.groups ELSE Append(all.groups, all.last)
  BY DEF Merged, all
<1>12. CASE all.last = <<>>
  <2>1. \A v : ~Contains(<<>>, v) BY DEF Contains
  <2> QED BY <1>9, <1>10, <1>11, <1>12, <2>1 DEF Within, n
<1>13. CASE all.last # <<>>
  <2>1. \A v : HasUnit(Append(all.groups, all.last), v)
                 <=> HasUnit(all.groups, v) \/ Contains(all.last, v)
    BY <1>10, AppendHasUnit
  <2>2. Append(all.groups, all.last) \in Seq(Fitting(kind)) BY <1>10, AppendProperties
  <2> QED BY <1>9, <1>11, <1>13, <2>1, <2>2 DEF Within, n
<1> QED BY <1>12, <1>13

\* A splitter that makes no more than one piece had nothing to split.
LEMMA FewPiecesFit ==
  ASSUME NEW units \in Seq(Texts), NEW overlap \in Nat, NEW kind,
         Len(Merged(units, overlap, kind)) <= 1
  PROVE  Tokens(units, kind) <= ChunkSize
<1> DEFINE n == Len(units)
           all == Pieces(units, overlap, kind)
<1>1. n \in Nat /\ \A i \in 1 .. n : units[i] \in Texts BY LenProperties
<1>2. PICK h : PiecesSteps(units, overlap, kind, h) /\ all = h[n] BY PiecesInSteps
<1>3. /\ h[0] = NoGroups(<<>>)
      /\ \A i \in 1 .. n : h[i] = AddPiece(h[i - 1], units[i], overlap, kind)
  BY <1>2 DEF PiecesSteps
<1>4. Merged(units, overlap, kind)
        = IF all.last = <<>> THEN all.groups ELSE Append(all.groups, all.last)
  BY DEF Merged
<1> HIDE DEF n, all
<1> DEFINE Whole(k) == /\ h[k] \in Groups
                       /\ k # 0 => h[k].last # <<>>
                       /\ h[k].groups = <<>> =>
                            Len(h[k].last) = k /\ \A i \in 1 .. k : h[k].last[i] = units[i]
           P == {k \in Nat : k <= n => Whole(k)}
<1>5. Whole(0)
  <2>1. <<>> \in Seq(Texts) /\ <<>> \in Seq(Seq(Texts)) /\ Len(<<>>) = 0 BY EmptySeq
  <2> QED BY <1>3, <2>1 DEF NoGroups, Groups
<1>6. ASSUME NEW k \in Nat, k + 1 <= n, Whole(k) PROVE Whole(k + 1)
  <2> DEFINE g == h[k]
             u == units[k + 1]
  <2>1. k + 1 \in 1 .. n /\ (k + 1) - 1 = k BY <1>1, <1>6
  <2>2. h[k + 1] = AddPiece(g, u, overlap, kind) /\ u \in Texts BY <1>1, <1>3, <2>1
  <2>3. g \in Groups /\ g.groups \in Seq(Seq(Texts)) /\ g.last \in Seq(Texts) BY <1>6 DEF Groups
  <2>4. h[k + 1] \in Groups BY <2>2, <2>3, AddPieceType
  <2>5. g.groups = <<>> => Len(g.last) = k /\ \A i \in 1 .. k : g.last[i] = units[i] BY <1>6
  <2> HIDE DEF g
  <2>6. CASE h[k + 1] = Grows(g, u)
    <3>1. /\ h[k + 1].groups = g.groups /\ h[k + 1].last = Append(g.last, u)
      BY <2>3, <2>6 DEF Grows, Groups
    <3>2. /\ Append(g.last, u) # <<>> /\ Len(Append(g.last, u)) = Len(g.last) + 1
          /\ Append(g.last, u)[Len(g.last) + 1] = u
          /\ \A i \in 1 .. Len(g.last) : Append(g.last, u)[i] = g.last[i]
      <4> HIDE DEF u
      <4>1. g.last \in Seq(Texts) /\ u \in Texts BY <2>2, <2>3
      <4> QED BY <4>1, AppendProperties
    <3>3. \A i \in 1 .. k + 1 : i \in 1 .. k \/ i = k + 1 OBVIOUS
    <3> QED BY <2>4, <2>5, <3>1, <3>2, <3>3
  <2>7. CASE h[k + 1] = Closes(g, Repeated(g.last, u, overlap, kind), u)
    <3> DEFINE r == Repeated(g.last, u, overlap, kind)
    <3>1. r \in Seq(Texts) BY <2>2, <2>3, RepeatedFits
    <3>2. h[k + 1].groups = Append(g.groups, g.last) /\ h[k + 1].last = Append(r, u)
      BY <2>7 DEF Closes
    <3> HIDE DEF r
    <3>3. Append(r, u) # <<>>
      <4> HIDE DEF u
      <4>1. r \in Seq(Texts) /\ u \in Texts BY <2>2, <3>1
      <4> QED BY <4>1, AppendProperties
    <3>4. Append(g.groups, g.last) # <<>> BY <2>3, AppendProperties
    <3> QED BY <2>4, <3>2, <3>3, <3>4
  <2> QED BY <2>2, <2>6, <2>7 DEF AddPiece
<1> HIDE DEF Whole
<1>7. 0 \in P BY <1>5
<1>8. \A k \in Nat : k \in P => k + 1 \in P
  <2> SUFFICES ASSUME NEW k \in Nat, k \in P PROVE k + 1 \in P
    OBVIOUS
  <2>1. k + 1 <= n => Whole(k + 1)
    <3> SUFFICES ASSUME k + 1 <= n PROVE Whole(k + 1)
      OBVIOUS
    <3>1. k <= n BY <1>1
    <3> QED BY <1>6, <3>1
  <2>2. k + 1 \in Nat OBVIOUS
  <2> QED BY <2>1, <2>2
<1>9. Whole(n)
  <2>1. n <= n BY <1>1
  <2> HIDE DEF P
  <2>2. Nat \subseteq P BY <1>7, <1>8, Induction
  <2> QED BY <1>1, <2>1, <2>2 DEF P
<1>10. /\ all.groups \in Seq(Seq(Texts)) /\ all.last \in Seq(Texts)
       /\ n # 0 => all.last # <<>>
       /\ all.groups = <<>> => Len(all.last) = n /\ \A i \in 1 .. n : all.last[i] = units[i]
  BY <1>2, <1>9 DEF Whole, Groups
<1>11. CASE all.last = <<>>
  <2>1. units = <<>> BY <1>1, <1>10, <1>11, EmptySeq DEF n
  <2>2. Tokens(<<>>, kind) = 0 BY CostOfOne DEF Tokens
  <2> QED BY <2>1, <2>2, ChunkingAssumption
<1>12. CASE all.last # <<>>
  <2>1. Merged(units, overlap, kind) = Append(all.groups, all.last) BY <1>4, <1>12
  <2>2. Len(Append(all.groups, all.last)) = Len(all.groups) + 1 BY <1>10, AppendProperties
  <2>3. all.groups = <<>>
    <3>1. Len(all.groups) \in Nat BY <1>10, LenProperties
    <3>2. Len(all.groups) = 0 BY <2>1, <2>2, <3>1
    <3> QED BY <1>10, <3>2, EmptySeq
  <2>4. all.last = units BY <1>10, <2>3, SeqEqual DEF n
  <2>5. Merged(units, overlap, kind) \in Seq(Fitting(kind)) BY MergedFits
  <2>6. Append(<<>>, units) = <<units>> /\ Len(<<units>>) = 1 /\ <<units>>[1] = units OBVIOUS
  <2>7. <<units>> \in Seq(Fitting(kind)) BY <2>1, <2>3, <2>4, <2>5, <2>6
  <2>8. <<units>>[1] \in Fitting(kind) BY <2>6, <2>7, LenProperties
  <2> QED BY <2>6, <2>8 DEF Fitting
<1> QED BY <1>11, <1>12

(***************************************************************************)
(* What the groups of a split say.                                         *)
(***************************************************************************)
Filled == Seq(Texts) \ {<<>>}

Tails(cs) == [i \in 1 .. Len(cs) - 1 |-> Tail(cs[i + 1])]

\* The groups without the first unit of each but the first.
Regroup(cs) == Head(cs) \o FlattenSeq(Tails(cs))

LEMMA TailType ==
  ASSUME NEW c \in Filled, NEW u \in Texts
  PROVE  /\ Tail(c) \in Seq(Texts) /\ Tail(Append(c, u)) = Append(Tail(c), u)
         /\ Append(c, u) \in Filled
<1>1. c \in Seq(Texts) /\ c # <<>> BY DEF Filled
<1>2. Tail(c) \in Seq(Texts) BY <1>1, HeadTailProperties
<1>3. Tail(Append(c, u)) = Append(Tail(c), u) BY <1>1, HeadTailAppend
<1>4. Append(c, u) \in Seq(Texts) /\ Append(c, u) # <<>> BY <1>1, AppendProperties
<1> QED BY <1>2, <1>3, <1>4 DEF Filled

LEMMA RegroupOne ==
  ASSUME NEW c \in Seq(Texts)
  PROVE  Regroup(<<c>>) = c
<1>1. Len(<<c>>) = 1 /\ Head(<<c>>) = c OBVIOUS
<1>2. Tails(<<c>>) = <<>> BY <1>1 DEF Tails
<1> QED BY <1>1, <1>2, FlattenEmpty, ConcatEmptySeq DEF Regroup

LEMMA TailsType ==
  ASSUME NEW cs \in Seq(Filled), cs # <<>>
  PROVE  /\ Tails(cs) \in Seq(Seq(Texts)) /\ Len(Tails(cs)) = Len(cs) - 1
         /\ \A i \in 1 .. Len(cs) - 1 : Tails(cs)[i] = Tail(cs[i + 1])
         /\ Head(cs) = cs[1] /\ cs[1] \in Filled
<1>1. Len(cs) \in Nat /\ Len(cs) # 0 /\ \A i \in 1 .. Len(cs) : cs[i] \in Filled
  BY LenProperties, EmptySeq
<1> DEFINE n == Len(cs) - 1
<1>2. n \in Nat /\ \A i \in 1 .. n : i + 1 \in 1 .. Len(cs) BY <1>1
<1>3. \A i \in 1 .. n : Tail(cs[i + 1]) \in Seq(Texts)
  <2> SUFFICES ASSUME NEW i \in 1 .. n PROVE Tail(cs[i + 1]) \in Seq(Texts)
    OBVIOUS
  <2>1. cs[i + 1] \in Seq(Texts) /\ cs[i + 1] # <<>> BY <1>1, <1>2 DEF Filled
  <2> HIDE DEF n
  <2> QED BY <2>1, HeadTailProperties
<1>4. Tails(cs) = [i \in 1 .. n |-> Tail(cs[i + 1])] BY DEF Tails
<1> HIDE DEF n
<1>5. Tails(cs) \in [1 .. n -> Seq(Texts)] BY <1>3, <1>4
<1>6. Tails(cs) \in Seq(Seq(Texts)) /\ Len(Tails(cs)) = n BY <1>2, <1>5, FunctionIsSeq
<1>7. Head(cs) = cs[1] /\ cs[1] \in Filled BY <1>1, HeadTailProperties
<1> QED BY <1>4, <1>6, <1>7 DEF n

LEMMA RegroupAppend ==
  ASSUME NEW cs \in Seq(Filled), cs # <<>>, NEW c \in Filled
  PROVE  /\ Regroup(cs) \in Seq(Texts)
         /\ Regroup(Append(cs, c)) = Regroup(cs) \o Tail(c)
<1> DEFINE d == Append(cs, c)
           n == Len(cs)
<1>1. n \in Nat /\ n # 0 BY LenProperties, EmptySeq
<1>2. /\ d \in Seq(Filled) /\ Len(d) = n + 1 /\ d[n + 1] = c
      /\ \A i \in 1 .. n : d[i] = cs[i]
  BY AppendProperties
<1> HIDE DEF d
<1>3. d # <<>> BY <1>1, <1>2
<1>4. /\ Tails(cs) \in Seq(Seq(Texts)) /\ Len(Tails(cs)) = n - 1
      /\ \A i \in 1 .. n - 1 : Tails(cs)[i] = Tail(cs[i + 1])
      /\ Head(cs) = cs[1] /\ cs[1] \in Filled
  BY TailsType
<1>5. /\ Tails(d) \in Seq(Seq(Texts)) /\ Len(Tails(d)) = n
      /\ \A i \in 1 .. n : Tails(d)[i] = Tail(d[i + 1])
      /\ Head(d) = d[1]
  <2>1. /\ Tails(d) \in Seq(Seq(Texts)) /\ Len(Tails(d)) = Len(d) - 1
        /\ \A i \in 1 .. Len(d) - 1 : Tails(d)[i] = Tail(d[i + 1])
        /\ Head(d) = d[1]
    BY <1>2, <1>3, TailsType
  <2>2. Len(d) - 1 = n BY <1>1, <1>2
  <2> QED BY <2>1, <2>2
<1>6. Tail(c) \in Seq(Texts)
  <2>1. c \in Seq(Texts) /\ c # <<>> BY DEF Filled
  <2> QED BY <2>1, HeadTailProperties
<1> HIDE DEF n
<1> DEFINE s == Tails(cs)
           x == Tail(c)
           t == Append(s, x)
<1>7. s \in Seq(Seq(Texts)) /\ x \in Seq(Texts) /\ Len(s) = n - 1 BY <1>4, <1>6
<1>8. \A i \in 1 .. n - 1 : s[i] = Tail(cs[i + 1]) BY <1>4
<1> HIDE DEF s, x
<1>9. /\ t \in Seq(Seq(Texts)) /\ Len(t) = Len(s) + 1 /\ t[Len(s) + 1] = x
      /\ \A i \in 1 .. Len(s) : t[i] = s[i]
  BY <1>7, AppendProperties
<1> HIDE DEF t
<1>10. Tails(d) = t
  <2>1. Len(t) = n /\ t[n] = x /\ \A i \in 1 .. n - 1 : t[i] = Tail(cs[i + 1])
    <3>1. Len(s) \in Nat /\ Len(s) = n - 1 /\ n \in Nat BY <1>1, <1>7, LenProperties
    <3>2. Len(s) + 1 = n BY <3>1
    <3> QED BY <1>8, <1>9, <3>1, <3>2
  <2>2. \A i \in 1 .. n - 1 : i + 1 \in 1 .. n /\ i \in 1 .. n BY <1>1
  <2>3. \A i \in 1 .. n : i = n \/ i \in 1 .. n - 1 BY <1>1
  <2>4. n \in 1 .. n BY <1>1
  <2>5. \A i \in 1 .. n : Tails(d)[i] = t[i]
    <3> SUFFICES ASSUME NEW i \in 1 .. n PROVE Tails(d)[i] = t[i]
      OBVIOUS
    <3>1. CASE i = n BY <1>2, <1>5, <2>1, <3>1 DEF x
    <3>2. CASE i \in 1 .. n - 1 BY <1>2, <1>5, <2>1, <2>2, <3>2
    <3> QED BY <2>3, <3>1, <3>2
  <2> QED BY <1>5, <1>9, <2>1, <2>5, SeqEqual
<1>11. FlattenSeq(s) \in Seq(Texts) /\ FlattenSeq(t) = FlattenSeq(s) \o x
  BY <1>7, FlattenAppend DEF t
<1>12. Head(d) = Head(cs) /\ Head(cs) \in Seq(Texts)
  <2>1. 1 \in 1 .. n BY <1>1
  <2> QED BY <1>2, <1>4, <1>5, <2>1 DEF Filled
<1>13. Concat(Head(cs), Concat(FlattenSeq(s), x)) = Concat(Concat(Head(cs), FlattenSeq(s)), x)
  BY <1>7, <1>11, <1>12, Associative
<1>14. Head(cs) \o FlattenSeq(s) \in Seq(Texts) BY <1>11, <1>12, ConcatType
<1> QED BY <1>10, <1>11, <1>12, <1>13, <1>14 DEF Regroup, Concat, d, s, x

\* What the groups say so far.
Told(g) == IF g.groups = <<>> THEN g.last ELSE Regroup(g.groups) \o Tail(g.last)

LEMMA ToldIs ==
  ASSUME NEW gs \in Seq(Filled), NEW c \in Filled
  PROVE  Regroup(Append(gs, c)) = IF gs = <<>> THEN c ELSE Regroup(gs) \o Tail(c)
<1>1. CASE gs = <<>>
  <2>1. Append(gs, c) = <<c>> BY <1>1
  <2> QED BY <1>1, <2>1, RegroupOne DEF Filled
<1>2. CASE gs # <<>> BY <1>2, RegroupAppend
<1> QED BY <1>1, <1>2

\* t is what the first m units say.
Tells(t, units, m) == t \in Seq(Texts) /\ Len(t) = m /\ \A i \in 1 .. m : t[i] = units[i]

LEMMA TellsOn ==
  ASSUME NEW units \in Seq(Texts), NEW m \in Nat, m < Len(units), NEW t, Tells(t, units, m)
  PROVE  Tells(Append(t, units[m + 1]), units, m + 1)
<1>1. Len(units) \in Nat /\ units[m + 1] \in Texts
  <2>1. Len(units) \in Nat /\ m + 1 \in 1 .. Len(units) BY LenProperties
  <2> QED BY <2>1, LenProperties
<1> DEFINE u == units[m + 1]
<1>2. t \in Seq(Texts) /\ u \in Texts BY <1>1 DEF Tells
<1> HIDE DEF u
<1>3. /\ Append(t, u) \in Seq(Texts) /\ Len(Append(t, u)) = Len(t) + 1
      /\ Append(t, u)[Len(t) + 1] = u /\ \A i \in 1 .. Len(t) : Append(t, u)[i] = t[i]
  BY <1>2, AppendProperties
<1>4. \A i \in 1 .. m + 1 : i \in 1 .. m \/ i = m + 1 OBVIOUS
<1> QED BY <1>3, <1>4 DEF Tells, u

LEMMA TellsAll ==
  ASSUME NEW units \in Seq(Texts), NEW t, Tells(t, units, Len(units))
  PROVE  t = units
BY SeqEqual DEF Tells

(***************************************************************************)
(* Tables and lists.                                                       *)
(***************************************************************************)
\* The groups g hold the first m units and say them in their order.
Splits(g, units, m) ==
  /\ g \in Groups /\ g.groups \in Seq(Filled)
  /\ m > 0 \/ g.groups # <<>> => g.last # <<>>
  /\ Tells(Told(g), units, m)
  /\ \A i \in 1 .. m : Within(g, units[i])

LEMMA SplitGrows ==
  ASSUME NEW units \in Seq(Texts), NEW m \in Nat, m < Len(units), NEW g, Splits(g, units, m)
  PROVE  Splits(Grows(g, units[m + 1]), units, m + 1)
<1> DEFINE u == units[m + 1]
           h == Grows(g, u)
<1>1. u \in Texts
  <2>1. Len(units) \in Nat /\ m + 1 \in 1 .. Len(units) BY LenProperties
  <2> QED BY <2>1, LenProperties
<1>2. g \in Groups /\ g.groups \in Seq(Filled) /\ g.last \in Seq(Texts) BY DEF Splits, Groups
<1>3. Append(g.last, u) \in Seq(Texts) /\ Append(g.last, u) # <<>> BY <1>1, <1>2, AppendProperties
<1>4. h.groups = g.groups /\ h.last = Append(g.last, u) BY <1>2 DEF Groups, Grows
<1>5. h \in Groups
  <2>1. <<>> \in Seq(Texts) BY EmptySeq
  <2> QED BY <1>1, <1>2, <2>1, GroupsGrow
<1>6. Told(h) = Append(Told(g), u)
  <2>1. CASE g.groups = <<>> BY <1>4, <2>1 DEF Told
  <2>2. CASE g.groups # <<>>
    <3>1. g.last \in Filled BY <1>2, <2>2 DEF Splits, Filled
    <3>2. Tail(g.last) \in Seq(Texts) /\ Tail(Append(g.last, u)) = Append(Tail(g.last), u)
      BY <1>1, <3>1, TailType
    <3> DEFINE r == Regroup(g.groups)
               t == Tail(g.last)
    <3>3. r \in Seq(Texts) BY <1>2, <2>2, <3>1, RegroupAppend
    <3>4. r \o t \in Seq(Texts) BY <3>2, <3>3, ConcatType
    <3>5. <<u>> \in Seq(Texts) /\ t \in Seq(Texts) BY <1>1, <3>2
    <3> HIDE DEF r, t, u
    <3>6. Append(t, u) = t \o <<u>> /\ Append(r \o t, u) = (r \o t) \o <<u>>
      BY <1>1, <3>4, <3>5, AppendIsConcat
    <3>7. Concat(Concat(r, t), <<u>>) = Concat(r, Concat(t, <<u>>))
      <4> DEFINE v == <<u>>
      <4>1. r \in Seq(Texts) /\ t \in Seq(Texts) /\ v \in Seq(Texts) BY <3>3, <3>5 DEF r
      <4> HIDE DEF v
      <4>2. Concat(Concat(r, t), v) = Concat(r, Concat(t, v)) BY <4>1, Associative
      <4> QED BY <4>2 DEF v
    <3>8. r \o Append(t, u) = Append(r \o t, u) BY <3>6, <3>7 DEF Concat
    <3> QED BY <1>4, <2>2, <3>2, <3>8 DEF Told, r, t
  <2> QED BY <2>1, <2>2
<1>7. Tells(Told(h), units, m + 1)
  <2>1. Tells(Told(g), units, m) BY DEF Splits
  <2> QED BY <1>6, <2>1, TellsOn
<1>8. \A i \in 1 .. m + 1 : Within(h, units[i])
  <2>1. <<>> \in Seq(Texts) BY EmptySeq
  <2>2. \A v : Within(g, v) \/ v = u => Within(h, v) BY <1>1, <1>2, <2>1, UnitsStay
  <2>3. \A i \in 1 .. m + 1 : i \in 1 .. m \/ i = m + 1 OBVIOUS
  <2> QED BY <2>2, <2>3 DEF Splits
<1> HIDE DEF h
<1> QED BY <1>2, <1>3, <1>4, <1>5, <1>7, <1>8 DEF Splits, h

LEMMA SplitCloses ==
  ASSUME NEW units \in Seq(Texts), NEW m \in Nat, m < Len(units), NEW g, Splits(g, units, m),
         g.last # <<>>, NEW o \in Texts
  PROVE  Splits(Closes(g, <<o>>, units[m + 1]), units, m + 1)
<1> DEFINE u == units[m + 1]
           h == Closes(g, <<o>>, u)
<1>1. u \in Texts
  <2>1. Len(units) \in Nat /\ m + 1 \in 1 .. Len(units) BY LenProperties
  <2> QED BY <2>1, LenProperties
<1>2. /\ g \in Groups /\ g.groups \in Seq(Filled) /\ g.last \in Filled /\ <<o>> \in Seq(Texts)
  BY DEF Splits, Groups, Filled
<1>3. Tail(Append(<<o>>, u)) = <<u>> /\ Append(<<o>>, u) # <<>>
  <2>1. <<o>> # <<>> /\ Tail(<<o>>) = <<>> /\ Append(<<>>, u) = <<u>> OBVIOUS
  <2>2. Tail(Append(<<o>>, u)) = Append(Tail(<<o>>), u) BY <1>2, <2>1, HeadTailAppend
  <2>3. Append(<<o>>, u) # <<>> BY <1>1, <1>2, AppendProperties
  <2> QED BY <2>1, <2>2, <2>3
<1>4. h.groups = Append(g.groups, g.last) /\ h.last = Append(<<o>>, u) BY DEF Closes
<1>5. h \in Groups BY <1>1, <1>2, GroupsGrow
<1>6. Append(g.groups, g.last) \in Seq(Filled) /\ Append(g.groups, g.last) # <<>>
  BY <1>2, AppendProperties
<1>7. Told(g) = Regroup(Append(g.groups, g.last)) BY <1>2, ToldIs DEF Told
<1>8. Told(h) = Told(g) \o <<u>> BY <1>3, <1>4, <1>6, <1>7 DEF Told
<1>9. Tells(Told(g), units, m) /\ Told(g) \in Seq(Texts) BY DEF Splits, Tells
<1>10. Told(h) = Append(Told(g), u) BY <1>1, <1>8, <1>9, AppendIsConcat
<1>11. Tells(Told(h), units, m + 1) BY <1>9, <1>10, TellsOn
<1>12. \A i \in 1 .. m + 1 : Within(h, units[i])
  <2>1. \A v : Within(g, v) \/ v = u => Within(h, v) BY <1>1, <1>2, UnitsStay
  <2>2. \A i \in 1 .. m + 1 : i \in 1 .. m \/ i = m + 1 OBVIOUS
  <2> QED BY <2>1, <2>2 DEF Splits
<1> HIDE DEF h
<1> QED BY <1>3, <1>4, <1>5, <1>6, <1>11, <1>12 DEF Splits, h

\* The groups of all units, as they are emitted.
LEMMA SplitDone ==
  ASSUME NEW units \in Seq(Texts), units # <<>>, NEW g, Splits(g, units, Len(units))
  PROVE  /\ Append(g.groups, g.last) \in Seq(Seq(Texts))
         /\ Regroup(Append(g.groups, g.last)) = units
         /\ \A i \in 1 .. Len(units) : HasUnit(Append(g.groups, g.last), units[i])
<1>1. Len(units) \in Nat /\ Len(units) > 0 BY LenProperties, EmptySeq
<1>2. /\ g.groups \in Seq(Seq(Texts)) /\ g.last \in Seq(Texts) /\ g.groups \in Seq(Filled)
      /\ g.last \in Filled
  BY <1>1 DEF Splits, Groups, Filled
<1>3. Append(g.groups, g.last) \in Seq(Seq(Texts)) BY <1>2, AppendProperties
<1>4. Told(g) = Regroup(Append(g.groups, g.last)) BY <1>2, ToldIs DEF Told
<1>5. Told(g) = units BY TellsAll DEF Splits
<1>6. \A v : HasUnit(Append(g.groups, g.last), v) <=> HasUnit(g.groups, v) \/ Contains(g.last, v)
  BY <1>2, AppendHasUnit
<1> QED BY <1>3, <1>4, <1>5, <1>6 DEF Splits, Within

LEMMA AddRowType ==
  ASSUME NEW header \in Texts
  PROVE  /\ \A g \in Groups, u \in Texts : AddRow(g, u, header) \in Groups
         /\ NoGroups(<<header>>) \in Groups
<1>1. <<header>> \in Seq(Texts) /\ <<>> \in Seq(Seq(Texts)) BY EmptySeq
<1> QED BY <1>1, GroupsGrow DEF AddRow, NoGroups, Groups

LEMMA AddItemType ==
  /\ \A g \in Groups, u \in Texts : AddItem(g, u) \in Groups
  /\ NoGroups(<<>>) \in Groups
  /\ \A g \in Groups : g.last # <<>> => Last(g.last) \in Texts
<1>1. <<>> \in Seq(Texts) /\ <<>> \in Seq(Seq(Texts)) BY EmptySeq
<1>2. NoGroups(<<>>) \in Groups BY <1>1 DEF NoGroups, Groups
<1>3. ASSUME NEW g \in Groups, g.last # <<>> PROVE Last(g.last) \in Texts
  <2>1. g.last \in Seq(Texts) BY DEF Groups
  <2>2. Len(g.last) \in 1 .. Len(g.last)
    <3>1. Len(g.last) \in Nat /\ Len(g.last) # 0 BY <1>3, <2>1, LenProperties, EmptySeq
    <3> QED BY <3>1
  <2> QED BY <2>1, <2>2, LenProperties DEF Last
<1>4. ASSUME NEW g \in Groups, NEW u \in Texts PROVE AddItem(g, u) \in Groups
  <2>1. g.last # <<>> => <<Last(g.last)>> \in Seq(Texts) BY <1>3
  <2> QED BY <1>1, <2>1, GroupsGrow DEF AddItem
<1> QED BY <1>2, <1>3, <1>4

\* The rows of a table, one after the other.
IsRows(rows, header, it) ==
  it = [s \in SUBSET DOMAIN rows |->
          IF s = {} THEN NoGroups(<<header>>) ELSE AddRow(it[s \ {Max(s)}], rows[Max(s)], header)]

RowsSteps(rows, header, h) ==
  /\ h[0] = NoGroups(<<header>>)
  /\ \A i \in 1 .. Len(rows) : h[i] = AddRow(h[i - 1], rows[i], header)

LEMMA RowsIs ==
  ASSUME NEW rows, NEW header
  PROVE  Rows(header, rows) = (CHOOSE it : IsRows(rows, header, it))[DOMAIN rows]
BY DEF Rows, FoldLeft, MapThenFoldSet, IsRows

LEMMA RowsInSteps ==
  ASSUME NEW rows \in Seq(Texts), NEW header \in Texts
  PROVE  \E h : RowsSteps(rows, header, h) /\ Rows(header, rows) = h[Len(rows)]
<1> DEFINE n == Len(rows)
           F == [p \in Groups \X (1 .. n) |-> AddRow(p[1], rows[p[2]], header)]
           S == SUBSET (1 .. n)
<1>1. n \in Nat /\ DOMAIN rows = 1 .. n /\ \A i \in 1 .. n : rows[i] \in Texts BY LenProperties
<1>2. \A g \in Groups, i \in 1 .. n : AddRow(g, rows[i], header) \in Groups BY <1>1, AddRowType
<1>3. F \in [Groups \X (1 .. n) -> Groups] BY <1>2
<1>4. \A g \in Groups, i \in 1 .. n : F[<<g, i>>] = AddRow(g, rows[i], header) OBVIOUS
<1>5. NoGroups(<<header>>) \in Groups BY AddRowType
<1> HIDE DEF n, F
<1> DEFINE b == NoGroups(<<header>>)
<1> HIDE DEF b
<1>5a. b \in Groups BY <1>5 DEF b
<1>6. PICK it \in [SUBSET (1 .. n) -> Groups] : FoldsLeft(it, n, b, F)
  BY <1>1, <1>3, <1>5a, LeftFoldExists
<1>6a. \A s \in S : it[s] = IF s = {} THEN NoGroups(<<header>>) ELSE F[<<it[s \ {Max(s)}], Max(s)>>]
  BY <1>6 DEF FoldsLeft, b
<1>7. \A s \in S : it[s] = IF s = {} THEN NoGroups(<<header>>) ELSE AddRow(it[s \ {Max(s)}], rows[Max(s)], header)
  <2> SUFFICES ASSUME NEW s \in S, s # {}
               PROVE  it[s] = AddRow(it[s \ {Max(s)}], rows[Max(s)], header)
    BY <1>6a
  <2>1. Max(s) \in 1 .. n /\ s \ {Max(s)} \in S BY <1>1, MaxIn
  <2>2. it[s \ {Max(s)}] \in Groups BY <1>6, <2>1
  <2> QED BY <1>4, <1>6a, <2>1, <2>2
<1>8. IsRows(rows, header, it) BY <1>1, <1>6, <1>7 DEF IsRows
<1>9. PICK e : IsRows(rows, header, e) /\ Rows(header, rows) = e[1 .. n]
  <2>1. IsRows(rows, header, CHOOSE e : IsRows(rows, header, e)) BY <1>8
  <2> QED BY <1>1, <2>1, RowsIs
<1>10. \A s \in S : e[s] = IF s = {} THEN NoGroups(<<header>>) ELSE AddRow(e[s \ {Max(s)}], rows[Max(s)], header)
  BY <1>1, <1>9 DEF IsRows
<1> DEFINE h == [i \in 0 .. n |-> e[1 .. i]]
<1>11. h[0] = NoGroups(<<header>>)
  <2>1. 1 .. 0 = {} /\ {} \in S /\ 0 \in 0 .. n BY <1>1
  <2> QED BY <1>10, <2>1
<1>12. ASSUME NEW i \in 1 .. n PROVE h[i] = AddRow(h[i - 1], rows[i], header)
  <2>0. i \in Nat /\ i # 0 /\ i \in 0 .. n /\ i - 1 \in 0 .. n /\ i \in 1 .. i BY <1>1
  <2>1. 1 .. i \in S /\ 1 .. i # {}
    <3>1. \A j \in 1 .. i : j \in 1 .. n BY <1>1
    <3> QED BY <2>0, <3>1
  <2>2. Max(1 .. i) = i /\ (1 .. i) \ {i} = 1 .. i - 1 BY <2>0, MaxUpto
  <2>3. e[1 .. i] = AddRow(e[1 .. i - 1], rows[i], header) BY <1>10, <2>1, <2>2
  <2>4. h[i] = e[1 .. i] /\ h[i - 1] = e[1 .. i - 1] BY <2>0
  <2> QED BY <2>3, <2>4
<1>13. n \in 0 .. n /\ h[n] = e[1 .. n] BY <1>1
<1> HIDE DEF h
<1> QED BY <1>9, <1>11, <1>12, <1>13 DEF RowsSteps, n

\* The items of a list, one after the other.
IsListed(units, it) ==
  it = [s \in SUBSET DOMAIN units |->
          IF s = {} THEN NoGroups(<<>>) ELSE AddItem(it[s \ {Max(s)}], units[Max(s)])]

ListSteps(units, h) ==
  /\ h[0] = NoGroups(<<>>)
  /\ \A i \in 1 .. Len(units) : h[i] = AddItem(h[i - 1], units[i])

LEMMA ListedIs ==
  ASSUME NEW units
  PROVE  ListItems(units) = (CHOOSE it : IsListed(units, it))[DOMAIN units]
BY DEF ListItems, FoldLeft, MapThenFoldSet, IsListed

LEMMA ListInSteps ==
  ASSUME NEW units \in Seq(Texts)
  PROVE  \E h : ListSteps(units, h) /\ ListItems(units) = h[Len(units)]
<1> DEFINE n == Len(units)
           F == [p \in Groups \X (1 .. n) |-> AddItem(p[1], units[p[2]])]
           S == SUBSET (1 .. n)
<1>1. n \in Nat /\ DOMAIN units = 1 .. n /\ \A i \in 1 .. n : units[i] \in Texts BY LenProperties
<1>2. \A g \in Groups, i \in 1 .. n : AddItem(g, units[i]) \in Groups BY <1>1, AddItemType
<1>3. F \in [Groups \X (1 .. n) -> Groups] BY <1>2
<1>4. \A g \in Groups, i \in 1 .. n : F[<<g, i>>] = AddItem(g, units[i]) OBVIOUS
<1>5. NoGroups(<<>>) \in Groups BY AddItemType
<1> HIDE DEF n, F
<1> DEFINE b == NoGroups(<<>>)
<1> HIDE DEF b
<1>5a. b \in Groups BY <1>5 DEF b
<1>6. PICK it \in [SUBSET (1 .. n) -> Groups] : FoldsLeft(it, n, b, F)
  BY <1>1, <1>3, <1>5a, LeftFoldExists
<1>6a. \A s \in S : it[s] = IF s = {} THEN NoGroups(<<>>) ELSE F[<<it[s \ {Max(s)}], Max(s)>>]
  BY <1>6 DEF FoldsLeft, b
<1>7. \A s \in S : it[s] = IF s = {} THEN NoGroups(<<>>) ELSE AddItem(it[s \ {Max(s)}], units[Max(s)])
  <2> SUFFICES ASSUME NEW s \in S, s # {}
               PROVE  it[s] = AddItem(it[s \ {Max(s)}], units[Max(s)])
    BY <1>6a
  <2>1. Max(s) \in 1 .. n /\ s \ {Max(s)} \in S BY <1>1, MaxIn
  <2>2. it[s \ {Max(s)}] \in Groups BY <1>6, <2>1
  <2> QED BY <1>4, <1>6a, <2>1, <2>2
<1>8. IsListed(units, it) BY <1>1, <1>6, <1>7 DEF IsListed
<1>9. PICK e : IsListed(units, e) /\ ListItems(units) = e[1 .. n]
  <2>1. IsListed(units, CHOOSE e : IsListed(units, e)) BY <1>8
  <2> QED BY <1>1, <2>1, ListedIs
<1>10. \A s \in S : e[s] = IF s = {} THEN NoGroups(<<>>) ELSE AddItem(e[s \ {Max(s)}], units[Max(s)])
  BY <1>1, <1>9 DEF IsListed
<1> DEFINE h == [i \in 0 .. n |-> e[1 .. i]]
<1>11. h[0] = NoGroups(<<>>)
  <2>1. 1 .. 0 = {} /\ {} \in S /\ 0 \in 0 .. n BY <1>1
  <2> QED BY <1>10, <2>1
<1>12. ASSUME NEW i \in 1 .. n PROVE h[i] = AddItem(h[i - 1], units[i])
  <2>0. i \in Nat /\ i # 0 /\ i \in 0 .. n /\ i - 1 \in 0 .. n /\ i \in 1 .. i BY <1>1
  <2>1. 1 .. i \in S /\ 1 .. i # {}
    <3>1. \A j \in 1 .. i : j \in 1 .. n BY <1>1
    <3> QED BY <2>0, <3>1
  <2>2. Max(1 .. i) = i /\ (1 .. i) \ {i} = 1 .. i - 1 BY <2>0, MaxUpto
  <2>3. e[1 .. i] = AddItem(e[1 .. i - 1], units[i]) BY <1>10, <2>1, <2>2
  <2>4. h[i] = e[1 .. i] /\ h[i - 1] = e[1 .. i - 1] BY <2>0
  <2> QED BY <2>3, <2>4
<1>13. n \in 0 .. n /\ h[n] = e[1 .. n] BY <1>1
<1> HIDE DEF h
<1> QED BY <1>9, <1>11, <1>12, <1>13 DEF ListSteps, n

LEMMA RowsSplit ==
  ASSUME NEW units \in Filled
  PROVE  Splits(Rows(Head(units), Tail(units)), units, Len(units))
<1> DEFINE header == Head(units)
           rows == Tail(units)
           n == Len(rows)
<1>1. units \in Seq(Texts) /\ units # <<>> BY DEF Filled
<1>2. /\ header \in Texts /\ header = units[1] /\ rows \in Seq(Texts) /\ n = Len(units) - 1
      /\ \A i \in 1 .. n : rows[i] = units[i + 1]
  BY <1>1, HeadTailProperties
<1>3. n \in Nat /\ Len(units) = n + 1
  <2>1. Len(units) \in Nat /\ Len(units) # 0 BY <1>1, LenProperties, EmptySeq
  <2> HIDE DEF n
  <2> QED BY <1>2, <2>1
<1> HIDE DEF header, rows
<1>4. PICK h : RowsSteps(rows, header, h) /\ Rows(header, rows) = h[n] BY <1>2, RowsInSteps
<1>5. h[0] = NoGroups(<<header>>) /\ \A i \in 1 .. n : h[i] = AddRow(h[i - 1], rows[i], header)
  BY <1>4 DEF RowsSteps
<1> HIDE DEF n
<1> DEFINE P == {k \in Nat : k <= n => Splits(h[k], units, k + 1)}
<1>6. Splits(h[0], units, 0 + 1)
  <2>1. <<header>> \in Seq(Texts) /\ <<>> \in Seq(Seq(Texts)) /\ <<>> \in Seq(Filled)
    BY <1>2, EmptySeq
  <2>2. h[0].groups = <<>> /\ h[0].last = <<header>> /\ h[0] \in Groups
    BY <1>5, <2>1 DEF NoGroups, Groups
  <2>3. Told(h[0]) = <<header>> BY <2>2 DEF Told
  <2>4. <<header>> # <<>> /\ Len(<<header>>) = 1 /\ <<header>>[1] = header OBVIOUS
  <2>5. \A i \in 1 .. 0 + 1 : i = 1 OBVIOUS
  <2>6. Tells(Told(h[0]), units, 0 + 1) BY <1>2, <2>1, <2>3, <2>4, <2>5 DEF Tells
  <2>7. Contains(<<header>>, header) BY <2>4 DEF Contains
  <2>8. Within(h[0], units[1]) BY <1>2, <2>2, <2>7 DEF Within
  <2> QED BY <2>1, <2>2, <2>4, <2>5, <2>6, <2>8 DEF Splits
<1>7. ASSUME NEW k \in Nat, k + 1 <= n, Splits(h[k], units, k + 1)
      PROVE  Splits(h[k + 1], units, (k + 1) + 1)
  <2>1. k + 1 \in 1 .. n /\ (k + 1) - 1 = k /\ k + 1 \in Nat /\ k + 1 < Len(units) BY <1>3, <1>7
  <2>2. h[k + 1] = AddRow(h[k], units[(k + 1) + 1], header) BY <1>2, <1>5, <2>1
  <2>3. Splits(Grows(h[k], units[(k + 1) + 1]), units, (k + 1) + 1)
    BY <1>1, <1>7, <2>1, SplitGrows
  <2>4. Splits(Closes(h[k], <<header>>, units[(k + 1) + 1]), units, (k + 1) + 1)
    <3>1. h[k].last # <<>> BY <1>7 DEF Splits
    <3> QED BY <1>1, <1>2, <1>7, <2>1, <3>1, SplitCloses
  <2> QED BY <2>2, <2>3, <2>4 DEF AddRow
<1>8. 0 \in P BY <1>6
<1>9. \A k \in Nat : k \in P => k + 1 \in P
  <2> SUFFICES ASSUME NEW k \in Nat, k \in P PROVE k + 1 \in P
    OBVIOUS
  <2>1. k + 1 <= n => k <= n BY <1>3
  <2>2. k + 1 <= n => Splits(h[k + 1], units, (k + 1) + 1) BY <1>7, <2>1
  <2>3. k + 1 \in Nat OBVIOUS
  <2> QED BY <2>2, <2>3
<1>10. n \in P
  <2> HIDE DEF P
  <2>1. Nat \subseteq P BY <1>8, <1>9, Induction
  <2> QED BY <1>3, <2>1
<1>11. Splits(h[n], units, n + 1)
  <2>1. n <= n BY <1>3
  <2> QED BY <1>10, <2>1
<1> QED BY <1>3, <1>4, <1>11 DEF header, rows

LEMMA ItemsSplit ==
  ASSUME NEW units \in Filled
  PROVE  Splits(ListItems(units), units, Len(units))
<1> DEFINE n == Len(units)
<1>1. units \in Seq(Texts) /\ n \in Nat BY LenProperties DEF Filled
<1>2. PICK h : ListSteps(units, h) /\ ListItems(units) = h[n] BY <1>1, ListInSteps
<1>3. h[0] = NoGroups(<<>>) /\ \A i \in 1 .. n : h[i] = AddItem(h[i - 1], units[i])
  BY <1>2 DEF ListSteps
<1> HIDE DEF n
<1> DEFINE P == {k \in Nat : k <= n => Splits(h[k], units, k)}
<1>4. Splits(h[0], units, 0)
  <2>1. <<>> \in Seq(Texts) /\ <<>> \in Seq(Seq(Texts)) /\ <<>> \in Seq(Filled) BY EmptySeq
  <2>2. h[0].groups = <<>> /\ h[0].last = <<>> /\ h[0] \in Groups
    BY <1>3, <2>1 DEF NoGroups, Groups
  <2>3. Told(h[0]) = <<>> BY <2>2 DEF Told
  <2>4. Len(<<>>) = 0 OBVIOUS
  <2>5. Tells(Told(h[0]), units, 0) BY <2>1, <2>3, <2>4 DEF Tells
  <2>6. \A i : i \notin 1 .. 0 /\ ~(0 > 0) OBVIOUS
  <2> QED BY <2>1, <2>2, <2>5, <2>6 DEF Splits
<1>5. ASSUME NEW k \in Nat, k + 1 <= n, Splits(h[k], units, k)
      PROVE  Splits(h[k + 1], units, k + 1)
  <2>1. k + 1 \in 1 .. n /\ (k + 1) - 1 = k /\ k < Len(units) BY <1>1, <1>5 DEF n
  <2>2. h[k + 1] = AddItem(h[k], units[k + 1]) BY <1>3, <2>1
  <2>3. Splits(Grows(h[k], units[k + 1]), units, k + 1) BY <1>1, <1>5, <2>1, SplitGrows
  <2>4. ASSUME h[k].last # <<>>
        PROVE  Splits(Closes(h[k], <<Last(h[k].last)>>, units[k + 1]), units, k + 1)
    <3>1. Last(h[k].last) \in Texts BY <1>5, <2>4, AddItemType DEF Splits
    <3> QED BY <1>1, <1>5, <2>1, <2>4, <3>1, SplitCloses
  <2> QED BY <2>2, <2>3, <2>4 DEF AddItem
<1>6. 0 \in P BY <1>4
<1>7. \A k \in Nat : k \in P => k + 1 \in P
  <2> SUFFICES ASSUME NEW k \in Nat, k \in P PROVE k + 1 \in P
    OBVIOUS
  <2>1. k + 1 <= n => k <= n BY <1>1
  <2>2. k + 1 <= n => Splits(h[k + 1], units, k + 1) BY <1>5, <2>1
  <2>3. k + 1 \in Nat OBVIOUS
  <2> QED BY <2>2, <2>3
<1>8. n \in P
  <2> HIDE DEF P
  <2>1. Nat \subseteq P BY <1>6, <1>7, Induction
  <2> QED BY <1>1, <2>1
<1>9. Splits(h[n], units, n)
  <2>1. n <= n BY <1>1
  <2> QED BY <1>8, <2>1
<1> QED BY <1>2, <1>9 DEF n

PageSet == [has : SUBSET {"table", "code", "list"}, units : Filled]

LEMMA OneGroup ==
  ASSUME NEW units \in Filled
  PROVE  /\ <<units>> \in Seq(Seq(Texts)) /\ Regroup(<<units>>) = units
         /\ \A i \in 1 .. Len(units) : HasUnit(<<units>>, units[i])
<1>1. units \in Seq(Texts) BY DEF Filled
<1>2. Len(<<units>>) = 1 /\ <<units>>[1] = units /\ 1 \in 1 .. 1 OBVIOUS
<1>3. \A i \in 1 .. Len(units) : Contains(units, units[i]) BY DEF Contains
<1>4. \A i \in 1 .. Len(units) : HasUnit(<<units>>, units[i]) BY <1>2, <1>3 DEF HasUnit
<1>5. <<units>> \in Seq(Seq(Texts)) BY <1>1
<1> QED BY <1>1, <1>4, <1>5, RegroupOne

\* The splits of a page: all its units, and for a table and a list in their order.
LEMMA SplitKeeps ==
  ASSUME NEW page \in PageSet
  PROVE  /\ Split(page) \in Seq(Seq(Texts))
         /\ Regrouped(page) = page.units
         /\ \A i \in 1 .. Len(page.units) : HasUnit(Split(page), page.units[i])
<1> DEFINE units == page.units
           Good(cs) == /\ cs \in Seq(Seq(Texts)) /\ Regroup(cs) = units
                       /\ \A i \in 1 .. Len(units) : HasUnit(cs, units[i])
<1>1. units \in Filled /\ units \in Seq(Texts) /\ units # <<>> BY DEF PageSet, Filled
<1> HIDE DEF units
<1>2. Good(<<units>>) BY <1>1, OneGroup
<1>3. Good(SplitTable(units))
  <2> DEFINE all == Rows(Head(units), Tail(units))
  <2>1. Splits(all, units, Len(units)) BY <1>1, RowsSplit
  <2> HIDE DEF all
  <2>2. Good(Append(all.groups, all.last)) BY <1>1, <2>1, SplitDone
  <2> HIDE DEF Good
  <2> QED BY <1>2, <2>2 DEF SplitTable, all
<1>4. Good(SplitList(units))
  <2>1. Splits(ListItems(units), units, Len(units)) BY <1>1, ItemsSplit
  <2>2. Good(Append(ListItems(units).groups, ListItems(units).last)) BY <1>1, <2>1, SplitDone
  <2> HIDE DEF Good
  <2> QED BY <1>2, <2>2 DEF SplitList
<1>5. ASSUME NEW kind
      PROVE  /\ Merged(units, Overlap, kind) \in Seq(Seq(Texts))
             /\ \A i \in 1 .. Len(units) : HasUnit(Merged(units, Overlap, kind), units[i])
  <2>1. Overlap \in Nat BY ChunkingAssumption
  <2> QED BY <1>1, <2>1, MergedFits, FittingIsGroups
<1>6. Split(page) = IF Structure(page) = "table" THEN SplitTable(units)
                    ELSE IF Structure(page) = "list" THEN SplitList(units)
                    ELSE Merged(units, Overlap, Structure(page))
  BY DEF Split, units
<1>7. Structure(page) \in {"table", "list"} => Regrouped(page) = Regroup(Split(page))
  BY DEF Regrouped, Regroup, Tails
<1>8. Structure(page) \notin {"table", "list"} => Regrouped(page) = units
  BY DEF Regrouped, units
<1>9. CASE Structure(page) = "table" BY <1>3, <1>6, <1>7, <1>9 DEF units
<1>10. CASE Structure(page) = "list" BY <1>4, <1>6, <1>7, <1>10 DEF units
<1>11. CASE Structure(page) \notin {"table", "list"} BY <1>5, <1>6, <1>8, <1>11 DEF units
<1> QED BY <1>9, <1>10, <1>11

(***************************************************************************)
(* The filter and the duplicates.                                          *)
(***************************************************************************)
LEMMA PassingKeeps ==
  ASSUME NEW kind, NEW cs \in Seq(Fitting(kind))
  PROVE  /\ Passing(cs, kind) \in Seq(Fitting(kind))
         /\ \A i \in 1 .. Len(cs) : ~Junk(cs[i], kind) => Contains(Passing(cs, kind), cs[i])
<1> DEFINE A == Fitting(kind)
           n == Len(cs)
           parts == [i \in 1 .. n |-> IF Junk(cs[i], kind) THEN <<>> ELSE <<cs[i]>>]
<1>1. n \in Nat /\ DOMAIN cs = 1 .. n /\ \A i \in 1 .. n : cs[i] \in A BY LenProperties
<1>2. Passing(cs, kind) = FlattenSeq(parts) BY <1>1 DEF Passing
<1> HIDE DEF A, n
<1>3. <<>> \in Seq(A) BY EmptySeq
<1>4. parts \in [1 .. n -> Seq(A)] BY <1>1, <1>3
<1>5. \A i \in 1 .. n : ~Junk(cs[i], kind) => parts[i] = <<cs[i]>> OBVIOUS
<1> HIDE DEF parts
<1>6. parts \in Seq(Seq(A)) /\ Len(parts) = n BY <1>1, <1>4, FunctionIsSeq
<1>7. /\ FlattenSeq(parts) \in Seq(A)
      /\ \A e : Contains(FlattenSeq(parts), e) <=> HasUnit(parts, e)
  BY <1>6, FlattenHas
<1>8. ASSUME NEW i \in 1 .. n, ~Junk(cs[i], kind) PROVE HasUnit(parts, cs[i])
  <2>1. Len(<<cs[i]>>) = 1 /\ <<cs[i]>>[1] = cs[i] /\ 1 \in 1 .. 1 OBVIOUS
  <2>2. Contains(<<cs[i]>>, cs[i]) BY <2>1 DEF Contains
  <2>3. Contains(parts[i], cs[i]) BY <1>5, <1>8, <2>2
  <2> QED BY <1>6, <2>3 DEF HasUnit
<1> QED BY <1>2, <1>7, <1>8 DEF A, n

\* What the filter makes of a chunk fits, and a unit of the chunk is kept or
\* was in something the filter refused.
LEMMA KeptCovers ==
  ASSUME NEW c \in Seq(Texts), NEW kind
  PROVE  /\ Kept(c, kind) \in Seq(Fitting(kind))
         /\ \A u : Contains(c, u) =>
              \/ \E k : Contains(Kept(c, kind), k) /\ Contains(k, u)
              \/ \E r \in Refused(c, kind) : Contains(r, u)
<1> DEFINE m == Merged(c, 0, kind)
<1>1. CASE Junk(c, kind) \/ Gated(c, kind)
  <2>1. Kept(c, kind) = <<>> /\ Refused(c, kind) = {c} BY <1>1 DEF Kept, Refused
  <2>2. <<>> \in Seq(Fitting(kind)) BY EmptySeq
  <2> QED BY <2>1, <2>2
<1>2. CASE ~(Junk(c, kind) \/ Gated(c, kind)) /\ Oversized(c, kind) /\ Len(m) > 1
  <2>1. Kept(c, kind) = Passing(m, kind) /\ Refused(c, kind) = {s \in ToSet(m) : Junk(s, kind)}
    BY <1>2 DEF Kept, Refused
  <2>2. /\ m \in Seq(Fitting(kind))
        /\ \A i \in 1 .. Len(c) : HasUnit(m, c[i])
    <3>1. 0 \in Nat OBVIOUS
    <3> QED BY <3>1, MergedFits
  <2> HIDE DEF m
  <2>3. /\ Passing(m, kind) \in Seq(Fitting(kind))
        /\ \A i \in 1 .. Len(m) : ~Junk(m[i], kind) => Contains(Passing(m, kind), m[i])
    BY <2>2, PassingKeeps
  <2>4. ASSUME NEW u, Contains(c, u)
        PROVE  \/ \E k : Contains(Kept(c, kind), k) /\ Contains(k, u)
               \/ \E r \in Refused(c, kind) : Contains(r, u)
    <3>1. HasUnit(m, u) BY <2>2, <2>4 DEF Contains
    <3>2. PICK j \in 1 .. Len(m) : Contains(m[j], u) BY <3>1 DEF HasUnit
    <3>3. CASE Junk(m[j], kind)
      <4>1. m[j] \in ToSet(m)
        <5>1. DOMAIN m = 1 .. Len(m) BY <2>2, LenProperties
        <5> QED BY <5>1 DEF ToSet
      <4> QED BY <2>1, <3>2, <3>3, <4>1
    <3>4. CASE ~Junk(m[j], kind) BY <2>1, <2>3, <3>2, <3>4
    <3> QED BY <3>3, <3>4
  <2> QED BY <2>1, <2>3, <2>4
<1>3. CASE ~(Junk(c, kind) \/ Gated(c, kind)) /\ ~(Oversized(c, kind) /\ Len(m) > 1)
  <2>1. Kept(c, kind) = <<c>> BY <1>3 DEF Kept
  <2>2. Tokens(c, kind) <= ChunkSize
    <3>1. Tokens(c, kind) \in Nat /\ ChunkSize \in Nat BY TokensType, ChunkingAssumption
    <3>2. CASE ~Oversized(c, kind) BY <3>1, <3>2 DEF Oversized
    <3>3. CASE ~(Len(m) > 1)
      <4>1. 0 \in Nat /\ m \in Seq(Fitting(kind)) BY MergedFits
      <4>2. Len(m) \in Nat BY <4>1, LenProperties
      <4>3. Len(m) <= 1 BY <3>3, <4>2
      <4> QED BY <4>1, <4>3, FewPiecesFit
    <3> QED BY <1>3, <3>2, <3>3
  <2>3. Len(<<c>>) = 1 /\ <<c>>[1] = c /\ 1 \in 1 .. 1 OBVIOUS
  <2>4. Contains(<<c>>, c) BY <2>3 DEF Contains
  <2>5. <<c>> \in Seq(Fitting(kind)) BY <2>2 DEF Fitting
  <2> QED BY <2>1, <2>4, <2>5
<1> QED BY <1>1, <1>2, <1>3

LEMMA AddNewType ==
  ASSUME NEW A
  PROVE  /\ \A kept \in Seq(A), c \in A : AddNew(kept, c) \in Seq(A)
         /\ <<>> \in Seq(A)
BY AppendProperties, EmptySeq DEF AddNew

\* The chunks of a page, one after the other.
IsUnique(cs, it) ==
  it = [s \in SUBSET DOMAIN cs |->
          IF s = {} THEN <<>> ELSE AddNew(it[s \ {Max(s)}], cs[Max(s)])]

UniqueSteps(cs, h) ==
  /\ h[0] = <<>>
  /\ \A i \in 1 .. Len(cs) : h[i] = AddNew(h[i - 1], cs[i])

LEMMA UniqueIs ==
  ASSUME NEW cs
  PROVE  Unique(cs) = (CHOOSE it : IsUnique(cs, it))[DOMAIN cs]
BY DEF Unique, FoldLeft, MapThenFoldSet, IsUnique

LEMMA UniqueInSteps ==
  ASSUME NEW A, NEW cs \in Seq(A)
  PROVE  \E h : UniqueSteps(cs, h) /\ Unique(cs) = h[Len(cs)]
<1> DEFINE n == Len(cs)
           F == [p \in Seq(A) \X (1 .. n) |-> AddNew(p[1], cs[p[2]])]
           S == SUBSET (1 .. n)
<1>1. n \in Nat /\ DOMAIN cs = 1 .. n /\ \A i \in 1 .. n : cs[i] \in A BY LenProperties
<1>2. \A g \in Seq(A), i \in 1 .. n : AddNew(g, cs[i]) \in Seq(A) BY <1>1, AddNewType
<1>3. F \in [Seq(A) \X (1 .. n) -> Seq(A)] BY <1>2
<1>4. \A g \in Seq(A), i \in 1 .. n : F[<<g, i>>] = AddNew(g, cs[i]) OBVIOUS
<1>5. <<>> \in Seq(A) BY AddNewType
<1> HIDE DEF n, F
<1> DEFINE b == <<>>
<1> HIDE DEF b
<1>5a. b \in Seq(A) BY <1>5 DEF b
<1>6. PICK it \in [SUBSET (1 .. n) -> Seq(A)] : FoldsLeft(it, n, b, F)
  BY <1>1, <1>3, <1>5a, LeftFoldExists
<1>6a. \A s \in S : it[s] = IF s = {} THEN <<>> ELSE F[<<it[s \ {Max(s)}], Max(s)>>]
  BY <1>6 DEF FoldsLeft, b
<1>7. \A s \in S : it[s] = IF s = {} THEN <<>> ELSE AddNew(it[s \ {Max(s)}], cs[Max(s)])
  <2> SUFFICES ASSUME NEW s \in S, s # {}
               PROVE  it[s] = AddNew(it[s \ {Max(s)}], cs[Max(s)])
    BY <1>6a
  <2>1. Max(s) \in 1 .. n /\ s \ {Max(s)} \in S BY <1>1, MaxIn
  <2>2. it[s \ {Max(s)}] \in Seq(A) BY <1>6, <2>1
  <2> QED BY <1>4, <1>6a, <2>1, <2>2
<1>8. IsUnique(cs, it) BY <1>1, <1>6, <1>7 DEF IsUnique
<1>9. PICK e : IsUnique(cs, e) /\ Unique(cs) = e[1 .. n]
  <2>1. IsUnique(cs, CHOOSE e : IsUnique(cs, e)) BY <1>8
  <2> QED BY <1>1, <2>1, UniqueIs
<1>10. \A s \in S : e[s] = IF s = {} THEN <<>> ELSE AddNew(e[s \ {Max(s)}], cs[Max(s)])
  BY <1>1, <1>9 DEF IsUnique
<1> DEFINE h == [i \in 0 .. n |-> e[1 .. i]]
<1>11. h[0] = <<>>
  <2>1. 1 .. 0 = {} /\ {} \in S /\ 0 \in 0 .. n BY <1>1
  <2> QED BY <1>10, <2>1
<1>12. ASSUME NEW i \in 1 .. n PROVE h[i] = AddNew(h[i - 1], cs[i])
  <2>0. i \in Nat /\ i # 0 /\ i \in 0 .. n /\ i - 1 \in 0 .. n /\ i \in 1 .. i BY <1>1
  <2>1. 1 .. i \in S /\ 1 .. i # {}
    <3>1. \A j \in 1 .. i : j \in 1 .. n BY <1>1
    <3> QED BY <2>0, <3>1
  <2>2. Max(1 .. i) = i /\ (1 .. i) \ {i} = 1 .. i - 1 BY <2>0, MaxUpto
  <2>3. e[1 .. i] = AddNew(e[1 .. i - 1], cs[i]) BY <1>10, <2>1, <2>2
  <2>4. h[i] = e[1 .. i] /\ h[i - 1] = e[1 .. i - 1] BY <2>0
  <2> QED BY <2>3, <2>4
<1>13. n \in 0 .. n /\ h[n] = e[1 .. n] BY <1>1
<1> HIDE DEF h
<1> QED BY <1>9, <1>11, <1>12, <1>13 DEF UniqueSteps, n

\* What is left is new, once each, and nothing new is left out.
LEMMA UniqueKeeps ==
  ASSUME NEW A, NEW cs \in Seq(A)
  PROVE  /\ Unique(cs) \in Seq(A)
         /\ \A i, j \in 1 .. Len(Unique(cs)) : Unique(cs)[i] = Unique(cs)[j] => i = j
         /\ \A i \in 1 .. Len(Unique(cs)) : Unique(cs)[i] \notin seen
         /\ \A i \in 1 .. Len(cs) : cs[i] \in seen \/ Contains(Unique(cs), cs[i])
<1> DEFINE n == Len(cs)
<1>1. n \in Nat /\ \A i \in 1 .. n : cs[i] \in A BY LenProperties
<1>2. PICK h : UniqueSteps(cs, h) /\ Unique(cs) = h[n] BY UniqueInSteps
<1>3. h[0] = <<>> /\ \A i \in 1 .. n : h[i] = AddNew(h[i - 1], cs[i]) BY <1>2 DEF UniqueSteps
<1> HIDE DEF n
<1> DEFINE Fresh(s) == /\ s \in Seq(A)
                       /\ \A i, j \in 1 .. Len(s) : s[i] = s[j] => i = j
                       /\ \A i \in 1 .. Len(s) : s[i] \notin seen
           Sifted(k) == Fresh(h[k]) /\ \A i \in 1 .. k : cs[i] \in seen \/ Contains(h[k], cs[i])
           P == {k \in Nat : k <= n => Sifted(k)}
<1>4. Sifted(0)
  <2>1. <<>> \in Seq(A) /\ Len(<<>>) = 0 /\ \A i : i \notin 1 .. 0 BY EmptySeq
  <2> QED BY <1>3, <2>1
<1>5. ASSUME NEW s, Fresh(s), NEW c \in A, c \notin seen, ~Contains(s, c) PROVE Fresh(Append(s, c))
  <2> DEFINE t == Append(s, c)
             m == Len(s)
  <2>1. m \in Nat BY <1>5, LenProperties
  <2>2. /\ t \in Seq(A) /\ Len(t) = m + 1 /\ t[m + 1] = c /\ \A i \in 1 .. m : t[i] = s[i]
    BY <1>5, AppendProperties
  <2> HIDE DEF t, m
  <2>3. \A i \in 1 .. m + 1 : i \in 1 .. m \/ i = m + 1 BY <2>1
  <2>4. \A i \in 1 .. m : s[i] # c BY <1>5 DEF Contains, m
  <2>5. \A i, j \in 1 .. m + 1 : t[i] = t[j] => i = j
    <3> SUFFICES ASSUME NEW i \in 1 .. m + 1, NEW j \in 1 .. m + 1, t[i] = t[j] PROVE i = j
      OBVIOUS
    <3>1. \A k, l \in 1 .. m : s[k] = s[l] => k = l BY <1>5 DEF m
    <3> QED BY <2>2, <2>3, <2>4, <3>1
  <2>6. \A i \in 1 .. m + 1 : t[i] \notin seen
    <3>1. \A k \in 1 .. m : s[k] \notin seen BY <1>5 DEF m
    <3> QED BY <1>5, <2>2, <2>3, <3>1
  <2> QED BY <2>2, <2>5, <2>6 DEF t
<1>6. ASSUME NEW k \in Nat, k + 1 <= n, Sifted(k) PROVE Sifted(k + 1)
  <2> HIDE DEF Fresh
  <2>1. k + 1 \in 1 .. n /\ (k + 1) - 1 = k BY <1>1, <1>6
  <2> DEFINE c == cs[k + 1]
  <2>2. h[k + 1] = AddNew(h[k], c) /\ c \in A BY <1>1, <1>3, <2>1
  <2>3. \A i \in 1 .. k + 1 : i \in 1 .. k \/ i = k + 1 OBVIOUS
  <2>4. h[k] \in Seq(A) BY <1>6 DEF Fresh
  <2>5. CASE c \in seen \/ Contains(h[k], c)
    <3>1. h[k + 1] = h[k] BY <2>2, <2>5 DEF AddNew
    <3> QED BY <1>6, <2>3, <2>5, <3>1
  <2>6. CASE ~(c \in seen \/ Contains(h[k], c))
    <3>1. h[k + 1] = Append(h[k], c) BY <2>2, <2>6 DEF AddNew
    <3>2. Fresh(h[k + 1]) BY <1>5, <1>6, <2>2, <2>6, <3>1
    <3>3. \A e : Contains(h[k + 1], e) <=> Contains(h[k], e) \/ e = c
      BY <2>2, <2>4, <3>1, AppendContains
    <3> QED BY <1>6, <2>3, <3>2, <3>3
  <2> QED BY <2>5, <2>6
<1> HIDE DEF Fresh, Sifted
<1>7. 0 \in P BY <1>4
<1>8. \A k \in Nat : k \in P => k + 1 \in P
  <2> SUFFICES ASSUME NEW k \in Nat, k \in P PROVE k + 1 \in P
    OBVIOUS
  <2>1. k + 1 <= n => k <= n BY <1>1
  <2>2. k + 1 <= n => Sifted(k + 1) BY <1>6, <2>1
  <2>3. k + 1 \in Nat OBVIOUS
  <2> QED BY <2>2, <2>3
<1>9. Sifted(n)
  <2>1. n <= n BY <1>1
  <2> HIDE DEF P
  <2>2. Nat \subseteq P BY <1>7, <1>8, Induction
  <2> QED BY <1>1, <2>1, <2>2 DEF P
<1> QED BY <1>2, <1>9 DEF Sifted, Fresh, n

(***************************************************************************)
(* Chunking: the invariant.                                                *)
(***************************************************************************)
ChunkSet == [says : Seq(Texts), page : Nat, index : Nat, embeds : Nat]

ChunkTypes ==
  /\ file \in Seq(PageSet) /\ done \in 0 .. Len(file)
  /\ chunks \in Seq(ChunkSet)
  /\ raised \in BOOLEAN

ChunksSound ==
  \A i \in 1 .. Len(chunks) :
    /\ chunks[i].page \in 1 .. done
    /\ Tokens(chunks[i].says, Structure(file[chunks[i].page])) <= ChunkSize
    /\ chunks[i].embeds <= PrefixTokens + ChunkSize
    /\ chunks[i].says \in seen

\* The hashes are those of the chunks.
SeenSaid == \A c \in seen : \E i \in 1 .. Len(chunks) : chunks[i].says = c

PageKept(p) ==
  /\ Regrouped(file[p]) = file[p].units
  /\ \A u \in ToSet(file[p].units) : \E c \in seen \cup refused : Contains(c, u)

SaidOnce == \A i, j \in 1 .. Len(chunks) : chunks[i].says = chunks[j].says => i = j

\* A file is chunked whole, or not at all.
ChunkInv ==
  /\ ChunkTypes
  /\ IF raised THEN chunks = <<>>
     ELSE ChunksSound /\ SeenSaid /\ (\A p \in 1 .. done : PageKept(p)) /\ SaidOnce

LEMMA ChunkingStart == ChunkingInit => ChunkInv
<1> SUFFICES ASSUME ChunkingInit PROVE ChunkInv
  OBVIOUS
<1>1. file \in Seq(PageSet) /\ done = 0 /\ chunks = <<>> /\ seen = {} /\ raised = FALSE
  BY ChunkingAssumption DEF ChunkingInit, PageSet, Filled
<1>2. Len(file) \in Nat /\ <<>> \in Seq(ChunkSet) /\ Len(<<>>) = 0 /\ \A i : i \notin 1 .. 0
  BY <1>1, LenProperties, EmptySeq
<1>3. ChunkTypes
  <2>1. done \in 0 .. Len(file) BY <1>1, <1>2
  <2>2. chunks \in Seq(ChunkSet) BY <1>1, <1>2
  <2> QED BY <1>1, <2>1, <2>2 DEF ChunkTypes
<1>4. ChunksSound /\ SaidOnce BY <1>1, <1>2 DEF ChunksSound, SaidOnce
<1>5. SeenSaid BY <1>1 DEF SeenSaid
<1>6. \A p \in 1 .. done : PageKept(p) BY <1>1, <1>2
<1> QED BY <1>1, <1>3, <1>4, <1>5, <1>6 DEF ChunkInv

LEMMA ChunkingStep == ChunkInv /\ [ChunkingNext]_chunkingVars => ChunkInv'
<1> SUFFICES ASSUME ChunkInv, [ChunkingNext]_chunkingVars PROVE ChunkInv'
  OBVIOUS
<1>1. /\ file \in Seq(PageSet) /\ done \in 0 .. Len(file) /\ chunks \in Seq(ChunkSet)
      /\ raised \in BOOLEAN
      /\ ~raised => ChunksSound /\ SeenSaid /\ SaidOnce /\ \A p \in 1 .. done : PageKept(p)
  BY DEF ChunkInv, ChunkTypes
<1>2. CASE SplitPage
  <2> DEFINE page == file[done + 1]
             kind == Structure(page)
             split == Split(page)
             parts == [i \in DOMAIN split |-> Kept(split[i], kind)]
             all == FlattenSeq(parts)
             kept == Unique(all)
             new == [i \in DOMAIN kept |-> [says |-> kept[i], page |-> done + 1, index |-> i - 1,
                                            embeds |-> PrefixTokens + Tokens(kept[i], kind)]]
             A == Fitting(kind)
             n == Len(chunks)
             m == Len(kept)
  <2>1. /\ done < Len(file) /\ done' = done + 1 /\ UNCHANGED file
        /\ raised' = FALSE
        /\ ChunksSound /\ SeenSaid /\ SaidOnce /\ \A p \in 1 .. done : PageKept(p)
        /\ chunks' = chunks \o new
        /\ seen' = seen \cup ToSet(kept)
        /\ refused' = refused \cup UNION {Refused(c, kind) : c \in ToSet(split)}
    BY <1>1, <1>2 DEF SplitPage
  <2>2. Len(file) \in Nat /\ done \in Nat /\ done + 1 \in 1 .. Len(file) /\ page \in PageSet
    <3>1. Len(file) \in Nat BY <1>1, LenProperties
    <3>2. done \in Nat /\ done + 1 \in 1 .. Len(file) BY <1>1, <2>1, <3>1
    <3> QED BY <1>1, <3>1, <3>2, LenProperties
  <2> HIDE DEF page
  <2>3. /\ split \in Seq(Seq(Texts)) /\ Regrouped(page) = page.units
        /\ \A i \in 1 .. Len(page.units) : HasUnit(split, page.units[i])
    BY <2>2, SplitKeeps
  <2> HIDE DEF split, kind
  <2>4. Len(split) \in Nat /\ DOMAIN split = 1 .. Len(split)
        /\ \A i \in 1 .. Len(split) : split[i] \in Seq(Texts)
    BY <2>3, LenProperties
  <2>5. \A i \in 1 .. Len(split) : Kept(split[i], kind) \in Seq(A) BY <2>4, KeptCovers
  <2> HIDE DEF A
  <2>6. parts \in [1 .. Len(split) -> Seq(A)] BY <2>4, <2>5
  <2>7. \A i \in 1 .. Len(split) : parts[i] = Kept(split[i], kind) BY <2>4
  <2> HIDE DEF parts
  <2>8. parts \in Seq(Seq(A)) /\ Len(parts) = Len(split) BY <2>4, <2>6, FunctionIsSeq
  <2>9. all \in Seq(A) /\ \A e : Contains(all, e) <=> HasUnit(parts, e) BY <2>8, FlattenHas
  <2> HIDE DEF all
  <2>10. /\ kept \in Seq(A)
         /\ \A i, j \in 1 .. m : kept[i] = kept[j] => i = j
         /\ \A i \in 1 .. m : kept[i] \notin seen
         /\ \A i \in 1 .. Len(all) : all[i] \in seen \/ Contains(kept, all[i])
    BY <2>9, UniqueKeeps
  <2> HIDE DEF kept
  <2>11. /\ m \in Nat /\ DOMAIN kept = 1 .. m /\ \A i \in 1 .. m : kept[i] \in A
    BY <2>10, LenProperties
  <2>12. ToSet(kept) = {kept[i] : i \in 1 .. m} /\ \A e : Contains(kept, e) <=> e \in ToSet(kept)
    BY <2>11 DEF ToSet, Contains
  <2> HIDE DEF m
  <2>13. A \subseteq Seq(Texts) /\ \A c \in A : Tokens(c, kind) <= ChunkSize BY DEF A, Fitting
  <2>14. new \in [1 .. m -> ChunkSet]
    <3>1. \A i \in 1 .. m : /\ kept[i] \in Seq(Texts) /\ done + 1 \in Nat /\ i - 1 \in Nat
                             /\ PrefixTokens + Tokens(kept[i], kind) \in Nat
      <4>1. PrefixTokens \in Nat BY ChunkingAssumption
      <4> QED BY <2>2, <2>11, <2>13, <4>1, TokensType
    <3> QED BY <2>11, <3>1 DEF ChunkSet
  <2>15. \A i \in 1 .. m : new[i].says = kept[i] /\ new[i].page = done + 1 BY <2>11
  <2>27. \A i \in 1 .. m : new[i].embeds <= PrefixTokens + ChunkSize
    <3> SUFFICES ASSUME NEW i \in 1 .. m PROVE new[i].embeds <= PrefixTokens + ChunkSize
      OBVIOUS
    <3>1. new[i].embeds = PrefixTokens + Tokens(kept[i], kind) BY <2>11
    <3>2. Tokens(kept[i], kind) \in Nat /\ Tokens(kept[i], kind) <= ChunkSize
      BY <2>11, <2>13, TokensType
    <3>3. PrefixTokens \in Nat /\ ChunkSize \in Nat BY ChunkingAssumption
    <3> HIDE DEF new
    <3> QED BY <3>1, <3>2, <3>3
  <2> HIDE DEF new
  <2>16. new \in Seq(ChunkSet) /\ Len(new) = m BY <2>11, <2>14, FunctionIsSeq
  <2>17. n \in Nat BY <1>1, LenProperties
  <2>18. /\ chunks' \in Seq(ChunkSet) /\ Len(chunks') = n + m
         /\ \A i \in 1 .. n + m : chunks'[i] = IF i <= n THEN chunks[i] ELSE new[i - n]
    BY <1>1, <2>1, <2>16, ConcatProperties
  <2> HIDE DEF n
  <2>19. ASSUME NEW i \in 1 .. n + m
         PROVE  \/ i \in 1 .. n /\ chunks'[i] = chunks[i]
                \/ /\ i \notin 1 .. n /\ i - n \in 1 .. m
                   /\ chunks'[i].says = kept[i - n] /\ chunks'[i].page = done + 1
                   /\ chunks'[i].embeds <= PrefixTokens + ChunkSize
    <3>1. CASE i <= n
      <4>1. i \in 1 .. n BY <2>11, <2>17, <3>1
      <4> QED BY <2>18, <3>1, <4>1
    <3>2. CASE ~(i <= n)
      <4>1. i - n \in 1 .. m /\ i \notin 1 .. n BY <2>11, <2>17, <3>2
      <4> QED BY <2>15, <2>18, <2>27, <3>2, <4>1
    <3> QED BY <3>1, <3>2
  <2>20. ChunkTypes'
    <3>1. done + 1 \in 0 .. Len(file) BY <2>2
    <3> QED BY <1>1, <2>1, <2>18, <3>1 DEF ChunkTypes
  <2>21. ChunksSound'
    <3> SUFFICES ASSUME NEW i \in 1 .. n + m
                 PROVE  /\ chunks'[i].page \in 1 .. done + 1
                        /\ Tokens(chunks'[i].says, Structure(file[chunks'[i].page])) <= ChunkSize
                        /\ chunks'[i].embeds <= PrefixTokens + ChunkSize
                        /\ chunks'[i].says \in seen'
      BY <2>1, <2>18 DEF ChunksSound
    <3>1. CASE i \in 1 .. n /\ chunks'[i] = chunks[i]
      <4>1. /\ chunks[i].page \in 1 .. done /\ chunks[i].says \in seen
            /\ Tokens(chunks[i].says, Structure(file[chunks[i].page])) <= ChunkSize
            /\ chunks[i].embeds <= PrefixTokens + ChunkSize
        BY <2>1, <3>1 DEF ChunksSound, n
      <4>2. chunks[i].page \in 1 .. done + 1 BY <2>2, <4>1
      <4> QED BY <2>1, <3>1, <4>1, <4>2
    <3>2. CASE /\ i - n \in 1 .. m
               /\ chunks'[i].says = kept[i - n] /\ chunks'[i].page = done + 1
               /\ chunks'[i].embeds <= PrefixTokens + ChunkSize
      <4>1. Tokens(kept[i - n], kind) <= ChunkSize BY <2>11, <2>13, <3>2
      <4>2. kept[i - n] \in seen' BY <2>1, <2>12, <3>2
      <4>3. done + 1 \in 1 .. done + 1 BY <2>2
      <4>4. Structure(file[done + 1]) = kind BY DEF kind, page
      <4> QED BY <3>2, <4>1, <4>2, <4>3, <4>4
    <3> QED BY <2>19, <3>1, <3>2
  <2>22. SaidOnce'
    <3> SUFFICES ASSUME NEW i \in 1 .. n + m, NEW j \in 1 .. n + m,
                        chunks'[i].says = chunks'[j].says
                 PROVE  i = j
      BY <2>18 DEF SaidOnce
    <3>1. \A k \in 1 .. n : chunks[k].says \in seen BY <2>1 DEF ChunksSound, n
    <3>2. \A k, l \in 1 .. n : chunks[k].says = chunks[l].says => k = l BY <2>1 DEF SaidOnce, n
    <3>3. CASE i \in 1 .. n /\ j \in 1 .. n BY <2>19, <3>2, <3>3
    <3>4. CASE i \in 1 .. n /\ j \notin 1 .. n BY <2>10, <2>19, <3>1, <3>4
    <3>5. CASE i \notin 1 .. n /\ j \in 1 .. n BY <2>10, <2>19, <3>1, <3>5
    <3>6. CASE i \notin 1 .. n /\ j \notin 1 .. n
      <4>1. i - n = j - n BY <2>10, <2>19, <3>6
      <4> QED BY <2>11, <2>17, <4>1
    <3> QED BY <3>3, <3>4, <3>5, <3>6
  <2>23. \A p \in 1 .. done : PageKept(p)'
    BY <2>1 DEF PageKept
  <2>24. \A p : p = done + 1 => PageKept(p)'
    <3>1. ASSUME NEW u \in ToSet(page.units) PROVE \E c \in seen' \cup refused' : Contains(c, u)
      <4>1. PICK i \in 1 .. Len(page.units) : page.units[i] = u
        <5>1. page.units \in Seq(Texts) BY <2>2 DEF PageSet, Filled
        <5> QED BY <3>1, <5>1, LenProperties DEF ToSet
      <4>2. PICK j \in 1 .. Len(split) : Contains(split[j], u) BY <2>3, <4>1 DEF HasUnit
      <4>3. \/ \E k : Contains(Kept(split[j], kind), k) /\ Contains(k, u)
            \/ \E r \in Refused(split[j], kind) : Contains(r, u)
        BY <2>4, <4>2, KeptCovers
      <4>4. ASSUME NEW k, Contains(Kept(split[j], kind), k), Contains(k, u)
            PROVE  k \in seen'
        <5>1. Contains(parts[j], k) BY <2>7, <4>4
        <5>2. Contains(all, k) BY <2>8, <2>9, <5>1 DEF HasUnit
        <5>3. PICK l \in 1 .. Len(all) : all[l] = k BY <5>2 DEF Contains
        <5> QED BY <2>1, <2>10, <2>12, <5>3
      <4>5. ASSUME NEW r \in Refused(split[j], kind) PROVE r \in refused'
        <5>1. split[j] \in ToSet(split) BY <2>4 DEF ToSet
        <5> QED BY <2>1, <4>5, <5>1
      <4> QED BY <4>3, <4>4, <4>5
    <3> SUFFICES ASSUME NEW CONSTANT p, p = done + 1 PROVE PageKept(p)'
      OBVIOUS
    <3>3. file'[p] = page BY <2>1 DEF page
    <3>4. Regrouped(file'[p]) = file'[p].units BY <2>3, <3>3
    <3> QED BY <3>1, <3>3, <3>4 DEF PageKept
  <2>25. \A p \in 1 .. done + 1 : p \in 1 .. done \/ p = done + 1 BY <2>2
  <2>26. SeenSaid'
    <3> SUFFICES ASSUME NEW c \in seen' PROVE \E i \in 1 .. n + m : chunks'[i].says = c
      BY <2>18 DEF SeenSaid
    <3>1. CASE c \in seen
      <4>1. PICK i \in 1 .. n : chunks[i].says = c BY <2>1, <3>1 DEF SeenSaid, n
      <4>2. i \in 1 .. n + m /\ i <= n BY <2>11, <2>17
      <4> QED BY <2>18, <4>1, <4>2
    <3>2. CASE c \in ToSet(kept)
      <4>1. PICK i \in 1 .. m : kept[i] = c BY <2>12, <3>2
      <4>2. i + n \in 1 .. n + m /\ ~(i + n <= n) /\ (i + n) - n = i BY <2>11, <2>17
      <4> QED BY <2>15, <2>18, <4>1, <4>2
    <3> QED BY <2>1, <3>1, <3>2
  <2> HIDE DEF m, n
  <2> QED BY <2>1, <2>20, <2>21, <2>22, <2>23, <2>24, <2>25, <2>26 DEF ChunkInv
<1>3. CASE UNCHANGED chunkingVars
  BY <1>3 DEF chunkingVars, ChunkInv, ChunkTypes, ChunksSound, SeenSaid, PageKept, SaidOnce
<1>4. CASE SplitRaises
  <2>1. raised' = TRUE /\ chunks' = <<>> /\ UNCHANGED <<file, done>> BY <1>4 DEF SplitRaises
  <2>2. <<>> \in Seq(ChunkSet) BY EmptySeq
  <2> QED BY <1>1, <2>1, <2>2 DEF ChunkInv, ChunkTypes
<1> QED BY <1>2, <1>3, <1>4 DEF ChunkingNext

LEMMA ChunkingAlways == ChunkingSpec => []ChunkInv
BY ChunkingStart, ChunkingStep, PTL DEF ChunkingSpec

\* The text of no chunk is longer than a chunk may be, however a page was split,
\* and whatever was repeated (_filter_chunks); what is embedded of it exceeds
\* that by the line of context at most (_prepend_context).
THEOREM ChunksAlwaysFit == ChunkingSpec => []ChunksFit
<1>1. ChunkInv => ChunksFit
  <2> SUFFICES ASSUME ChunkInv PROVE ChunksFit
    OBVIOUS
  <2>1. DOMAIN chunks = 1 .. Len(chunks) BY LenProperties DEF ChunkInv, ChunkTypes
  <2>2. Len(<<>>) = 0 /\ \A i : i \notin 1 .. 0 OBVIOUS
  <2>3. CASE raised BY <2>1, <2>2, <2>3 DEF ChunkInv, ChunksFit
  <2>4. CASE ~raised BY <2>1, <2>4 DEF ChunkInv, ChunksSound, ChunksFit
  <2> QED BY <2>3, <2>4
<1> QED BY <1>1, ChunkingAlways, PTL

\* A file is chunked whole or not at all: every unit of a page that was split is
\* in a chunk or in something the filter refused, tables and lists can be put
\* together again from their groups, and no two chunks of a file say the same;
\* once a page has raised an exception there is no chunk (split_documents).
THEOREM ChunkingKeepsUnits == ChunkingSpec => []UnitsKept
<1>1. ChunkInv => UnitsKept
  <2> SUFFICES ASSUME ChunkInv, ~raised PROVE UnitsKept
    BY DEF ChunkInv, UnitsKept
  <2>1. DOMAIN chunks = 1 .. Len(chunks) BY LenProperties DEF ChunkInv, ChunkTypes
  <2>2. ASSUME NEW p \in 1 .. done, NEW u \in ToSet(file[p].units)
        PROVE  \/ \E i \in DOMAIN chunks : Contains(chunks[i].says, u)
               \/ \E c \in refused : Contains(c, u)
    <3>1. PICK c \in seen \cup refused : Contains(c, u) BY <2>2 DEF ChunkInv, PageKept
    <3>2. CASE c \in seen BY <2>1, <3>1, <3>2 DEF ChunkInv, SeenSaid
    <3> QED BY <3>1, <3>2
  <2>3. \A p \in 1 .. done : Regrouped(file[p]) = file[p].units BY DEF ChunkInv, PageKept
  <2>4. SaidOnce BY DEF ChunkInv
  <2> QED BY <2>1, <2>2, <2>3, <2>4 DEF UnitsKept, SaidOnce
<1> QED BY <1>1, ChunkingAlways, PTL

(***************************************************************************)
(* Context: the chunks a filter passes.                                    *)
(***************************************************************************)
LEMMA AddOtherType ==
  ASSUME NEW A
  PROVE  /\ \A gone : \A rest \in Seq(A), c \in A : AddOther(rest, c, gone) \in Seq(A)
         /\ <<>> \in Seq(A)
BY AppendProperties, EmptySeq DEF AddOther


IsWithout(cs, gone, it) ==
  it = [s \in SUBSET DOMAIN cs |->
          IF s = {} THEN <<>> ELSE AddOther(it[s \ {Max(s)}], cs[Max(s)], gone)]

WithoutSteps(cs, gone, h) ==
  /\ h[0] = <<>>
  /\ \A i \in 1 .. Len(cs) : h[i] = AddOther(h[i - 1], cs[i], gone)

LEMMA WithoutIs ==
  ASSUME NEW cs, NEW gone
  PROVE  Without(cs, gone) = (CHOOSE it : IsWithout(cs, gone, it))[DOMAIN cs]
BY DEF Without, FoldLeft, MapThenFoldSet, IsWithout

LEMMA WithoutInSteps ==
  ASSUME NEW A, NEW gone, NEW cs \in Seq(A)
  PROVE  \E h : WithoutSteps(cs, gone, h) /\ Without(cs, gone) = h[Len(cs)]
<1> DEFINE n == Len(cs)
           F == [p \in Seq(A) \X (1 .. n) |-> AddOther(p[1], cs[p[2]], gone)]
           S == SUBSET (1 .. n)
<1>1. n \in Nat /\ DOMAIN cs = 1 .. n /\ \A i \in 1 .. n : cs[i] \in A BY LenProperties
<1>2. \A g \in Seq(A), i \in 1 .. n : AddOther(g, cs[i], gone) \in Seq(A) BY <1>1, AddOtherType
<1>3. F \in [Seq(A) \X (1 .. n) -> Seq(A)] BY <1>2
<1>4. \A g \in Seq(A), i \in 1 .. n : F[<<g, i>>] = AddOther(g, cs[i], gone) OBVIOUS
<1>5. <<>> \in Seq(A) BY AddOtherType
<1> HIDE DEF n, F
<1> DEFINE b == <<>>
<1> HIDE DEF b
<1>5a. b \in Seq(A) BY <1>5 DEF b
<1>6. PICK it \in [SUBSET (1 .. n) -> Seq(A)] : FoldsLeft(it, n, b, F)
  BY <1>1, <1>3, <1>5a, LeftFoldExists
<1>6a. \A s \in S : it[s] = IF s = {} THEN <<>> ELSE F[<<it[s \ {Max(s)}], Max(s)>>]
  BY <1>6 DEF FoldsLeft, b
<1>7. \A s \in S : it[s] = IF s = {} THEN <<>> ELSE AddOther(it[s \ {Max(s)}], cs[Max(s)], gone)
  <2> SUFFICES ASSUME NEW s \in S, s # {}
               PROVE  it[s] = AddOther(it[s \ {Max(s)}], cs[Max(s)], gone)
    BY <1>6a
  <2>1. Max(s) \in 1 .. n /\ s \ {Max(s)} \in S BY <1>1, MaxIn
  <2>2. it[s \ {Max(s)}] \in Seq(A) BY <1>6, <2>1
  <2> QED BY <1>4, <1>6a, <2>1, <2>2
<1>8. IsWithout(cs, gone, it) BY <1>1, <1>6, <1>7 DEF IsWithout
<1>9. PICK e : IsWithout(cs, gone, e) /\ Without(cs, gone) = e[1 .. n]
  <2>1. IsWithout(cs, gone, CHOOSE e : IsWithout(cs, gone, e)) BY <1>8
  <2> QED BY <1>1, <2>1, WithoutIs
<1>10. \A s \in S : e[s] = IF s = {} THEN <<>> ELSE AddOther(e[s \ {Max(s)}], cs[Max(s)], gone)
  BY <1>1, <1>9 DEF IsWithout
<1> DEFINE h == [i \in 0 .. n |-> e[1 .. i]]
<1>11. h[0] = <<>>
  <2>1. 1 .. 0 = {} /\ {} \in S /\ 0 \in 0 .. n BY <1>1
  <2> QED BY <1>10, <2>1
<1>12. ASSUME NEW i \in 1 .. n PROVE h[i] = AddOther(h[i - 1], cs[i], gone)
  <2>0. i \in Nat /\ i # 0 /\ i \in 0 .. n /\ i - 1 \in 0 .. n /\ i \in 1 .. i BY <1>1
  <2>1. 1 .. i \in S /\ 1 .. i # {}
    <3>1. \A j \in 1 .. i : j \in 1 .. n BY <1>1
    <3> QED BY <2>0, <3>1
  <2>2. Max(1 .. i) = i /\ (1 .. i) \ {i} = 1 .. i - 1 BY <2>0, MaxUpto
  <2>3. e[1 .. i] = AddOther(e[1 .. i - 1], cs[i], gone) BY <1>10, <2>1, <2>2
  <2>4. h[i] = e[1 .. i] /\ h[i - 1] = e[1 .. i - 1] BY <2>0
  <2> QED BY <2>3, <2>4
<1>13. n \in 0 .. n /\ h[n] = e[1 .. n] BY <1>1
<1> HIDE DEF h
<1> QED BY <1>9, <1>11, <1>12, <1>13 DEF WithoutSteps, n

LEMMA WithoutKeeps ==
  ASSUME NEW A, NEW gone, NEW cs \in Seq(A)
  PROVE  /\ Without(cs, gone) \in Seq(A)
         /\ ToSet(Without(cs, gone)) = ToSet(cs) \ gone
         /\ Distinct(cs) => Distinct(Without(cs, gone))
<1> DEFINE n == Len(cs)
<1>1. /\ n \in Nat /\ \A i \in 1 .. n : cs[i] \in A
      /\ \A e : e \in ToSet(cs) <=> \E i \in 1 .. n : cs[i] = e
  BY ToSetIs, LenProperties
<1>2. PICK h : WithoutSteps(cs, gone, h) /\ Without(cs, gone) = h[n] BY WithoutInSteps
<1>3. h[0] = <<>> /\ \A i \in 1 .. n : h[i] = AddOther(h[i - 1], cs[i], gone)
  BY <1>2 DEF WithoutSteps
<1>4. Distinct(cs) => \A i, j \in 1 .. n : cs[i] = cs[j] => i = j BY DEF Distinct
<1> HIDE DEF n
<1> DEFINE Seen(k) == {cs[i] : i \in 1 .. k}
           Sifted(k) == /\ h[k] \in Seq(A) /\ ToSet(h[k]) = Seen(k) \ gone
                        /\ Distinct(cs) => Distinct(h[k])
           P == {k \in Nat : k <= n => Sifted(k)}
<1>5. Sifted(0)
  <2>1. <<>> \in Seq(A) /\ Len(<<>>) = 0 BY EmptySeq
  <2>2. ToSet(<<>>) = {} /\ Distinct(<<>>) BY <2>1 DEF ToSet, Distinct
  <2>3. Seen(0) = {} OBVIOUS
  <2> QED BY <1>3, <2>1, <2>2, <2>3
<1>6. ASSUME NEW k \in Nat, k + 1 <= n, Sifted(k) PROVE Sifted(k + 1)
  <2>1. k + 1 \in 1 .. n /\ (k + 1) - 1 = k /\ \A i \in 1 .. k : i \in 1 .. n BY <1>1, <1>6
  <2> DEFINE c == cs[k + 1]
  <2>2. h[k + 1] = AddOther(h[k], c, gone) /\ c \in A BY <1>1, <1>3, <2>1
  <2>3. Seen(k + 1) = Seen(k) \cup {c}
    <3>1. \A i \in 1 .. k + 1 : i \in 1 .. k \/ i = k + 1 OBVIOUS
    <3>2. k + 1 \in 1 .. k + 1 /\ \A i \in 1 .. k : i \in 1 .. k + 1 OBVIOUS
    <3> QED BY <3>1, <3>2
  <2>4. Distinct(cs) => c \notin Seen(k) BY <1>4, <2>1
  <2> HIDE DEF c, Seen
  <2>5. CASE c \in gone
    <3>1. h[k + 1] = h[k] BY <2>2, <2>5 DEF AddOther
    <3>2. Seen(k + 1) \ gone = Seen(k) \ gone BY <2>3, <2>5
    <3> QED BY <1>6, <3>1, <3>2
  <2>6. CASE c \notin gone
    <3>1. h[k + 1] = Append(h[k], c) BY <2>2, <2>6 DEF AddOther
    <3>2. /\ h[k + 1] \in Seq(A) /\ ToSet(h[k + 1]) = ToSet(h[k]) \cup {c}
          /\ Distinct(h[k]) /\ c \notin ToSet(h[k]) => Distinct(h[k + 1])
      BY <1>6, <2>2, <3>1, AppendDistinct
    <3>3. ToSet(h[k + 1]) = Seen(k + 1) \ gone BY <1>6, <2>3, <2>6, <3>2
    <3> QED BY <1>6, <2>4, <3>2, <3>3
  <2> QED BY <2>5, <2>6
<1> HIDE DEF Sifted
<1>7. 0 \in P BY <1>5
<1>8. \A k \in Nat : k \in P => k + 1 \in P
  <2> SUFFICES ASSUME NEW k \in Nat, k \in P PROVE k + 1 \in P
    OBVIOUS
  <2>1. k + 1 <= n => k <= n BY <1>1
  <2>2. k + 1 <= n => Sifted(k + 1) BY <1>6, <2>1
  <2>3. k + 1 \in Nat OBVIOUS
  <2> QED BY <2>2, <2>3
<1>9. Sifted(n)
  <2>1. n <= n BY <1>1
  <2> HIDE DEF P
  <2>2. Nat \subseteq P BY <1>7, <1>8, Induction
  <2> QED BY <1>1, <2>1, <2>2 DEF P
<1>10. Seen(n) = ToSet(cs) BY <1>1
<1> QED BY <1>2, <1>9, <1>10 DEF Sifted

(***************************************************************************)
(* Context: what the assembler takes.                                      *)
(***************************************************************************)
LEMMA AddFittingType ==
  /\ \A used \in Seq(Ids), c \in Ids : AddFitting(used, c) \in Seq(Ids)
  /\ <<>> \in Seq(Ids)
BY AppendProperties, EmptySeq DEF AddFitting


IsAssembled(cs, it) ==
  it = [s \in SUBSET DOMAIN cs |->
          IF s = {} THEN <<>> ELSE AddFitting(it[s \ {Max(s)}], cs[Max(s)])]

AssembledSteps(cs, h) ==
  /\ h[0] = <<>>
  /\ \A i \in 1 .. Len(cs) : h[i] = AddFitting(h[i - 1], cs[i])

LEMMA AssembledIs ==
  ASSUME NEW cs
  PROVE  Assembled(cs) = (CHOOSE it : IsAssembled(cs, it))[DOMAIN cs]
BY DEF Assembled, FoldLeft, MapThenFoldSet, IsAssembled

LEMMA AssembledInSteps ==
  ASSUME NEW cs \in Seq(Ids)
  PROVE  \E h : AssembledSteps(cs, h) /\ Assembled(cs) = h[Len(cs)]
<1> DEFINE n == Len(cs)
           F == [p \in Seq(Ids) \X (1 .. n) |-> AddFitting(p[1], cs[p[2]])]
           S == SUBSET (1 .. n)
<1>1. n \in Nat /\ DOMAIN cs = 1 .. n /\ \A i \in 1 .. n : cs[i] \in Ids BY LenProperties
<1>2. \A g \in Seq(Ids), i \in 1 .. n : AddFitting(g, cs[i]) \in Seq(Ids) BY <1>1, AddFittingType
<1>3. F \in [Seq(Ids) \X (1 .. n) -> Seq(Ids)] BY <1>2
<1>4. \A g \in Seq(Ids), i \in 1 .. n : F[<<g, i>>] = AddFitting(g, cs[i]) OBVIOUS
<1>5. <<>> \in Seq(Ids) BY AddFittingType
<1> HIDE DEF n, F
<1> DEFINE b == <<>>
<1> HIDE DEF b
<1>5a. b \in Seq(Ids) BY <1>5 DEF b
<1>6. PICK it \in [SUBSET (1 .. n) -> Seq(Ids)] : FoldsLeft(it, n, b, F)
  BY <1>1, <1>3, <1>5a, LeftFoldExists
<1>6a. \A s \in S : it[s] = IF s = {} THEN <<>> ELSE F[<<it[s \ {Max(s)}], Max(s)>>]
  BY <1>6 DEF FoldsLeft, b
<1>7. \A s \in S : it[s] = IF s = {} THEN <<>> ELSE AddFitting(it[s \ {Max(s)}], cs[Max(s)])
  <2> SUFFICES ASSUME NEW s \in S, s # {}
               PROVE  it[s] = AddFitting(it[s \ {Max(s)}], cs[Max(s)])
    BY <1>6a
  <2>1. Max(s) \in 1 .. n /\ s \ {Max(s)} \in S BY <1>1, MaxIn
  <2>2. it[s \ {Max(s)}] \in Seq(Ids) BY <1>6, <2>1
  <2> QED BY <1>4, <1>6a, <2>1, <2>2
<1>8. IsAssembled(cs, it) BY <1>1, <1>6, <1>7 DEF IsAssembled
<1>9. PICK e : IsAssembled(cs, e) /\ Assembled(cs) = e[1 .. n]
  <2>1. IsAssembled(cs, CHOOSE e : IsAssembled(cs, e)) BY <1>8
  <2> QED BY <1>1, <2>1, AssembledIs
<1>10. \A s \in S : e[s] = IF s = {} THEN <<>> ELSE AddFitting(e[s \ {Max(s)}], cs[Max(s)])
  BY <1>1, <1>9 DEF IsAssembled
<1> DEFINE h == [i \in 0 .. n |-> e[1 .. i]]
<1>11. h[0] = <<>>
  <2>1. 1 .. 0 = {} /\ {} \in S /\ 0 \in 0 .. n BY <1>1
  <2> QED BY <1>10, <2>1
<1>12. ASSUME NEW i \in 1 .. n PROVE h[i] = AddFitting(h[i - 1], cs[i])
  <2>0. i \in Nat /\ i # 0 /\ i \in 0 .. n /\ i - 1 \in 0 .. n /\ i \in 1 .. i BY <1>1
  <2>1. 1 .. i \in S /\ 1 .. i # {}
    <3>1. \A j \in 1 .. i : j \in 1 .. n BY <1>1
    <3> QED BY <2>0, <3>1
  <2>2. Max(1 .. i) = i /\ (1 .. i) \ {i} = 1 .. i - 1 BY <2>0, MaxUpto
  <2>3. e[1 .. i] = AddFitting(e[1 .. i - 1], cs[i]) BY <1>10, <2>1, <2>2
  <2>4. h[i] = e[1 .. i] /\ h[i - 1] = e[1 .. i - 1] BY <2>0
  <2> QED BY <2>3, <2>4
<1>13. n \in 0 .. n /\ h[n] = e[1 .. n] BY <1>1
<1> HIDE DEF h
<1> QED BY <1>9, <1>11, <1>12, <1>13 DEF AssembledSteps, n

LEMMA AddUnreservedType ==
  /\ \A rest \in Seq(Ids), c \in Ids : AddUnreserved(rest, c) \in Seq(Ids)
  /\ <<>> \in Seq(Ids)
BY AppendProperties, EmptySeq DEF AddUnreserved, AddOther

Unreserved(cs) == FoldLeft(AddUnreserved, <<>>, cs)


IsUnreserved(cs, it) ==
  it = [s \in SUBSET DOMAIN cs |->
          IF s = {} THEN <<>> ELSE AddUnreserved(it[s \ {Max(s)}], cs[Max(s)])]

UnreservedSteps(cs, h) ==
  /\ h[0] = <<>>
  /\ \A i \in 1 .. Len(cs) : h[i] = AddUnreserved(h[i - 1], cs[i])

LEMMA UnreservedIs ==
  ASSUME NEW cs
  PROVE  Unreserved(cs) = (CHOOSE it : IsUnreserved(cs, it))[DOMAIN cs]
BY DEF Unreserved, FoldLeft, MapThenFoldSet, IsUnreserved

LEMMA UnreservedInSteps ==
  ASSUME NEW cs \in Seq(Ids)
  PROVE  \E h : UnreservedSteps(cs, h) /\ Unreserved(cs) = h[Len(cs)]
<1> DEFINE n == Len(cs)
           F == [p \in Seq(Ids) \X (1 .. n) |-> AddUnreserved(p[1], cs[p[2]])]
           S == SUBSET (1 .. n)
<1>1. n \in Nat /\ DOMAIN cs = 1 .. n /\ \A i \in 1 .. n : cs[i] \in Ids BY LenProperties
<1>2. \A g \in Seq(Ids), i \in 1 .. n : AddUnreserved(g, cs[i]) \in Seq(Ids) BY <1>1, AddUnreservedType
<1>3. F \in [Seq(Ids) \X (1 .. n) -> Seq(Ids)] BY <1>2
<1>4. \A g \in Seq(Ids), i \in 1 .. n : F[<<g, i>>] = AddUnreserved(g, cs[i]) OBVIOUS
<1>5. <<>> \in Seq(Ids) BY AddUnreservedType
<1> HIDE DEF n, F
<1> DEFINE b == <<>>
<1> HIDE DEF b
<1>5a. b \in Seq(Ids) BY <1>5 DEF b
<1>6. PICK it \in [SUBSET (1 .. n) -> Seq(Ids)] : FoldsLeft(it, n, b, F)
  BY <1>1, <1>3, <1>5a, LeftFoldExists
<1>6a. \A s \in S : it[s] = IF s = {} THEN <<>> ELSE F[<<it[s \ {Max(s)}], Max(s)>>]
  BY <1>6 DEF FoldsLeft, b
<1>7. \A s \in S : it[s] = IF s = {} THEN <<>> ELSE AddUnreserved(it[s \ {Max(s)}], cs[Max(s)])
  <2> SUFFICES ASSUME NEW s \in S, s # {}
               PROVE  it[s] = AddUnreserved(it[s \ {Max(s)}], cs[Max(s)])
    BY <1>6a
  <2>1. Max(s) \in 1 .. n /\ s \ {Max(s)} \in S BY <1>1, MaxIn
  <2>2. it[s \ {Max(s)}] \in Seq(Ids) BY <1>6, <2>1
  <2> QED BY <1>4, <1>6a, <2>1, <2>2
<1>8. IsUnreserved(cs, it) BY <1>1, <1>6, <1>7 DEF IsUnreserved
<1>9. PICK e : IsUnreserved(cs, e) /\ Unreserved(cs) = e[1 .. n]
  <2>1. IsUnreserved(cs, CHOOSE e : IsUnreserved(cs, e)) BY <1>8
  <2> QED BY <1>1, <2>1, UnreservedIs
<1>10. \A s \in S : e[s] = IF s = {} THEN <<>> ELSE AddUnreserved(e[s \ {Max(s)}], cs[Max(s)])
  BY <1>1, <1>9 DEF IsUnreserved
<1> DEFINE h == [i \in 0 .. n |-> e[1 .. i]]
<1>11. h[0] = <<>>
  <2>1. 1 .. 0 = {} /\ {} \in S /\ 0 \in 0 .. n BY <1>1
  <2> QED BY <1>10, <2>1
<1>12. ASSUME NEW i \in 1 .. n PROVE h[i] = AddUnreserved(h[i - 1], cs[i])
  <2>0. i \in Nat /\ i # 0 /\ i \in 0 .. n /\ i - 1 \in 0 .. n /\ i \in 1 .. i BY <1>1
  <2>1. 1 .. i \in S /\ 1 .. i # {}
    <3>1. \A j \in 1 .. i : j \in 1 .. n BY <1>1
    <3> QED BY <2>0, <3>1
  <2>2. Max(1 .. i) = i /\ (1 .. i) \ {i} = 1 .. i - 1 BY <2>0, MaxUpto
  <2>3. e[1 .. i] = AddUnreserved(e[1 .. i - 1], cs[i]) BY <1>10, <2>1, <2>2
  <2>4. h[i] = e[1 .. i] /\ h[i - 1] = e[1 .. i - 1] BY <2>0
  <2> QED BY <2>3, <2>4
<1>13. n \in 0 .. n /\ h[n] = e[1 .. n] BY <1>1
<1> HIDE DEF h
<1> QED BY <1>9, <1>11, <1>12, <1>13 DEF UnreservedSteps, n

SizeTypes == size \in [Ids -> Sizes]

Weight(cs) == FoldSeq(LAMBDA c, n : n + size[c], 0, cs)

IsWeight(cs, it) ==
  it = [s \in SUBSET DOMAIN cs |-> IF s = {} THEN 0 ELSE it[s \ {Some(s)}] + size[cs[Some(s)]]]

LEMMA WeightIs ==
  ASSUME NEW cs
  PROVE  Weight(cs) = (CHOOSE it : IsWeight(cs, it))[DOMAIN cs]
BY DEF Weight, FoldSeq, FoldFunction, FoldFunctionOnSet, MapThenFoldSet, IsWeight, Some

LEMMA WeightOf ==
  ASSUME SizeTypes, NEW cs \in Seq(Ids)
  PROVE  \E it : IsWeight(cs, it) /\ Weight(cs) = it[DOMAIN cs]
<1> DEFINE S == DOMAIN cs
           F == [p \in Nat \X S |-> p[1] + size[cs[p[2]]]]
           C == [s \in SUBSET S |-> Some(s)]
<1>1. Len(cs) \in Nat /\ S = 1 .. Len(cs) BY LenProperties
<1>2. IsFiniteSet(S) BY <1>1, FS_Interval
<1>3. \A i \in S : size[cs[i]] \in Nat
  <2> SUFFICES ASSUME NEW i \in S PROVE size[cs[i]] \in Nat
    OBVIOUS
  <2>1. cs[i] \in Ids BY <1>1, LenProperties
  <2> QED BY <2>1, AssemblyAssumption DEF SizeTypes
<1>4. F \in [Nat \X S -> Nat] BY <1>3
<1>5. \A s \in SUBSET S : s # {} => C[s] \in s BY DEF Some
<1>6. /\ \A s \in SUBSET S : C[s] = Some(s)
      /\ \A m \in Nat, i \in S : F[<<m, i>>] = m + size[cs[i]]
  OBVIOUS
<1> HIDE DEF C, F, S
<1>7. PICK it \in [SUBSET S -> Nat] : Folds2(it, S, 0, F, C)
  <2>1. 0 \in Nat OBVIOUS
  <2> QED BY <1>2, <1>4, <1>5, <2>1, FoldExists
<1>8. \A s \in SUBSET S : it[s] = IF s = {} THEN 0 ELSE it[s \ {Some(s)}] + size[cs[Some(s)]]
  <2> SUFFICES ASSUME NEW s \in SUBSET S
               PROVE  it[s] = IF s = {} THEN 0 ELSE it[s \ {Some(s)}] + size[cs[Some(s)]]
    OBVIOUS
  <2>1. CASE s = {} BY <1>7, <2>1 DEF Folds2
  <2>2. CASE s # {}
    <3>1. Some(s) \in S /\ C[s] = Some(s) /\ s \ {Some(s)} \in SUBSET S BY <1>5, <1>6, <2>2
    <3>2. it[s] = F[<<it[s \ {Some(s)}], Some(s)>>] BY <1>7, <2>2, <3>1 DEF Folds2
    <3>3. it[s \ {Some(s)}] \in Nat BY <1>7, <3>1
    <3> QED BY <1>6, <2>2, <3>1, <3>2, <3>3
  <2> QED BY <2>1, <2>2
<1>9. IsWeight(cs, it) BY <1>7, <1>8 DEF IsWeight, S
<1>10. IsWeight(cs, CHOOSE e : IsWeight(cs, e)) BY <1>9
<1> QED BY <1>10, WeightIs

\* One chunk spends its size: there is nothing to separate.
LEMMA SpentOfOne ==
  ASSUME SizeTypes, NEW cs \in Seq(Ids), Len(cs) = 1
  PROVE  Spent(cs) = size[cs[1]]
<1>1. PICK it : IsWeight(cs, it) /\ Weight(cs) = it[DOMAIN cs] BY WeightOf
<1>2. DOMAIN cs = {1} /\ cs[1] \in Ids /\ cs # <<>>
  <2>1. DOMAIN cs = 1 .. 1 /\ cs[1] \in Ids BY LenProperties
  <2>2. 1 .. 1 = {1} OBVIOUS
  <2>3. cs = <<>> => Len(cs) = 0 BY EmptySeq
  <2> QED BY <2>1, <2>2, <2>3
<1>3. Some({1}) = 1 /\ {1} \ {1} = {} BY DEF Some
<1>4. \A s \in SUBSET {1} : it[s] = IF s = {} THEN 0 ELSE it[s \ {Some(s)}] + size[cs[Some(s)]]
  BY <1>1, <1>2 DEF IsWeight
<1>5. it[{}] = 0 BY <1>4
<1>6. it[{1}] = it[{}] + size[cs[1]] BY <1>3, <1>4
<1>7. size[cs[1]] \in Nat BY <1>2, AssemblyAssumption DEF SizeTypes
<1>8. Weight(cs) = size[cs[1]] BY <1>1, <1>2, <1>5, <1>6, <1>7
<1>9. Spent(cs) = Weight(cs) + (Len(cs) - 1) * Separator BY <1>2 DEF Spent, TokensIn, Weight
<1>10. (Len(cs) - 1) * Separator = 0 BY AssemblyAssumption
<1> QED BY <1>7, <1>8, <1>9, <1>10

\* What is taken fits the budget and says nothing twice; when nothing is taken,
\* nothing fits.
LEMMA AssembledSound ==
  ASSUME SizeTypes, NEW cs \in Seq(Ids)
  PROVE  /\ Assembled(cs) \in Seq(Ids)
         /\ Distinct(cs) => Distinct(Assembled(cs))
         /\ Assembled(cs) # <<>> => Spent(Assembled(cs)) <= Budget
         /\ Assembled(cs) = <<>> => \A i \in 1 .. Len(cs) : size[cs[i]] > Budget
<1> DEFINE n == Len(cs)
<1>1. n \in Nat /\ \A i \in 1 .. n : cs[i] \in Ids BY LenProperties
<1>2. PICK h : AssembledSteps(cs, h) /\ Assembled(cs) = h[n] BY AssembledInSteps
<1>3. h[0] = <<>> /\ \A i \in 1 .. n : h[i] = AddFitting(h[i - 1], cs[i])
  BY <1>2 DEF AssembledSteps
<1>4. Distinct(cs) => \A i, j \in 1 .. n : cs[i] = cs[j] => i = j BY DEF Distinct
<1> HIDE DEF n
<1> DEFINE Seen(k) == {cs[i] : i \in 1 .. k}
           Sound(k) == /\ h[k] \in Seq(Ids) /\ ToSet(h[k]) \subseteq Seen(k)
                       /\ Distinct(cs) => Distinct(h[k])
                       /\ h[k] # <<>> => Spent(h[k]) <= Budget
                       /\ h[k] = <<>> => \A i \in 1 .. k : size[cs[i]] > Budget
           P == {k \in Nat : k <= n => Sound(k)}
<1>5. Sound(0)
  <2>1. <<>> \in Seq(Ids) /\ Len(<<>>) = 0 BY EmptySeq
  <2>2. ToSet(<<>>) = {} /\ Distinct(<<>>) BY <2>1 DEF ToSet, Distinct
  <2> QED BY <1>3, <2>1, <2>2
<1>6. ASSUME NEW k \in Nat, k + 1 <= n, Sound(k) PROVE Sound(k + 1)
  <2>1. k + 1 \in 1 .. n /\ (k + 1) - 1 = k /\ \A i \in 1 .. k : i \in 1 .. n BY <1>1, <1>6
  <2>2. \A i \in 1 .. k + 1 : i \in 1 .. k \/ i = k + 1 OBVIOUS
  <2>3. k + 1 \in 1 .. k + 1 /\ \A i \in 1 .. k : i \in 1 .. k + 1 OBVIOUS
  <2> DEFINE c == cs[k + 1]
  <2>4. h[k + 1] = AddFitting(h[k], c) /\ c \in Ids BY <1>1, <1>3, <2>1
  <2>5. Seen(k) \subseteq Seen(k + 1) /\ c \in Seen(k + 1) BY <2>3
  <2>6. Distinct(cs) => c \notin Seen(k) BY <1>4, <2>1
  <2> HIDE DEF Seen
  <2>7. CASE ~Fits(h[k], c)
    <3>1. h[k + 1] = h[k] BY <2>4, <2>7 DEF AddFitting
    <3>2. ASSUME h[k] = <<>> PROVE size[c] > Budget
      <4> DEFINE t == Append(h[k], c)
      <4>1. t \in Seq(Ids) /\ Len(t) = 1 /\ t[1] = c
        <5>1. <<>> \in Seq(Ids) /\ Len(<<>>) = 0 BY EmptySeq
        <5> QED BY <2>4, <3>2, <5>1, AppendProperties
      <4>2. ~(Spent(t) <= Budget) BY <2>7 DEF Fits
      <4> HIDE DEF t
      <4>3. Spent(t) = size[c] BY <4>1, SpentOfOne
      <4>4. size[c] \in Nat /\ Budget \in Nat BY <2>4, AssemblyAssumption DEF SizeTypes
      <4> QED BY <4>2, <4>3, <4>4
    <3>3. h[k] = <<>> => \A i \in 1 .. k + 1 : size[cs[i]] > Budget BY <1>6, <2>2, <3>2
    <3> QED BY <1>6, <2>5, <3>1, <3>3
  <2>8. CASE Fits(h[k], c)
    <3>1. h[k + 1] = Append(h[k], c) BY <2>4, <2>8 DEF AddFitting
    <3>2. /\ h[k + 1] \in Seq(Ids) /\ ToSet(h[k + 1]) = ToSet(h[k]) \cup {c}
          /\ Distinct(h[k]) /\ c \notin ToSet(h[k]) => Distinct(h[k + 1])
      BY <1>6, <2>4, <3>1, AppendDistinct
    <3>3. Spent(h[k + 1]) <= Budget BY <2>8, <3>1 DEF Fits
    <3>4. h[k + 1] # <<>>
      <4>1. c \in ToSet(h[k + 1]) BY <3>2
      <4>2. ToSet(h[k + 1]) = {} <=> h[k + 1] = <<>> BY <3>2, ToSetIs
      <4> QED BY <4>1, <4>2
    <3>5. ToSet(h[k + 1]) \subseteq Seen(k + 1) BY <1>6, <2>5, <3>2
    <3>6. Distinct(cs) => Distinct(h[k + 1]) BY <1>6, <2>6, <3>2
    <3> QED BY <3>2, <3>3, <3>4, <3>5, <3>6
  <2> QED BY <2>7, <2>8
<1> HIDE DEF Sound
<1>7. 0 \in P BY <1>5
<1>8. \A k \in Nat : k \in P => k + 1 \in P
  <2> SUFFICES ASSUME NEW k \in Nat, k \in P PROVE k + 1 \in P
    OBVIOUS
  <2>1. k + 1 <= n => k <= n BY <1>1
  <2>2. k + 1 <= n => Sound(k + 1) BY <1>6, <2>1
  <2>3. k + 1 \in Nat OBVIOUS
  <2> QED BY <2>2, <2>3
<1>9. Sound(n)
  <2>1. n <= n BY <1>1
  <2> HIDE DEF P
  <2>2. Nat \subseteq P BY <1>7, <1>8, Induction
  <2> QED BY <1>1, <2>1, <2>2 DEF P
<1> QED BY <1>2, <1>9 DEF Sound, n

(***************************************************************************)
(* Context: rankings.                                                      *)
(***************************************************************************)
LEMMA FirstNIs ==
  ASSUME NEW A, NEW s \in Seq(A), NEW n \in Nat
  PROVE  /\ FirstN(s, n) \in Seq(A) /\ Len(FirstN(s, n)) = Least(n, Len(s))
         /\ ToSet(FirstN(s, n)) \subseteq ToSet(s)
         /\ Distinct(s) => Distinct(FirstN(s, n))
<1> DEFINE m == Least(n, Len(s))
           r == FirstN(s, n)
<1>1. Len(s) \in Nat /\ \A e : e \in ToSet(s) <=> \E i \in 1 .. Len(s) : s[i] = e BY ToSetIs
<1>2. m \in 0 .. Len(s) BY <1>1 DEF Least
<1> HIDE DEF m
<1>3. /\ SubSeq(s, 1, m) \in Seq(A) /\ Len(SubSeq(s, 1, m)) = m
      /\ \A i \in 1 .. m : SubSeq(s, 1, m)[i] = s[i]
  BY <1>2, Prefix
<1>4. r = SubSeq(s, 1, m) BY DEF FirstN, m
<1> HIDE DEF r
<1>5. r \in Seq(A) /\ Len(r) = m /\ \A i \in 1 .. m : r[i] = s[i] BY <1>3, <1>4
<1>6. \A i \in 1 .. m : i \in 1 .. Len(s) BY <1>1, <1>2
<1>7. \A e : e \in ToSet(r) <=> \E i \in 1 .. m : r[i] = e BY <1>5, ToSetIs
<1>8. ToSet(r) \subseteq ToSet(s) BY <1>1, <1>5, <1>6, <1>7
<1>9. Distinct(s) => Distinct(r) BY <1>5, <1>6 DEF Distinct
<1> QED BY <1>5, <1>8, <1>9 DEF r, m

LEMMA SameLen ==
  ASSUME NEW A, NEW s \in Seq(A), NEW t \in Seq(A), Distinct(s), Distinct(t), ToSet(s) = ToSet(t)
  PROVE  Len(s) = Len(t)
<1>1. Cardinality(ToSet(s)) = Len(s) BY DistinctCounts
<1>2. Cardinality(ToSet(t)) = Len(t) BY DistinctCounts
<1> QED BY <1>1, <1>2

LEMMA InRelevanceIs ==
  ASSUME NEW S \in SUBSET Ids
  PROVE  InRelevance(S) \in Seq(Ids) /\ ToSet(InRelevance(S)) = S /\ Distinct(InRelevance(S))
<1> DEFINE s == [i \in Ids |-> i]
<1>1. s \in [1 .. Stored -> Ids] /\ Stored \in Nat BY AssemblyAssumption DEF Ids
<1>2. s \in Seq(Ids) /\ Len(s) = Stored BY <1>1, FunctionIsSeq
<1>3. \A i \in 1 .. Stored : s[i] = i BY DEF Ids
<1>4. InRelevance(S) = Without(s, Ids \ S) BY DEF InRelevance
<1> HIDE DEF s
<1>5. Distinct(s) BY <1>2, <1>3 DEF Distinct
<1>6. ToSet(s) = Ids
  <2>1. \A e : e \in ToSet(s) <=> \E i \in 1 .. Stored : s[i] = e BY <1>2, ToSetIs
  <2>2. \A e \in 1 .. Stored : e \in ToSet(s) BY <1>3, <2>1
  <2>3. \A e \in ToSet(s) : e \in 1 .. Stored BY <1>3, <2>1
  <2> QED BY <2>2, <2>3 DEF Ids
<1> DEFINE gone == Ids \ S
<1>7. Ids \ gone = S OBVIOUS
<1>8. InRelevance(S) = Without(s, gone) BY <1>4
<1> HIDE DEF gone
<1>9. /\ Without(s, gone) \in Seq(Ids) /\ ToSet(Without(s, gone)) = ToSet(s) \ gone
      /\ Distinct(s) => Distinct(Without(s, gone))
  BY <1>2, WithoutKeeps
<1> QED BY <1>5, <1>6, <1>7, <1>8, <1>9

LEMMA IdsFinite ==
  ASSUME NEW S \in SUBSET Ids
  PROVE  IsFiniteSet(S) /\ Cardinality(S) \in Nat
<1>1. IsFiniteSet(1 .. Stored) BY AssemblyAssumption, FS_Interval
<1>2. IsFiniteSet(S) BY <1>1, FS_Subset DEF Ids
<1> QED BY <1>2, FS_CardinalityType

LEMMA OrdersIs ==
  ASSUME NEW S \in SUBSET Ids, NEW s \in Orders(S)
  PROVE  s \in Seq(Ids) /\ ToSet(s) = S /\ Distinct(s)
<1>1. Cardinality(S) \in Nat BY IdsFinite
<1>2. s \in [1 .. Cardinality(S) -> S] /\ ToSet(s) = S BY DEF Orders
<1>3. s \in [1 .. Cardinality(S) -> Ids] BY <1>2
<1>4. s \in Seq(Ids) /\ Len(s) = Cardinality(S) BY <1>1, <1>3, FunctionIsSeq
<1>5. Distinct(s) BY <1>2, <1>4, DistinctCounts
<1> QED BY <1>2, <1>4, <1>5

LEMMA MmrIs ==
  ASSUME NEW cs \in Seq(Ids), cs # <<>>, NEW r \in MmrOrders(cs)
  PROVE  /\ r \in Seq(Ids) /\ ToSet(r) = ToSet(cs)
         /\ Distinct(cs) => Distinct(r)
<1> DEFINE S == ToSet(cs)
           best == CHOOSE c \in S : \A d \in S : c <= d
<1>1. S \subseteq Ids /\ S # {} BY ToSetIs
<1>2. best \in S
  <2>1. S \in SUBSET Nat BY <1>1 DEF Ids
  <2> HIDE DEF S
  <2>2. \E c \in S : \A d \in S : c <= d BY <1>1, <2>1, LeastExists
  <2> QED BY <2>2
<1>3. r = cs \/ \E s \in Orders(S \ {best}) : r = <<best>> \o s BY DEF MmrOrders
<1> HIDE DEF best, S
<1>4. CASE r = cs BY <1>4 DEF S
<1>5. ASSUME NEW s \in Orders(S \ {best}), r = <<best>> \o s
      PROVE  r \in Seq(Ids) /\ ToSet(r) = S /\ Distinct(r)
  <2>1. S \ {best} \in SUBSET Ids BY <1>1
  <2>2. s \in Seq(Ids) /\ ToSet(s) = S \ {best} /\ Distinct(s) BY <2>1, OrdersIs
  <2> DEFINE t == <<best>>
  <2>3. t \in Seq(Ids) /\ Len(t) = 1 /\ t[1] = best BY <1>1, <1>2
  <2>4. r = t \o s BY <1>5
  <2> HIDE DEF t
  <2>5. Distinct(t) BY <2>3 DEF Distinct
  <2>6. ToSet(t) = {best}
    <3>1. \A e : e \in ToSet(t) <=> \E i \in 1 .. 1 : t[i] = e BY <2>3, ToSetIs
    <3> QED BY <2>3, <3>1
  <2>7. /\ t \o s \in Seq(Ids) /\ ToSet(t \o s) = ToSet(t) \cup ToSet(s)
        /\ Distinct(t) /\ Distinct(s) /\ ToSet(t) \cap ToSet(s) = {} => Distinct(t \o s)
    BY <2>2, <2>3, ConcatDistinct
  <2> QED BY <1>2, <2>2, <2>4, <2>5, <2>6, <2>7
<1> QED BY <1>3, <1>4, <1>5 DEF S

\* A ranking has no chunk that was not there, none twice and, the cross-encoder
\* apart, all of them.
LEMMA RankedIs ==
  ASSUME NEW how \in {"none", "mmr", "cross_encoder"}, NEW cs \in Seq(Ids), NEW r \in RankedBy(how, cs)
  PROVE  /\ r \in Seq(Ids) /\ ToSet(r) \subseteq ToSet(cs)
         /\ cs # <<>> => r # <<>>
         /\ Distinct(cs) => Distinct(r)
         /\ Distinct(cs) /\ how # "cross_encoder" => Len(r) = Len(cs)
<1>1. Len(cs) \in Nat /\ (cs = <<>> <=> Len(cs) = 0) BY LenProperties, EmptySeq
<1>2. CASE r = cs BY <1>2
<1>3. CASE ~(Len(cs) <= 1) /\ r \in MmrOrders(cs)
  <2>1. cs # <<>> BY <1>1, <1>3
  <2>2. r \in Seq(Ids) /\ ToSet(r) = ToSet(cs) /\ (Distinct(cs) => Distinct(r))
    BY <1>3, <2>1, MmrIs
  <2>3. r # <<>>
    <3>1. ToSet(cs) = {} <=> cs = <<>> BY ToSetIs
    <3>2. ToSet(r) = {} <=> r = <<>> BY <2>2, ToSetIs
    <3> QED BY <2>1, <2>2, <3>1, <3>2
  <2>4. Distinct(cs) => Len(r) = Len(cs) BY <2>2, SameLen
  <2> QED BY <2>2, <2>3, <2>4
<1>4. ASSUME NEW S \in Reranked(cs), r \in MmrOrders(InRelevance(S)), how = "cross_encoder"
      PROVE  r \in Seq(Ids) /\ ToSet(r) \subseteq ToSet(cs) /\ r # <<>> /\ Distinct(r)
  <2>1. S \subseteq ToSet(cs) /\ Cardinality(S) \in 1 .. TopK BY DEF Reranked
  <2>2. S \in SUBSET Ids BY <2>1, ToSetIs
  <2>3. S # {}
    <3>1. IsFiniteSet(S) BY <2>2, IdsFinite
    <3>2. Cardinality(S) = 0 <=> S = {} BY <3>1, FS_EmptySet
    <3>3. Cardinality(S) # 0 BY <2>1, AssemblyAssumption
    <3> QED BY <3>2, <3>3
  <2> DEFINE t == InRelevance(S)
  <2>4. t \in Seq(Ids) /\ ToSet(t) = S /\ Distinct(t) BY <2>2, InRelevanceIs
  <2>5. r \in MmrOrders(t) BY <1>4
  <2> HIDE DEF t
  <2>6. t # <<>>
    <3>1. ToSet(t) = {} <=> t = <<>> BY <2>4, ToSetIs
    <3> QED BY <2>3, <2>4, <3>1
  <2>7. r \in Seq(Ids) /\ ToSet(r) = ToSet(t) /\ (Distinct(t) => Distinct(r))
    BY <2>4, <2>5, <2>6, MmrIs
  <2>8. ToSet(r) = {} <=> r = <<>> BY <2>7, ToSetIs
  <2> QED BY <2>1, <2>3, <2>4, <2>7, <2>8
<1>5. \/ r = cs
      \/ ~(Len(cs) <= 1) /\ r \in MmrOrders(cs)
      \/ how = "cross_encoder" /\ \E S \in Reranked(cs) : r \in MmrOrders(InRelevance(S))
  BY DEF RankedBy
<1> QED BY <1>2, <1>3, <1>4, <1>5

(***************************************************************************)
(* Context: the invariant.                                                 *)
(***************************************************************************)
AssemblyTypes ==
  /\ path \in {"direct", "agent"} /\ strategy \in {"none", "mmr", "cross_encoder"} /\ SizeTypes
  /\ step \in {"retrieve", "error", "rank", "threshold", "fill", "assemble", "generate", "no context"}
  /\ fetched \in Seq(Ids) /\ Distinct(fetched) /\ ranked \in Seq(Ids)
  /\ path = "direct" => found \in Seq(Ids) /\ Distinct(found)
  /\ path = "agent" => /\ found \in Seq(Seq(Ids)) /\ strategy = "mmr"
                       /\ step \in {"retrieve", "generate", "no context"}

\* The ranker drops no chunk but those the cross-encoder ranks out.
RankedOut ==
  step \in {"threshold", "fill"} =>
    /\ Distinct(ranked) /\ ToSet(ranked) \subseteq ToSet(fetched)
    /\ fetched # <<>> => ranked # <<>>

\* Filling up makes up for that.
Enough ==
  path = "direct" /\ step \in {"assemble", "generate"} =>
    Distinct(ranked) /\ Len(ranked) >= Least(MinContext, Len(fetched))

Assembling ==
  /\ path = "direct" /\ step = "generate" =>
       /\ context # <<>> /\ context[1] \in Seq(Ids) /\ Distinct(context[1])
       /\ Spent(context[1]) <= Budget
  /\ step = "no context" => \A i \in 1 .. Len(ranked) : size[ranked[i]] > Budget

AssemblyInv == AssemblyTypes /\ RankedOut /\ Enough /\ Assembling

LEMMA AssemblyStart == AssemblyInit => AssemblyInv
<1> SUFFICES ASSUME AssemblyInit PROVE AssemblyInv
  OBVIOUS
<1>1. <<>> \in Seq(Ids) /\ Distinct(<<>>)
  <2>1. <<>> \in Seq(Ids) /\ Len(<<>>) = 0 BY EmptySeq
  <2> QED BY <2>1 DEF Distinct
<1>2. path = "direct" => found \in Seq(Ids) /\ Distinct(found)
  <2> SUFFICES ASSUME path = "direct" PROVE found \in Seq(Ids) /\ Distinct(found)
    OBVIOUS
  <2>1. PICK n \in 0 .. Stored : found = [i \in 1 .. n |-> i] BY DEF AssemblyInit
  <2>2. n \in Nat /\ \A i \in 1 .. n : i \in Ids BY AssemblyAssumption DEF Ids
  <2>3. found \in [1 .. n -> Ids] /\ \A i \in 1 .. n : found[i] = i BY <2>1, <2>2
  <2>4. found \in Seq(Ids) /\ Len(found) = n BY <2>2, <2>3, FunctionIsSeq
  <2> QED BY <2>3, <2>4 DEF Distinct
<1>3. path = "agent" => found \in Seq(Seq(Ids)) /\ strategy = "mmr" /\ step = "retrieve"
  <2> SUFFICES ASSUME path = "agent" PROVE found \in Seq(Seq(Ids)) /\ strategy = "mmr" /\ step = "retrieve"
    OBVIOUS
  <2> DEFINE R == {s \in BoundedSeq(Ids, MaxFound) : NoRepeats(s)}
  <2>1. found \in [1 .. 2 -> R] /\ strategy = "mmr" /\ step = "retrieve" BY DEF AssemblyInit
  <2>2. ASSUME NEW s \in R PROVE s \in Seq(Ids)
    <3>0. s \in BoundedSeq(Ids, MaxFound) BY <2>2
    <3>1. PICK m \in 0 .. MaxFound : s \in [1 .. m -> Ids] BY <3>0 DEF BoundedSeq, SeqOf
    <3>2. m \in Nat BY AssemblyAssumption
    <3> QED BY <3>1, <3>2, FunctionIsSeq
  <2> HIDE DEF R
  <2>3. found \in [1 .. 2 -> Seq(Ids)] BY <2>1, <2>2
  <2>4. 2 \in Nat OBVIOUS
  <2> QED BY <2>1, <2>3, <2>4, FunctionIsSeq
<1>4. AssemblyTypes
  BY <1>1, <1>2, <1>3 DEF AssemblyInit, AssemblyTypes, SizeTypes
<1>5. RankedOut /\ Enough /\ Assembling BY DEF AssemblyInit, RankedOut, Enough, Assembling
<1> QED BY <1>4, <1>5 DEF AssemblyInv

LEMMA BackfillIs ==
  ASSUME fetched \in Seq(Ids), Distinct(fetched), ranked \in Seq(Ids), Distinct(ranked),
         ToSet(ranked) \subseteq ToSet(fetched), Len(ranked) < MinContext
  PROVE  /\ Backfill \in Seq(Ids) /\ Distinct(Backfill) /\ ToSet(Backfill) \cap ToSet(ranked) = {}
         /\ Len(fetched) - Len(ranked) \in Nat
         /\ Len(Backfill) = Least(MinContext - Len(ranked), Len(fetched) - Len(ranked))
<1> DEFINE S == ToSet(fetched)
           R == ToSet(ranked)
           t == InRelevance(S)
           w == Without(t, R)
<1>1. S \in SUBSET Ids /\ Len(fetched) \in Nat BY ToSetIs
<1>2. Len(ranked) \in Nat /\ MinContext - Len(ranked) \in Nat BY ToSetIs, AssemblyAssumption
<1>3. IsFiniteSet(S) /\ Cardinality(S) = Len(fetched) BY DistinctCounts
<1>4. IsFiniteSet(R) /\ Cardinality(R) = Len(ranked) BY DistinctCounts
<1>5. S \cap R = R OBVIOUS
<1>6. Backfill = FirstN(w, MinContext - Len(ranked)) BY DEF Backfill
<1> HIDE DEF S, R
<1>7. t \in Seq(Ids) /\ ToSet(t) = S /\ Distinct(t) BY <1>1, InRelevanceIs
<1> HIDE DEF t
<1>8. w \in Seq(Ids) /\ ToSet(w) = S \ R /\ Distinct(w) BY <1>7, WithoutKeeps
<1>9. Cardinality(S \ R) = Cardinality(S) - Cardinality(S \cap R) BY <1>3, FS_Difference
<1> HIDE DEF w
<1>10. Cardinality(ToSet(w)) = Len(w) /\ Len(w) \in Nat BY <1>8, DistinctCounts, ToSetIs
<1>11. Len(w) = Len(fetched) - Len(ranked) BY <1>3, <1>4, <1>5, <1>8, <1>9, <1>10
<1> DEFINE m == MinContext - Len(ranked)
<1>12. m \in Nat /\ Backfill = FirstN(w, m) BY <1>2, <1>6
<1> HIDE DEF m
<1>13. /\ FirstN(w, m) \in Seq(Ids) /\ Len(FirstN(w, m)) = Least(m, Len(w))
       /\ ToSet(FirstN(w, m)) \subseteq ToSet(w) /\ (Distinct(w) => Distinct(FirstN(w, m)))
  BY <1>8, <1>12, FirstNIs
<1>14. ToSet(Backfill) \cap R = {} BY <1>8, <1>12, <1>13
<1> QED BY <1>8, <1>10, <1>11, <1>12, <1>13, <1>14 DEF m, R

LEMMA FusedType ==
  ASSUME found \in Seq(Seq(Ids)), NEW others \in RankedBy("mmr", Remainder)
  PROVE  Reserved \o others \in Seq(Ids)
<1>1. Remainder \in Seq(Ids)
  <2> DEFINE t == FlattenSeq(found)
  <2>1. t \in Seq(Ids) BY FlattenHas
  <2>2. Remainder = Unreserved(t) BY DEF Remainder, Unreserved
  <2> HIDE DEF t
  <2>3. PICK h : UnreservedSteps(t, h) /\ Unreserved(t) = h[Len(t)] BY <2>1, UnreservedInSteps
  <2>4. /\ h[0] = <<>> /\ \A i \in 1 .. Len(t) : h[i] = AddUnreserved(h[i - 1], t[i])
        /\ Len(t) \in Nat /\ \A i \in 1 .. Len(t) : t[i] \in Ids
    BY <2>1, <2>3, LenProperties DEF UnreservedSteps
  <2> DEFINE n == Len(t)
             P == {k \in Nat : k <= n => h[k] \in Seq(Ids)}
  <2>5. 0 \in P BY <2>4, AddUnreservedType
  <2>6. ASSUME NEW k \in Nat, k \in P PROVE k + 1 \in P
    <3>1. k + 1 <= n => k <= n /\ k + 1 \in 1 .. n /\ (k + 1) - 1 = k BY <2>4
    <3>2. k + 1 <= n => h[k + 1] = AddUnreserved(h[k], t[k + 1]) /\ t[k + 1] \in Ids BY <2>4, <3>1
    <3>3. k + 1 <= n => h[k + 1] \in Seq(Ids) BY <2>6, <3>1, <3>2, AddUnreservedType
    <3> QED BY <3>3
  <2> HIDE DEF P
  <2>7. Nat \subseteq P BY <2>5, <2>6, Induction
  <2>8. n \in P BY <2>4, <2>7
  <2> QED BY <2>2, <2>3, <2>4, <2>8 DEF P
<1>2. others \in Seq(Ids)
  <2> DEFINE t == Remainder
  <2>1. t \in Seq(Ids) /\ others \in RankedBy("mmr", t) BY <1>1
  <2> HIDE DEF t
  <2> QED BY <2>1, RankedIs
<1>3. Reserved \in Seq(Ids)
  <2> DEFINE a == Without(found, {<<>>})
             E == {<<>>}
  <2>1. Reserved = [i \in DOMAIN a |-> Head(a[i])] BY DEF Reserved
  <2>2. a = Without(found, E) /\ <<>> \in E OBVIOUS
  <2> HIDE DEF a, E
  <2>3. a \in Seq(Seq(Ids)) /\ ToSet(a) = ToSet(found) \ E BY <2>2, WithoutKeeps
  <2>4. Len(a) \in Nat /\ DOMAIN a = 1 .. Len(a) /\ \A i \in 1 .. Len(a) : a[i] \in Seq(Ids)
    BY <2>3, LenProperties
  <2>5. \A i \in 1 .. Len(a) : a[i] # <<>>
    <3>1. \A e : e \in ToSet(a) <=> \E i \in 1 .. Len(a) : a[i] = e BY <2>3, ToSetIs
    <3> QED BY <2>2, <2>3, <3>1
  <2>6. \A i \in 1 .. Len(a) : Head(a[i]) \in Ids BY <2>4, <2>5, HeadTailProperties
  <2>7. Reserved \in [1 .. Len(a) -> Ids] BY <2>1, <2>4, <2>6
  <2> QED BY <2>4, <2>7, FunctionIsSeq
<1> QED BY <1>2, <1>3, ConcatDistinct

\* What the store has in the scope of a query is fetched without a repetition.
LEMMA FetchedIs ==
  ASSUME AssemblyTypes, path = "direct", NEW n \in Nat
  PROVE  FirstN(found, n) \in Seq(Ids) /\ Distinct(FirstN(found, n))
<1>1. found \in Seq(Ids) /\ Distinct(found) BY DEF AssemblyTypes
<1> QED BY <1>1, FirstNIs

LEMMA RankedTypes ==
  ASSUME AssemblyTypes, NEW r \in RankedBy(strategy, fetched)
  PROVE  /\ r \in Seq(Ids) /\ Distinct(r) /\ ToSet(r) \subseteq ToSet(fetched)
         /\ fetched # <<>> => r # <<>>
         /\ strategy # "cross_encoder" => Len(r) = Len(fetched)
BY RankedIs DEF AssemblyTypes

LEMMA FillUpStep ==
  ASSUME AssemblyInv, FillUp
  PROVE  /\ path = "direct" /\ fetched' \in Seq(Ids) /\ Distinct(fetched') /\ ranked' \in Seq(Ids)
         /\ Distinct(ranked') /\ Len(ranked') >= Least(MinContext, Len(fetched'))
<1> USE DEF AssemblyInv
<1>1. path = "direct" BY DEF FillUp, AssemblyTypes
<1>2. /\ fetched \in Seq(Ids) /\ Distinct(fetched) /\ ranked \in Seq(Ids)
      /\ strategy \in {"none", "mmr", "cross_encoder"}
  BY DEF AssemblyTypes
<1>3. /\ Distinct(ranked) /\ ToSet(ranked) \subseteq ToSet(fetched)
      /\ fetched # <<>> => ranked # <<>>
  BY DEF FillUp, RankedOut
<1>4. /\ Len(fetched) \in Nat /\ Len(ranked) \in Nat /\ MinContext \in Nat /\ 2 * TopK \in Nat
      /\ (ranked = <<>> <=> Len(ranked) = 0) /\ (fetched = <<>> <=> Len(fetched) = 0)
  BY <1>2, LenProperties, EmptySeq, AssemblyAssumption
<1>5. ASSUME Len(ranked) < MinContext
      PROVE  /\ Backfill \in Seq(Ids) /\ Distinct(Backfill) /\ ToSet(Backfill) \cap ToSet(ranked) = {}
             /\ Len(fetched) - Len(ranked) \in Nat
             /\ Len(Backfill) = Least(MinContext - Len(ranked), Len(fetched) - Len(ranked))
             /\ (Backfill = <<>> <=> Len(Backfill) = 0)
  BY <1>2, <1>3, <1>5, BackfillIs, EmptySeq
<1>6. CASE Len(ranked) \in 1 .. MinContext - 1 /\ Backfill # <<>>
  <2>1. ranked' = ranked \o Backfill /\ fetched' = fetched BY <1>6 DEF FillUp
  <2>2. Len(ranked) < MinContext BY <1>4, <1>6
  <2>3. /\ ranked \o Backfill \in Seq(Ids) /\ Len(ranked \o Backfill) = Len(ranked) + Len(Backfill)
        /\ Distinct(ranked \o Backfill)
    BY <1>2, <1>3, <1>5, <2>2, ConcatDistinct
  <2>4. Len(ranked) + Len(Backfill) >= Least(MinContext, Len(fetched))
    BY <1>4, <1>5, <2>2 DEF Least
  <2> QED BY <1>1, <1>2, <2>1, <2>3, <2>4
<1>7. CASE Len(ranked) \in 1 .. MinContext - 1 /\ Backfill = <<>> /\ strategy # "cross_encoder"
  <2>1. fetched' = FirstN(found, 2 * TopK) /\ ranked' \in RankedBy(strategy, fetched')
    BY <1>7 DEF FillUp
  <2> DEFINE f == FirstN(found, 2 * TopK)
  <2>2. f \in Seq(Ids) /\ Distinct(f) BY <1>1, <1>4, FetchedIs
  <2>3. fetched' = f /\ ranked' \in RankedBy(strategy, f) BY <2>1
  <2> HIDE DEF f
  <2>4. ranked' \in Seq(Ids) /\ Distinct(ranked') /\ Len(ranked') = Len(f)
    BY <1>2, <1>7, <2>2, <2>3, RankedIs
  <2>5. Len(f) \in Nat BY <2>2, LenProperties
  <2>6. Len(ranked') >= Least(MinContext, Len(f)) BY <1>4, <2>4, <2>5 DEF Least
  <2> QED BY <1>1, <2>2, <2>3, <2>4, <2>6
<1>8. CASE \/ Len(ranked) \in 1 .. MinContext - 1 /\ Backfill = <<>> /\ strategy = "cross_encoder"
           \/ Len(ranked) \notin 1 .. MinContext - 1
  <2>1. ranked' = ranked /\ fetched' = fetched BY <1>8 DEF FillUp
  <2>2. Len(ranked) >= Least(MinContext, Len(fetched))
    <3>1. CASE Len(ranked) \in 1 .. MinContext - 1 /\ Backfill = <<>>
      <4>1. Len(ranked) < MinContext BY <1>4, <3>1
      <4>2. Least(MinContext - Len(ranked), Len(fetched) - Len(ranked)) = 0 BY <1>5, <3>1, <4>1
      <4> QED BY <1>4, <1>5, <4>1, <4>2 DEF Least
    <3>2. CASE Len(ranked) = 0 BY <1>3, <1>4, <3>2 DEF Least
    <3>3. CASE Len(ranked) >= MinContext BY <1>4, <3>3 DEF Least
    <3> QED BY <1>4, <1>8, <3>1, <3>2, <3>3
  <2> QED BY <1>1, <1>2, <1>3, <2>1, <2>2
<1> QED BY <1>2, <1>6, <1>7, <1>8

LEMMA AssemblyStep == AssemblyInv /\ [AssemblyNext]_assemblyVars => AssemblyInv'
<1> SUFFICES ASSUME AssemblyInv, [AssemblyNext]_assemblyVars PROVE AssemblyInv'
  OBVIOUS
<1> USE DEF AssemblyInv
<1>0. AssemblyTypes OBVIOUS
<1>1. CASE UNCHANGED assemblyVars
  <2>1. /\ path' = path /\ strategy' = strategy /\ size' = size /\ found' = found /\ step' = step
        /\ fetched' = fetched /\ ranked' = ranked /\ context' = context
    BY <1>1 DEF assemblyVars
  <2>2. AssemblyTypes' BY <1>0, <2>1 DEF AssemblyTypes, SizeTypes
  <2>3. RankedOut' BY <2>1 DEF RankedOut
  <2>4. Enough' BY <2>1 DEF Enough
  <2>5. Assembling' BY <2>1 DEF Assembling, Spent
  <2> QED BY <2>2, <2>3, <2>4, <2>5
<1>2. CASE Retrieve
  <2> DEFINE n == IF strategy = "cross_encoder" THEN CoarseK ELSE TopK
  <2>1. n \in Nat /\ path = "direct" BY <1>2, AssemblyAssumption DEF Retrieve
  <2>2. fetched' = FirstN(found, n) BY <1>2 DEF Retrieve
  <2> HIDE DEF n
  <2>3. fetched' \in Seq(Ids) /\ Distinct(fetched') BY <2>1, <2>2, FetchedIs
  <2>4. /\ step' = "rank" /\ path' = path /\ strategy' = strategy /\ size' = size
        /\ found' = found /\ ranked' = ranked
    BY <1>2 DEF Retrieve
  <2>5. AssemblyTypes' BY <2>1, <2>3, <2>4 DEF AssemblyTypes, SizeTypes
  <2> QED BY <2>4, <2>5 DEF RankedOut, Enough, Assembling
<1>3. CASE RetrieveFails
  <2>1. /\ step' = "error" /\ path' = path /\ strategy' = strategy /\ size' = size
        /\ found' = found /\ ranked' = ranked /\ fetched' = fetched /\ path = "direct"
    BY <1>3 DEF RetrieveFails
  <2>2. AssemblyTypes' BY <2>1 DEF AssemblyTypes, SizeTypes
  <2> QED BY <2>1, <2>2 DEF RankedOut, Enough, Assembling
<1>4. CASE Rank
  <2>1. ranked' \in RankedBy(strategy, fetched) BY <1>4 DEF Rank
  <2>2. /\ ranked' \in Seq(Ids) /\ Distinct(ranked') /\ ToSet(ranked') \subseteq ToSet(fetched)
        /\ fetched # <<>> => ranked' # <<>>
    BY <2>1, RankedTypes
  <2>3. /\ step = "rank" /\ step' = "threshold" /\ path' = path /\ strategy' = strategy
        /\ size' = size /\ found' = found /\ fetched' = fetched
    BY <1>4 DEF Rank
  <2>4. AssemblyTypes' BY <2>2, <2>3 DEF AssemblyTypes, SizeTypes
  <2> QED BY <2>2, <2>3, <2>4 DEF RankedOut, Enough, Assembling
<1>5. CASE PassThreshold
  <2>1. /\ step = "threshold" /\ step' = "fill" /\ path' = path /\ strategy' = strategy
        /\ size' = size /\ found' = found /\ fetched' = fetched /\ ranked' = ranked
    BY <1>5 DEF PassThreshold
  <2>2. AssemblyTypes' BY <2>1 DEF AssemblyTypes, SizeTypes
  <2> QED BY <2>1, <2>2 DEF RankedOut, Enough, Assembling
<1>6. CASE RankAgain
  <2>1. ranked' \in RankedBy("mmr", fetched) BY <1>6 DEF RankAgain
  <2>2. /\ ranked' \in Seq(Ids) /\ Distinct(ranked') /\ ToSet(ranked') \subseteq ToSet(fetched)
        /\ fetched # <<>> => ranked' # <<>>
    <3>1. fetched \in Seq(Ids) /\ Distinct(fetched) BY DEF AssemblyTypes
    <3> QED BY <2>1, <3>1, RankedIs
  <2>3. /\ step = "threshold" /\ step' = "fill" /\ path' = path /\ strategy' = strategy
        /\ size' = size /\ found' = found /\ fetched' = fetched
    BY <1>6 DEF RankAgain
  <2>4. AssemblyTypes' BY <2>2, <2>3 DEF AssemblyTypes, SizeTypes
  <2> QED BY <2>2, <2>3, <2>4 DEF RankedOut, Enough, Assembling
<1>7. CASE FillUp
  <2>1. /\ path = "direct" /\ fetched' \in Seq(Ids) /\ Distinct(fetched') /\ ranked' \in Seq(Ids)
        /\ Distinct(ranked') /\ Len(ranked') >= Least(MinContext, Len(fetched'))
    BY <1>7, FillUpStep
  <2>2. /\ step' = "assemble" /\ path' = path /\ strategy' = strategy
        /\ size' = size /\ found' = found
    BY <1>7 DEF FillUp
  <2>3. AssemblyTypes' BY <2>1, <2>2 DEF AssemblyTypes, SizeTypes
  <2> QED BY <2>1, <2>2, <2>3 DEF RankedOut, Enough, Assembling
<1>8. CASE AssembleContext
  <2> DEFINE a == Assembled(ranked)
  <2>1. /\ step = "assemble" /\ path' = path /\ strategy' = strategy /\ size' = size
        /\ found' = found /\ fetched' = fetched /\ ranked' = ranked
        /\ context' = (IF a = <<>> THEN <<>> ELSE <<a>>)
        /\ step' = (IF a = <<>> THEN "no context" ELSE "generate")
    BY <1>8 DEF AssembleContext
  <2>2. ranked \in Seq(Ids) /\ path = "direct" /\ SizeTypes BY <2>1 DEF AssemblyTypes
  <2>3. /\ a \in Seq(Ids) /\ (Distinct(ranked) => Distinct(a))
        /\ a # <<>> => Spent(a) <= Budget
        /\ a = <<>> => \A i \in 1 .. Len(ranked) : size[ranked[i]] > Budget
    BY <2>2, AssembledSound
  <2> HIDE DEF a
  <2>4. Distinct(ranked) /\ Len(ranked) >= Least(MinContext, Len(fetched)) BY <2>1, <2>2 DEF Enough
  <2>5. AssemblyTypes' BY <2>1, <2>2 DEF AssemblyTypes, SizeTypes
  <2>6. RankedOut' /\ Enough' BY <2>1, <2>4 DEF RankedOut, Enough
  <2>7. Assembling'
    <3>1. CASE a = <<>> BY <2>1, <2>3, <3>1 DEF Assembling
    <3>2. CASE a # <<>>
      <4>1. context' = <<a>> /\ context' # <<>> /\ context'[1] = a /\ step' = "generate"
        BY <2>1, <3>2
      <4>2. Spent(context[1])' = Spent(a) BY <2>1, <4>1 DEF Spent
      <4> QED BY <2>3, <2>4, <3>2, <4>1, <4>2 DEF Assembling
    <3> QED BY <3>1, <3>2
  <2> QED BY <2>5, <2>6, <2>7
<1>9. CASE Fuse
  <2>1. PICK others \in RankedBy(strategy, Remainder) :
          /\ ranked' = Reserved \o others
          /\ IF Assembled(Reserved \o others) = <<>> THEN step' = "no context"
             ELSE step' = "generate"
    BY <1>9 DEF Fuse
  <2>2. /\ path = "agent" /\ path' = path /\ strategy' = strategy /\ size' = size
        /\ found' = found /\ fetched' = fetched
    BY <1>9 DEF Fuse
  <2>3. strategy = "mmr" /\ found \in Seq(Seq(Ids)) /\ SizeTypes BY <2>2 DEF AssemblyTypes
  <2>4. ranked' \in Seq(Ids) BY <2>1, <2>3, FusedType
  <2>5. AssemblyTypes' BY <2>1, <2>2, <2>3, <2>4 DEF AssemblyTypes, SizeTypes
  <2>6. step' = "no context" => \A i \in 1 .. Len(ranked') : size[ranked'[i]] > Budget
    <3> DEFINE r == Reserved \o others
    <3>1. r \in Seq(Ids) /\ ranked' = r BY <2>1, <2>4
    <3>2. step' = "no context" => Assembled(r) = <<>> BY <2>1
    <3> HIDE DEF r
    <3>3. Assembled(r) = <<>> => \A i \in 1 .. Len(r) : size[r[i]] > Budget
      BY <2>3, <3>1, AssembledSound
    <3> QED BY <3>1, <3>2, <3>3
  <2>7. step' \in {"generate", "no context"} BY <2>1
  <2> QED BY <2>2, <2>5, <2>6, <2>7 DEF RankedOut, Enough, Assembling
<1> QED BY <1>1, <1>2, <1>3, <1>4, <1>5, <1>6, <1>7, <1>8, <1>9 DEF AssemblyNext

\* What an answer of the direct path is generated from stays within the budget,
\* says nothing twice and was chosen from as many chunks as are asked for; a
\* query has no context only when no chunk fits (base_rag.py query,
\* context_assembler.py assemble).
THEOREM ContextIsSound == AssemblySpec => []ContextSound
<1>1. AssemblyInv => ContextSound
  <2> SUFFICES ASSUME AssemblyInv PROVE ContextSound
    OBVIOUS
  <2>1. ranked \in Seq(Ids) /\ DOMAIN ranked = 1 .. Len(ranked)
    BY LenProperties DEF AssemblyInv, AssemblyTypes
  <2>2. Distinct(ranked) => NoRepeats(ranked) BY <2>1, DistinctCounts DEF NoRepeats
  <2>3. ASSUME path = "direct", step = "generate"
        PROVE  /\ context # <<>> /\ Spent(context[1]) <= Budget /\ NoRepeats(context[1])
               /\ NoRepeats(ranked) /\ Len(ranked) >= Least(MinContext, Len(fetched))
    <3>1. /\ context # <<>> /\ context[1] \in Seq(Ids) /\ Distinct(context[1])
          /\ Spent(context[1]) <= Budget
      BY <2>3 DEF AssemblyInv, Assembling
    <3>2. NoRepeats(context[1]) BY <3>1, DistinctCounts DEF NoRepeats
    <3>3. Distinct(ranked) /\ Len(ranked) >= Least(MinContext, Len(fetched))
      BY <2>3 DEF AssemblyInv, Enough
    <3> QED BY <2>2, <3>1, <3>2, <3>3
  <2>4. step = "no context" => \A i \in DOMAIN ranked : size[ranked[i]] > Budget
    BY <2>1 DEF AssemblyInv, Assembling
  <2> QED BY <2>3, <2>4 DEF ContextSound
<1> QED BY <1>1, AssemblyStart, AssemblyStep, PTL DEF AssemblySpec
===============================================================================
