------------------------- MODULE LevelDBPlan_proofs -------------------------
(***************************************************************************)
(* Proofs about the plans of LevelDBPlan, for keys of any number of         *)
(* columns, any statements and any number of sessions: the rows of a        *)
(* statement are those of one version of the table, each once and in order, *)
(* and a DELETE removes what it should.  The first part is about the ranges *)
(* of KeySearchRange.                                                       *)
(***************************************************************************)
EXTENDS LevelDBPlan, FoldLemmas, SequenceTheorems

-----------------------------------------------------------------------------
(* The order of keys (DataRow::compare) is a strict total order.            *)

\* Two different keys differ in a first column.
LEMMA FirstDifference ==
  ASSUME NEW a \in Key, NEW b \in Key, a # b
  PROVE  \E i \in Column : a[i] # b[i] /\ \A j \in 1..(i - 1) : a[j] = b[j]
<1> DEFINE T == {i \in Column : a[i] # b[i]}
<1>1. T \in SUBSET Nat
  BY KeyAssumption DEF Column
<1>2. T # {}
  BY DEF Key
<1>3. PICK i \in T : \A j \in T : i <= j
  <2> HIDE DEF T
  <2> QED BY <1>1, <1>2, LeastNatural
<1>4. \A j \in 1..(i - 1) : j \in Column /\ j \notin T
  BY <1>1, <1>3, KeyAssumption DEF Column
<1> QED BY <1>3, <1>4

\* Two keys are equal or one comes before the other (KeyComparator::Compare).
LEMMA KeyTotal ==
  ASSUME NEW a \in Key, NEW b \in Key
  PROVE  a = b \/ KeyLess(a, b) \/ KeyLess(b, a)
<1> SUFFICES ASSUME a # b PROVE KeyLess(a, b) \/ KeyLess(b, a)
  OBVIOUS
<1>1. PICK i \in Column : a[i] # b[i] /\ \A j \in 1..(i - 1) : a[j] = b[j]
  BY FirstDifference
<1>2. a[i] \in Int /\ b[i] \in Int
  BY KeyAssumption DEF Key, Value
<1>3. a[i] < b[i] \/ b[i] < a[i]
  BY <1>1, <1>2
<1> QED BY <1>1, <1>3 DEF KeyLess

\* No key comes before itself.
LEMMA KeyIrreflexive ==
  ASSUME NEW a \in Key
  PROVE  ~KeyLess(a, a)
BY KeyAssumption DEF KeyLess, Key, Value

\* The order of keys is transitive, as LevelDB demands of a comparator.
LEMMA KeyTransitive ==
  ASSUME NEW a \in Key, NEW b \in Key, NEW c \in Key, KeyLess(a, b), KeyLess(b, c)
  PROVE  KeyLess(a, c)
<1>1. PICK i \in Column : a[i] < b[i] /\ \A j \in 1..(i - 1) : a[j] = b[j]
  BY DEF KeyLess
<1>2. PICK m \in Column : b[m] < c[m] /\ \A j \in 1..(m - 1) : b[j] = c[j]
  BY DEF KeyLess
<1>3. \A j \in Column : a[j] \in Int /\ b[j] \in Int /\ c[j] \in Int
  BY KeyAssumption DEF Key, Value
<1>4. i \in Nat /\ m \in Nat /\ i >= 1 /\ m >= 1
  BY KeyAssumption DEF Column
<1>5. CASE i <= m
  <2>1. a[i] < c[i]
    BY <1>1, <1>2, <1>3, <1>4, <1>5
  <2>2. \A j \in 1..(i - 1) : a[j] = c[j]
    BY <1>1, <1>2, <1>4, <1>5
  <2> QED BY <2>1, <2>2 DEF KeyLess
<1>6. CASE m < i
  <2>1. a[m] < c[m]
    BY <1>1, <1>2, <1>3, <1>4, <1>6
  <2>2. \A j \in 1..(m - 1) : a[j] = c[j]
    BY <1>1, <1>2, <1>4, <1>6
  <2> QED BY <2>1, <2>2 DEF KeyLess
<1> QED BY <1>4, <1>5, <1>6

-----------------------------------------------------------------------------
(* Unions of ranges.                                                        *)

KeyRange == [start : Key, end : Key, startInclusive : BOOLEAN, endInclusive : BOOLEAN,
             seekToFirst : BOOLEAN, seekToLast : BOOLEAN]

\* The ranges of a union have passed the checks of buildUnionAll: they are sorted
\* by their start, and each starts after its predecessor ends.
Accepted(ranges) ==
  /\ \A i, j \in DOMAIN ranges : i < j => ~StartsBefore(ranges[j], ranges[i])
  /\ \A i \in DOMAIN ranges : i > 1 => StartAfterEnd(ranges[i], ranges[i - 1])

\* A union that buildUnionAll accepts has ranges that are disjoint and in the
\* order of their keys, whatever their number, provided that no range is
\* contradictory: comparing neighbours is enough then.  UnionAllPlan relies on
\* this to return each row once and in order without a sort.
THEOREM UnionInOrder ==
  ASSUME NEW ranges \in Seq(KeyRange), Accepted(ranges),
         \A i \in DOMAIN ranges : Proper(ranges[i]),
         NEW i \in DOMAIN ranges, NEW j \in DOMAIN ranges, i < j,
         NEW a \in Key, NEW b \in Key, InRange(ranges[i], a), InRange(ranges[j], b)
  PROVE  KeyLess(a, b)
<1> DEFINE P == ranges[i]
           Q == ranges[i + 1]
           N == ranges[j]
<1>1. i + 1 \in DOMAIN ranges /\ i \in Nat /\ j \in Nat /\ i >= 1 /\ j >= i + 1
  OBVIOUS
<1>2. P \in KeyRange /\ Q \in KeyRange /\ N \in KeyRange
  BY <1>1
<1>3. StartAfterEnd(Q, P)
  BY <1>1 DEF Accepted
<1>4. ~StartsBefore(N, Q)
  <2>1. CASE j = i + 1
    <3>1. Q.start \in Key
      BY <1>2 DEF KeyRange
    <3>2. ~KeyLess(Q.start, Q.start)
      BY <3>1, KeyIrreflexive
    <3> QED BY <2>1, <3>2 DEF StartsBefore
  <2>2. CASE i + 1 < j
    BY <1>1, <2>2 DEF Accepted
  <2> QED BY <1>1, <2>1, <2>2
<1>5. ~Q.seekToFirst /\ ~P.seekToLast /\ ~N.seekToFirst /\ ~KeyLess(N.start, Q.start)
  BY <1>3, <1>4 DEF StartAfterEnd, StartsBefore
<1>6. P.end \in Key /\ Q.start \in Key /\ Q.end \in Key /\ N.start \in Key
  BY <1>2 DEF KeyRange
<1>7. Q.start = N.start \/ KeyLess(Q.start, N.start)
  BY <1>5, <1>6, KeyTotal
<1>8. (a = P.end /\ P.endInclusive) \/ KeyLess(a, P.end)
  BY <1>5, <1>6, KeyTotal DEF InRange, BeforeEnd
<1>9. (b = N.start /\ N.startInclusive) \/ KeyLess(N.start, b)
  BY <1>5, <1>6, KeyTotal DEF InRange, AfterStart
<1>10. CASE KeyLess(P.end, Q.start)
  <2>1. KeyLess(a, Q.start)
    BY <1>6, <1>8, <1>10, KeyTransitive
  <2>2. KeyLess(a, N.start)
    BY <1>6, <1>7, <2>1, KeyTransitive
  <2> QED BY <1>6, <1>9, <2>2, KeyTransitive
<1>11. CASE P.end = Q.start /\ ~P.endInclusive
  <2>1. KeyLess(a, Q.start)
    BY <1>8, <1>11
  <2>2. KeyLess(a, N.start)
    BY <1>6, <1>7, <2>1, KeyTransitive
  <2> QED BY <1>6, <1>9, <2>2, KeyTransitive
<1>12. CASE P.end = Q.start /\ ~Q.startInclusive
  <2>1. KeyLess(Q.start, b)
    <3>1. CASE j = i + 1
      BY <1>9, <1>12, <3>1
    <3>2. CASE i + 1 < j
      <4> DEFINE M == ranges[i + 2]
      <4>1. i + 2 \in DOMAIN ranges /\ i + 2 > 1 /\ (i + 2) - 1 = i + 1
        BY <1>1, <3>2
      <4>2. M \in KeyRange
        BY <4>1
      <4>3. M.start \in Key
        BY <4>2 DEF KeyRange
      <4>4. KeyLess(Q.start, Q.end)
        BY <1>1, <1>12 DEF Proper
      <4>5. StartAfterEnd(M, Q)
        BY <4>1 DEF Accepted
      <4>6. KeyLess(Q.start, M.start)
        BY <1>6, <4>3, <4>4, <4>5, KeyTransitive DEF StartAfterEnd
      <4>7. M.start = N.start \/ KeyLess(M.start, N.start)
        <5>1. CASE j = i + 2
          BY <5>1
        <5>2. CASE i + 2 < j
          <6>1. ~StartsBefore(N, M)
            BY <4>1, <5>2 DEF Accepted
          <6>2. ~KeyLess(N.start, M.start)
            BY <4>5, <6>1 DEF StartsBefore, StartAfterEnd
          <6> QED BY <1>6, <4>3, <6>2, KeyTotal
        <5> QED BY <1>1, <3>2, <5>1, <5>2
      <4>8. KeyLess(Q.start, N.start)
        BY <1>6, <4>3, <4>6, <4>7, KeyTransitive
      <4> QED BY <1>6, <1>9, <4>8, KeyTransitive
    <3> QED BY <1>1, <3>1, <3>2
  <2> QED BY <1>6, <1>8, <1>12, <2>1, KeyTransitive
<1> QED BY <1>3, <1>10, <1>11, <1>12 DEF StartAfterEnd
-----------------------------------------------------------------------------
(* From predicates to a range.                                              *)

LowerOps == {"=", ">", ">="}
UpperOps == {"<", "<="}

\* What setPredicateInfo leaves for a column and for the upper bound
LowerInfo(s, i) ==
  \/ s.lower[i] = Unset
  \/ \E p \in Predicate : /\ p.col = i /\ ColumnOp(p) \in LowerOps
                          /\ s.lower[i] = Info(ColumnOp(p), p.val, p)

UpperInfo(s) ==
  \/ s.upper = Unset /\ s.upperCol = 0
  \/ \E p \in Predicate : /\ s.upperCol = p.col /\ ColumnOp(p) \in UpperOps
                          /\ s.upper = Info(ColumnOp(p), p.val, p)

InfoType == [op : Operation \cup {"none"}, val : Value, expr : SUBSET Predicate]

Collected(s) ==
  /\ s \in [lower : [Column -> InfoType], upper : InfoType, upperCol : 0..KeyCount]
  /\ \A i \in Column : LowerInfo(s, i)
  /\ UpperInfo(s)

\* What setPredicateInfo stores for a predicate is a well-formed entry.
LEMMA InfoIsTyped ==
  ASSUME NEW p \in Predicate
  PROVE  Info(ColumnOp(p), p.val, p) \in InfoType
<1>1. p.op \in Operation /\ p.val \in Value
  BY DEF Predicate
<1>2. ColumnOp(p) \in Operation
  BY <1>1 DEF ColumnOp, reverseOp, Operation
<1> QED BY <1>1, <1>2 DEF Info, InfoType

\* Before any predicate is collected the entries satisfy Collected.
LEMMA CollectedInit == Collected(NoRanges)
<1>1. Unset \in InfoType
  BY KeyAssumption DEF Unset, InfoType, Value
<1>2. 0 \in 0..KeyCount
  BY KeyAssumption
<1> QED BY <1>1, <1>2 DEF Collected, NoRanges, LowerInfo, UpperInfo

\* Collecting one more predicate keeps every bound the exact record of some
\* predicate on its column.
LEMMA CollectedStep ==
  ASSUME NEW s, Collected(s), NEW p \in Predicate
  PROVE  Collected(SetPredicateInfo(s, p))
<1> DEFINE op == ColumnOp(p)
           t == SetPredicateInfo(s, p)
<1>1. p.col \in Column
  BY DEF Predicate
<1>0. Info(op, p.val, p) \in InfoType
  BY InfoIsTyped
<1>2. CASE op \in LowerOps /\ t = [s EXCEPT !.lower[p.col] = Info(op, p.val, p)]
  <2>1. t.lower = [s.lower EXCEPT ![p.col] = Info(op, p.val, p)]
        /\ t.upper = s.upper /\ t.upperCol = s.upperCol
    BY <1>2 DEF Collected
  <2>2. t \in [lower : [Column -> InfoType], upper : InfoType, upperCol : 0..KeyCount]
    <3> HIDE DEF op
    <3> QED BY <1>0, <1>1, <1>2 DEF Collected
  <2>3. \A i \in Column : LowerInfo(t, i)
    BY <1>1, <1>2, <2>1 DEF Collected, LowerInfo
  <2>4. UpperInfo(t)
    BY <2>1 DEF Collected, UpperInfo
  <2> QED BY <2>2, <2>3, <2>4 DEF Collected
<1>3. CASE op \in UpperOps /\ t = [s EXCEPT !.upper = Info(op, p.val, p), !.upperCol = p.col]
  <2>1. t.lower = s.lower /\ t.upper = Info(op, p.val, p) /\ t.upperCol = p.col
    BY <1>3 DEF Collected
  <2>2. p.col \in 0..KeyCount
    BY <1>1, KeyAssumption DEF Column
  <2>3. t \in [lower : [Column -> InfoType], upper : InfoType, upperCol : 0..KeyCount]
    <3> HIDE DEF op
    <3> QED BY <1>0, <1>3, <2>2 DEF Collected
  <2>4. \A i \in Column : LowerInfo(t, i)
    BY <2>1 DEF Collected, LowerInfo
  <2>5. UpperInfo(t)
    BY <1>3, <2>1 DEF UpperInfo
  <2> QED BY <2>3, <2>4, <2>5 DEF Collected
<1>4. CASE t = s
  BY <1>4
<1>5. \/ op \in LowerOps /\ t = [s EXCEPT !.lower[p.col] = Info(op, p.val, p)]
      \/ op \in UpperOps /\ t = [s EXCEPT !.upper = Info(op, p.val, p), !.upperCol = p.col]
      \/ t = s
  <2> HIDE DEF op
  <2> QED BY DEF SetPredicateInfo, LowerOps, UpperOps, op
<1> QED BY <1>2, <1>3, <1>4, <1>5

-----------------------------------------------------------------------------
(* The fold over a conjunction (doSetPredicate).                            *)

\* What the fold of doSetPredicate is by definition: a function on sets of
\* indexes, here on those in D
SetsAll(c, iter, D) ==
  iter = [s \in D |-> IF s = {} THEN NoRanges ELSE SetPredicateInfo(iter[s \ {Max(s)}], c[Max(s)])]

\* doSetPredicate is such a function for all the indexes of a conjunction.
LEMMA DoSetPredicateFolds ==
  ASSUME NEW c \in Seq(Predicate)
  PROVE  \E iter : SetsAll(c, iter, SUBSET (1..Len(c))) /\ DoSetPredicate(c) = iter[1..Len(c)]
<1>. DEFINE n    == Len(c)
            A    == {s \in [lower : [Column -> InfoType], upper : InfoType, upperCol : 0..KeyCount] : Collected(s)}
            step == [x \in A \X (1..n) |-> SetPredicateInfo(x[1], c[x[2]])]
            d    == CHOOSE iter : SetsAll(c, iter, SUBSET (1..n))
<1>1. n \in Nat /\ DOMAIN c = 1..n /\ \A i \in 1..n : c[i] \in Predicate
  OBVIOUS
<1>. HIDE DEF n
<1>2. NoRanges \in A
  BY CollectedInit DEF Collected
<1>3. ASSUME NEW x \in A, NEW i \in 1..n PROVE SetPredicateInfo(x, c[i]) \in A
  BY <1>1, <1>3, CollectedStep DEF Collected
<1>. HIDE DEF A
<1>4. step \in [A \X (1..n) -> A]
  BY <1>3
<1>5. PICK iter : Folds(step, NoRanges, iter, SUBSET (1..n)) /\ \A s \in SUBSET (1..n) : iter[s] \in A
  BY <1>1, <1>2, <1>4, FoldExists
<1>6. \A s \in SUBSET (1..n) : s # {} => Max(s) \in 1..n /\ s \ {Max(s)} \in SUBSET (1..n)
  BY <1>1, LargestIndex
<1>7. SetsAll(c, iter, SUBSET (1..n))
  BY <1>5, <1>6 DEF Folds, SetsAll
<1>8. SetsAll(c, d, SUBSET (1..n))
  BY <1>7
<1>9. DoSetPredicate(c) = d[1..n]
  BY <1>1 DEF DoSetPredicate, FoldLeft, MapThenFoldSet, SetsAll
<1>. QED  BY <1>8, <1>9 DEF n

\* No bound records a predicate that is not in C.
From(s, C) == s.upper.expr \subseteq C /\ \A i \in Column : s.lower[i].expr \subseteq C

\* Collecting a predicate of C records none from elsewhere.
LEMMA FromStep ==
  ASSUME NEW s, Collected(s), NEW C, From(s, C), NEW p \in Predicate, p \in C
  PROVE  From(SetPredicateInfo(s, p), C)
<1>. DEFINE op == ColumnOp(p)
            t == SetPredicateInfo(s, p)
<1>1. /\ p.col \in Column
      /\ Info(op, p.val, p).expr \subseteq C
  BY DEF Predicate, Info
<1>2. CASE t = [s EXCEPT !.lower[p.col] = Info(op, p.val, p)]
  <2>1. t.lower = [s.lower EXCEPT ![p.col] = Info(op, p.val, p)] /\ t.upper = s.upper
    BY <1>2 DEF Collected
  <2>2. \A i \in Column : t.lower[i] = IF i = p.col THEN Info(op, p.val, p) ELSE s.lower[i]
    BY <2>1 DEF Collected
  <2>. QED  BY <1>1, <2>1, <2>2 DEF From
<1>3. CASE t = [s EXCEPT !.upper = Info(op, p.val, p), !.upperCol = p.col]
  <2>1. t.lower = s.lower /\ t.upper = Info(op, p.val, p)
    BY <1>3 DEF Collected
  <2>. QED  BY <1>1, <2>1 DEF From
<1>4. \/ t = [s EXCEPT !.lower[p.col] = Info(op, p.val, p)]
      \/ t = [s EXCEPT !.upper = Info(op, p.val, p), !.upperCol = p.col]
      \/ t = s
  <2> HIDE DEF op
  <2> QED BY DEF SetPredicateInfo, op
<1>. QED  BY <1>2, <1>3, <1>4

\* What doSetPredicate makes of a conjunction, however long it is: every bound is
\* the exact record of some predicate of the conjunction on its column.
THEOREM CollectedFold ==
  ASSUME NEW c \in Seq(Predicate)
  PROVE  Collected(DoSetPredicate(c)) /\ From(DoSetPredicate(c), ToSet(c))
<1>. DEFINE n == Len(c)
            C == ToSet(c)
            Right(s) == Collected(s) /\ From(s, C)
<1>1. PICK iter : SetsAll(c, iter, SUBSET (1..n)) /\ DoSetPredicate(c) = iter[1..n]
  BY DoSetPredicateFolds
<1>2. n \in Nat /\ \A i \in 1..n : c[i] \in Predicate /\ c[i] \in C
  BY DEF ToSet
<1>. HIDE DEF n, C
<1>. DEFINE Good == {m \in Nat : m <= n => Right(iter[1..m])}
<1>3. 0 \in Good
  <2>1. 1..0 = {} /\ {} \in SUBSET (1..n)
    OBVIOUS
  <2>2. iter[{}] = NoRanges
    BY <1>1, <2>1 DEF SetsAll
  <2>3. From(NoRanges, C)
    BY DEF From, NoRanges, Unset
  <2>. QED  BY <2>1, <2>2, <2>3, CollectedInit
<1>4. ASSUME NEW m \in Nat, m \in Good PROVE m + 1 \in Good
  <2>. SUFFICES ASSUME m + 1 <= n PROVE Right(iter[1..(m + 1)])
    BY <1>2
  <2>1. Right(iter[1..m])
    BY <1>2, <1>4
  <2>2. /\ 1..(m + 1) \in SUBSET (1..n) /\ 1..(m + 1) # {}
        /\ m + 1 \in 1..n
    <3>1. n \in Nat /\ m + 1 <= n
      BY <1>2
    <3>2. m + 1 \in 1..(m + 1) /\ m + 1 \in 1..n
      BY <3>1
    <3>3. \A k \in 1..(m + 1) : k \in 1..n
      BY <3>1
    <3>. QED  BY <3>2, <3>3
  <2>3. Max(1..(m + 1)) = m + 1 /\ (1..(m + 1)) \ {m + 1} = 1..m
    BY LastIndex
  <2>5. iter[1..(m + 1)] = SetPredicateInfo(iter[1..m], c[m + 1])
    BY <1>1, <2>2, <2>3 DEF SetsAll
  <2>6. c[m + 1] \in Predicate /\ c[m + 1] \in C
    BY <1>2, <2>2
  <2>7. Collected(SetPredicateInfo(iter[1..m], c[m + 1]))
    BY <2>1, <2>6, CollectedStep
  <2>8. From(SetPredicateInfo(iter[1..m], c[m + 1]), C)
    BY <2>1, <2>6, FromStep
  <2>. QED  BY <2>5, <2>7, <2>8
<1>. HIDE DEF Good
<1>5. n \in Good
  BY <1>2, <1>3, <1>4, Induction
<1>6. Right(iter[1..n])
  BY <1>2, <1>5 DEF Good
<1>. QED  BY <1>1, <1>6 DEF C

\* A predicate holds iff its column compares as the operator seen from the column.
LEMMA HoldsColumnOp ==
  ASSUME NEW p \in Predicate, NEW k \in Key
  PROVE  Holds(p, k) <=> Compare(ColumnOp(p), k[p.col], p.val)
<1>1. k[p.col] \in Int /\ p.val \in Int /\ p.op \in Operation /\ p.swapped \in BOOLEAN
  BY KeyAssumption DEF Predicate, Key, Value
<1>2. CASE ~p.swapped
  BY <1>2 DEF Holds, ColumnOp
<1>3. CASE p.swapped
  <2>1. CASE p.op = "="
    BY <1>1, <1>3, <2>1 DEF Holds, ColumnOp, Compare, reverseOp, Operation
  <2>2. CASE p.op = "!="
    BY <1>1, <1>3, <2>2 DEF Holds, ColumnOp, Compare, reverseOp, Operation
  <2>3. CASE p.op = "<="
    BY <1>1, <1>3, <2>3 DEF Holds, ColumnOp, Compare, reverseOp, Operation
  <2>4. CASE p.op = "<"
    BY <1>1, <1>3, <2>4 DEF Holds, ColumnOp, Compare, reverseOp, Operation
  <2>5. CASE p.op = ">"
    BY <1>1, <1>3, <2>5 DEF Holds, ColumnOp, Compare, reverseOp, Operation
  <2>6. CASE p.op = ">="
    BY <1>1, <1>3, <2>6 DEF Holds, ColumnOp, Compare, reverseOp, Operation
  <2> QED BY <1>1, <2>1, <2>2, <2>3, <2>4, <2>5, <2>6 DEF Operation
<1> QED BY <1>1, <1>2, <1>3
-----------------------------------------------------------------------------
(* Column m is the first one without "=": the columns before it are the      *)
(* prefix, and only its own bounds are used.                                *)

FirstOpen(s, m) ==
  /\ m \in Column
  /\ s.lower[m].op # "="
  /\ \A j \in 1..(m - 1) : s.lower[j].op = "="

LowerAt(s, m) == s.lower[m].op \in {">", ">="}
UpperAt(s, m) == s.upperCol = m

\* With the first column m without "=", the prefix is the columns before m and
\* only column m can carry a bound.
LEMMA PrefixShape ==
  ASSUME NEW s, NEW m, FirstOpen(s, m), NEW i \in Column
  PROVE  /\ InPrefix(s, i) <=> i < m
         /\ HasLower(s, i) <=> i = m /\ LowerAt(s, m)
         /\ HasUpper(s, i) <=> i = m /\ UpperAt(s, m)
<1>1. i \in Nat /\ m \in Nat /\ i >= 1 /\ m >= 1
  BY KeyAssumption DEF Column, FirstOpen
<1>2. InPrefix(s, i) <=> i < m
  BY <1>1 DEF InPrefix, FirstOpen
<1>3. InPrefix(s, i - 1) <=> i <= m
  BY <1>1 DEF InPrefix, FirstOpen
<1>4. i < m => s.lower[i].op = "="
  BY <1>1 DEF FirstOpen
<1>5. HasLower(s, i) <=> i = m /\ LowerAt(s, m)
  BY <1>1, <1>3, <1>4 DEF HasLower, Usable, LowerAt
<1>6. HasUpper(s, i) <=> i = m /\ UpperAt(s, m)
  BY <1>1, <1>3, <1>4 DEF HasUpper, Usable, UpperAt, FirstOpen
<1> QED BY <1>2, <1>5, <1>6

\* The start and the end of the range, column by column: the prefix, the bound
\* at column m, and the filling behind it.
LEMMA RangeShape ==
  ASSUME NEW s, NEW m, FirstOpen(s, m)
  PROVE  LET r == MakeRange(s)
         IN  /\ \A i \in Column : i < m => /\ r.start[i] = s.lower[i].val
                                           /\ r.end[i] = s.lower[i].val
             /\ r.start[m] = IF LowerAt(s, m) THEN s.lower[m].val ELSE MinValue
             /\ r.end[m] = IF UpperAt(s, m) THEN s.upper.val ELSE MaxValue
             /\ \A i \in Column : i > m =>
                  /\ r.start[i] = IF s.lower[m].op = ">" THEN MaxValue ELSE MinValue
                  /\ r.end[i] = IF UpperAt(s, m) /\ s.upper.op = "<" THEN MinValue ELSE MaxValue
             /\ r.startInclusive <=> s.lower[m].op # ">"
             /\ r.endInclusive <=> ~(UpperAt(s, m) /\ s.upper.op = "<")
             /\ r.seekToFirst <=> m = 1 /\ ~LowerAt(s, m)
             /\ r.seekToLast <=> m = 1 /\ ~UpperAt(s, m)
<1> DEFINE r == MakeRange(s)
<1>1. m \in Column /\ m \in Nat /\ m >= 1 /\ 1 \in Column
  BY KeyAssumption DEF FirstOpen, Column
<1>2. \A i \in Column : i \in Nat /\ i >= 1 /\ \A j \in 1..(i - 1) : j \in Column
  BY KeyAssumption DEF Column
<1>3. \A i \in Column : /\ InPrefix(s, i) <=> i < m
                        /\ HasLower(s, i) <=> i = m /\ LowerAt(s, m)
                        /\ HasUpper(s, i) <=> i = m /\ UpperAt(s, m)
  BY PrefixShape
<1>4. \A i \in Column : r.start[i] = StartValue(s, i) /\ r.end[i] = EndValue(s, i)
  BY DEF MakeRange
<1>5. ASSUME NEW i \in Column, i < m
      PROVE  StartValue(s, i) = s.lower[i].val /\ EndValue(s, i) = s.lower[i].val
  BY <1>3, <1>5 DEF StartValue, EndValue
<1>6. /\ StartValue(s, m) = IF LowerAt(s, m) THEN s.lower[m].val ELSE MinValue
      /\ EndValue(s, m) = IF UpperAt(s, m) THEN s.upper.val ELSE MaxValue
  <2>1. \A j \in 1..(m - 1) : ~HasLower(s, j) /\ ~HasUpper(s, j)
    BY <1>1, <1>2, <1>3
  <2> QED BY <1>1, <1>3, <2>1 DEF StartValue, EndValue
<1>7. ASSUME NEW i \in Column, i > m
      PROVE  /\ StartValue(s, i) = IF s.lower[m].op = ">" THEN MaxValue ELSE MinValue
             /\ EndValue(s, i) = IF UpperAt(s, m) /\ s.upper.op = "<" THEN MinValue ELSE MaxValue
  <2>1. ~InPrefix(s, i) /\ ~HasLower(s, i) /\ ~HasUpper(s, i)
    BY <1>1, <1>2, <1>3, <1>7
  <2>2. m \in 1..(i - 1)
    BY <1>1, <1>2, <1>7
  <2>3. (\E j \in 1..(i - 1) : HasLower(s, j) /\ s.lower[j].op = ">") <=> s.lower[m].op = ">"
    BY <1>1, <1>2, <1>3, <2>2 DEF LowerAt
  <2>4. (\E j \in 1..(i - 1) : HasUpper(s, j)) <=> UpperAt(s, m)
    BY <1>1, <1>2, <1>3, <2>2
  <2> QED BY <2>1, <2>3, <2>4 DEF StartValue, EndValue
<1>8. r.startInclusive <=> s.lower[m].op # ">"
  BY <1>1, <1>3 DEF MakeRange, LowerAt
<1>9. r.endInclusive <=> ~(UpperAt(s, m) /\ s.upper.op = "<")
  BY <1>1, <1>3 DEF MakeRange
<1>10. r.seekToFirst <=> m = 1 /\ ~LowerAt(s, m)
  <2>1. r.seekToFirst <=> ~InPrefix(s, 1) /\ ~\E i \in Column : HasLower(s, i)
    BY DEF MakeRange
  <2>2. (\E i \in Column : HasLower(s, i)) <=> LowerAt(s, m)
    BY <1>1, <1>3
  <2>3. ~InPrefix(s, 1) <=> m = 1
    BY <1>1, <1>3
  <2> QED BY <2>1, <2>2, <2>3
<1>11. r.seekToLast <=> m = 1 /\ ~UpperAt(s, m)
  <2>1. r.seekToLast <=> ~InPrefix(s, 1) /\ ~\E i \in Column : HasUpper(s, i)
    BY DEF MakeRange
  <2>2. (\E i \in Column : HasUpper(s, i)) <=> UpperAt(s, m)
    BY <1>1, <1>3
  <2>3. ~InPrefix(s, 1) <=> m = 1
    BY <1>1, <1>3
  <2> QED BY <2>1, <2>2, <2>3
<1> HIDE DEF r
<1>12. \A i \in Column : i < m => r.start[i] = s.lower[i].val /\ r.end[i] = s.lower[i].val
  BY <1>4, <1>5
<1>13. \A i \in Column : i > m =>
         /\ r.start[i] = IF s.lower[m].op = ">" THEN MaxValue ELSE MinValue
         /\ r.end[i] = IF UpperAt(s, m) /\ s.upper.op = "<" THEN MinValue ELSE MaxValue
  BY <1>4, <1>7
<1>14. /\ r.start[m] = IF LowerAt(s, m) THEN s.lower[m].val ELSE MinValue
       /\ r.end[m] = IF UpperAt(s, m) THEN s.upper.val ELSE MaxValue
  BY <1>1, <1>4, <1>6
<1> QED BY <1>8, <1>9, <1>10, <1>11, <1>12, <1>13, <1>14 DEF r
\* The predicates that the range has solved, by column
LEMMA SolvedShape ==
  ASSUME NEW s, Collected(s), NEW m, FirstOpen(s, m), NEW k \in Key
  PROVE  (\A p \in Solved(s) : Holds(p, k)) <=>
           /\ \A i \in Column : i < m => k[i] = s.lower[i].val
           /\ LowerAt(s, m) => Compare(s.lower[m].op, k[m], s.lower[m].val)
           /\ UpperAt(s, m) => Compare(s.upper.op, k[m], s.upper.val)
<1>1. m \in Column /\ m \in Nat /\ m >= 1
  BY KeyAssumption DEF FirstOpen, Column
<1>2. \A i \in Column : /\ InPrefix(s, i) <=> i < m
                        /\ HasLower(s, i) <=> i = m /\ LowerAt(s, m)
                        /\ HasUpper(s, i) <=> i = m /\ UpperAt(s, m)
  BY PrefixShape
<1>3. ASSUME NEW i \in Column, s.lower[i].op # "none"
      PROVE  (\A p \in s.lower[i].expr : Holds(p, k))
               <=> Compare(s.lower[i].op, k[i], s.lower[i].val)
  <2>1. PICK p \in Predicate : p.col = i /\ s.lower[i] = Info(ColumnOp(p), p.val, p)
    BY <1>3 DEF Collected, LowerInfo, Unset
  <2>2. s.lower[i].op = ColumnOp(p) /\ s.lower[i].val = p.val /\ s.lower[i].expr = {p}
    BY <2>1 DEF Info
  <2> QED BY <2>1, <2>2, HoldsColumnOp
<1>4. ASSUME UpperAt(s, m)
      PROVE  (\A p \in s.upper.expr : Holds(p, k)) <=> Compare(s.upper.op, k[m], s.upper.val)
  <2>1. PICK p \in Predicate : p.col = m /\ s.upper = Info(ColumnOp(p), p.val, p)
    BY <1>1, <1>4 DEF Collected, UpperInfo, UpperAt
  <2>2. s.upper.op = ColumnOp(p) /\ s.upper.val = p.val /\ s.upper.expr = {p}
    BY <2>1 DEF Info
  <2> QED BY <2>1, <2>2, HoldsColumnOp
<1>5. \A p : p \in Solved(s) <=> \/ \E i \in Column : i < m /\ p \in s.lower[i].expr
                                 \/ LowerAt(s, m) /\ p \in s.lower[m].expr
                                 \/ UpperAt(s, m) /\ p \in s.upper.expr
  <2>1. ASSUME NEW p
        PROVE  p \in SolvedLower(s)
                 <=> \E i \in Column : (InPrefix(s, i) \/ HasLower(s, i)) /\ p \in s.lower[i].expr
    BY DEF SolvedLower
  <2>2. ASSUME NEW p
        PROVE  (\E i \in Column : (InPrefix(s, i) \/ HasLower(s, i)) /\ p \in s.lower[i].expr)
                 <=> \/ \E i \in Column : i < m /\ p \in s.lower[i].expr
                     \/ LowerAt(s, m) /\ p \in s.lower[m].expr
    BY <1>1, <1>2
  <2>3. (\E i \in Column : HasUpper(s, i)) <=> UpperAt(s, m)
    BY <1>1, <1>2
  <2>4. Solved(s) = SolvedLower(s) \cup SolvedUpper(s)
    BY DEF Solved
  <2>5. \A p : p \in SolvedUpper(s) <=> UpperAt(s, m) /\ p \in s.upper.expr
    BY <2>3 DEF SolvedUpper
  <2>6. \A p : p \in SolvedLower(s) <=> \/ \E i \in Column : i < m /\ p \in s.lower[i].expr
                                        \/ LowerAt(s, m) /\ p \in s.lower[m].expr
    BY <2>1, <2>2
  <2> QED BY <2>4, <2>5, <2>6
<1>6. ASSUME NEW i \in Column, i < m
      PROVE  (\A p \in s.lower[i].expr : Holds(p, k)) <=> k[i] = s.lower[i].val
  <2>1. s.lower[i].op = "="
    BY <1>1, <1>6, KeyAssumption DEF FirstOpen, Column
  <2> QED BY <1>3, <2>1 DEF Compare
<1>7. LowerAt(s, m) => ((\A p \in s.lower[m].expr : Holds(p, k))
                          <=> Compare(s.lower[m].op, k[m], s.lower[m].val))
  BY <1>1, <1>3 DEF LowerAt
<1> QED BY <1>4, <1>5, <1>6, <1>7

\* Among the keys that agree with the prefix, the start of the range cuts off
\* exactly those that its lower bound excludes.
LEMMA StartExact ==
  ASSUME NEW s, Collected(s), NEW m, FirstOpen(s, m), NEW k \in Key,
         \A i \in Column : i < m => k[i] = s.lower[i].val
  PROVE  AfterStart(MakeRange(s), k) <=>
           (LowerAt(s, m) => Compare(s.lower[m].op, k[m], s.lower[m].val))
<1> DEFINE r == MakeRange(s)
<1>1. m \in Column /\ m \in Nat
  BY KeyAssumption DEF FirstOpen, Column
<1>2. \A i \in Column : /\ i \in Nat /\ i >= 1 /\ k[i] \in Int
                        /\ MinValue <= k[i] /\ k[i] <= MaxValue
                        /\ \A j \in 1..(i - 1) : j \in Column /\ j < i
  BY KeyAssumption DEF Column, Key, Value
<1>3. s.lower[m].val \in Int
  BY <1>1, KeyAssumption DEF Collected, InfoType, Value
<1>4. /\ \A i \in Column : i < m => r.start[i] = k[i]
      /\ r.start[m] = IF LowerAt(s, m) THEN s.lower[m].val ELSE MinValue
      /\ \A i \in Column : i > m =>
           r.start[i] = IF s.lower[m].op = ">" THEN MaxValue ELSE MinValue
      /\ r.startInclusive <=> s.lower[m].op # ">"
      /\ r.seekToFirst <=> m = 1 /\ ~LowerAt(s, m)
  BY RangeShape
<1> HIDE DEF r
<1>5. MinValue \in Int /\ MaxValue \in Int
  BY KeyAssumption
<1>6. CASE ~LowerAt(s, m)
  <2>1. s.lower[m].op # ">"
    BY <1>6 DEF LowerAt
  <2>2. \A i \in Column : r.start[i] = IF i < m THEN k[i] ELSE MinValue
    BY <1>1, <1>2, <1>4, <1>6, <2>1
  <2>3. ~KeyLess(k, r.start)
    BY <1>2, <1>5, <2>2 DEF KeyLess
  <2> QED BY <1>4, <1>6, <2>1, <2>3 DEF AfterStart, r
<1>7. CASE s.lower[m].op = ">="
  <2>1. LowerAt(s, m) /\ s.lower[m].op # ">"
    BY <1>7 DEF LowerAt
  <2>2. \A i \in Column : r.start[i] = IF i < m THEN k[i]
                                       ELSE IF i = m THEN s.lower[m].val ELSE MinValue
    <3>1. ASSUME NEW i \in Column, i > m PROVE r.start[i] = MinValue
      BY <1>4, <2>1, <3>1
    <3>2. r.start[m] = s.lower[m].val
      BY <1>4, <2>1
    <3>3. \A i \in Column : i < m => r.start[i] = k[i]
      BY <1>4
    <3>4. \A i \in Column : i < m \/ (i = m /\ ~(i < m)) \/ (i > m /\ ~(i < m) /\ i # m)
      <4>1. m \in Int /\ \A i \in Column : i \in Int
        BY <1>1 DEF Column
      <4>. QED  BY <4>1
    <3> QED BY <3>1, <3>2, <3>3, <3>4, Zenon
  <2>3. KeyLess(k, r.start) <=> k[m] < s.lower[m].val
    <3>1. ASSUME k[m] < s.lower[m].val PROVE KeyLess(k, r.start)
      <4>1. \A j \in 1..(m - 1) : k[j] = r.start[j]
        BY <1>1, <1>2, <2>2
      <4> QED BY <1>1, <2>2, <3>1, <4>1 DEF KeyLess
    <3>2. ASSUME KeyLess(k, r.start) PROVE k[m] < s.lower[m].val
      <4>1. PICK i \in Column : k[i] < r.start[i]
        BY <3>2 DEF KeyLess
      <4>2. ~(i < m) /\ ~(i > m)
        BY <1>1, <1>2, <1>5, <2>2, <4>1
      <4>3. i = m
        BY <1>1, <1>2, <4>2
      <4> QED BY <1>1, <2>2, <4>1, <4>3
    <3> QED BY <3>1, <3>2
  <2>4. Compare(s.lower[m].op, k[m], s.lower[m].val) <=> ~(k[m] < s.lower[m].val)
    BY <1>1, <1>2, <1>3, <1>7 DEF Compare
  <2> QED BY <1>4, <2>1, <2>3, <2>4 DEF AfterStart, r
<1>8. CASE s.lower[m].op = ">"
  <2>1. LowerAt(s, m)
    BY <1>8 DEF LowerAt
  <2>2. \A i \in Column : r.start[i] = IF i < m THEN k[i]
                                       ELSE IF i = m THEN s.lower[m].val ELSE MaxValue
    BY <1>1, <1>2, <1>4, <1>8, <2>1
  <2>3. KeyLess(r.start, k) <=> s.lower[m].val < k[m]
    <3>1. ASSUME s.lower[m].val < k[m] PROVE KeyLess(r.start, k)
      <4>1. \A j \in 1..(m - 1) : r.start[j] = k[j]
        BY <1>1, <1>2, <2>2
      <4> QED BY <1>1, <2>2, <3>1, <4>1 DEF KeyLess
    <3>2. ASSUME KeyLess(r.start, k) PROVE s.lower[m].val < k[m]
      <4>1. PICK i \in Column : r.start[i] < k[i]
        BY <3>2 DEF KeyLess
      <4>2. ~(i < m) /\ ~(i > m)
        BY <1>1, <1>2, <1>5, <2>2, <4>1
      <4>3. i = m
        BY <1>1, <1>2, <4>2
      <4> QED BY <1>1, <2>2, <4>1, <4>3
    <3> QED BY <3>1, <3>2
  <2>4. Compare(s.lower[m].op, k[m], s.lower[m].val) <=> s.lower[m].val < k[m]
    BY <1>1, <1>2, <1>3, <1>8 DEF Compare
  <2> QED BY <1>4, <1>8, <2>1, <2>3, <2>4 DEF AfterStart, r
<1> QED BY <1>6, <1>7, <1>8 DEF LowerAt

\* The same for the end of the range and the upper bound.
LEMMA EndExact ==
  ASSUME NEW s, Collected(s), NEW m, FirstOpen(s, m), NEW k \in Key,
         \A i \in Column : i < m => k[i] = s.lower[i].val
  PROVE  BeforeEnd(MakeRange(s), k) <=>
           (UpperAt(s, m) => Compare(s.upper.op, k[m], s.upper.val))
<1> DEFINE r == MakeRange(s)
<1>1. m \in Column /\ m \in Nat
  BY KeyAssumption DEF FirstOpen, Column
<1>2. \A i \in Column : /\ i \in Nat /\ i >= 1 /\ k[i] \in Int
                        /\ MinValue <= k[i] /\ k[i] <= MaxValue
                        /\ \A j \in 1..(i - 1) : j \in Column /\ j < i
  BY KeyAssumption DEF Column, Key, Value
<1>3. s.upper.val \in Int
  BY <1>1, KeyAssumption DEF Collected, InfoType, Value
<1>4. /\ \A i \in Column : i < m => r.end[i] = k[i]
      /\ r.end[m] = IF UpperAt(s, m) THEN s.upper.val ELSE MaxValue
      /\ \A i \in Column : i > m =>
           r.end[i] = IF UpperAt(s, m) /\ s.upper.op = "<" THEN MinValue ELSE MaxValue
      /\ r.endInclusive <=> ~(UpperAt(s, m) /\ s.upper.op = "<")
      /\ r.seekToLast <=> m = 1 /\ ~UpperAt(s, m)
  BY RangeShape
<1> HIDE DEF r
<1>5. MinValue \in Int /\ MaxValue \in Int
  BY KeyAssumption
<1>6. CASE ~UpperAt(s, m)
  <2>1. \A i \in Column : r.end[i] = IF i < m THEN k[i] ELSE MaxValue
    BY <1>1, <1>2, <1>4, <1>6
  <2>2. ~KeyLess(r.end, k)
    BY <1>2, <1>5, <2>1 DEF KeyLess
  <2> QED BY <1>4, <1>6, <2>2 DEF BeforeEnd, r
<1>7. CASE UpperAt(s, m) /\ s.upper.op = "<="
  <2>1. \A i \in Column : r.end[i] = IF i < m THEN k[i]
                                     ELSE IF i = m THEN s.upper.val ELSE MaxValue
    <3>1. ASSUME NEW i \in Column, i > m PROVE r.end[i] = MaxValue
      BY <1>4, <1>7, <3>1
    <3>2. r.end[m] = s.upper.val
      BY <1>4, <1>7
    <3>3. \A i \in Column : i < m => r.end[i] = k[i]
      BY <1>4
    <3>4. \A i \in Column : i < m \/ (i = m /\ ~(i < m)) \/ (i > m /\ ~(i < m) /\ i # m)
      <4>1. m \in Int /\ \A i \in Column : i \in Int
        BY <1>1 DEF Column
      <4>. QED  BY <4>1
    <3> QED BY <3>1, <3>2, <3>3, <3>4, Zenon
  <2>2. KeyLess(r.end, k) <=> s.upper.val < k[m]
    <3>1. ASSUME s.upper.val < k[m] PROVE KeyLess(r.end, k)
      <4>1. \A j \in 1..(m - 1) : r.end[j] = k[j]
        BY <1>1, <1>2, <2>1
      <4> QED BY <1>1, <2>1, <3>1, <4>1 DEF KeyLess
    <3>2. ASSUME KeyLess(r.end, k) PROVE s.upper.val < k[m]
      <4>1. PICK i \in Column : r.end[i] < k[i]
        BY <3>2 DEF KeyLess
      <4>2. ~(i < m) /\ ~(i > m)
        BY <1>1, <1>2, <1>5, <2>1, <4>1
      <4>3. i = m
        BY <1>1, <1>2, <4>2
      <4> QED BY <1>1, <2>1, <4>1, <4>3
    <3> QED BY <3>1, <3>2
  <2>3. Compare(s.upper.op, k[m], s.upper.val) <=> ~(s.upper.val < k[m])
    BY <1>1, <1>2, <1>3, <1>7 DEF Compare
  <2>4. r.endInclusive /\ ~r.seekToLast
    BY <1>4, <1>7
  <2> QED BY <1>7, <2>2, <2>3, <2>4 DEF BeforeEnd, r
<1>8. CASE UpperAt(s, m) /\ s.upper.op = "<"
  <2>1. \A i \in Column : r.end[i] = IF i < m THEN k[i]
                                     ELSE IF i = m THEN s.upper.val ELSE MinValue
    BY <1>1, <1>2, <1>4, <1>8
  <2>2. KeyLess(k, r.end) <=> k[m] < s.upper.val
    <3>1. ASSUME k[m] < s.upper.val PROVE KeyLess(k, r.end)
      <4>1. \A j \in 1..(m - 1) : k[j] = r.end[j]
        BY <1>1, <1>2, <2>1
      <4> QED BY <1>1, <2>1, <3>1, <4>1 DEF KeyLess
    <3>2. ASSUME KeyLess(k, r.end) PROVE k[m] < s.upper.val
      <4>1. PICK i \in Column : k[i] < r.end[i]
        BY <3>2 DEF KeyLess
      <4>2. ~(i < m) /\ ~(i > m)
        BY <1>1, <1>2, <1>5, <2>1, <4>1
      <4>3. i = m
        BY <1>1, <1>2, <4>2
      <4> QED BY <1>1, <2>1, <4>1, <4>3
    <3> QED BY <3>1, <3>2
  <2>3. Compare(s.upper.op, k[m], s.upper.val) <=> k[m] < s.upper.val
    BY <1>1, <1>2, <1>3, <1>8 DEF Compare
  <2>4. ~r.endInclusive /\ ~r.seekToLast
    BY <1>4, <1>8
  <2> QED BY <1>8, <2>2, <2>3, <2>4 DEF BeforeEnd, r
<1>9. UpperAt(s, m) => s.upper.op \in {"<", "<="}
  <2>1. m # 0
    BY KeyAssumption DEF FirstOpen, Column
  <2> QED BY <2>1 DEF Collected, UpperInfo, UpperAt, UpperOps, Info
<1> QED BY <1>6, <1>7, <1>8, <1>9

\* A range is a set of keys of this type.
LEMMA RangeIsTyped ==
  ASSUME NEW s, Collected(s)
  PROVE  MakeRange(s).start \in Key /\ MakeRange(s).end \in Key
<1>1. MinValue \in Value /\ MaxValue \in Value
  BY KeyAssumption DEF Value
<1>2. \A i \in Column : s.lower[i].val \in Value
  BY DEF Collected, InfoType
<1>3. s.upper.val \in Value
  BY DEF Collected, InfoType
<1>4. \A i \in Column : StartValue(s, i) \in Value
  BY <1>1, <1>2 DEF StartValue
<1>5. \A i \in Column : EndValue(s, i) \in Value
  BY <1>1, <1>2, <1>3 DEF EndValue
<1> QED BY <1>4, <1>5 DEF MakeRange, Key

\* A key between two keys that agree in the columns before m agrees with them.
LEMMA BetweenPrefix ==
  ASSUME NEW a \in Key, NEW b \in Key, NEW k \in Key, NEW m \in Nat,
         \A i \in Column : i < m => a[i] = b[i],
         ~KeyLess(k, a), ~KeyLess(b, k)
  PROVE  \A i \in Column : i < m => k[i] = a[i]
<1> SUFFICES ASSUME NEW c \in Column, c < m, k[c] # a[c] PROVE FALSE
  OBVIOUS
<1>1. PICK i \in Column : k[i] # a[i] /\ \A j \in 1..(i - 1) : k[j] = a[j]
  BY FirstDifference
<1>2. c \in Nat /\ i \in Nat /\ c >= 1 /\ i >= 1
  BY KeyAssumption DEF Column
<1>3. i <= c
  BY <1>1, <1>2
<1>4. a[i] = b[i] /\ \A j \in 1..(i - 1) : j \in Column /\ a[j] = b[j]
  BY <1>2, <1>3, KeyAssumption DEF Column
<1>5. k[i] \in Int /\ a[i] \in Int
  BY KeyAssumption DEF Key, Value
<1>6. k[i] < a[i] \/ b[i] < k[i]
  BY <1>1, <1>4, <1>5
<1> QED BY <1>1, <1>4, <1>6 DEF KeyLess
\* Two keys are never before each other.
LEMMA KeyAsymmetric ==
  ASSUME NEW a \in Key, NEW b \in Key, KeyLess(a, b)
  PROVE  ~KeyLess(b, a)
BY KeyTransitive, KeyIrreflexive

\* Every column has "=": the range is the single key with these values.
LEMMA PointRange ==
  ASSUME NEW s, Collected(s), \A i \in Column : s.lower[i].op = "=", NEW k \in Key
  PROVE  InRange(MakeRange(s), k) <=> \A p \in Solved(s) : Holds(p, k)
<1> DEFINE r == MakeRange(s)
<1>1. \A i \in Column : /\ i \in Nat /\ InPrefix(s, i) /\ ~HasLower(s, i) /\ ~HasUpper(s, i)
  <2>1. \A i \in Column : \A j \in 1..i : j \in Column
    BY KeyAssumption DEF Column
  <2> QED BY <2>1, KeyAssumption DEF Column, InPrefix, HasLower, HasUpper
<1>2. 1 \in Column
  BY KeyAssumption DEF Column
<1>3. \A i \in Column : r.start[i] = s.lower[i].val /\ r.end[i] = s.lower[i].val
  BY <1>1 DEF MakeRange, StartValue, EndValue
<1>4. r.startInclusive /\ r.endInclusive
  BY <1>1 DEF MakeRange
<1>5. ~r.seekToFirst /\ ~r.seekToLast
  BY <1>1, <1>2 DEF MakeRange
<1>6. r.start \in Key /\ r.end \in Key
  BY RangeIsTyped
<1> HIDE DEF r
<1>7. r.start = r.end
  BY <1>3, <1>6 DEF Key
<1>8. InRange(r, k) <=> k = r.start
  BY <1>4, <1>5, <1>6, <1>7, KeyTotal, KeyIrreflexive DEF InRange, AfterStart, BeforeEnd
<1>9. k = r.start <=> \A i \in Column : k[i] = s.lower[i].val
  BY <1>3, <1>6 DEF Key
<1>10. ASSUME NEW i \in Column
       PROVE  (\A p \in s.lower[i].expr : Holds(p, k)) <=> k[i] = s.lower[i].val
  <2>1. PICK p \in Predicate : p.col = i /\ s.lower[i] = Info(ColumnOp(p), p.val, p)
    BY DEF Collected, LowerInfo, Unset
  <2>2. ColumnOp(p) = "=" /\ s.lower[i].val = p.val /\ s.lower[i].expr = {p}
    BY <2>1 DEF Info
  <2>3. Holds(p, k) <=> k[i] = p.val
    BY <2>1, <2>2, HoldsColumnOp DEF Compare
  <2> QED BY <2>2, <2>3
<1>11. \A p : p \in Solved(s) <=> \E i \in Column : p \in s.lower[i].expr
  <2>1. Solved(s) = SolvedLower(s) \cup SolvedUpper(s)
    BY DEF Solved
  <2>2. SolvedUpper(s) = {}
    BY <1>1 DEF SolvedUpper
  <2>3. \A p : p \in SolvedLower(s) <=> \E i \in Column : p \in s.lower[i].expr
    BY <1>1 DEF SolvedLower
  <2> QED BY <2>1, <2>2, <2>3
<1>12. (\A p \in Solved(s) : Holds(p, k)) <=> \A i \in Column : k[i] = s.lower[i].val
  BY <1>10, <1>11
<1> QED BY <1>8, <1>9, <1>12 DEF r

\* Scanning a range is the same as testing the predicates that the planner takes
\* for solved and drops from the filter: the range contains every key that
\* satisfies them and no other, for every conjunction, however many columns the
\* key has (KeySearchRange's constructor, seekStart and exceedEnd).
THEOREM RangeExact ==
  ASSUME NEW s, Collected(s), NEW k \in Key
  PROVE  InRange(MakeRange(s), k) <=> \A p \in Solved(s) : Holds(p, k)
<1> DEFINE r == MakeRange(s)
           Open == {i \in Column : s.lower[i].op # "="}
<1>1. CASE Open = {}
  BY <1>1, PointRange
<1>2. CASE Open # {}
  <2>1. Open \in SUBSET Nat
    BY KeyAssumption DEF Column
  <2>2. PICK m \in Open : \A i \in Open : m <= i
    <3> HIDE DEF Open
    <3> QED BY <1>2, <2>1, LeastNatural
  <2>3. m \in Nat /\ m >= 1
    BY KeyAssumption DEF Column
  <2>4. FirstOpen(s, m)
    <3>1. ASSUME NEW j \in 1..(m - 1) PROVE s.lower[j].op = "="
      <4>1. j \in Column /\ ~(m <= j)
        BY <2>3, KeyAssumption DEF Column
      <4> QED BY <2>2, <4>1
    <3> QED BY <3>1 DEF FirstOpen
  <2>5. ASSUME InRange(r, k)
        PROVE  \A i \in Column : i < m => k[i] = s.lower[i].val
    <3>1. CASE m = 1
      BY <3>1, KeyAssumption DEF Column
    <3>2. CASE m # 1
      <4>1. /\ ~r.seekToFirst /\ ~r.seekToLast
            /\ \A i \in Column : i < m => /\ r.start[i] = s.lower[i].val
                                          /\ r.end[i] = s.lower[i].val
        BY <2>4, <3>2, RangeShape
      <4>2. r.start \in Key /\ r.end \in Key
        BY RangeIsTyped
      <4> HIDE DEF r
      <4>3. ~KeyLess(k, r.start)
        BY <2>5, <4>1, <4>2, KeyAsymmetric DEF InRange, AfterStart
      <4>4. ~KeyLess(r.end, k)
        BY <2>5, <4>1, <4>2, KeyAsymmetric DEF InRange, BeforeEnd
      <4> QED BY <2>3, <4>1, <4>2, <4>3, <4>4, BetweenPrefix
    <3> QED BY <3>1, <3>2
  <2>6. ASSUME \A i \in Column : i < m => k[i] = s.lower[i].val
        PROVE  InRange(r, k) <=>
                 /\ LowerAt(s, m) => Compare(s.lower[m].op, k[m], s.lower[m].val)
                 /\ UpperAt(s, m) => Compare(s.upper.op, k[m], s.upper.val)
    BY <2>4, <2>6, StartExact, EndExact DEF InRange
  <2>7. (\A p \in Solved(s) : Holds(p, k)) <=>
           /\ \A i \in Column : i < m => k[i] = s.lower[i].val
           /\ LowerAt(s, m) => Compare(s.lower[m].op, k[m], s.lower[m].val)
           /\ UpperAt(s, m) => Compare(s.upper.op, k[m], s.upper.val)
    BY <2>4, SolvedShape
  <2> QED BY <2>5, <2>6, <2>7
<1> QED BY <1>1, <1>2

\* The predicates that the range makes superfluous are predicates of the
\* conjunction.
LEMMA SolvedFrom ==
  ASSUME NEW s, NEW C, From(s, C)
  PROVE  Solved(s) \subseteq C
BY DEF Solved, SolvedLower, SolvedUpper, From

\* A key satisfies a conjunction, however long it is and whatever it says, if and
\* only if it lies in the range that is made of it and passes what is left to the
\* filter.  ScanPlanInfo relies on it for every statement.
THEOREM ConjunctionExact ==
  ASSUME NEW c \in Seq(Predicate), NEW k \in Key
  PROVE  LET s == DoSetPredicate(c)
         IN  (\A i \in DOMAIN c : Holds(c[i], k)) <=>
               InRange(MakeRange(s), k) /\ \A p \in ToSet(c) \ Solved(s) : Holds(p, k)
<1>. DEFINE s == DoSetPredicate(c)
<1>1. Collected(s) /\ From(s, ToSet(c))
  BY CollectedFold
<1>. HIDE DEF s
<1>2. InRange(MakeRange(s), k) <=> \A p \in Solved(s) : Holds(p, k)
  BY <1>1, RangeExact
<1>3. Solved(s) \subseteq ToSet(c)
  BY <1>1, SolvedFrom
<1>4. (\A i \in DOMAIN c : Holds(c[i], k)) <=> \A p \in ToSet(c) : Holds(p, k)
  BY DEF ToSet
<1>5. (\A i \in DOMAIN c : Holds(c[i], k)) <=>
        InRange(MakeRange(s), k) /\ \A p \in ToSet(c) \ Solved(s) : Holds(p, k)
  BY <1>2, <1>3, <1>4
<1>. QED  BY <1>5 DEF s

-----------------------------------------------------------------------------
(* The iterator: a set of keys has a lowest and a highest one.              *)

\* The first m columns make b less than a.
LessUpTo(m, b, a) == \E i \in 1..m : b[i] < a[i] /\ \A j \in 1..(i - 1) : b[j] = a[j]

\* Keys are compared column by column, so that the lowest one is found column by
\* column.
LEMMA LowestUpTo ==
  ASSUME NEW K \in SUBSET Key, K # {}, NEW n \in Nat, n <= KeyCount
  PROVE  \E a \in K : \A b \in K : ~LessUpTo(n, b, a)
<1>. DEFINE Good == {m \in Nat : m <= KeyCount => \E a \in K : \A b \in K : ~LessUpTo(m, b, a)}
<1>1. 0 \in Good
  <2>1. \A a, b : ~LessUpTo(0, b, a)
    BY DEF LessUpTo
  <2>. QED  BY <2>1
<1>2. ASSUME NEW m \in Nat, m \in Good PROVE m + 1 \in Good
  <2>. SUFFICES ASSUME m + 1 <= KeyCount
                PROVE  \E a \in K : \A b \in K : ~LessUpTo(m + 1, b, a)
    BY <1>2
  <2>1. PICK a \in K : \A b \in K : ~LessUpTo(m, b, a)
    BY <1>2, KeyAssumption
  <2>. DEFINE Same == {b \in K : \A j \in 1..m : b[j] = a[j]}
              T == {b[m + 1] - MinValue : b \in Same}
  <2>2. m + 1 \in Column
    BY KeyAssumption DEF Column
  <2>3. \A b \in K : /\ b[m + 1] \in Int /\ b[m + 1] >= MinValue
                     /\ \A j \in 1..m : b[j] \in Int
    BY <2>2, KeyAssumption DEF Key, Value, Column
  <2>4. T \in SUBSET Nat
    BY <2>3, KeyAssumption
  <2>5. a \in Same
    BY <2>1
  <2>6. PICK x \in T : \A y \in T : x <= y
    <3>1. T # {}
      BY <2>5
    <3>. HIDE DEF T
    <3>. QED  BY <2>4, <3>1, LeastNatural
  <2>7. PICK c \in Same : x = c[m + 1] - MinValue
    BY <2>6
  <2>8. ASSUME NEW b \in Same PROVE c[m + 1] <= b[m + 1]
    <3>1. x <= b[m + 1] - MinValue
      BY <2>6
    <3>2. b[m + 1] \in Int /\ c[m + 1] \in Int
      BY <2>3
    <3>. QED  BY <2>7, <3>1, <3>2, KeyAssumption
  <2>9. ASSUME NEW b \in K, LessUpTo(m + 1, b, c) PROVE FALSE
    <3>1. PICK i \in 1..(m + 1) : b[i] < c[i] /\ \A j \in 1..(i - 1) : b[j] = c[j]
      BY <2>9 DEF LessUpTo
    <3>2. \A j \in 1..m : c[j] = a[j]
      BY <2>7
    <3>3. CASE i = m + 1
      <4>1. b \in Same
        BY <3>1, <3>2, <3>3
      <4>. QED  BY <2>3, <2>7, <2>8, <3>1, <3>3, <4>1
    <3>4. CASE i # m + 1
      <4>1. i \in 1..m /\ \A j \in 1..(i - 1) : j \in 1..m
        BY <3>4
      <4>2. b[i] < a[i] /\ \A j \in 1..(i - 1) : b[j] = a[j]
        BY <3>1, <3>2, <4>1
      <4>3. LessUpTo(m, b, a)
        BY <4>1, <4>2 DEF LessUpTo
      <4>. QED  BY <2>1, <4>3
    <3>. QED  BY <3>3, <3>4
  <2>. QED  BY <2>7, <2>9
<1>. HIDE DEF Good
<1>3. n \in Good
  BY <1>1, <1>2, Induction
<1>. QED  BY <1>3 DEF Good

\* SeekToFirst and the like find a key unless there is none.
LEMMA LowestExists ==
  ASSUME NEW K \in SUBSET Key, K # {}
  PROVE  Lowest(K) # {}
<1>1. PICK a \in K : \A b \in K : ~LessUpTo(KeyCount, b, a)
  BY LowestUpTo, KeyAssumption
<1>2. \A b \in K : ~KeyLess(b, a)
  BY <1>1 DEF LessUpTo, KeyLess, Column
<1>. QED  BY <1>2 DEF Lowest

\* A key with each value mirrored: the order of keys is reversed.
Mirror(k) == [i \in Column |-> MinValue + MaxValue - k[i]]

\* The order of mirrored keys is the reverse of that of the keys.
LEMMA MirrorReverses ==
  ASSUME NEW a \in Key, NEW b \in Key
  PROVE  Mirror(a) \in Key /\ (KeyLess(Mirror(a), Mirror(b)) <=> KeyLess(b, a))
<1>1. \A i \in Column : /\ a[i] \in Int /\ b[i] \in Int
                        /\ MinValue + MaxValue - a[i] \in Value
                        /\ MinValue + MaxValue - a[i] < MinValue + MaxValue - b[i] <=> b[i] < a[i]
                        /\ MinValue + MaxValue - a[i] = MinValue + MaxValue - b[i] <=> b[i] = a[i]
  BY KeyAssumption DEF Key, Value
<1>2. \A i \in Column : \A j \in 1..(i - 1) : j \in Column
  BY KeyAssumption DEF Column
<1>3. \A i \in Column : /\ Mirror(a)[i] = MinValue + MaxValue - a[i]
                        /\ Mirror(b)[i] = MinValue + MaxValue - b[i]
  BY DEF Mirror
<1>4. Mirror(a) \in Key
  BY <1>1 DEF Mirror, Key
<1>5. \A i \in Column : /\ Mirror(a)[i] < Mirror(b)[i] <=> b[i] < a[i]
                        /\ Mirror(a)[i] = Mirror(b)[i] <=> b[i] = a[i]
  BY <1>1, <1>3
<1>6. KeyLess(Mirror(a), Mirror(b)) <=> KeyLess(b, a)
  BY <1>2, <1>5 DEF KeyLess
<1>. QED  BY <1>4, <1>6

\* SeekToLast and the like find a key unless there is none.
LEMMA HighestExists ==
  ASSUME NEW K \in SUBSET Key, K # {}
  PROVE  Highest(K) # {}
<1>. DEFINE M == {Mirror(k) : k \in K}
<1>1. M \in SUBSET Key /\ M # {}
  BY MirrorReverses
<1>2. PICK m \in M : \A b \in M : ~KeyLess(b, m)
  BY <1>1, LowestExists DEF Lowest
<1>3. PICK a \in K : m = Mirror(a)
  OBVIOUS
<1>4. \A b \in K : ~KeyLess(a, b)
  BY <1>2, <1>3, MirrorReverses
<1>. QED  BY <1>4 DEF Highest

-----------------------------------------------------------------------------
(* Building the plan of a predicate.                                        *)

ScanType == [range : KeyRange, filter : SUBSET SUBSET Predicate, m_pDBIter : SUBSET SUBSET Key]

\* Scan s returns key k if it comes across it.
Finds(s, k) == InRange(s.range, k) /\ \E conjunction \in s.filter : \A q \in conjunction : Holds(q, k)

\* The scans return the rows that satisfy the predicate.
Splits(where, scans) ==
  \A k \in Key : Matches(where, k) <=> \E i \in DOMAIN scans : Finds(scans[i], k)

\* The ranges follow one another in the order asked for.
Arranged(m_order, scans) ==
  \A i, j \in DOMAIN scans : i < j =>
    \A a, b \in Key : InRange(scans[i].range, a) /\ InRange(scans[j].range, b) => Comes(m_order, a, b)

\* A range has two keys and four flags.
LEMMA RangeInKeyRange ==
  ASSUME NEW s, Collected(s)
  PROVE  MakeRange(s) \in KeyRange
<1>1. MakeRange(s).start \in Key /\ MakeRange(s).end \in Key
  BY RangeIsTyped
<1>2. /\ MakeRange(s).startInclusive \in BOOLEAN /\ MakeRange(s).endInclusive \in BOOLEAN
      /\ MakeRange(s).seekToFirst \in BOOLEAN /\ MakeRange(s).seekToLast \in BOOLEAN
  BY DEF MakeRange
<1>3. MakeRange(s) = [start |-> MakeRange(s).start, end |-> MakeRange(s).end,
                      startInclusive |-> MakeRange(s).startInclusive, endInclusive |-> MakeRange(s).endInclusive,
                      seekToFirst |-> MakeRange(s).seekToFirst, seekToLast |-> MakeRange(s).seekToLast]
  BY DEF MakeRange
<1>. QED  BY <1>1, <1>2, <1>3 DEF KeyRange

\* The scan of a conjunction returns the rows that satisfy it.
LEMMA ScanOfConjunction ==
  ASSUME NEW c \in Seq(Predicate)
  PROVE  /\ ScanPlanInfo(c) \in ScanType
         /\ ScanPlanInfo(c).m_pDBIter = {}
         /\ \A k \in Key : Finds(ScanPlanInfo(c), k) <=> \A j \in DOMAIN c : Holds(c[j], k)
<1>. DEFINE s == DoSetPredicate(c)
<1>1. Collected(s)
  BY CollectedFold
<1>2. \A k \in Key : (\A j \in DOMAIN c : Holds(c[j], k)) <=>
                       InRange(MakeRange(s), k) /\ \A p \in ToSet(c) \ Solved(s) : Holds(p, k)
  BY ConjunctionExact
<1>. HIDE DEF s
<1>3. MakeRange(s) \in KeyRange
  BY <1>1, RangeInKeyRange
<1>4. ToSet(c) \subseteq Predicate
  BY DEF ToSet
<1>5. /\ ScanPlanInfo(c).range = MakeRange(s)
      /\ ScanPlanInfo(c).filter = {ToSet(c) \ Solved(s)}
      /\ ScanPlanInfo(c).m_pDBIter = {}
  BY DEF ScanPlanInfo, s
<1>6. ScanPlanInfo(c) \in ScanType
  <2>1. ScanPlanInfo(c) = [range |-> MakeRange(s), filter |-> {ToSet(c) \ Solved(s)}, m_pDBIter |-> {}]
    BY DEF ScanPlanInfo, s
  <2>2. {ToSet(c) \ Solved(s)} \in SUBSET SUBSET Predicate
    BY <1>4
  <2>. QED  BY <1>3, <2>1, <2>2 DEF ScanType
<1>7. ASSUME NEW k \in Key PROVE Finds(ScanPlanInfo(c), k) <=> \A j \in DOMAIN c : Holds(c[j], k)
  <2>1. Finds(ScanPlanInfo(c), k) <=>
          InRange(MakeRange(s), k) /\ \A p \in ToSet(c) \ Solved(s) : Holds(p, k)
    BY <1>5 DEF Finds
  <2>. QED  BY <1>2, <2>1
<1>. QED  BY <1>5, <1>6, <1>7

\* A full scan finds every key; what it returns is up to the filter.
LEMMA ScanOfEverything ==
  ASSUME NEW where \in Seq(Seq(Predicate))
  PROVE  /\ FullScan(where) \in ScanType
         /\ FullScan(where).m_pDBIter = {}
         /\ \A k \in Key : Finds(FullScan(where), k) <=> Matches(where, k)
<1>1. MakeRange(NoRanges) \in KeyRange
  BY CollectedInit, RangeInKeyRange
<1>2. \A k : InRange(MakeRange(NoRanges), k)
  <2>0. \A i \in Column : NoRanges.lower[i].op = "none"
    BY DEF NoRanges, Unset
  <2>1. 1 \in Column /\ 1 \in 1..1 /\ 1..1 \subseteq Column
    BY KeyAssumption DEF Column
  <2>2. ~InPrefix(NoRanges, 1)
    BY <2>0, <2>1 DEF InPrefix
  <2>3. \A i \in Column : ~HasLower(NoRanges, i)
    BY <2>0 DEF HasLower
  <2>4. \A i \in Column : ~HasUpper(NoRanges, i)
    BY KeyAssumption DEF HasUpper, NoRanges, Column
  <2>5. MakeRange(NoRanges).seekToFirst /\ MakeRange(NoRanges).seekToLast
    BY <2>2, <2>3, <2>4 DEF MakeRange
  <2>. QED  BY <2>5 DEF InRange, AfterStart, BeforeEnd
<1>3. \A i \in DOMAIN where : ToSet(where[i]) \subseteq Predicate
  BY DEF ToSet
<1>. DEFINE F == IF where = <<>> THEN {{}} ELSE {ToSet(where[i]) : i \in DOMAIN where}
<1>4. /\ FullScan(where).range = MakeRange(NoRanges)
      /\ FullScan(where).filter = F
      /\ FullScan(where).m_pDBIter = {}
  BY DEF FullScan
<1>5. FullScan(where) \in ScanType
  <2>1. FullScan(where) = [range |-> MakeRange(NoRanges), filter |-> F, m_pDBIter |-> {}]
    BY DEF FullScan
  <2>2. F \in SUBSET SUBSET Predicate
    BY <1>3
  <2>. HIDE DEF F
  <2>. QED  BY <1>1, <2>1, <2>2 DEF ScanType
<1>6. ASSUME NEW k \in Key PROVE Finds(FullScan(where), k) <=> Matches(where, k)
  <2>1. \A i \in DOMAIN where : (\A q \in ToSet(where[i]) : Holds(q, k)) <=>
                                  \A j \in DOMAIN where[i] : Holds(where[i][j], k)
    BY DEF ToSet
  <2>2. (\E conjunction \in F : \A q \in conjunction : Holds(q, k)) <=>
          where = <<>> \/ \E i \in DOMAIN where : \A q \in ToSet(where[i]) : Holds(q, k)
    BY Zenon
  <2>3. (\E conjunction \in F : \A q \in conjunction : Holds(q, k)) <=> Matches(where, k)
    BY <2>1, <2>2, Zenon DEF Matches
  <2>. HIDE DEF F
  <2>4. Finds(FullScan(where), k) <=> \E conjunction \in F : \A q \in conjunction : Holds(q, k)
    BY <1>2, <1>4 DEF Finds
  <2>. QED  BY <2>3, <2>4
<1>. HIDE DEF F
<1>. QED  BY <1>4, <1>5, <1>6

\* The scans of the alternatives, one after the other
ScansOf(where) == [i \in DOMAIN where |-> ScanPlanInfo(where[i])]

\* std::sort returns the same scans in some order.
LEMMA SortedScans ==
  ASSUME NEW where \in Seq(Seq(Predicate)), NEW s \in SortedByStart(ScansOf(where))
  PROVE  /\ s \in Seq(ScanType) /\ Len(s) = Len(where)
         /\ \A i \in DOMAIN s : \E j \in DOMAIN where : s[i] = ScanPlanInfo(where[j])
         /\ \A j \in DOMAIN where : \E i \in DOMAIN s : s[i] = ScanPlanInfo(where[j])
         /\ \A i, j \in DOMAIN s : i < j => ~StartsBefore(s[j].range, s[i].range)
<1>. DEFINE n == Len(where)
            D == 1..n
            infos == ScansOf(where)
<1>1. n \in Nat /\ DOMAIN where = D /\ \A j \in D : where[j] \in Seq(Predicate)
  OBVIOUS
<1>2. \A j \in D : ScanPlanInfo(where[j]) \in ScanType
  BY <1>1, ScanOfConjunction
<1>3. DOMAIN infos = D /\ \A j \in D : infos[j] = ScanPlanInfo(where[j])
  BY <1>1 DEF ScansOf
<1>. HIDE DEF D, infos, n
<1>4. PICK f \in Bijection(D, D) : s = [i \in D |-> infos[f[i]]]
  BY <1>3 DEF SortedByStart, infos
<1>5. /\ f \in [D -> D]
      /\ \A t \in D : \E i \in D : f[i] = t
  BY <1>4 DEF Bijection, Surjection
<1>6. DOMAIN s = D /\ \A i \in D : f[i] \in D /\ s[i] = infos[f[i]] /\ s[i] \in ScanType
  BY <1>2, <1>3, <1>4, <1>5
<1>7. s \in Seq(ScanType) /\ Len(s) = n
  <2>1. s \in [1..n -> ScanType]
    BY <1>4, <1>6 DEF D
  <2>. QED  BY <1>1, <2>1
<1>8. \A i, j \in DOMAIN s : i < j => ~StartsBefore(s[j].range, s[i].range)
  BY DEF SortedByStart
<1>9. \A i \in DOMAIN s : \E j \in DOMAIN where : s[i] = ScanPlanInfo(where[j])
  BY <1>1, <1>3, <1>6
<1>10. \A j \in DOMAIN where : \E i \in DOMAIN s : s[i] = ScanPlanInfo(where[j])
  BY <1>1, <1>3, <1>5, <1>6
<1>. QED  BY <1>7, <1>8, <1>9, <1>10 DEF n

\* Only the iterators change when they are shared.
LEMMA SharedScans ==
  ASSUME NEW s \in Seq(ScanType), m_pDB \in SUBSET Key
  PROVE  /\ ShareIterator(s) \in Seq(ScanType) /\ Len(ShareIterator(s)) = Len(s)
         /\ DOMAIN ShareIterator(s) = DOMAIN s
         /\ \A i \in DOMAIN s : /\ ShareIterator(s)[i].range = s[i].range
                               /\ ShareIterator(s)[i].filter = s[i].filter
                               /\ ShareIterator(s)[i].m_pDBIter = {m_pDB}
<1>. DEFINE h == ShareIterator(s)
            n == Len(s)
<1>1. n \in Nat /\ DOMAIN s = 1..n /\ \A i \in 1..n : s[i] \in ScanType
  OBVIOUS
<1>. HIDE DEF n
<1>2. h = [i \in 1..n |-> [s[i] EXCEPT !.m_pDBIter = {m_pDB}]]
  BY <1>1 DEF ShareIterator
<1>. HIDE DEF h
<1>3. \A i \in 1..n : /\ h[i].range = s[i].range /\ h[i].filter = s[i].filter
                      /\ h[i].m_pDBIter = {m_pDB} /\ h[i] \in ScanType
  BY <1>1, <1>2 DEF ScanType
<1>4. h \in [1..n -> ScanType]
  BY <1>2, <1>3
<1>5. h \in Seq(ScanType) /\ Len(h) = n /\ DOMAIN h = 1..n
  BY <1>1, <1>4
<1>. QED  BY <1>1, <1>3, <1>5 DEF h, n

\* What buildSelectPlan leaves: scans that together return the rows of the
\* predicate, and one snapshot for all scans of a union.
Planned(where, scans) ==
  /\ scans \in Seq(ScanType) /\ Len(scans) >= 1
  /\ Splits(where, scans)
  /\ \/ Len(scans) = 1 /\ scans[1].m_pDBIter = {}
     \/ \A i \in DOMAIN scans : scans[i].m_pDBIter = {m_pDB}

\* One scan for the whole predicate
LEMMA OneScan ==
  ASSUME NEW where, NEW s \in ScanType, s.m_pDBIter = {},
         \A k \in Key : Finds(s, k) <=> Matches(where, k)
  PROVE  Planned(where, <<s>>) /\ Arranged("Ascend", <<s>>)
<1>1. /\ <<s>> \in Seq(ScanType) /\ Len(<<s>>) = 1 /\ <<s>>[1] = s
      /\ DOMAIN <<s>> = 1..1
  OBVIOUS
<1>2. Splits(where, <<s>>)
  BY <1>1 DEF Splits
<1>3. Arranged("Ascend", <<s>>)
  BY <1>1 DEF Arranged
<1>. QED  BY <1>1, <1>2, <1>3 DEF Planned

\* A sequence of scans, one for each alternative, in some order
LEMMA ScansSplit ==
  ASSUME NEW where \in Seq(Seq(Predicate)), Len(where) > 1, NEW s \in SortedByStart(ScansOf(where)),
         m_pDB \in SUBSET Key
  PROVE  Planned(where, ShareIterator(s))
<1>. DEFINE h == ShareIterator(s)
<1>1. /\ s \in Seq(ScanType) /\ Len(s) = Len(where)
      /\ \A i \in DOMAIN s : \E j \in DOMAIN where : s[i] = ScanPlanInfo(where[j])
      /\ \A j \in DOMAIN where : \E i \in DOMAIN s : s[i] = ScanPlanInfo(where[j])
  BY SortedScans
<1>2. /\ h \in Seq(ScanType) /\ Len(h) = Len(s) /\ DOMAIN h = DOMAIN s
      /\ \A i \in DOMAIN s : /\ h[i].range = s[i].range
                            /\ h[i].filter = s[i].filter
                            /\ h[i].m_pDBIter = {m_pDB}
  BY <1>1, SharedScans
<1>. HIDE DEF h
<1>3. \A i \in DOMAIN s : \A k : Finds(h[i], k) <=> Finds(s[i], k)
  BY <1>2 DEF Finds
<1>4. \A j \in DOMAIN where : where[j] \in Seq(Predicate)
  OBVIOUS
<1>5. \A j \in DOMAIN where : \A k \in Key :
        Finds(ScanPlanInfo(where[j]), k) <=> \A i \in DOMAIN where[j] : Holds(where[j][i], k)
  BY <1>4, ScanOfConjunction
<1>6. where # <<>> /\ Len(h) >= 1
  BY <1>1, <1>2
<1>7. Splits(where, h)
  <2>. SUFFICES ASSUME NEW k \in Key
                PROVE  Matches(where, k) <=> \E i \in DOMAIN h : Finds(h[i], k)
    BY DEF Splits
  <2>1. (\E i \in DOMAIN h : Finds(h[i], k)) <=> \E i \in DOMAIN s : Finds(s[i], k)
    BY <1>2, <1>3
  <2>2. (\E i \in DOMAIN s : Finds(s[i], k)) <=> \E j \in DOMAIN where : Finds(ScanPlanInfo(where[j]), k)
    BY <1>1, Zenon
  <2>3. Matches(where, k) <=> \E j \in DOMAIN where : Finds(ScanPlanInfo(where[j]), k)
    BY <1>5, <1>6 DEF Matches
  <2>. QED  BY <2>1, <2>2, <2>3
<1>. QED  BY <1>2, <1>6, <1>7 DEF Planned, h

\* The alternatives of a union have a range each, and none of them is
\* contradictory: such ranges are not sorted out when a union is planned.
ProperUnion(where) ==
  Len(where) > 1 => \A i \in DOMAIN where : Proper(MakeRange(DoSetPredicate(where[i])))

\* A union that is accepted has its ranges in the order of the keys.
LEMMA ScansArranged ==
  ASSUME NEW where \in Seq(Seq(Predicate)), Len(where) > 1, NEW s \in SortedByStart(ScansOf(where)),
         m_pDB \in SUBSET Key, ProperUnion(where), ~Overlap(s)
  PROVE  Arranged("Ascend", ShareIterator(s))
<1>. DEFINE h == ShareIterator(s)
            n == Len(s)
            ranges == [i \in 1..n |-> s[i].range]
<1>1. /\ s \in Seq(ScanType)
      /\ \A i \in DOMAIN s : \E j \in DOMAIN where : s[i] = ScanPlanInfo(where[j])
      /\ \A i, j \in DOMAIN s : i < j => ~StartsBefore(s[j].range, s[i].range)
  BY SortedScans
<1>2. n \in Nat /\ DOMAIN s = 1..n /\ \A i \in 1..n : s[i].range \in KeyRange
  <2>1. n \in Nat /\ DOMAIN s = 1..n /\ \A i \in 1..n : s[i] \in ScanType
    BY <1>1
  <2>. QED  BY <2>1 DEF ScanType
<1>3. DOMAIN h = 1..n /\ \A i \in 1..n : h[i].range = s[i].range
  BY <1>1, <1>2, SharedScans
<1>4. \A i \in 2..n : StartAfterEnd(s[i].range, s[i - 1].range)
  BY DEF Overlap
<1>5. \A i \in 1..n : Proper(s[i].range)
  <2>. SUFFICES ASSUME NEW i \in 1..n PROVE Proper(s[i].range)
    OBVIOUS
  <2>1. PICK j \in DOMAIN where : s[i] = ScanPlanInfo(where[j])
    BY <1>1, <1>2
  <2>2. s[i].range = MakeRange(DoSetPredicate(where[j]))
    BY <2>1 DEF ScanPlanInfo
  <2>. QED  BY <2>2 DEF ProperUnion
<1>. HIDE DEF h, n
<1>6. /\ ranges \in Seq(KeyRange) /\ DOMAIN ranges = 1..n
      /\ \A i \in 1..n : ranges[i] = s[i].range
  BY <1>2
<1>. HIDE DEF ranges
<1>7. Accepted(ranges)
  <2>1. \A i, j \in DOMAIN ranges : i < j => ~StartsBefore(ranges[j], ranges[i])
    BY <1>1, <1>2, <1>6
  <2>2. ASSUME NEW i \in DOMAIN ranges, i > 1 PROVE StartAfterEnd(ranges[i], ranges[i - 1])
    <3>1. i \in 2..n /\ i - 1 \in 1..n
      BY <1>2, <1>6, <2>2
    <3>. QED  BY <1>4, <1>6, <3>1
  <2>. QED  BY <2>1, <2>2 DEF Accepted
<1>8. \A i \in DOMAIN ranges : Proper(ranges[i])
  BY <1>5, <1>6
<1>9. ASSUME NEW i \in 1..n, NEW j \in 1..n, i < j, NEW a \in Key, NEW b \in Key,
             InRange(h[i].range, a), InRange(h[j].range, b)
      PROVE  KeyLess(a, b)
  <2>1. InRange(ranges[i], a) /\ InRange(ranges[j], b) /\ i \in DOMAIN ranges /\ j \in DOMAIN ranges
    BY <1>3, <1>6, <1>9
  <2>. QED  BY <1>6, <1>7, <1>8, <1>9, <2>1, UnionInOrder
<1>. QED  BY <1>3, <1>9 DEF Arranged, Comes, h

\* buildSelectPlan: whatever the predicate, and whatever std::sort does with
\* ranges that start at the same key.
LEMMA PlanRight ==
  ASSUME NEW where \in Seq(Seq(Predicate)), NEW scans \in BuildSelectPlan(where), m_pDB \in SUBSET Key
  PROVE  Planned(where, scans) /\ (ProperUnion(where) => Arranged("Ascend", scans))
<1>1. Planned(where, <<FullScan(where)>>) /\ Arranged("Ascend", <<FullScan(where)>>)
  BY ScanOfEverything, OneScan
<1>2. CASE where = <<>>
  BY <1>1, <1>2 DEF BuildSelectPlan
<1>3. CASE where # <<>> /\ Len(where) = 1
  <2>1. where[1] \in Seq(Predicate) /\ DOMAIN where = {1}
    BY <1>3
  <2>2. \A k \in Key : Finds(ScanPlanInfo(where[1]), k) <=> Matches(where, k)
    BY <1>3, <2>1, ScanOfConjunction DEF Matches
  <2>3. scans = <<ScanPlanInfo(where[1])>>
    BY <1>3 DEF BuildSelectPlan
  <2>4. ScanPlanInfo(where[1]) \in ScanType /\ ScanPlanInfo(where[1]).m_pDBIter = {}
    BY <2>1, ScanOfConjunction
  <2>. QED  BY <2>2, <2>3, <2>4, OneScan
<1>4. CASE where # <<>> /\ Len(where) # 1
  <2>1. Len(where) > 1
    <3>1. Len(where) \in Nat /\ Len(where) # 0
      BY <1>4, EmptySeq
    <3>2. \A n \in Nat : n # 0 /\ n # 1 => n > 1
      OBVIOUS
    <3>. QED  BY <1>4, <3>1, <3>2, Zenon
  <2>2. scans \in BuildUnionAll(where)
    BY <1>4 DEF BuildSelectPlan
  <2>3. \/ scans = <<FullScan(where)>>
        \/ \E s \in SortedByStart(ScansOf(where)) : ~Overlap(s) /\ scans = ShareIterator(s)
    BY <2>2, Zenon DEF BuildUnionAll, ScansOf
  <2>. QED  BY <1>1, <2>1, <2>3, ScansSplit, ScansArranged
<1>. QED  BY <1>2, <1>3, <1>4

-----------------------------------------------------------------------------
(* The inductive invariant.                                                 *)

PlanType ==
  [kind : {"select", "delete", "insert"}, where : Seq(Seq(Predicate)),
   m_order : {"Ascend", "Descend", "Any"}, scans : Seq(ScanType), values : Seq(Key),
   phase : {"ready", "running", "exhausted", "failed"}, m_iCurrentIndex : Nat \ {0}, m_iRows : Nat,
   m_currentKey : Key \cup {<<>>}, rows : Seq(Key), m_batch : SUBSET Key,
   versions : SUBSET SUBSET Key, again : BOOLEAN]

\* The table is a set of keys, and every plan has seen what is in it now.
Typed ==
  /\ m_pDB \in SUBSET Key
  /\ m_bTerminate \in [Worker -> BOOLEAN]
  /\ plan \in [Worker -> PlanType \cup {NoPlan}]
  /\ \A w \in Worker : plan[w] # NoPlan => m_pDB \in plan[w].versions

\* A running plan has come past key k, which one of its scans returns.
Passed(p, k) ==
  \/ \E j \in DOMAIN p.scans : j < p.m_iCurrentIndex /\ Finds(p.scans[j], k)
  \/ p.m_iRows > 0 /\ Finds(Scan(p), k) /\ (k = p.m_currentKey \/ Comes(p.m_order, k, p.m_currentKey))

\* All keys that an exhausted plan has come past, or a running one so far
Returned(p, k) ==
  IF p.phase = "running" THEN Passed(p, k) ELSE \E j \in DOMAIN p.scans : Finds(p.scans[j], k)

\* The plan is where the scans say.
InPlace(p) ==
  p.phase = "running" => /\ p.m_iCurrentIndex \in DOMAIN p.scans
                         /\ p.m_iRows > 0 => p.m_currentKey \in Key /\ InRange(Scan(p).range, p.m_currentKey)

\* Every row that has been returned was found by a scan that has come past it.
RowsFound(p) == p.phase \in {"running", "exhausted"} => \A k \in ToSet(p.rows) : Returned(p, k)

\* All scans read c, and all keys of c that they have come past are there.
RowsAreOf(p, c) ==
  /\ \A i \in DOMAIN p.scans : p.scans[i].m_pDBIter = {c}
  /\ ToSet(p.rows) = {k \in c : Returned(p, k)}
  /\ p.kind = "delete" => p.m_batch = ToSet(p.rows)

\* A plan that is executed for the first time reads one version.
ReadsOneVersion(p) ==
  /\ p.phase = "ready" =>
       /\ ~p.again /\ p.m_batch = {}
       /\ \/ Len(p.scans) = 1 /\ p.scans[1].m_pDBIter = {}
          \/ \E c \in p.versions : \A i \in DOMAIN p.scans : p.scans[i].m_pDBIter = {c}
  /\ p.phase \in {"running", "exhausted"} /\ ~p.again => \E c \in p.versions : RowsAreOf(p, c)

ScanInv(p) ==
  /\ Len(p.scans) >= 1
  /\ Splits(p.where, p.scans)
  /\ \A k \in p.m_batch : Matches(p.where, k)
  /\ p.kind = "delete" => p.m_order = "Any"
  /\ InPlace(p)
  /\ RowsFound(p)
  /\ ReadsOneVersion(p)

PlanInv == \A w \in Worker : plan[w] # NoPlan /\ plan[w].kind # "insert" => ScanInv(plan[w])

\* The rows come out in order.
InOrder(p) == \A i, j \in DOMAIN p.rows : i < j => Comes(p.m_order, p.rows[i], p.rows[j])

\* The scans of a plan are in the order asked for from begin() on, but for an
\* execution that is repeated: a SELECT in descending order is then the wrong way
\* around.  Only a cancelled one is repeated, and it returns no row.
ScansInOrder(p, terminated) ==
  /\ p.phase = "ready" => Arranged("Ascend", p.scans)
  /\ p.phase # "ready" /\ (p.m_order # "Descend" \/ ~p.again) => Arranged(p.m_order, p.scans)
  /\ p.kind = "select" /\ (p.phase = "failed" \/ p.again) => terminated
  /\ p.kind = "select" /\ p.again => p.rows = <<>>

OrderInv ==
  \A w \in Worker : plan[w] # NoPlan /\ plan[w].kind # "insert" =>
    InOrder(plan[w]) /\ ScansInOrder(plan[w], m_bTerminate[w])

-----------------------------------------------------------------------------
(* The order of a scan.                                                     *)

\* In either direction keys come in a strict total order.
LEMMA ComesOrder ==
  ASSUME NEW m_order, NEW a \in Key, NEW b \in Key, NEW c \in Key
  PROVE  /\ ~Comes(m_order, a, a)
         /\ Comes(m_order, a, b) => ~Comes(m_order, b, a)
         /\ a = b \/ Comes(m_order, a, b) \/ Comes(m_order, b, a)
         /\ Comes(m_order, a, b) /\ Comes(m_order, b, c) => Comes(m_order, a, c)
<1>1. ~KeyLess(a, a) /\ (KeyLess(a, b) => ~KeyLess(b, a)) /\ (KeyLess(b, a) => ~KeyLess(a, b))
  BY KeyIrreflexive, KeyAsymmetric
<1>2. a = b \/ KeyLess(a, b) \/ KeyLess(b, a)
  BY KeyTotal
<1>3. /\ KeyLess(a, b) /\ KeyLess(b, c) => KeyLess(a, c)
      /\ KeyLess(c, b) /\ KeyLess(b, a) => KeyLess(c, a)
  BY KeyTransitive
<1>. QED  BY <1>1, <1>2, <1>3 DEF Comes

\* The keys after the start of a range, and those before its end, are closed.
LEMMA RangeClosed ==
  ASSUME NEW r \in KeyRange, NEW a \in Key, NEW b \in Key, KeyLess(a, b)
  PROVE  /\ AfterStart(r, a) => AfterStart(r, b)
         /\ BeforeEnd(r, b) => BeforeEnd(r, a)
<1>1. r.start \in Key /\ r.end \in Key
  BY DEF KeyRange
<1>2. KeyLess(b, r.start) => KeyLess(a, r.start)
  BY <1>1, KeyTransitive
<1>3. KeyLess(r.start, a) => KeyLess(r.start, b)
  BY <1>1, KeyTransitive
<1>4. KeyLess(r.end, a) => KeyLess(r.end, b)
  BY <1>1, KeyTransitive
<1>5. KeyLess(b, r.end) => KeyLess(a, r.end)
  BY <1>1, KeyTransitive
<1>. QED  BY <1>2, <1>3, <1>4, <1>5 DEF AfterStart, BeforeEnd

\* The fields of a plan
LEMMA PlanFields ==
  ASSUME NEW p \in PlanType
  PROVE  /\ p.scans \in Seq(ScanType) /\ p.rows \in Seq(Key) /\ p.values \in Seq(Key)
         /\ p.m_iCurrentIndex \in Nat /\ p.m_iRows \in Nat /\ p.m_batch \in SUBSET Key
         /\ p.versions \in SUBSET SUBSET Key /\ p.again \in BOOLEAN
         /\ p.phase \in {"ready", "running", "exhausted", "failed"}
         /\ p.kind \in {"select", "delete", "insert"}
         /\ p.where \in Seq(Seq(Predicate))
         /\ p.m_order \in {"Ascend", "Descend", "Any"}
BY DEF PlanType

\* The scan that is running
LEMMA CurrentScan ==
  ASSUME NEW p \in PlanType, p.m_iCurrentIndex \in DOMAIN p.scans
  PROVE  Scan(p) \in ScanType /\ Scan(p).range \in KeyRange /\ Snapshot(p) \in SUBSET Key
<1>1. p.scans \in Seq(ScanType)
  BY PlanFields
<1>2. Scan(p) \in ScanType
  BY <1>1 DEF Scan
<1>. QED  BY <1>2 DEF ScanType, Snapshot

\* Keys that the running scan has still to come across
Ahead(p, k) == p.m_iRows > 0 => Comes(p.m_order, p.m_currentKey, k)

\* The key to which the iterator moves is in the range unless it exceeds its end,
\* and none that is ahead comes before it.
LEMMA MovedNext ==
  ASSUME NEW p \in PlanType, p.phase = "running", InPlace(p), NEW k \in Moved(p), ~Exceeds(p, k)
  PROVE  /\ k \in Key /\ k \in Snapshot(p) /\ Ahead(p, k) /\ InRange(Scan(p).range, k)
         /\ \A j \in Snapshot(p) : InRange(Scan(p).range, j) /\ Ahead(p, j) => ~Comes(p.m_order, j, k)
<1>. DEFINE r == Scan(p).range
            S == Snapshot(p)
            c == p.m_currentKey
<1>1. r \in KeyRange /\ S \in SUBSET Key /\ p.m_iRows \in Nat
  BY CurrentScan, PlanFields DEF InPlace
<1>2. p.m_iRows > 0 => c \in Key /\ InRange(r, c)
  BY DEF InPlace
<1>. HIDE DEF r, S, c
<1>3. CASE p.m_order = "Descend"
  <2>. DEFINE K == {j \in S : IF p.m_iRows = 0 THEN BeforeEnd(r, j) ELSE KeyLess(j, c)}
  <2>1. k \in K /\ \A j \in K : ~KeyLess(k, j)
    BY <1>3 DEF Moved, Highest, r, S, c
  <2>2. k \in S /\ k \in Key /\ (p.m_iRows > 0 => KeyLess(k, c)) /\ (p.m_iRows = 0 => BeforeEnd(r, k))
    BY <1>1, <2>1
  <2>3. AfterStart(r, k)
    BY <1>3 DEF Exceeds, r
  <2>4. BeforeEnd(r, k)
    BY <1>1, <1>2, <2>2, RangeClosed DEF InRange
  <2>5. \A j \in S : InRange(r, j) /\ (p.m_iRows > 0 => KeyLess(j, c)) => j \in K
    BY <1>1 DEF InRange
  <2>. QED  BY <1>3, <2>1, <2>2, <2>3, <2>4, <2>5 DEF InRange, Ahead, Comes, r, S, c
<1>4. CASE p.m_order # "Descend"
  <2>. DEFINE K == {j \in S : IF p.m_iRows = 0 THEN AfterStart(r, j) ELSE KeyLess(c, j)}
  <2>1. k \in K /\ \A j \in K : ~KeyLess(j, k)
    BY <1>4 DEF Moved, Lowest, r, S, c
  <2>2. k \in S /\ k \in Key /\ (p.m_iRows > 0 => KeyLess(c, k)) /\ (p.m_iRows = 0 => AfterStart(r, k))
    BY <1>1, <2>1
  <2>3. BeforeEnd(r, k)
    BY <1>4 DEF Exceeds, r
  <2>4. AfterStart(r, k)
    BY <1>1, <1>2, <2>2, RangeClosed DEF InRange
  <2>5. \A j \in S : InRange(r, j) /\ (p.m_iRows > 0 => KeyLess(c, j)) => j \in K
    BY <1>1 DEF InRange
  <2>. QED  BY <1>4, <2>1, <2>2, <2>3, <2>4, <2>5 DEF InRange, Ahead, Comes, r, S, c
<1>. QED  BY <1>3, <1>4

\* When the iterator is behind the last key or moves out of the range, no key of
\* the range is ahead.
LEMMA NothingAhead ==
  ASSUME NEW p \in PlanType, p.phase = "running", InPlace(p), \A k \in Moved(p) : Exceeds(p, k),
         NEW j \in Snapshot(p), InRange(Scan(p).range, j)
  PROVE  ~Ahead(p, j)
<1>. DEFINE r == Scan(p).range
            S == Snapshot(p)
            c == p.m_currentKey
<1>1. r \in KeyRange /\ S \in SUBSET Key /\ p.m_iRows \in Nat
  BY CurrentScan, PlanFields DEF InPlace
<1>2. j \in S /\ InRange(r, j) /\ j \in Key
  BY <1>1
<1>. HIDE DEF r, S, c
<1>. SUFFICES ASSUME Ahead(p, j) PROVE FALSE
  OBVIOUS
<1>3. CASE p.m_order = "Descend"
  <2>. DEFINE K == {i \in S : IF p.m_iRows = 0 THEN BeforeEnd(r, i) ELSE KeyLess(i, c)}
  <2>1. Moved(p) = Highest(K)
    BY <1>3 DEF Moved, r, S, c
  <2>2. K \in SUBSET Key /\ j \in K
    BY <1>1, <1>2, <1>3 DEF InRange, Ahead, Comes, c
  <2>. HIDE DEF K
  <2>3. PICK k \in K : k \in Moved(p) /\ ~KeyLess(k, j)
    BY <2>1, <2>2, HighestExists DEF Highest
  <2>4. ~AfterStart(r, k)
    BY <1>3, <2>3 DEF Exceeds, r
  <2>5. k \in Key /\ (k = j \/ KeyLess(j, k))
    BY <1>2, <2>2, <2>3, KeyTotal
  <2>. QED  BY <1>1, <1>2, <2>4, <2>5, RangeClosed DEF InRange
<1>4. CASE p.m_order # "Descend"
  <2>. DEFINE K == {i \in S : IF p.m_iRows = 0 THEN AfterStart(r, i) ELSE KeyLess(c, i)}
  <2>1. Moved(p) = Lowest(K)
    BY <1>4 DEF Moved, r, S, c
  <2>2. K \in SUBSET Key /\ j \in K
    BY <1>1, <1>2, <1>4 DEF InRange, Ahead, Comes, c
  <2>. HIDE DEF K
  <2>3. PICK k \in K : k \in Moved(p) /\ ~KeyLess(j, k)
    BY <2>1, <2>2, LowestExists DEF Lowest
  <2>4. ~BeforeEnd(r, k)
    BY <1>4, <2>3 DEF Exceeds, r
  <2>5. k \in Key /\ (k = j \/ KeyLess(k, j))
    BY <1>2, <2>2, <2>3, KeyTotal
  <2>. QED  BY <1>1, <1>2, <2>4, <2>5, RangeClosed DEF InRange
<1>. QED  BY <1>3, <1>4

-----------------------------------------------------------------------------
(* What a step makes of a plan.                                             *)

\* Scans with the same ranges and filters: only the iterators may differ.
SameScans(s, t) ==
  /\ t \in Seq(ScanType) /\ Len(t) = Len(s) /\ DOMAIN t = DOMAIN s
  /\ \A i \in DOMAIN s : t[i].range = s[i].range /\ t[i].filter = s[i].filter

\* They return the same rows in the same order.
LEMMA SameScansFind ==
  ASSUME NEW s, NEW t, SameScans(s, t)
  PROVE  /\ \A i \in DOMAIN s : \A k : Finds(t[i], k) <=> Finds(s[i], k)
         /\ \A where : Splits(where, s) => Splits(where, t)
         /\ \A m_order : Arranged(m_order, s) => Arranged(m_order, t)
<1>1. /\ DOMAIN t = DOMAIN s
      /\ \A i \in DOMAIN s : t[i].range = s[i].range /\ t[i].filter = s[i].filter
  BY DEF SameScans
<1>2. \A i \in DOMAIN s : \A k : Finds(t[i], k) <=> Finds(s[i], k)
  BY <1>1 DEF Finds
<1>3. \A where : Splits(where, s) => Splits(where, t)
  BY <1>1, <1>2, Zenon DEF Splits
<1>4. \A m_order : Arranged(m_order, s) => Arranged(m_order, t)
  BY <1>1 DEF Arranged
<1>. QED  BY <1>2, <1>3, <1>4

\* Opening the iterator of scan i, or closing it, changes nothing else.
LEMMA OpenScan ==
  ASSUME NEW s \in Seq(ScanType), NEW i \in DOMAIN s, NEW iter \in SUBSET SUBSET Key
  PROVE  LET t == [s EXCEPT ![i].m_pDBIter = iter]
         IN  /\ SameScans(s, t)
             /\ t[i].m_pDBIter = iter
             /\ \A j \in DOMAIN s : j # i => t[j] = s[j]
<1>. DEFINE t == [s EXCEPT ![i].m_pDBIter = iter]
            x == [s[i] EXCEPT !.m_pDBIter = iter]
            n == Len(s)
<1>1. n \in Nat /\ DOMAIN s = 1..n /\ \A j \in 1..n : s[j] \in ScanType
  OBVIOUS
<1>. HIDE DEF n
<1>2. s = [j \in 1..n |-> s[j]]
  BY <1>1
<1>3. x \in ScanType /\ x.range = s[i].range /\ x.filter = s[i].filter /\ x.m_pDBIter = iter
  BY <1>1 DEF ScanType
<1>4. t = [s EXCEPT ![i] = x]
  OBVIOUS
<1>. HIDE DEF x, t
<1>5. DOMAIN t = 1..n /\ t[i] = x /\ \A j \in 1..n : j # i => t[j] = s[j]
  BY <1>1, <1>4
<1>6. t \in [1..n -> ScanType]
  BY <1>1, <1>3, <1>4
<1>7. t \in Seq(ScanType) /\ Len(t) = n
  BY <1>1, <1>6
<1>8. SameScans(s, t)
  BY <1>1, <1>3, <1>5, <1>7 DEF SameScans, n
<1>. QED  BY <1>1, <1>3, <1>5, <1>8 DEF t

\* Turning the scans around turns the order of their ranges around.
LEMMA ReverseScans ==
  ASSUME NEW s \in Seq(ScanType)
  PROVE  LET t == Reverse(s)
         IN  /\ t \in Seq(ScanType) /\ Len(t) = Len(s) /\ DOMAIN t = DOMAIN s
             /\ \A i \in DOMAIN t : \E j \in DOMAIN s : t[i] = s[j]
             /\ \A where : Splits(where, s) => Splits(where, t)
             /\ Arranged("Ascend", s) => Arranged("Descend", t)
<1>. DEFINE t == Reverse(s)
            n == Len(s)
<1>1. n \in Nat /\ DOMAIN s = 1..n /\ \A j \in 1..n : s[j] \in ScanType
  OBVIOUS
<1>2. t = [i \in 1..n |-> s[n - i + 1]]
  BY DEF Reverse
<1>. HIDE DEF n, t
<1>3. \A i \in 1..n : n - i + 1 \in 1..n /\ n - (n - i + 1) + 1 = i /\ t[i] = s[n - i + 1]
  BY <1>1, <1>2
<1>4. t \in [1..n -> ScanType] /\ DOMAIN t = 1..n
  BY <1>1, <1>2, <1>3
<1>5. t \in Seq(ScanType) /\ Len(t) = n
  BY <1>1, <1>4
<1>6. /\ \A i \in DOMAIN t : \E j \in DOMAIN s : t[i] = s[j]
      /\ \A j \in DOMAIN s : \E i \in DOMAIN t : t[i] = s[j]
  BY <1>1, <1>3, <1>4
<1>7. \A k : (\E i \in DOMAIN s : Finds(s[i], k)) <=> \E i \in DOMAIN t : Finds(t[i], k)
  BY <1>6, Zenon
<1>8. \A where : Splits(where, s) => Splits(where, t)
  BY <1>7, Zenon DEF Splits
<1>9. ASSUME Arranged("Ascend", s) PROVE Arranged("Descend", t)
  <2>. SUFFICES ASSUME NEW i \in 1..n, NEW j \in 1..n, i < j, NEW a \in Key, NEW b \in Key,
                       InRange(t[i].range, a), InRange(t[j].range, b)
                PROVE  KeyLess(b, a)
    BY <1>4 DEF Arranged, Comes
  <2>1. /\ n - j + 1 \in DOMAIN s /\ n - i + 1 \in DOMAIN s /\ n - j + 1 < n - i + 1
        /\ InRange(s[n - j + 1].range, b) /\ InRange(s[n - i + 1].range, a)
    BY <1>1, <1>3
  <2>2. Comes("Ascend", b, a)
    BY <1>9, <2>1 DEF Arranged
  <2>. QED  BY <2>2 DEF Comes
<1>. QED  BY <1>1, <1>4, <1>5, <1>6, <1>8, <1>9 DEF t, n

\* The order of the scans in forward direction
LEMMA ForwardArranged ==
  ASSUME NEW s, NEW m_order, m_order # "Descend", NEW other, other # "Descend"
  PROVE  Arranged(m_order, s) <=> Arranged(other, s)
BY DEF Arranged, Comes

\* One more row
LEMMA AppendedRow ==
  ASSUME NEW s \in Seq(Key), NEW k \in Key
  PROVE  /\ Append(s, k) \in Seq(Key)
         /\ ToSet(Append(s, k)) = ToSet(s) \cup {k}
         /\ DOMAIN Append(s, k) = DOMAIN s \cup {Len(s) + 1} /\ DOMAIN s = 1..Len(s) /\ Len(s) \in Nat
         /\ \A i \in DOMAIN s : Append(s, k)[i] = s[i] /\ s[i] \in Key
         /\ Append(s, k)[Len(s) + 1] = k
<1>. DEFINE t == Append(s, k)
            n == Len(s)
<1>1. /\ t \in Seq(Key) /\ n \in Nat /\ DOMAIN t = 1..(n + 1) /\ DOMAIN s = 1..n
      /\ \A i \in 1..n : t[i] = s[i] /\ s[i] \in Key
      /\ t[n + 1] = k
  BY AppendProperties
<1>. HIDE DEF t, n
<1>2. 1..(n + 1) = 1..n \cup {n + 1}
  BY <1>1
<1>3. ToSet(t) = ToSet(s) \cup {k}
  BY <1>1, <1>2 DEF ToSet
<1>. QED  BY <1>1, <1>2, <1>3 DEF t, n

\* What next() does with key k
TakesRow(p, q, k) ==
  q = [p EXCEPT !.m_currentKey = k,
                !.m_iRows = @ + 1,
                !.rows = IF Passes(p, k) THEN Append(@, k) ELSE @,
                !.m_batch = IF Passes(p, k) /\ p.kind = "delete" THEN @ \cup {k} ELSE @]

\* The rows and the batch behind it
RowsWith(p, k)  == IF Passes(p, k) THEN Append(p.rows, k) ELSE p.rows
BatchWith(p, k) == IF Passes(p, k) /\ p.kind = "delete" THEN p.m_batch \cup {k} ELSE p.m_batch

\* The fields that change when a plan has come across key k
LEMMA TakenRow ==
  ASSUME NEW p \in PlanType, NEW k \in Key, NEW q, TakesRow(p, q, k)
  PROVE  /\ q \in PlanType
         /\ q.m_currentKey = k /\ q.m_iRows = p.m_iRows + 1
         /\ q.rows = RowsWith(p, k) /\ q.m_batch = BatchWith(p, k)
<1>. DEFINE rows  == RowsWith(p, k)
            batch == BatchWith(p, k)
<1>1. rows \in Seq(Key) /\ batch \in SUBSET Key
  BY PlanFields, AppendedRow DEF RowsWith, BatchWith
<1>2. q = [p EXCEPT !.m_currentKey = k, !.m_iRows = p.m_iRows + 1, !.rows = rows, !.m_batch = batch]
  BY DEF TakesRow, RowsWith, BatchWith
<1>. HIDE DEF rows, batch
<1>3. p.m_iRows + 1 \in Nat /\ k \in Key \cup {<<>>}
  BY PlanFields
<1>4. q = [kind |-> p.kind, where |-> p.where, m_order |-> p.m_order, scans |-> p.scans, values |-> p.values,
           phase |-> p.phase, m_iCurrentIndex |-> p.m_iCurrentIndex, m_iRows |-> p.m_iRows + 1,
           m_currentKey |-> k, rows |-> rows, m_batch |-> batch, versions |-> p.versions, again |-> p.again]
  BY <1>2 DEF PlanType
<1>5. q \in PlanType
  BY <1>1, <1>3, <1>4, PlanFields DEF PlanType
<1>. QED  BY <1>4, <1>5 DEF rows, batch

\* Those that do not
LEMMA OtherFields ==
  ASSUME NEW p \in PlanType, NEW k, NEW q, TakesRow(p, q, k)
  PROVE  /\ q.kind = p.kind /\ q.where = p.where /\ q.m_order = p.m_order /\ q.scans = p.scans
         /\ q.phase = p.phase /\ q.m_iCurrentIndex = p.m_iCurrentIndex
         /\ q.versions = p.versions /\ q.again = p.again
BY DEF TakesRow, PlanType

\* What a plan has come past after key k
LEMMA PassedMore ==
  ASSUME NEW p \in PlanType, p.phase = "running", InPlace(p), NEW k \in Moved(p), ~Exceeds(p, k),
         NEW q, TakesRow(p, q, k), NEW j \in Key
  PROVE  /\ Passed(p, j) => Passed(q, j)
         /\ j \in Snapshot(p) /\ Passed(q, j) => Passed(p, j) \/ j = k
         /\ Passed(q, k) <=> (Passed(p, k) \/ Finds(Scan(p), k))
<1>1. /\ k \in Key /\ k \in Snapshot(p) /\ Ahead(p, k) /\ InRange(Scan(p).range, k)
      /\ \A i \in Snapshot(p) : InRange(Scan(p).range, i) /\ Ahead(p, i) => ~Comes(p.m_order, i, k)
  BY MovedNext
<1>2. /\ q.m_currentKey = k /\ q.m_iRows = p.m_iRows + 1 /\ q.m_order = p.m_order
      /\ q.scans = p.scans /\ q.m_iCurrentIndex = p.m_iCurrentIndex
  <2>1. k \in Key
    BY <1>1
  <2>2. q.m_currentKey = k /\ q.m_iRows = p.m_iRows + 1
    BY <2>1, TakenRow
  <2>3. q.m_order = p.m_order /\ q.scans = p.scans /\ q.m_iCurrentIndex = p.m_iCurrentIndex
    BY OtherFields
  <2>. QED  BY <2>2, <2>3
<1>3. Scan(q) = Scan(p) /\ p.m_iRows \in Nat /\ (p.m_iRows > 0 => p.m_currentKey \in Key) /\ q.m_iRows > 0
  BY <1>2, PlanFields DEF Scan, InPlace
<1>4. Passed(q, j) <=> \/ \E i \in DOMAIN p.scans : i < p.m_iCurrentIndex /\ Finds(p.scans[i], j)
                       \/ Finds(Scan(p), j) /\ (j = k \/ Comes(p.m_order, j, k))
  BY <1>2, <1>3 DEF Passed
<1>4k. Passed(q, k) <=> \/ \E i \in DOMAIN p.scans : i < p.m_iCurrentIndex /\ Finds(p.scans[i], k)
                        \/ Finds(Scan(p), k) /\ (k = k \/ Comes(p.m_order, k, k))
  BY <1>2, <1>3 DEF Passed
<1>5. p.m_iRows > 0 /\ Comes(p.m_order, j, p.m_currentKey) => Comes(p.m_order, j, k)
  BY <1>1, <1>3, ComesOrder DEF Ahead
<1>6. Passed(p, j) => Passed(q, j)
  BY <1>1, <1>4, <1>5 DEF Passed, Ahead
<1>7. ASSUME j \in Snapshot(p), Passed(q, j), j # k PROVE Passed(p, j)
  <2>. SUFFICES ASSUME Finds(Scan(p), j), Comes(p.m_order, j, k)
                PROVE  p.m_iRows > 0 /\ (j = p.m_currentKey \/ Comes(p.m_order, j, p.m_currentKey))
    BY <1>4, <1>7 DEF Passed
  <2>1. InRange(Scan(p).range, j)
    BY DEF Finds
  <2>2. ~Ahead(p, j)
    BY <1>1, <1>7, <2>1
  <2>. QED  BY <1>3, <2>2, ComesOrder DEF Ahead
<1>8. Passed(q, k) <=> (Passed(p, k) \/ Finds(Scan(p), k))
  BY <1>4k DEF Passed
<1>. QED  BY <1>6, <1>7, <1>8

\* A row that the running scan finds satisfies the predicate.
LEMMA FoundMatches ==
  ASSUME NEW p \in PlanType, Splits(p.where, p.scans), p.m_iCurrentIndex \in DOMAIN p.scans,
         NEW k \in Key, Finds(Scan(p), k)
  PROVE  Matches(p.where, k)
BY DEF Splits, Scan

\* The rows of one version, with one key more
LEMMA RowsGrow ==
  ASSUME NEW p \in PlanType, p.phase = "running", p.kind # "insert", ScanInv(p),
         NEW k \in Moved(p), ~Exceeds(p, k), NEW q, TakesRow(p, q, k),
         NEW c, c \in SUBSET Key, RowsAreOf(p, c)
  PROVE  RowsAreOf(q, c)
<1>1. InPlace(p) /\ p.m_iCurrentIndex \in DOMAIN p.scans
  BY DEF ScanInv, InPlace
<1>2. k \in Key /\ k \in Snapshot(p) /\ InRange(Scan(p).range, k)
  BY <1>1, MovedNext
<1>3. Snapshot(p) = c
  BY <1>1 DEF RowsAreOf, Snapshot, Scan
<1>4. Finds(Scan(p), k) <=> Passes(p, k)
  BY <1>2 DEF Finds, Passes
<1>5. /\ q.rows = (IF Passes(p, k) THEN Append(p.rows, k) ELSE p.rows)
      /\ q.m_batch = (IF Passes(p, k) /\ p.kind = "delete" THEN p.m_batch \cup {k} ELSE p.m_batch)
  <2>1. q.rows = RowsWith(p, k) /\ q.m_batch = BatchWith(p, k)
    BY <1>2, TakenRow
  <2>. QED  BY <2>1 DEF RowsWith, BatchWith
<1>6. q.scans = p.scans /\ q.kind = p.kind /\ q.phase = p.phase
  BY OtherFields
<1>7. ToSet(p.rows) = {j \in c : Passed(p, j)} /\ (p.kind = "delete" => p.m_batch = ToSet(p.rows))
  BY DEF RowsAreOf, Returned
<1>8. ToSet(q.rows) = ToSet(p.rows) \cup (IF Passes(p, k) THEN {k} ELSE {})
  BY <1>2, <1>5, PlanFields, AppendedRow
<1>9. \A j \in c : Passed(q, j) <=> Passed(p, j) \/ (j = k /\ Passes(p, k))
  <2>. SUFFICES ASSUME NEW j \in c PROVE Passed(q, j) <=> Passed(p, j) \/ (j = k /\ Passes(p, k))
    OBVIOUS
  <2>1. /\ Passed(p, j) => Passed(q, j)
        /\ Passed(q, j) => Passed(p, j) \/ j = k
        /\ Passed(q, k) <=> (Passed(p, k) \/ Finds(Scan(p), k))
    BY <1>1, <1>3, PassedMore
  <2>. QED  BY <1>4, <2>1
<1>10. ToSet(q.rows) = {j \in c : Passed(q, j)}
  BY <1>2, <1>3, <1>7, <1>8, <1>9
<1>11. q.kind = "delete" => q.m_batch = ToSet(q.rows)
  BY <1>5, <1>6, <1>7, <1>8
<1>. QED  BY <1>6, <1>10, <1>11 DEF RowsAreOf, Returned

\* next() keeps the invariant when it comes across a key.
LEMMA RowKeeps ==
  ASSUME NEW p \in PlanType, p.phase = "running", p.kind # "insert", ScanInv(p),
         NEW k \in Moved(p), ~Exceeds(p, k), NEW q, TakesRow(p, q, k)
  PROVE  q \in PlanType /\ ScanInv(q)
<1>1. InPlace(p) /\ p.m_iCurrentIndex \in DOMAIN p.scans
  BY DEF ScanInv, InPlace
<1>2. k \in Key /\ k \in Snapshot(p) /\ InRange(Scan(p).range, k)
  BY <1>1, MovedNext
<1>3. Finds(Scan(p), k) <=> Passes(p, k)
  BY <1>2 DEF Finds, Passes
<1>4. /\ q \in PlanType
      /\ q.m_currentKey = k
      /\ q.rows = (IF Passes(p, k) THEN Append(p.rows, k) ELSE p.rows)
      /\ q.m_batch = (IF Passes(p, k) /\ p.kind = "delete" THEN p.m_batch \cup {k} ELSE p.m_batch)
  <2>1. /\ q \in PlanType /\ q.m_currentKey = k
        /\ q.rows = RowsWith(p, k) /\ q.m_batch = BatchWith(p, k)
    BY <1>2, TakenRow
  <2>. QED  BY <2>1 DEF RowsWith, BatchWith
<1>5. /\ q.kind = p.kind /\ q.where = p.where /\ q.m_order = p.m_order /\ q.scans = p.scans
      /\ q.phase = p.phase /\ q.m_iCurrentIndex = p.m_iCurrentIndex
      /\ q.versions = p.versions /\ q.again = p.again
  BY OtherFields
<1>6. Len(q.scans) >= 1 /\ Splits(q.where, q.scans) /\ (q.kind = "delete" => q.m_order = "Any")
  BY <1>5 DEF ScanInv
<1>7. \A j \in q.m_batch : Matches(q.where, j)
  <2>1. Passes(p, k) => Matches(p.where, k)
    BY <1>1, <1>2, <1>3, FoundMatches DEF ScanInv
  <2>2. \A j \in p.m_batch : Matches(p.where, j)
    BY DEF ScanInv
  <2>. QED  BY <1>4, <1>5, <2>1, <2>2
<1>8. InPlace(q)
  BY <1>1, <1>2, <1>4, <1>5 DEF InPlace, Scan
<1>9. RowsFound(q)
  <2>. SUFFICES ASSUME NEW j \in ToSet(q.rows) PROVE Passed(q, j)
    BY <1>5 DEF RowsFound, Returned
  <2>1. ToSet(q.rows) = ToSet(p.rows) \cup (IF Passes(p, k) THEN {k} ELSE {})
    BY <1>2, <1>4, PlanFields, AppendedRow
  <2>2. ToSet(p.rows) \in SUBSET Key
    BY PlanFields DEF ToSet
  <2>3. \A i \in ToSet(p.rows) : Passed(p, i)
    BY DEF ScanInv, RowsFound, Returned
  <2>4. CASE j \in ToSet(p.rows)
    BY <1>1, <2>2, <2>3, <2>4, PassedMore
  <2>5. CASE j = k /\ Passes(p, k)
    BY <1>1, <1>2, <1>3, <2>5, PassedMore
  <2>. QED  BY <2>1, <2>4, <2>5
<1>10. ReadsOneVersion(q)
  <2>. SUFFICES ASSUME ~q.again PROVE \E c \in q.versions : RowsAreOf(q, c)
    BY <1>5 DEF ReadsOneVersion
  <2>1. PICK c \in p.versions : RowsAreOf(p, c)
    BY <1>5 DEF ScanInv, ReadsOneVersion
  <2>2. c \in SUBSET Key
    BY PlanFields
  <2>. QED  BY <1>5, <2>1, <2>2, RowsGrow
<1>. QED  BY <1>4, <1>6, <1>7, <1>8, <1>9, <1>10 DEF ScanInv

\* The rows stay in order.
LEMMA RowInOrder ==
  ASSUME NEW p \in PlanType, p.phase = "running", p.kind # "insert", ScanInv(p),
         NEW k \in Moved(p), ~Exceeds(p, k), NEW q, TakesRow(p, q, k),
         InOrder(p), Arranged(p.m_order, p.scans)
  PROVE  InOrder(q)
<1>1. InPlace(p) /\ p.m_iCurrentIndex \in DOMAIN p.scans
  BY DEF ScanInv, InPlace
<1>2. k \in Key /\ Ahead(p, k) /\ InRange(Scan(p).range, k)
  BY <1>1, MovedNext
<1>3. p.rows \in Seq(Key) /\ ToSet(p.rows) \in SUBSET Key
  BY PlanFields DEF ToSet
<1>4. ASSUME NEW r \in ToSet(p.rows) PROVE Comes(p.m_order, r, k)
  <2>1. r \in Key /\ Passed(p, r)
    BY <1>3 DEF ScanInv, RowsFound, Returned
  <2>2. CASE \E j \in DOMAIN p.scans : j < p.m_iCurrentIndex /\ Finds(p.scans[j], r)
    BY <1>1, <1>2, <2>1, <2>2 DEF Arranged, Scan, Finds
  <2>3. CASE p.m_iRows > 0 /\ (r = p.m_currentKey \/ Comes(p.m_order, r, p.m_currentKey))
    <3>1. p.m_currentKey \in Key /\ Comes(p.m_order, p.m_currentKey, k)
      BY <1>1, <1>2, <2>3 DEF InPlace, Ahead
    <3>. QED  BY <1>2, <2>1, <2>3, <3>1, ComesOrder
  <2>. QED  BY <2>1, <2>2, <2>3 DEF Passed
<1>5. q.m_order = p.m_order
  BY OtherFields
<1>6. q.rows = (IF Passes(p, k) THEN Append(p.rows, k) ELSE p.rows)
  <2>1. q.rows = RowsWith(p, k)
    BY <1>2, TakenRow
  <2>. QED  BY <2>1 DEF RowsWith
<1>7. CASE Passes(p, k)
  <2>. DEFINE n == Len(p.rows)
  <2>1. /\ DOMAIN q.rows = DOMAIN p.rows \cup {n + 1} /\ DOMAIN p.rows = 1..n /\ n \in Nat
        /\ \A i \in DOMAIN p.rows : q.rows[i] = p.rows[i]
        /\ q.rows[n + 1] = k
    BY <1>2, <1>3, <1>6, <1>7, AppendedRow
  <2>. HIDE DEF n
  <2>. SUFFICES ASSUME NEW i \in DOMAIN q.rows, NEW j \in DOMAIN q.rows, i < j
                PROVE  Comes(p.m_order, q.rows[i], q.rows[j])
    BY <1>5 DEF InOrder
  <2>2. i \in 1..n
    BY <2>1
  <2>3. CASE j \in 1..n
    BY <2>1, <2>2, <2>3 DEF InOrder
  <2>4. CASE j = n + 1
    <3>1. p.rows[i] \in ToSet(p.rows)
      BY <2>1, <2>2 DEF ToSet
    <3>. QED  BY <1>4, <2>1, <2>2, <2>4, <3>1
  <2>. QED  BY <2>1, <2>3, <2>4
<1>8. CASE ~Passes(p, k)
  BY <1>5, <1>6, <1>8 DEF InOrder
<1>. QED  BY <1>7, <1>8

\* The fields of a plan in which scan i has begun
LEMMA BegunScan ==
  ASSUME NEW p \in PlanType, NEW i \in DOMAIN p.scans, m_pDB \in SUBSET Key, NEW q, q = BeginScan(p, i)
  PROVE  /\ q \in PlanType
         /\ q.m_iCurrentIndex = i /\ q.m_iRows = 0
         /\ SameScans(p.scans, q.scans)
         /\ p.scans[i].m_pDBIter = {} => q.scans[i].m_pDBIter = {m_pDB}
         /\ p.scans[i].m_pDBIter # {} => q.scans[i].m_pDBIter = p.scans[i].m_pDBIter
         /\ \A j \in DOMAIN p.scans : j # i => q.scans[j] = p.scans[j]
<1>. DEFINE iter == IF p.scans[i].m_pDBIter = {} THEN {m_pDB} ELSE p.scans[i].m_pDBIter
            scans == [p.scans EXCEPT ![i].m_pDBIter = iter]
<1>1. p.scans \in Seq(ScanType) /\ i \in Nat /\ p.scans[i] \in ScanType
  BY PlanFields
<1>2. iter \in SUBSET SUBSET Key
  BY <1>1 DEF ScanType
<1>3. q = [p EXCEPT !.m_iCurrentIndex = i, !.m_iRows = 0, !.scans = scans]
  BY DEF BeginScan, PlanType
<1>. HIDE DEF iter
<1>4. /\ SameScans(p.scans, scans)
      /\ scans[i].m_pDBIter = iter
      /\ \A j \in DOMAIN p.scans : j # i => scans[j] = p.scans[j]
  BY <1>1, <1>2, OpenScan
<1>. HIDE DEF scans
<1>5. scans \in Seq(ScanType)
  BY <1>4 DEF SameScans
<1>6. q = [kind |-> p.kind, where |-> p.where, m_order |-> p.m_order, scans |-> scans, values |-> p.values,
           phase |-> p.phase, m_iCurrentIndex |-> i, m_iRows |-> 0,
           m_currentKey |-> p.m_currentKey, rows |-> p.rows, m_batch |-> p.m_batch, versions |-> p.versions,
           again |-> p.again]
  BY <1>3 DEF PlanType
<1>7. q \in PlanType
  BY <1>1, <1>5, <1>6 DEF PlanType
<1>. QED  BY <1>4, <1>6, <1>7 DEF iter

\* Those that stay
LEMMA BegunOthers ==
  ASSUME NEW p \in PlanType, NEW i, NEW q, q = BeginScan(p, i)
  PROVE  /\ q.kind = p.kind /\ q.where = p.where /\ q.m_order = p.m_order
         /\ q.phase = p.phase /\ q.rows = p.rows /\ q.m_batch = p.m_batch
         /\ q.versions = p.versions /\ q.again = p.again
BY DEF BeginScan, PlanType

\* When a range has no further row, all that its scan finds has been passed.
LEMMA RangePassed ==
  ASSUME NEW p \in PlanType, p.phase = "running", InPlace(p), \A k \in Moved(p) : Exceeds(p, k), NEW j \in Key
  PROVE  /\ Passed(p, j) => \E i \in DOMAIN p.scans : i <= p.m_iCurrentIndex /\ Finds(p.scans[i], j)
         /\ j \in Snapshot(p) /\ (\E i \in DOMAIN p.scans : i <= p.m_iCurrentIndex /\ Finds(p.scans[i], j)) => Passed(p, j)
<1>1. /\ p.m_iCurrentIndex \in DOMAIN p.scans /\ p.m_iCurrentIndex \in Nat
      /\ \A i \in DOMAIN p.scans : i \in Nat
      /\ Scan(p) = p.scans[p.m_iCurrentIndex]
  BY PlanFields DEF InPlace, Scan
<1>2. Passed(p, j) => \E i \in DOMAIN p.scans : i <= p.m_iCurrentIndex /\ Finds(p.scans[i], j)
  BY <1>1 DEF Passed
<1>3. ASSUME j \in Snapshot(p), NEW i \in DOMAIN p.scans, i <= p.m_iCurrentIndex, Finds(p.scans[i], j)
      PROVE  Passed(p, j)
  <2>1. CASE i < p.m_iCurrentIndex
    BY <1>3, <2>1 DEF Passed
  <2>2. CASE i = p.m_iCurrentIndex
    <3>1. Finds(Scan(p), j) /\ InRange(Scan(p).range, j)
      BY <1>1, <1>3, <2>2 DEF Finds
    <3>2. ~Ahead(p, j)
      BY <1>3, <3>1, NothingAhead
    <3>3. p.m_iRows > 0 => p.m_currentKey \in Key
      BY DEF InPlace
    <3>. QED  BY <3>1, <3>2, <3>3, ComesOrder DEF Passed, Ahead
  <2>. QED  BY <1>1, <1>3, <2>1, <2>2
<1>. QED  BY <1>2, <1>3

\* The plan of RangeDone
GoesOn(p) ==
  IF p.m_iCurrentIndex < Len(p.scans) THEN BeginScan(p, p.m_iCurrentIndex + 1)
  ELSE [p EXCEPT !.phase = "exhausted"]

\* What has been passed then, in a plan that goes on or is exhausted
LEMMA GoesOnFields ==
  ASSUME NEW p \in PlanType, p.phase = "running", InPlace(p), m_pDB \in SUBSET Key, NEW q, q = GoesOn(p)
  PROVE  /\ q \in PlanType /\ SameScans(p.scans, q.scans) /\ InPlace(q)
         /\ \A k : Returned(q, k) <=> \E i \in DOMAIN p.scans : i <= p.m_iCurrentIndex /\ Finds(p.scans[i], k)
         /\ \A c : (\A i \in DOMAIN p.scans : p.scans[i].m_pDBIter = {c}) =>
                     \A i \in DOMAIN q.scans : q.scans[i].m_pDBIter = {c}
<1>. DEFINE cur == p.m_iCurrentIndex
<1>1. /\ p.scans \in Seq(ScanType) /\ Len(p.scans) \in Nat /\ DOMAIN p.scans = 1..Len(p.scans)
      /\ cur \in Nat /\ cur \in DOMAIN p.scans
  BY PlanFields DEF InPlace
<1>2. CASE cur < Len(p.scans)
  <2>. DEFINE n == cur + 1
  <2>1. n \in DOMAIN p.scans /\ q = BeginScan(p, n)
    BY <1>1, <1>2 DEF GoesOn
  <2>5. \A i \in DOMAIN p.scans : i < n <=> i <= cur
    BY <1>1
  <2>. HIDE DEF n
  <2>2. /\ q \in PlanType /\ q.m_iCurrentIndex = n /\ q.m_iRows = 0 /\ SameScans(p.scans, q.scans)
        /\ p.scans[n].m_pDBIter # {} => q.scans[n].m_pDBIter = p.scans[n].m_pDBIter
        /\ \A j \in DOMAIN p.scans : j # n => q.scans[j] = p.scans[j]
    <3>1. q \in PlanType /\ q.m_iCurrentIndex = n /\ q.m_iRows = 0 /\ SameScans(p.scans, q.scans)
      BY <2>1, BegunScan
    <3>2. p.scans[n].m_pDBIter # {} => q.scans[n].m_pDBIter = p.scans[n].m_pDBIter
      BY <2>1, BegunScan
    <3>3. \A j \in DOMAIN p.scans : j # n => q.scans[j] = p.scans[j]
      BY <2>1, BegunScan
    <3>. QED  BY <3>1, <3>2, <3>3
  <2>3. q.phase = "running"
    BY <2>1, BegunOthers
  <2>4. DOMAIN q.scans = DOMAIN p.scans /\ \A i \in DOMAIN p.scans : \A k : Finds(q.scans[i], k) <=> Finds(p.scans[i], k)
    BY <2>2, SameScansFind DEF SameScans
  <2>6. \A k : Returned(q, k) <=> \E i \in DOMAIN p.scans : i <= cur /\ Finds(p.scans[i], k)
    BY <2>2, <2>3, <2>4, <2>5 DEF Returned, Passed
  <2>7. InPlace(q)
    BY <2>1, <2>2, <2>4 DEF InPlace
  <2>8. ASSUME NEW c, \A i \in DOMAIN p.scans : p.scans[i].m_pDBIter = {c}, NEW i \in DOMAIN q.scans
        PROVE  q.scans[i].m_pDBIter = {c}
    BY <2>1, <2>2, <2>4, <2>8
  <2>. QED  BY <2>2, <2>6, <2>7, <2>8
<1>3. CASE ~(cur < Len(p.scans))
  <2>1. q = [p EXCEPT !.phase = "exhausted"]
    BY <1>3 DEF GoesOn
  <2>2. q \in PlanType /\ q.scans = p.scans /\ q.phase = "exhausted"
    BY <2>1 DEF PlanType
  <2>3. SameScans(p.scans, q.scans) /\ InPlace(q)
    BY <1>1, <2>2 DEF SameScans, InPlace
  <2>4. \A i \in DOMAIN p.scans : i <= cur
    BY <1>1, <1>3
  <2>5. \A k : Returned(q, k) <=> \E i \in DOMAIN p.scans : i <= cur /\ Finds(p.scans[i], k)
    BY <2>2, <2>4 DEF Returned
  <2>. QED  BY <2>2, <2>3, <2>5
<1>. QED  BY <1>2, <1>3

\* and what stays
LEMMA GoesOnOthers ==
  ASSUME NEW p \in PlanType, NEW q, q = GoesOn(p)
  PROVE  /\ q.kind = p.kind /\ q.where = p.where /\ q.m_order = p.m_order
         /\ q.phase \in {p.phase, "exhausted"} /\ q.rows = p.rows /\ q.m_batch = p.m_batch
         /\ q.versions = p.versions /\ q.again = p.again
<1>1. CASE p.m_iCurrentIndex < Len(p.scans)
  BY <1>1, BegunOthers DEF GoesOn
<1>2. CASE ~(p.m_iCurrentIndex < Len(p.scans))
  BY <1>2 DEF GoesOn, PlanType
<1>. QED  BY <1>1, <1>2

\* A union that goes on to its next range keeps the invariant, and so does a plan
\* that is exhausted.
LEMMA GoesOnKeeps ==
  ASSUME NEW p \in PlanType, p.phase = "running", p.kind # "insert", ScanInv(p),
         \A k \in Moved(p) : Exceeds(p, k), m_pDB \in SUBSET Key, NEW q, q = GoesOn(p)
  PROVE  q \in PlanType /\ ScanInv(q)
<1>1. InPlace(p) /\ p.m_iCurrentIndex \in DOMAIN p.scans
  BY DEF ScanInv, InPlace
<1>2. /\ q \in PlanType /\ SameScans(p.scans, q.scans) /\ InPlace(q)
      /\ \A k : Returned(q, k) <=> \E i \in DOMAIN p.scans : i <= p.m_iCurrentIndex /\ Finds(p.scans[i], k)
      /\ \A c : (\A i \in DOMAIN p.scans : p.scans[i].m_pDBIter = {c}) =>
                  \A i \in DOMAIN q.scans : q.scans[i].m_pDBIter = {c}
  BY <1>1, GoesOnFields
<1>3. /\ q.kind = p.kind /\ q.where = p.where /\ q.m_order = p.m_order
      /\ q.phase \in {"running", "exhausted"} /\ q.rows = p.rows /\ q.m_batch = p.m_batch
      /\ q.versions = p.versions /\ q.again = p.again
  BY GoesOnOthers
<1>4. ToSet(p.rows) \in SUBSET Key
  BY PlanFields DEF ToSet
<1>5. /\ \A k \in Key : Passed(p, k) => Returned(q, k)
      /\ \A k \in Key : k \in Snapshot(p) /\ Returned(q, k) => Passed(p, k)
  BY <1>1, <1>2, RangePassed
<1>6. Len(q.scans) >= 1 /\ Splits(q.where, q.scans)
  BY <1>2, <1>3, SameScansFind DEF ScanInv, SameScans
<1>7. /\ \A k \in q.m_batch : Matches(q.where, k)
      /\ q.kind = "delete" => q.m_order = "Any"
  BY <1>3 DEF ScanInv
<1>8. RowsFound(q)
  BY <1>3, <1>4, <1>5 DEF RowsFound, ScanInv, Returned
<1>9. ReadsOneVersion(q)
  <2>. SUFFICES ASSUME ~q.again PROVE \E c \in q.versions : RowsAreOf(q, c)
    BY <1>3 DEF ReadsOneVersion
  <2>1. PICK c \in p.versions : RowsAreOf(p, c)
    BY <1>3 DEF ScanInv, ReadsOneVersion
  <2>2. c \in SUBSET Key
    BY PlanFields
  <2>3. /\ \A i \in DOMAIN p.scans : p.scans[i].m_pDBIter = {c}
        /\ ToSet(p.rows) = {k \in c : Passed(p, k)}
        /\ p.kind = "delete" => p.m_batch = ToSet(p.rows)
    BY <2>1 DEF RowsAreOf, Returned
  <2>4. Snapshot(p) = c
    BY <1>1, <2>3 DEF Snapshot, Scan
  <2>5. ToSet(p.rows) = {k \in c : Returned(q, k)}
    BY <1>5, <2>2, <2>3, <2>4
  <2>. QED  BY <1>2, <1>3, <2>3, <2>5 DEF RowsAreOf
<1>. QED  BY <1>2, <1>6, <1>7, <1>8, <1>9 DEF ScanInv

\* The plan of Begin, before its first scan begins
Starts(p) ==
  [p EXCEPT !.phase = "running", !.rows = <<>>, !.again = (p.phase = "failed"), !.scans = ScanOrder(p)]

\* The scans that UnionAllPlan::begin puts in order are the same.
LEMMA OrderedScans ==
  ASSUME NEW p \in PlanType
  PROVE  LET t == ScanOrder(p)
         IN  /\ t \in Seq(ScanType) /\ Len(t) = Len(p.scans) /\ DOMAIN t = DOMAIN p.scans
             /\ \A i \in DOMAIN t : \E j \in DOMAIN p.scans : t[i] = p.scans[j]
             /\ \A where : Splits(where, p.scans) => Splits(where, t)
             /\ Arranged("Ascend", p.scans) => Arranged(p.m_order, t)
             /\ p.m_order # "Descend" => t = p.scans
<1>1. p.scans \in Seq(ScanType)
  BY PlanFields
<1>2. CASE p.m_order = "Descend"
  <2>1. ScanOrder(p) = Reverse(p.scans)
    BY <1>2 DEF ScanOrder
  <2>. QED  BY <1>1, <1>2, <2>1, ReverseScans
<1>3. CASE p.m_order # "Descend"
  <2>1. ScanOrder(p) = p.scans
    BY <1>3 DEF ScanOrder
  <2>2. Arranged("Ascend", p.scans) => Arranged(p.m_order, p.scans)
    BY <1>3, ForwardArranged
  <2>. QED  BY <1>1, <1>3, <2>1, <2>2
<1>. QED  BY <1>2, <1>3

\* The fields of a plan that starts
LEMMA StartsFields ==
  ASSUME NEW p \in PlanType, NEW p1, p1 = Starts(p)
  PROVE  /\ p1 \in PlanType
         /\ p1.phase = "running" /\ p1.rows = <<>> /\ (p1.again <=> p.phase = "failed")
         /\ p1.scans = ScanOrder(p)
         /\ p1.kind = p.kind /\ p1.where = p.where /\ p1.m_order = p.m_order
         /\ p1.m_batch = p.m_batch /\ p1.versions = p.versions
<1>1. ScanOrder(p) \in Seq(ScanType) /\ <<>> \in Seq(Key)
  BY OrderedScans
<1>2. p1 = [kind |-> p.kind, where |-> p.where, m_order |-> p.m_order, scans |-> ScanOrder(p), values |-> p.values,
            phase |-> "running", m_iCurrentIndex |-> p.m_iCurrentIndex, m_iRows |-> p.m_iRows,
            m_currentKey |-> p.m_currentKey, rows |-> <<>>, m_batch |-> p.m_batch, versions |-> p.versions,
            again |-> (p.phase = "failed")]
  BY DEF Starts, PlanType
<1>3. p1 \in PlanType
  BY <1>1, <1>2 DEF PlanType
<1>4. /\ p1.phase = "running" /\ p1.rows = <<>> /\ p1.scans = ScanOrder(p)
      /\ p1.kind = p.kind /\ p1.where = p.where /\ p1.m_order = p.m_order
      /\ p1.m_batch = p.m_batch /\ p1.versions = p.versions
  BY <1>2
<1>5. p1.again = (p.phase = "failed")
  BY <1>2
<1>6. p1.again <=> p.phase = "failed"
  BY <1>5
<1>. QED  BY <1>3, <1>4, <1>6

\* begin(): the first scan reads what the table holds now, unless the scans of a
\* union share what it held when the plan was built.
LEMMA BeginKeeps ==
  ASSUME NEW p \in PlanType, p.kind # "insert", p.phase \in {"ready", "failed"}, ScanInv(p),
         m_pDB \in SUBSET Key, m_pDB \in p.versions, NEW q, q = BeginScan(Starts(p), 1)
  PROVE  q \in PlanType /\ ScanInv(q)
<1>. DEFINE p1 == Starts(p)
            t == ScanOrder(p)
<1>1. /\ t \in Seq(ScanType) /\ Len(t) = Len(p.scans) /\ DOMAIN t = DOMAIN p.scans
      /\ \A i \in DOMAIN t : \E j \in DOMAIN p.scans : t[i] = p.scans[j]
      /\ Splits(p.where, t)
  BY OrderedScans DEF ScanInv
<1>2. /\ p1 \in PlanType /\ p1.phase = "running" /\ p1.rows = <<>> /\ (p1.again <=> p.phase = "failed")
      /\ p1.scans = t
  BY StartsFields
<1>3. /\ p1.kind = p.kind /\ p1.where = p.where /\ p1.m_order = p.m_order
      /\ p1.m_batch = p.m_batch /\ p1.versions = p.versions
  BY StartsFields
<1>. HIDE DEF p1, t
<1>4. Len(t) >= 1 /\ Len(t) \in Nat /\ DOMAIN t = 1..Len(t) /\ 1 \in DOMAIN t /\ DOMAIN p.scans = DOMAIN t
  BY <1>1 DEF ScanInv
<1>5. q = BeginScan(p1, 1)
  BY DEF p1
<1>6. q \in PlanType /\ q.m_iCurrentIndex = 1 /\ q.m_iRows = 0 /\ SameScans(t, q.scans)
  BY <1>2, <1>4, <1>5, BegunScan
<1>7. /\ t[1].m_pDBIter = {} => q.scans[1].m_pDBIter = {m_pDB}
      /\ t[1].m_pDBIter # {} => q.scans[1].m_pDBIter = t[1].m_pDBIter
  BY <1>2, <1>4, <1>5, BegunScan
<1>8. \A j \in DOMAIN t : j # 1 => q.scans[j] = t[j]
  BY <1>2, <1>4, <1>5, BegunScan
<1>9. /\ q.kind = p.kind /\ q.where = p.where /\ q.m_order = p.m_order
      /\ q.phase = "running" /\ q.rows = <<>> /\ q.m_batch = p.m_batch
      /\ q.versions = p.versions /\ (q.again <=> p.phase = "failed")
  BY <1>2, <1>3, <1>5, BegunOthers
<1>10. /\ DOMAIN q.scans = DOMAIN t /\ Len(q.scans) = Len(t)
       /\ Splits(q.where, q.scans)
  BY <1>1, <1>6, <1>9, SameScansFind DEF SameScans
<1>11. InPlace(q)
  BY <1>4, <1>6, <1>10 DEF InPlace
<1>12. ToSet(q.rows) = {}
  BY <1>9 DEF ToSet
<1>13. \A k : ~Returned(q, k)
  BY <1>4, <1>6, <1>9, <1>10 DEF Returned, Passed
<1>14. RowsFound(q)
  BY <1>12 DEF RowsFound
<1>15. ReadsOneVersion(q)
  <2>. SUFFICES ASSUME p.phase = "ready" PROVE \E c \in q.versions : RowsAreOf(q, c)
    BY <1>9 DEF ReadsOneVersion
  <2>1. p.m_batch = {}
    BY DEF ScanInv, ReadsOneVersion
  <2>2. CASE Len(p.scans) = 1 /\ p.scans[1].m_pDBIter = {}
    <3>1. DOMAIN t = {1}
      BY <1>1, <1>4, <2>2
    <3>2. t[1] = p.scans[1]
      BY <1>1, <1>4, <3>1
    <3>3. \A i \in DOMAIN q.scans : q.scans[i].m_pDBIter = {m_pDB}
      BY <1>7, <1>10, <2>2, <3>1, <3>2
    <3>. QED  BY <1>9, <1>12, <1>13, <2>1, <3>3 DEF RowsAreOf
  <2>3. CASE \E c \in p.versions : \A i \in DOMAIN p.scans : p.scans[i].m_pDBIter = {c}
    <3>1. PICK c \in p.versions : \A i \in DOMAIN p.scans : p.scans[i].m_pDBIter = {c}
      BY <2>3
    <3>2. \A i \in DOMAIN t : t[i].m_pDBIter = {c}
      BY <1>1, <3>1
    <3>3. \A i \in DOMAIN q.scans : q.scans[i].m_pDBIter = {c}
      BY <1>4, <1>7, <1>8, <1>10, <3>2
    <3>. QED  BY <1>9, <1>12, <1>13, <2>1, <3>1, <3>3 DEF RowsAreOf
  <2>. QED  BY <2>2, <2>3 DEF ScanInv, ReadsOneVersion
<1>. QED  BY <1>4, <1>6, <1>9, <1>10, <1>11, <1>14, <1>15 DEF ScanInv

\* It puts the scans in the order asked for.
LEMMA BeginInOrder ==
  ASSUME NEW p \in PlanType, p.kind # "insert", p.phase \in {"ready", "failed"}, ScanInv(p),
         m_pDB \in SUBSET Key, NEW q, q = BeginScan(Starts(p), 1),
         NEW terminated, ScansInOrder(p, terminated)
  PROVE  InOrder(q) /\ ScansInOrder(q, terminated)
<1>. DEFINE p1 == Starts(p)
            t == ScanOrder(p)
<1>1. /\ Len(t) = Len(p.scans) /\ DOMAIN t = DOMAIN p.scans /\ t \in Seq(ScanType)
      /\ Arranged("Ascend", p.scans) => Arranged(p.m_order, t)
      /\ p.m_order # "Descend" => t = p.scans
  BY OrderedScans
<1>2. /\ p1 \in PlanType /\ p1.phase = "running" /\ p1.rows = <<>> /\ (p1.again <=> p.phase = "failed")
      /\ p1.scans = t
  BY StartsFields
<1>3. p1.kind = p.kind /\ p1.m_order = p.m_order
  BY StartsFields
<1>. HIDE DEF p1, t
<1>4. 1 \in DOMAIN t
  BY <1>1 DEF ScanInv
<1>5. q = BeginScan(p1, 1)
  BY DEF p1
<1>6. SameScans(t, q.scans)
  BY <1>2, <1>4, <1>5, BegunScan
<1>7. /\ q.kind = p.kind /\ q.m_order = p.m_order
      /\ q.phase = "running" /\ q.rows = <<>> /\ (q.again <=> p.phase = "failed")
  BY <1>2, <1>3, <1>5, BegunOthers
<1>8. InOrder(q)
  BY <1>7 DEF InOrder
<1>9. p.phase = "ready" \/ p.m_order # "Descend" => Arranged(p.m_order, t)
  BY <1>1 DEF ScansInOrder
<1>10. Arranged(p.m_order, t) => Arranged(q.m_order, q.scans)
  BY <1>6, <1>7, SameScansFind
<1>. QED  BY <1>7, <1>8, <1>9, <1>10 DEF ScansInOrder

-----------------------------------------------------------------------------
(* The other steps.                                                         *)

\* The steps that leave the scans as they are: next() throws, another worker
\* commits.
LEMMA ThrownKeeps ==
  ASSUME NEW p \in PlanType, NEW q, q = [p EXCEPT !.phase = "failed"]
  PROVE  /\ q \in PlanType /\ q.kind = p.kind /\ q.versions = p.versions
         /\ ScanInv(p) => ScanInv(q)
         /\ InOrder(p) => InOrder(q)
         /\ \A t : ScansInOrder(p, t) /\ p.phase # "ready" /\ (p.kind = "select" => t) => ScansInOrder(q, t)
<1>1. q = [kind |-> p.kind, where |-> p.where, m_order |-> p.m_order, scans |-> p.scans, values |-> p.values,
           phase |-> "failed", m_iCurrentIndex |-> p.m_iCurrentIndex, m_iRows |-> p.m_iRows,
           m_currentKey |-> p.m_currentKey, rows |-> p.rows, m_batch |-> p.m_batch, versions |-> p.versions,
           again |-> p.again]
  BY DEF PlanType
<1>2. q \in PlanType
  BY DEF PlanType
<1>3. /\ q.kind = p.kind /\ q.where = p.where /\ q.m_order = p.m_order /\ q.scans = p.scans
      /\ q.phase = "failed" /\ q.rows = p.rows /\ q.m_batch = p.m_batch /\ q.versions = p.versions
      /\ q.again = p.again
  BY <1>1
<1>4. ScanInv(p) => ScanInv(q)
  BY <1>3 DEF ScanInv, InPlace, RowsFound, ReadsOneVersion
<1>5. InOrder(p) => InOrder(q)
  BY <1>3 DEF InOrder
<1>6. ASSUME NEW t, ScansInOrder(p, t), p.phase # "ready", p.kind = "select" => t
      PROVE  ScansInOrder(q, t)
  BY <1>3, <1>6 DEF ScansInOrder
<1>. QED  BY <1>2, <1>3, <1>4, <1>5, <1>6

\* Another worker has committed version v of the table.
LEMMA VersionKeeps ==
  ASSUME NEW p \in PlanType, NEW v \in SUBSET Key, NEW q, q = [p EXCEPT !.versions = @ \cup {v}]
  PROVE  /\ q \in PlanType /\ q.kind = p.kind /\ v \in q.versions
         /\ ScanInv(p) => ScanInv(q)
         /\ InOrder(p) => InOrder(q)
         /\ \A t : ScansInOrder(p, t) => ScansInOrder(q, t)
<1>1. q = [kind |-> p.kind, where |-> p.where, m_order |-> p.m_order, scans |-> p.scans, values |-> p.values,
           phase |-> p.phase, m_iCurrentIndex |-> p.m_iCurrentIndex, m_iRows |-> p.m_iRows,
           m_currentKey |-> p.m_currentKey, rows |-> p.rows, m_batch |-> p.m_batch,
           versions |-> p.versions \cup {v}, again |-> p.again]
  BY DEF PlanType
<1>2. q \in PlanType
  <2>. DEFINE versions == p.versions \cup {v}
  <2>1. versions \in SUBSET SUBSET Key
    BY PlanFields
  <2>2. q = [p EXCEPT !.versions = versions]
    BY DEF PlanType
  <2>. HIDE DEF versions
  <2>. QED  BY <2>1, <2>2 DEF PlanType
<1>3. /\ q.kind = p.kind /\ q.where = p.where /\ q.m_order = p.m_order /\ q.scans = p.scans
      /\ q.phase = p.phase /\ q.rows = p.rows /\ q.m_batch = p.m_batch
      /\ q.versions = p.versions \cup {v} /\ q.again = p.again
  BY <1>1
<1>4. q.m_iCurrentIndex = p.m_iCurrentIndex /\ q.m_iRows = p.m_iRows /\ q.m_currentKey = p.m_currentKey
  BY <1>1
<1>5. \A k : Returned(q, k) <=> Returned(p, k)
  BY <1>3, <1>4 DEF Returned, Passed, Scan
<1>6. ASSUME ScanInv(p) PROVE ScanInv(q)
  <2>1. InPlace(q)
    BY <1>3, <1>4, <1>6 DEF ScanInv, InPlace, Scan
  <2>2. RowsFound(q)
    BY <1>3, <1>5, <1>6 DEF ScanInv, RowsFound
  <2>3. \A c : RowsAreOf(p, c) => RowsAreOf(q, c)
    BY <1>3, <1>5 DEF RowsAreOf
  <2>. ReadsOneVersion(p)
    BY <1>6 DEF ScanInv
  <2>4. ReadsOneVersion(q)
    <3>1. q.phase = "ready" =>
            /\ ~q.again /\ q.m_batch = {}
            /\ \/ Len(q.scans) = 1 /\ q.scans[1].m_pDBIter = {}
               \/ \E c \in q.versions : \A i \in DOMAIN q.scans : q.scans[i].m_pDBIter = {c}
      BY <1>3 DEF ReadsOneVersion
    <3>2. q.phase \in {"running", "exhausted"} /\ ~q.again => \E c \in q.versions : RowsAreOf(q, c)
      BY <1>3, <2>3 DEF ReadsOneVersion
    <3>. QED  BY <3>1, <3>2 DEF ReadsOneVersion
  <2>5. /\ Len(q.scans) >= 1 /\ Splits(q.where, q.scans)
        /\ \A k \in q.m_batch : Matches(q.where, k)
        /\ q.kind = "delete" => q.m_order = "Any"
    BY <1>3, <1>6 DEF ScanInv
  <2>. QED  BY <2>1, <2>2, <2>4, <2>5 DEF ScanInv
<1>7. InOrder(p) => InOrder(q)
  BY <1>3 DEF InOrder
<1>8. \A t : ScansInOrder(p, t) => ScansInOrder(q, t)
  BY <1>3 DEF ScansInOrder
<1>. QED  BY <1>2, <1>3, <1>6, <1>7, <1>8

\* The plan whose commit has failed: its scans have been ended.
Unwritten(p) ==
  [p EXCEPT !.phase = "failed", !.scans = [i \in DOMAIN @ |-> [@[i] EXCEPT !.m_pDBIter = {}]]]

\* A failed commit leaves a plan of its type, with its rows and its order.
LEMMA UnwrittenKeeps ==
  ASSUME NEW p \in PlanType, p.kind # "select", p.phase = "exhausted", NEW q, q = Unwritten(p)
  PROVE  /\ q \in PlanType /\ q.kind = p.kind /\ q.versions = p.versions
         /\ ScanInv(p) => ScanInv(q)
         /\ InOrder(p) => InOrder(q)
         /\ \A t : ScansInOrder(p, t) => ScansInOrder(q, t)
<1>. DEFINE scans == [i \in DOMAIN p.scans |-> [p.scans[i] EXCEPT !.m_pDBIter = {}]]
            n     == Len(p.scans)
<1>1. p.scans \in Seq(ScanType) /\ n \in Nat /\ DOMAIN p.scans = 1..n
  BY PlanFields
<1>2. \A i \in 1..n : p.scans[i] \in ScanType
  BY <1>1
<1>. HIDE DEF n
<1>3. \A i \in 1..n : /\ scans[i] \in ScanType
                      /\ scans[i].range = p.scans[i].range /\ scans[i].filter = p.scans[i].filter
  BY <1>1, <1>2 DEF ScanType
<1>4. DOMAIN scans = 1..n
  BY <1>1
<1>5. q = [p EXCEPT !.phase = "failed", !.scans = scans]
  BY DEF Unwritten, PlanType
<1>. HIDE DEF scans
<1>6. scans = [i \in 1..n |-> scans[i]]
  BY <1>4 DEF scans
<1>7. scans \in [1..n -> ScanType]
  BY <1>3, <1>6
<1>8. scans \in Seq(ScanType) /\ Len(scans) = n
  BY <1>1, <1>7
<1>9. SameScans(p.scans, scans)
  BY <1>1, <1>3, <1>4, <1>8 DEF SameScans, n
<1>10. q = [kind |-> p.kind, where |-> p.where, m_order |-> p.m_order, scans |-> scans, values |-> p.values,
            phase |-> "failed", m_iCurrentIndex |-> p.m_iCurrentIndex, m_iRows |-> p.m_iRows,
            m_currentKey |-> p.m_currentKey, rows |-> p.rows, m_batch |-> p.m_batch, versions |-> p.versions,
            again |-> p.again]
  BY <1>5 DEF PlanType
<1>11. q \in PlanType
  BY <1>8, <1>10 DEF PlanType
<1>12. /\ q.kind = p.kind /\ q.where = p.where /\ q.m_order = p.m_order /\ q.scans = scans
       /\ q.phase = "failed" /\ q.rows = p.rows /\ q.m_batch = p.m_batch /\ q.versions = p.versions
       /\ q.again = p.again
  BY <1>10
<1>13. ScanInv(p) => ScanInv(q)
  BY <1>9, <1>12, SameScansFind DEF ScanInv, InPlace, RowsFound, ReadsOneVersion, SameScans
<1>14. InOrder(p) => InOrder(q)
  BY <1>12 DEF InOrder
<1>15. Arranged(p.m_order, p.scans) => Arranged(q.m_order, q.scans)
  BY <1>9, <1>12, SameScansFind
<1>16. \A t : ScansInOrder(p, t) => ScansInOrder(q, t)
  BY <1>12, <1>15 DEF ScansInOrder
<1>. QED  BY <1>11, <1>12, <1>13, <1>14, <1>16

\* The plan of a SELECT or a DELETE that has just been bound
LEMMA MadeKeeps ==
  ASSUME NEW kind \in {"select", "delete"}, NEW where \in Seq(Seq(Predicate)),
         NEW m_order \in {"Ascend", "Descend", "Any"}, kind = "delete" => m_order = "Any",
         NEW scans \in BuildSelectPlan(where), m_pDB \in SUBSET Key,
         NEW q, q = Plan(kind, where, m_order, scans, <<>>)
  PROVE  /\ q \in PlanType /\ m_pDB \in q.versions
         /\ ScanInv(q) /\ InOrder(q)
         /\ ProperUnion(where) => \A t : ScansInOrder(q, t)
<1>1. Planned(where, scans) /\ (ProperUnion(where) => Arranged("Ascend", scans))
  BY PlanRight
<1>2. scans \in Seq(ScanType)
  BY <1>1 DEF Planned
<1>3. <<>> \in Seq(Key)
  OBVIOUS
<1>4. q \in PlanType
  BY <1>2, <1>3 DEF Plan, PlanType
<1>5. /\ q.kind = kind /\ q.where = where /\ q.m_order = m_order /\ q.scans = scans
      /\ q.phase = "ready" /\ q.rows = <<>> /\ q.m_batch = {} /\ q.versions = {m_pDB} /\ q.again = FALSE
  BY DEF Plan
<1>6. ScanInv(q)
  <2>1. ReadsOneVersion(q)
    BY <1>1, <1>5 DEF Planned, ReadsOneVersion
  <2>2. InPlace(q) /\ RowsFound(q)
    BY <1>5 DEF InPlace, RowsFound
  <2>. QED  BY <1>1, <1>5, <2>1, <2>2 DEF ScanInv, Planned
<1>7. InOrder(q)
  BY <1>5 DEF InOrder
<1>8. ProperUnion(where) => \A t : ScansInOrder(q, t)
  BY <1>1, <1>5 DEF ScansInOrder
<1>. QED  BY <1>4, <1>5, <1>6, <1>7, <1>8

\* The plan of Begin is one that starts; that of an INSERT only begins again with
\* its first row.
Begun(p) ==
  LET p1 == [p EXCEPT !.phase = "running", !.rows = <<>>, !.again = p.phase = "failed"]
  IN  IF p1.kind = "insert" THEN [p1 EXCEPT !.m_iCurrentIndex = 1]
      ELSE BeginScan([p1 EXCEPT !.scans = ScanOrder(p1)], 1)

\* A plan other than INSERT begins with the first of its ranges.
LEMMA BegunStarts ==
  ASSUME NEW p \in PlanType, p.kind # "insert"
  PROVE  Begun(p) = BeginScan(Starts(p), 1)
<1>. DEFINE p1 == [p EXCEPT !.phase = "running", !.rows = <<>>, !.again = (p.phase = "failed")]
<1>1. p1.kind = p.kind /\ p1.m_order = p.m_order /\ p1.scans = p.scans
  BY DEF PlanType
<1>2. ScanOrder(p1) = ScanOrder(p)
  BY <1>1 DEF ScanOrder
<1>3. [p1 EXCEPT !.scans = ScanOrder(p)] = Starts(p)
  BY DEF Starts, PlanType
<1>4. Begun(p) = BeginScan([p1 EXCEPT !.scans = ScanOrder(p1)], 1)
  BY <1>1 DEF Begun
<1>. QED  BY <1>2, <1>3, <1>4

\* The plan of an INSERT begins.
LEMMA BegunInsert ==
  ASSUME NEW p \in PlanType, p.kind = "insert", NEW q, q = Begun(p)
  PROVE  q \in PlanType /\ q.kind = "insert" /\ q.versions = p.versions
<1>. DEFINE again == p.phase = "failed"
            p1 == [p EXCEPT !.phase = "running", !.rows = <<>>, !.again = again]
<1>1. again \in BOOLEAN /\ <<>> \in Seq(Key)
  OBVIOUS
<1>2. p1.kind = "insert"
  BY DEF PlanType
<1>3. q = [p1 EXCEPT !.m_iCurrentIndex = 1]
  BY <1>2 DEF Begun
<1>. HIDE DEF again
<1>4. q = [kind |-> p.kind, where |-> p.where, m_order |-> p.m_order, scans |-> p.scans, values |-> p.values,
           phase |-> "running", m_iCurrentIndex |-> 1, m_iRows |-> p.m_iRows,
           m_currentKey |-> p.m_currentKey, rows |-> <<>>, m_batch |-> p.m_batch, versions |-> p.versions,
           again |-> again]
  BY <1>3 DEF PlanType
<1>5. q \in PlanType
  BY <1>1, <1>4 DEF PlanType
<1>. QED  BY <1>4, <1>5

\* It collects the keys of its rows.
Collects(p, q) ==
  q = IF p.m_iCurrentIndex > Len(p.values) THEN [p EXCEPT !.phase = "exhausted"]
      ELSE [p EXCEPT !.m_iCurrentIndex = @ + 1,
                     !.rows = Append(@, p.values[p.m_iCurrentIndex]),
                     !.m_batch = @ \cup {p.values[p.m_iCurrentIndex]}]

\* An INSERT that collects a key remains a plan of its type.
LEMMA InsertCollects ==
  ASSUME NEW p \in PlanType, NEW q, Collects(p, q)
  PROVE  q \in PlanType /\ q.kind = p.kind /\ q.versions = p.versions
<1>1. CASE p.m_iCurrentIndex > Len(p.values)
  <2>1. q = [p EXCEPT !.phase = "exhausted"]
    BY <1>1 DEF Collects
  <2>. QED  BY <2>1 DEF PlanType
<1>2. CASE ~(p.m_iCurrentIndex > Len(p.values))
  <2>. DEFINE k    == p.values[p.m_iCurrentIndex]
              next == p.m_iCurrentIndex + 1
              rows == Append(p.rows, k)
  <2>1. /\ p.values \in Seq(Key) /\ p.rows \in Seq(Key) /\ p.m_batch \in SUBSET Key
        /\ p.m_iCurrentIndex \in Nat \ {0}
    BY DEF PlanType
  <2>2. p.m_iCurrentIndex \in 1..Len(p.values)
    BY <1>2, <2>1
  <2>3. k \in Key
    BY <2>1, <2>2
  <2>4. next \in Nat \ {0} /\ p.m_batch \cup {k} \in SUBSET Key
    BY <2>1, <2>3
  <2>5. rows \in Seq(Key)
    BY <2>1, <2>3
  <2>6. q = [p EXCEPT !.m_iCurrentIndex = next, !.rows = rows, !.m_batch = p.m_batch \cup {k}]
    BY <1>2 DEF Collects
  <2>. HIDE DEF k, next, rows
  <2>. QED  BY <2>4, <2>5, <2>6 DEF PlanType
<1>. QED  BY <1>1, <1>2

-----------------------------------------------------------------------------
(* The invariant is inductive.                                              *)

\* A plan is one of the type, or none.
LEMMA SomePlan ==
  ASSUME NEW p, p \in PlanType \cup {NoPlan}
  PROVE  /\ p = NoPlan <=> p.phase = "none"
         /\ p # NoPlan => p \in PlanType
<1>1. p \in PlanType => p.phase # "none"
  BY DEF PlanType
<1>2. NoPlan.phase = "none"
  BY DEF NoPlan
<1>. QED  BY <1>1, <1>2

\* A step that replaces the plan of one worker
LEMMA SetPlanKeeps ==
  ASSUME Typed, PlanInv, NEW w \in Worker, NEW q \in PlanType, m_pDB \in q.versions,
         q.kind # "insert" => ScanInv(q), SetPlan(w, q), UNCHANGED <<m_pDB, m_bTerminate>>
  PROVE  (Typed /\ PlanInv)'
<1>1. plan' = [plan EXCEPT ![w] = q] /\ plan \in [Worker -> PlanType \cup {NoPlan}]
  BY DEF SetPlan, Typed
<1>2. plan'[w] = q /\ \A v \in Worker : v # w => plan'[v] = plan[v]
  BY <1>1
<1>3. Typed'
  BY <1>1, <1>2 DEF Typed
<1>4. ASSUME NEW v \in Worker, plan'[v] # NoPlan, plan'[v].kind # "insert"
      PROVE  ScanInv(plan'[v])
  BY <1>2, <1>4 DEF PlanInv
<1>. QED  BY <1>3, <1>4 DEF PlanInv, ScanInv, Splits, InPlace, Scan, RowsFound, Returned, Passed,
                            ReadsOneVersion, RowsAreOf, Finds

\* The same for the order of the rows
LEMMA SetPlanInOrder ==
  ASSUME Typed, OrderInv, NEW w \in Worker, NEW q,
         q.kind # "insert" => InOrder(q) /\ ScansInOrder(q, m_bTerminate[w]),
         SetPlan(w, q), UNCHANGED m_bTerminate
  PROVE  OrderInv'
<1>1. plan' = [plan EXCEPT ![w] = q] /\ plan \in [Worker -> PlanType \cup {NoPlan}]
  BY DEF SetPlan, Typed
<1>2. plan'[w] = q /\ \A v \in Worker : v # w => plan'[v] = plan[v]
  BY <1>1
<1>3. ASSUME NEW v \in Worker, plan'[v] # NoPlan, plan'[v].kind # "insert"
      PROVE  InOrder(plan'[v]) /\ ScansInOrder(plan'[v], m_bTerminate'[v])
  BY <1>2, <1>3 DEF OrderInv
<1>. QED  BY <1>3 DEF OrderInv, InOrder, ScansInOrder, Arranged

\* The plan of a worker that has one
LEMMA OnePlan ==
  ASSUME Typed, PlanInv, NEW w \in Worker, plan[w].phase # "none"
  PROVE  /\ plan[w] \in PlanType /\ plan[w] # NoPlan /\ m_pDB \in plan[w].versions /\ m_pDB \in SUBSET Key
         /\ plan[w].kind # "insert" => ScanInv(plan[w])
<1>1. plan[w] \in PlanType \cup {NoPlan}
  BY DEF Typed
<1>2. plan[w] \in PlanType /\ plan[w] # NoPlan
  BY <1>1, SomePlan
<1>. QED  BY <1>2 DEF Typed, PlanInv

\* resolve() of a SELECT or a DELETE, whose plan has scans
LEMMA ResolveKeeps ==
  ASSUME Typed, PlanInv, NEW w \in Worker, ResolveSelect(w) \/ ResolveDelete(w)
  PROVE  /\ (Typed /\ PlanInv)'
         /\ OrderInv /\ (\A where \in Selects \cup Deletes : ProperUnion(where)) => OrderInv'
<1>1. PICK kind \in {"select", "delete"}, where \in Selects \cup Deletes, m_order \in {"Ascend", "Descend", "Any"} :
        \E scans \in BuildSelectPlan(where) :
          (kind = "delete" => m_order = "Any") /\ SetPlan(w, Plan(kind, where, m_order, scans, <<>>))
  BY DEF ResolveSelect, ResolveDelete
<1>2. PICK scans \in BuildSelectPlan(where) :
        (kind = "delete" => m_order = "Any") /\ SetPlan(w, Plan(kind, where, m_order, scans, <<>>))
  BY <1>1
<1>. DEFINE q == Plan(kind, where, m_order, scans, <<>>)
<1>3. where \in Seq(Seq(Predicate))
  BY PlanAssumption
<1>4. m_pDB \in SUBSET Key
  BY DEF Typed
<1>5. /\ q \in PlanType /\ m_pDB \in q.versions
      /\ ScanInv(q) /\ InOrder(q)
      /\ ProperUnion(where) => \A t : ScansInOrder(q, t)
  BY <1>2, <1>3, <1>4, MadeKeeps
<1>6. SetPlan(w, q) /\ UNCHANGED <<m_pDB, m_bTerminate>>
  BY <1>2 DEF ResolveSelect, ResolveDelete
<1>. HIDE DEF q
<1>7. (Typed /\ PlanInv)'
  BY <1>5, <1>6, SetPlanKeeps
<1>8. ASSUME OrderInv, \A other \in Selects \cup Deletes : ProperUnion(other)
      PROVE  OrderInv'
  BY <1>5, <1>6, <1>8, SetPlanInOrder
<1>. QED  BY <1>7, <1>8

\* resolve() of an INSERT
LEMMA ResolveInsertKeeps ==
  ASSUME Typed, PlanInv, NEW w \in Worker, ResolveInsert(w)
  PROVE  (Typed /\ PlanInv)' /\ (OrderInv => OrderInv')
<1>1. PICK values \in Inserts : SetPlan(w, Plan("insert", <<>>, "Any", <<>>, values))
  BY DEF ResolveInsert
<1>. DEFINE q == Plan("insert", <<>>, "Any", <<>>, values)
<1>2. values \in Seq(Key) /\ m_pDB \in SUBSET Key
  BY PlanAssumption DEF Typed
<1>3. <<>> \in Seq(Key) /\ <<>> \in Seq(ScanType) /\ <<>> \in Seq(Seq(Predicate))
  OBVIOUS
<1>4. q \in PlanType /\ q.kind = "insert" /\ m_pDB \in q.versions
  BY <1>2, <1>3 DEF Plan, PlanType
<1>5. SetPlan(w, q) /\ UNCHANGED <<m_pDB, m_bTerminate>>
  BY <1>1 DEF ResolveInsert
<1>. HIDE DEF q
<1>. QED  BY <1>4, <1>5, SetPlanKeeps, SetPlanInOrder

\* begin()
LEMMA StepBegins ==
  ASSUME Typed, PlanInv, NEW w \in Worker, Begin(w)
  PROVE  (Typed /\ PlanInv)' /\ (OrderInv => OrderInv')
<1>. DEFINE p == plan[w]
            q == Begun(p)
<1>1. /\ p.phase \in {"ready", "failed"} /\ UNCHANGED <<m_pDB, m_bTerminate>>
      /\ SetPlan(w, q)
  BY DEF Begin, Begun
<1>2. /\ p \in PlanType /\ p # NoPlan /\ m_pDB \in p.versions /\ m_pDB \in SUBSET Key
      /\ p.kind # "insert" => ScanInv(p)
  BY <1>1, OnePlan
<1>3. OrderInv /\ p.kind # "insert" => InOrder(p) /\ ScansInOrder(p, m_bTerminate[w])
  BY <1>2 DEF OrderInv
<1>. HIDE DEF p, q
<1>4. CASE p.kind = "insert"
  <2>1. q \in PlanType /\ q.kind = "insert" /\ q.versions = p.versions
    BY <1>2, <1>4, BegunInsert DEF q
  <2>. QED  BY <1>1, <1>2, <2>1, SetPlanKeeps, SetPlanInOrder
<1>5. CASE p.kind # "insert"
  <2>1. q = BeginScan(Starts(p), 1)
    BY <1>2, <1>5, BegunStarts DEF q
  <2>2. q \in PlanType /\ ScanInv(q)
    BY <1>1, <1>2, <1>5, <2>1, BeginKeeps
  <2>3. Starts(p) \in PlanType /\ Starts(p).versions = p.versions
    BY <1>2, StartsFields
  <2>4. q.versions = p.versions
    BY <2>1, <2>3, BegunOthers
  <2>5. ASSUME OrderInv PROVE InOrder(q) /\ ScansInOrder(q, m_bTerminate[w])
    BY <1>1, <1>2, <1>3, <1>5, <2>1, <2>5, BeginInOrder
  <2>. QED  BY <1>1, <1>2, <2>2, <2>4, <2>5, SetPlanKeeps, SetPlanInOrder
<1>. QED  BY <1>4, <1>5

\* next() throws.
LEMMA StepThrows ==
  ASSUME Typed, PlanInv, NEW w \in Worker, NextThrows(w)
  PROVE  (Typed /\ PlanInv)' /\ (OrderInv => OrderInv')
<1>. DEFINE p == plan[w]
            q == [p EXCEPT !.phase = "failed"]
<1>1. /\ p.phase = "running" /\ m_bTerminate[w] /\ UNCHANGED <<m_pDB, m_bTerminate>>
      /\ SetPlan(w, q)
  BY DEF NextThrows, Running
<1>2. /\ p \in PlanType /\ p # NoPlan /\ m_pDB \in p.versions
      /\ p.kind # "insert" => ScanInv(p)
  BY <1>1, OnePlan
<1>3. OrderInv /\ p.kind # "insert" => InOrder(p) /\ ScansInOrder(p, m_bTerminate[w])
  BY <1>2 DEF OrderInv
<1>. HIDE DEF p
<1>4. /\ q \in PlanType /\ q.kind = p.kind /\ q.versions = p.versions
      /\ ScanInv(p) => ScanInv(q)
      /\ InOrder(p) => InOrder(q)
      /\ \A t : ScansInOrder(p, t) /\ p.phase # "ready" /\ (p.kind = "select" => t) => ScansInOrder(q, t)
  BY <1>2, ThrownKeeps
<1>. HIDE DEF q
<1>5. (Typed /\ PlanInv)'
  BY <1>1, <1>2, <1>4, SetPlanKeeps
<1>6. ASSUME OrderInv PROVE OrderInv'
  <2>1. ASSUME q.kind # "insert" PROVE InOrder(q) /\ ScansInOrder(q, m_bTerminate[w])
    BY <1>1, <1>3, <1>4, <1>6, <2>1
  <2>. QED  BY <1>1, <1>6, <2>1, SetPlanInOrder
<1>. QED  BY <1>5, <1>6

\* The write fails.
LEMMA StepCommitFails ==
  ASSUME Typed, PlanInv, NEW w \in Worker, CommitFails(w)
  PROVE  (Typed /\ PlanInv)' /\ (OrderInv => OrderInv')
<1>. DEFINE p == plan[w]
            q == Unwritten(p)
<1>1. /\ p.phase = "exhausted" /\ p.kind # "select" /\ UNCHANGED <<m_pDB, m_bTerminate>>
      /\ SetPlan(w, q)
  BY DEF CommitFails, Unwritten
<1>2. /\ p \in PlanType /\ p # NoPlan /\ m_pDB \in p.versions
      /\ p.kind # "insert" => ScanInv(p)
  BY <1>1, OnePlan
<1>3. OrderInv /\ p.kind # "insert" => InOrder(p) /\ ScansInOrder(p, m_bTerminate[w])
  BY <1>2 DEF OrderInv
<1>. HIDE DEF p
<1>4. /\ q \in PlanType /\ q.kind = p.kind /\ q.versions = p.versions
      /\ ScanInv(p) => ScanInv(q)
      /\ InOrder(p) => InOrder(q)
      /\ \A t : ScansInOrder(p, t) => ScansInOrder(q, t)
  BY <1>1, <1>2, UnwrittenKeeps
<1>. HIDE DEF q
<1>5. (Typed /\ PlanInv)'
  BY <1>1, <1>2, <1>4, SetPlanKeeps
<1>6. ASSUME OrderInv PROVE OrderInv'
  <2>1. ASSUME q.kind # "insert" PROVE InOrder(q) /\ ScansInOrder(q, m_bTerminate[w])
    BY <1>3, <1>4, <1>6, <2>1
  <2>. QED  BY <1>1, <1>6, <2>1, SetPlanInOrder
<1>. QED  BY <1>5, <1>6

\* next() comes across a row.
LEMMA StepTakesRow ==
  ASSUME Typed, PlanInv, NEW w \in Worker, NextRow(w)
  PROVE  (Typed /\ PlanInv)' /\ (OrderInv => OrderInv')
<1>. DEFINE p == plan[w]
<1>1. /\ p.phase = "running" /\ p.kind # "insert" /\ ~m_bTerminate[w] /\ UNCHANGED <<m_pDB, m_bTerminate>>
      /\ p.kind \in {"select", "delete"}
      /\ \E k \in Moved(p) : ~Exceeds(p, k) /\ \E q : TakesRow(p, q, k) /\ SetPlan(w, q)
  <2>1. /\ p.phase = "running" /\ p.kind \in {"select", "delete"} /\ ~m_bTerminate[w]
        /\ UNCHANGED <<m_pDB, m_bTerminate>>
    BY DEF NextRow, Running
  <2>2. PICK k \in Moved(p) :
          /\ ~Exceeds(p, k)
          /\ SetPlan(w, [p EXCEPT !.m_currentKey = k,
                                  !.m_iRows = @ + 1,
                                  !.rows = IF Passes(p, k) THEN Append(@, k) ELSE @,
                                  !.m_batch = IF Passes(p, k) /\ p.kind = "delete" THEN @ \cup {k} ELSE @])
    BY Zenon DEF NextRow
  <2>3. \E q : TakesRow(p, q, k) /\ SetPlan(w, q)
    BY <2>2, Zenon DEF TakesRow
  <2>. QED  BY <2>1, <2>2, <2>3
<1>2. /\ p \in PlanType /\ p # NoPlan /\ m_pDB \in p.versions
      /\ ScanInv(p)
  BY <1>1, OnePlan
<1>3. OrderInv => InOrder(p) /\ ScansInOrder(p, m_bTerminate[w])
  BY <1>1, <1>2 DEF OrderInv
<1>. HIDE DEF p
<1>4. PICK k \in Moved(p) : ~Exceeds(p, k) /\ \E q : TakesRow(p, q, k) /\ SetPlan(w, q)
  BY <1>1
<1>. PICK q : TakesRow(p, q, k) /\ SetPlan(w, q)
  BY <1>4
<1>5. q \in PlanType /\ ScanInv(q)
  BY <1>1, <1>2, <1>4, RowKeeps
<1>6. /\ q.kind = p.kind /\ q.m_order = p.m_order /\ q.scans = p.scans
      /\ q.phase = p.phase /\ q.versions = p.versions /\ q.again = p.again
  BY <1>2, <1>4, OtherFields
<1>7. (Typed /\ PlanInv)'
  BY <1>1, <1>2, <1>4, <1>5, <1>6, SetPlanKeeps
<1>8. ASSUME OrderInv PROVE OrderInv'
  <2>1. p.kind = "select" => ~p.again
    BY <1>1, <1>3, <1>8 DEF ScansInOrder
  <2>2. p.kind = "delete" => p.m_order # "Descend"
    BY <1>2 DEF ScanInv
  <2>3. Arranged(p.m_order, p.scans)
    BY <1>1, <1>3, <1>8, <2>1, <2>2 DEF ScansInOrder
  <2>4. InOrder(q)
    BY <1>1, <1>2, <1>3, <1>4, <1>8, <2>3, RowInOrder
  <2>5. ScansInOrder(q, m_bTerminate[w])
    BY <1>1, <1>6, <2>1, <2>3 DEF ScansInOrder
  <2>. QED  BY <1>1, <1>4, <1>8, <2>4, <2>5, SetPlanInOrder
<1>. QED  BY <1>7, <1>8

\* A range has no further row.
LEMMA StepRangeDone ==
  ASSUME Typed, PlanInv, NEW w \in Worker, RangeDone(w)
  PROVE  (Typed /\ PlanInv)' /\ (OrderInv => OrderInv')
<1>. DEFINE p == plan[w]
            q == GoesOn(p)
<1>1. /\ p.phase = "running" /\ p.kind # "insert" /\ UNCHANGED <<m_pDB, m_bTerminate>>
      /\ \A k \in Moved(p) : Exceeds(p, k)
      /\ SetPlan(w, q)
  BY DEF RangeDone, Running, GoesOn
<1>2. /\ p \in PlanType /\ p # NoPlan /\ m_pDB \in p.versions /\ m_pDB \in SUBSET Key
      /\ ScanInv(p)
  BY <1>1, OnePlan
<1>3. OrderInv => InOrder(p) /\ ScansInOrder(p, m_bTerminate[w])
  BY <1>1, <1>2 DEF OrderInv
<1>. HIDE DEF p
<1>4. q \in PlanType /\ ScanInv(q)
  BY <1>1, <1>2, GoesOnKeeps
<1>5. /\ q.kind = p.kind /\ q.m_order = p.m_order
      /\ q.phase \in {"running", "exhausted"} /\ q.rows = p.rows
      /\ q.versions = p.versions /\ q.again = p.again
  BY <1>1, <1>2, GoesOnOthers
<1>6. SameScans(p.scans, q.scans)
  BY <1>1, <1>2, GoesOnFields DEF ScanInv
<1>. HIDE DEF q
<1>7. (Typed /\ PlanInv)'
  BY <1>1, <1>2, <1>4, <1>5, SetPlanKeeps
<1>8. ASSUME OrderInv PROVE OrderInv'
  <2>1. InOrder(q)
    BY <1>3, <1>5, <1>8 DEF InOrder
  <2>2. Arranged(p.m_order, p.scans) => Arranged(q.m_order, q.scans)
    BY <1>5, <1>6, SameScansFind
  <2>3. ScansInOrder(q, m_bTerminate[w])
    BY <1>1, <1>3, <1>5, <1>8, <2>2 DEF ScansInOrder
  <2>. QED  BY <1>1, <1>8, <2>1, <2>3, SetPlanInOrder
<1>. QED  BY <1>7, <1>8

\* A row of an INSERT
LEMMA StepInsertNext ==
  ASSUME Typed, PlanInv, NEW w \in Worker, InsertNext(w)
  PROVE  (Typed /\ PlanInv)' /\ (OrderInv => OrderInv')
<1>. DEFINE p == plan[w]
<1>1. /\ p.phase = "running" /\ p.kind = "insert" /\ UNCHANGED <<m_pDB, m_bTerminate>>
      /\ \E q : Collects(p, q) /\ SetPlan(w, q)
  BY DEF InsertNext, Running, Collects
<1>2. p \in PlanType /\ m_pDB \in p.versions
  BY <1>1, OnePlan
<1>. HIDE DEF p
<1>3. PICK q : Collects(p, q) /\ SetPlan(w, q)
  BY <1>1
<1>4. q \in PlanType /\ q.kind = "insert" /\ q.versions = p.versions
  BY <1>1, <1>2, <1>3, InsertCollects
<1>. QED  BY <1>1, <1>2, <1>3, <1>4, SetPlanKeeps, SetPlanInOrder

\* end(): every other plan has seen the new version of the table.
LEMMA StepEnds ==
  ASSUME Typed, PlanInv, NEW w \in Worker, End(w)
  PROVE  (Typed /\ PlanInv)' /\ (OrderInv => OrderInv')
<1>. DEFINE db == m_pDB'
            others(v) == [plan[v] EXCEPT !.versions = @ \cup {db}]
<1>1. /\ plan[w].phase = "exhausted" /\ m_bTerminate' = m_bTerminate
      /\ db = Committed(plan[w])
      /\ plan' = [v \in Worker |-> IF v = w THEN NoPlan
                                   ELSE IF plan[v].phase = "none" THEN plan[v] ELSE others(v)]
  BY DEF End
<1>2. plan[w] \in PlanType /\ m_pDB \in SUBSET Key
  BY <1>1, OnePlan
<1>3. db \in SUBSET Key
  BY <1>1, <1>2, PlanFields DEF Committed
<1>4. ASSUME NEW v \in Worker, plan[v] # NoPlan
      PROVE  /\ plan[v] \in PlanType /\ plan[v].phase # "none"
             /\ others(v) \in PlanType /\ others(v).kind = plan[v].kind /\ db \in others(v).versions
             /\ ScanInv(plan[v]) => ScanInv(others(v))
             /\ InOrder(plan[v]) => InOrder(others(v))
             /\ \A t : ScansInOrder(plan[v], t) => ScansInOrder(others(v), t)
  <2>1. plan[v] \in PlanType /\ plan[v].phase # "none"
    BY <1>4, SomePlan DEF Typed
  <2>. QED  BY <1>3, <2>1, VersionKeeps
<1>5. ASSUME NEW v \in Worker
      PROVE  plan'[v] = NoPlan \/ (plan[v] # NoPlan /\ plan'[v] = others(v))
  <2>1. plan'[v] = IF v = w THEN NoPlan ELSE IF plan[v].phase = "none" THEN plan[v] ELSE others(v)
    BY <1>1
  <2>2. plan[v] = NoPlan <=> plan[v].phase = "none"
    BY SomePlan DEF Typed
  <2>. QED  BY <2>1, <2>2
<1>6. plan' \in [Worker -> PlanType \cup {NoPlan}]
  <2>1. \A v \in Worker : plan'[v] \in PlanType \cup {NoPlan}
    BY <1>4, <1>5
  <2>2. plan' = [v \in Worker |-> plan'[v]]
    BY <1>1
  <2>. QED  BY <2>1, <2>2
<1>7. Typed'
  <2>1. \A v \in Worker : plan'[v] # NoPlan => db \in plan'[v].versions
    BY <1>4, <1>5
  <2>. QED  BY <1>1, <1>3, <1>6, <2>1 DEF Typed
<1>. HIDE DEF others
<1>8. \A v \in Worker : plan'[v] # NoPlan /\ plan'[v].kind # "insert" => ScanInv(plan'[v])
  BY <1>4, <1>5 DEF PlanInv
<1>9. OrderInv => \A v \in Worker : plan'[v] # NoPlan /\ plan'[v].kind # "insert" =>
                    InOrder(plan'[v]) /\ ScansInOrder(plan'[v], m_bTerminate[v])
  BY <1>4, <1>5 DEF OrderInv
<1>10. PlanInv'
  BY <1>8 DEF PlanInv, ScanInv, Splits, InPlace, Scan, RowsFound, Returned, Passed,
              ReadsOneVersion, RowsAreOf, Finds
<1>11. OrderInv => OrderInv'
  BY <1>1, <1>9 DEF OrderInv, InOrder, ScansInOrder, Arranged
<1>. QED  BY <1>7, <1>10, <1>11

\* SessionInfo::cancel
LEMMA StepCancels ==
  ASSUME Typed, PlanInv, NEW w \in Worker, Cancel(w)
  PROVE  (Typed /\ PlanInv)' /\ (OrderInv => OrderInv')
<1>1. /\ m_bTerminate' = [m_bTerminate EXCEPT ![w] = TRUE]
      /\ m_pDB' = m_pDB /\ plan' = plan
  BY DEF Cancel
<1>2. Typed'
  BY <1>1 DEF Typed
<1>. \A v \in Worker : plan'[v] # NoPlan /\ plan'[v].kind # "insert" => ScanInv(plan'[v])
  BY <1>1 DEF PlanInv
<1>3. PlanInv'
  BY DEF PlanInv, ScanInv, Splits, InPlace, Scan, RowsFound, Returned, Passed,
         ReadsOneVersion, RowsAreOf, Finds
<1>4. ASSUME OrderInv, NEW v \in Worker, plan[v] # NoPlan, plan[v].kind # "insert"
      PROVE  InOrder(plan[v]) /\ ScansInOrder(plan[v], m_bTerminate'[v])
  <2>1. InOrder(plan[v]) /\ ScansInOrder(plan[v], m_bTerminate[v])
    BY <1>4 DEF OrderInv
  <2>2. m_bTerminate[v] => m_bTerminate'[v]
    BY <1>1 DEF Typed
  <2>. QED  BY <2>1, <2>2 DEF ScansInOrder
<1>5. OrderInv => OrderInv'
  BY <1>1, <1>4 DEF OrderInv, InOrder, ScansInOrder, Arranged
<1>. QED  BY <1>2, <1>3, <1>5

\* No union has a contradictory alternative.
Ordered == \A where \in Selects \cup Deletes : ProperUnion(where)

\* Every step keeps the invariants; that of the order only if no union has a
\* contradictory alternative.
LEMMA NextKeeps ==
  ASSUME Typed, PlanInv, [Next]_vars
  PROVE  (Typed /\ PlanInv)' /\ (Ordered /\ OrderInv => OrderInv')
<1>1. CASE UNCHANGED vars
  <2>1. m_pDB' = m_pDB /\ plan' = plan /\ m_bTerminate' = m_bTerminate
    BY <1>1 DEF vars
  <2>2. Typed'
    BY <2>1 DEF Typed
  <2>. \A v \in Worker : plan'[v] # NoPlan /\ plan'[v].kind # "insert" => ScanInv(plan'[v])
    BY <2>1 DEF PlanInv
  <2>3. PlanInv'
    BY DEF PlanInv, ScanInv, Splits, InPlace, Scan, RowsFound, Returned, Passed,
           ReadsOneVersion, RowsAreOf, Finds
  <2>4. OrderInv => OrderInv'
    BY <2>1 DEF OrderInv, InOrder, ScansInOrder, Arranged
  <2>. QED  BY <2>2, <2>3, <2>4
<1>2. ASSUME NEW w \in Worker, ResolveSelect(w) \/ ResolveDelete(w)
      PROVE  (Typed /\ PlanInv)' /\ (Ordered /\ OrderInv => OrderInv')
  BY <1>2, ResolveKeeps DEF Ordered
<1>3. ASSUME NEW w \in Worker, ResolveInsert(w) \/ Begin(w) \/ Step(w) \/ Cancel(w)
      PROVE  (Typed /\ PlanInv)' /\ (OrderInv => OrderInv')
  <2>1. CASE ResolveInsert(w)
    BY <2>1, ResolveInsertKeeps
  <2>2. CASE Begin(w)
    BY <2>2, StepBegins
  <2>3. CASE NextThrows(w)
    BY <2>3, StepThrows
  <2>4. CASE NextRow(w)
    BY <2>4, StepTakesRow
  <2>5. CASE RangeDone(w)
    BY <2>5, StepRangeDone
  <2>6. CASE InsertNext(w)
    BY <2>6, StepInsertNext
  <2>7. CASE End(w)
    BY <2>7, StepEnds
  <2>8. CASE CommitFails(w)
    BY <2>8, StepCommitFails
  <2>9. CASE Cancel(w)
    BY <2>9, StepCancels
  <2>. QED  BY <1>3, <2>1, <2>2, <2>3, <2>4, <2>5, <2>6, <2>7, <2>8, <2>9 DEF Step
<1>. QED  BY <1>1, <1>2, <1>3 DEF Next

\* Init
LEMMA InitHolds ==
  ASSUME Init
  PROVE  Typed /\ PlanInv /\ OrderInv
<1>1. m_pDB \in SUBSET Key
  BY PlanAssumption DEF Init
<1>2. \A w \in Worker : plan[w] = NoPlan
  BY DEF Init
<1>3. Typed
  BY <1>1 DEF Init, Typed
<1>. QED  BY <1>2, <1>3 DEF PlanInv, OrderInv

-----------------------------------------------------------------------------
(* Theorems                                                                 *)

\* The inductive invariant: every SELECT and DELETE that is being executed has
\* scans that return the rows of its predicate, has come past the ranges before
\* the one it reads, and has read one version of the table unless it is repeated.
THEOREM PlanTheorem == Spec => [](Typed /\ PlanInv)
<1>1. Init => Typed /\ PlanInv
  BY InitHolds
<1>2. Typed /\ PlanInv /\ [Next]_vars => (Typed /\ PlanInv)'
  BY NextKeeps
<1>. QED  BY <1>1, <1>2, PTL DEF Spec

\* The rows of a plan that is exhausted
LEMMA ExhaustedRows ==
  ASSUME Typed, PlanInv, NEW w \in Worker, plan[w].phase = "exhausted", plan[w].kind # "insert", ~plan[w].again
  PROVE  \E v \in plan[w].versions :
           /\ ToSet(plan[w].rows) = Matching(plan[w].where, v)
           /\ plan[w].kind = "delete" => plan[w].m_batch = ToSet(plan[w].rows)
<1>. DEFINE p == plan[w]
<1>1. p \in PlanType /\ ScanInv(p)
  BY OnePlan
<1>. HIDE DEF p
<1>. SUFFICES ASSUME p.phase = "exhausted", ~p.again
     PROVE \E v \in p.versions : /\ ToSet(p.rows) = Matching(p.where, v)
                                 /\ p.kind = "delete" => p.m_batch = ToSet(p.rows)
  BY DEF p
<1>2. PICK v \in p.versions : RowsAreOf(p, v)
  BY <1>1 DEF ScanInv, ReadsOneVersion
<1>3. v \in SUBSET Key
  BY <1>1, PlanFields
<1>4. \A k \in v : Returned(p, k) <=> Matches(p.where, k)
  BY <1>1, <1>3 DEF Returned, ScanInv, Splits
<1>5. /\ ToSet(p.rows) = {k \in v : Returned(p, k)}
      /\ p.kind = "delete" => p.m_batch = ToSet(p.rows)
  BY <1>2 DEF RowsAreOf
<1>6. ToSet(p.rows) = Matching(p.where, v)
  BY <1>4, <1>5 DEF Matching
<1>. QED  BY <1>5, <1>6

\* Whatever the predicates and however sessions commit in between, a complete
\* execution has returned exactly the rows that satisfy its predicate in one
\* version of the table (LevelDBPlanBuilder, LevelDBScanPlan, UnionAllPlan).
THEOREM VersionTheorem == Spec => []RowsOfOneVersion
<1>1. Typed /\ PlanInv => RowsOfOneVersion
  BY ExhaustedRows DEF RowsOfOneVersion
<1>. QED  BY <1>1, PlanTheorem, PTL

\* Rows come out in the order of the keys, in the direction asked for and none
\* twice, if no alternative of a union contradicts itself: the ranges that
\* SimpleRangePredicateInfo leaves of a contradiction are not in order, and
\* buildUnionAll then accepts ranges that overlap.
THEOREM OrderTheorem ==
  ASSUME \A where \in Selects \cup Deletes : ProperUnion(where)
  PROVE  Spec => []RowsInOrder
<1>1. Ordered
  BY DEF Ordered
<1>2. Init => Typed /\ PlanInv /\ OrderInv
  BY InitHolds
<1>3. Typed /\ PlanInv /\ OrderInv /\ [Next]_vars => OrderInv'
  BY <1>1, NextKeeps
<1>4. Typed /\ PlanInv /\ OrderInv => RowsInOrder
  <2>. SUFFICES ASSUME Typed, PlanInv, OrderInv, NEW w \in Worker, plan[w].phase # "none", plan[w].kind # "insert"
                PROVE  InOrder(plan[w])
    BY DEF RowsInOrder, InOrder
  <2>. QED  BY OnePlan DEF OrderInv
<1>. QED  BY <1>2, <1>3, <1>4, PlanTheorem, PTL DEF Spec

\* A step of worker v leaves the plans of the others, but for end().
LEMMA OtherPlans ==
  ASSUME Typed, NEW v \in Worker, NEW w \in Worker, v # w,
         ResolveSelect(v) \/ ResolveDelete(v) \/ ResolveInsert(v) \/ Begin(v) \/ Step(v) \/ Cancel(v), ~End(v)
  PROVE  plan'[w] = plan[w]
<1>1. plan \in [Worker -> PlanType \cup {NoPlan}]
  BY DEF Typed
<1>2. (\E q : SetPlan(v, q)) => plan'[w] = plan[w]
  BY <1>1 DEF SetPlan
<1>3. plan' = plan \/ \E q : SetPlan(v, q)
  BY Zenon DEF ResolveSelect, ResolveDelete, ResolveInsert, Begin, Step, NextThrows, NextRow, RangeDone,
               InsertNext, CommitFails, Cancel
<1>. QED  BY <1>2, <1>3

\* Only end() ends a plan that is exhausted.
LEMMA OnlyEnds ==
  ASSUME Typed, PlanInv, [Next]_vars, NEW w \in Worker, plan[w].phase = "exhausted", plan'[w] = NoPlan
  PROVE  End(w)
<1>1. plan \in [Worker -> PlanType \cup {NoPlan}] /\ plan[w] \in PlanType /\ plan[w] # NoPlan
  BY OnePlan DEF Typed
<1>2. PICK v \in Worker : ResolveSelect(v) \/ ResolveDelete(v) \/ ResolveInsert(v) \/ Begin(v) \/ Step(v) \/ Cancel(v)
  BY <1>1 DEF Next, vars
<1>3. CASE v # w
  <2>1. End(v)
    BY <1>1, <1>2, <1>3, OtherPlans
  <2>2. plan'[w] = [plan[w] EXCEPT !.versions = @ \cup {m_pDB'}]
    BY <1>3, <2>1 DEF End
  <2>3. plan'[w].phase = "exhausted"
    BY <1>1, <2>2 DEF PlanType
  <2>. QED  BY <2>3 DEF NoPlan
<1>4. CASE v = w
  <2>. plan[w].phase \notin {"none", "failed"} /\ plan[w].phase \notin {"ready", "failed"}
       /\ plan[w].phase # "running"
    OBVIOUS
  <2>1. CommitFails(w) \/ Cancel(w) \/ End(w)
    <3>1. ~ResolveSelect(w) /\ ~ResolveDelete(w) /\ ~ResolveInsert(w)
      BY Zenon DEF ResolveSelect, ResolveDelete, ResolveInsert, Resting
    <3>2. ~Begin(w)
      BY Zenon DEF Begin
    <3>3. ~NextThrows(w) /\ ~NextRow(w) /\ ~RangeDone(w) /\ ~InsertNext(w)
      BY Zenon DEF NextThrows, NextRow, RangeDone, InsertNext, Running
    <3>. QED  BY <1>2, <1>4, <3>1, <3>2, <3>3 DEF Step
  <2>2. ASSUME CommitFails(w) PROVE FALSE
    <3>1. SetPlan(w, Unwritten(plan[w])) /\ plan[w].kind # "select"
      BY <2>2 DEF CommitFails, Unwritten
    <3>2. plan'[w] = Unwritten(plan[w])
      BY <1>1, <3>1 DEF SetPlan
    <3>3. plan'[w] \in PlanType
      BY <1>1, <3>1, <3>2, UnwrittenKeeps
    <3>. QED  BY <3>3 DEF NoPlan, PlanType
  <2>3. ASSUME Cancel(w) PROVE FALSE
    BY <1>1, <2>3 DEF Cancel
  <2>. QED  BY <2>1, <2>2, <2>3
<1>. QED  BY <1>3, <1>4

\* A DELETE removes only rows that satisfy its predicate; the first time it
\* leaves none of those of the version that it has read
\* (LevelDBDeletePlan::next and end).
THEOREM DeleteTheorem == Spec => DeleteExact
<1>. DEFINE Exact(w) ==
       plan[w].phase = "exhausted" /\ plan[w].kind = "delete" /\ plan'[w] = NoPlan =>
         /\ \A k \in m_pDB \ m_pDB' : Matches(plan[w].where, k)
         /\ ~plan[w].again =>
              \E v \in plan[w].versions : Matching(plan[w].where, v) \cap m_pDB' = {}
<1>1. ASSUME Typed, PlanInv, [Next]_vars, NEW w \in Worker PROVE Exact(w)
  <2>. SUFFICES ASSUME plan[w].phase = "exhausted", plan[w].kind = "delete", plan'[w] = NoPlan
                PROVE  /\ \A k \in m_pDB \ m_pDB' : Matches(plan[w].where, k)
                       /\ ~plan[w].again =>
                            \E v \in plan[w].versions : Matching(plan[w].where, v) \cap m_pDB' = {}
    OBVIOUS
  <2>1. m_pDB' = m_pDB \ plan[w].m_batch
    BY <1>1, OnlyEnds DEF End, Committed
  <2>2. \A k \in plan[w].m_batch : Matches(plan[w].where, k)
    BY <1>1, OnePlan DEF ScanInv
  <2>3. ASSUME ~plan[w].again
        PROVE  \E v \in plan[w].versions : Matching(plan[w].where, v) \cap m_pDB' = {}
    <3>1. PICK v \in plan[w].versions : plan[w].m_batch = Matching(plan[w].where, v)
      BY <1>1, <2>3, ExhaustedRows
    <3>. QED  BY <2>1, <3>1
  <2>. QED  BY <2>1, <2>2, <2>3
<1>2. Typed /\ PlanInv /\ [Next]_vars => [\A w \in Worker : Exact(w)]_vars
  BY <1>1
<1>. QED  BY <1>2, PlanTheorem, PTL DEF Spec, DeleteExact
=============================================================================
