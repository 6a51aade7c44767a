----------------------------- MODULE FoldLemmas ------------------------------
(***************************************************************************)
(* Induction on natural numbers, what it shows of the folds of the         *)
(* community modules (a loop over a sequence of any length), and orders.   *)
(***************************************************************************)
EXTENDS Integers, Sequences, SequencesExt, FiniteSetTheorems, WellFoundedInduction, TLAPS

\* Every nonempty set of naturals has a least element.
LEMMA LeastNatural ==
  ASSUME NEW T \in SUBSET Nat, T # {}
  PROVE  \E x \in T : \A y \in T : x <= y
<1> DEFINE R == {ss \in Nat \X Nat : ss[1] < ss[2]}
<1>1. IsWellFoundedOn(R, Nat)
  BY NatLessThanWellFounded DEF OpToRel
<1>2. PICK x \in T : \A y \in T : ~ (<<y, x>> \in R)
  <2> HIDE DEF R
  <2> QED BY <1>1, WFMin
<1>3. ASSUME NEW y \in T PROVE x <= y
  <2>1. <<y, x>> \notin R
    BY <1>2
  <2>2. <<y, x>> \in Nat \X Nat
    OBVIOUS
  <2>3. ~ (y < x)
    BY <2>1, <2>2
  <2> QED BY <2>3
<1> QED BY <1>3

\* A set that contains 0 and with each natural number the next one contains them
\* all.
LEMMA Induction ==
  ASSUME NEW T, 0 \in T, \A m \in Nat : m \in T => m + 1 \in T
  PROVE  \A n \in Nat : n \in T
<1>. SUFFICES ASSUME NEW n \in Nat, n \notin T
              PROVE  FALSE
  OBVIOUS
<1>1. PICK b \in Nat \ T : \A y \in Nat \ T : b <= y
  BY LeastNatural
<1>2. b # 0 /\ b - 1 \in Nat /\ b - 1 \in T
  BY <1>1
<1>3. (b - 1) + 1 \in T
  BY <1>2
<1>. QED  BY <1>1, <1>3

\* A function that starts in a set and does not leave it from one index to the next
\* has its values there.
LEMMA StaysIn ==
  ASSUME NEW n \in Nat, NEW A, NEW f, f[0] \in A,
         \A m \in 0..(n - 1) : f[m] \in A => f[m + 1] \in A
  PROVE  \A m \in 0..n : f[m] \in A
<1>. DEFINE T == {m \in Nat : m <= n => f[m] \in A}
<1>1. 0 \in T
  OBVIOUS
<1>2. ASSUME NEW m \in Nat, m \in T PROVE m + 1 \in T
  <2>. SUFFICES ASSUME m + 1 <= n PROVE f[m + 1] \in A
    OBVIOUS
  <2>1. m \in 0..(n - 1) /\ f[m] \in A
    BY <1>2
  <2>. QED  BY <2>1
<1>. HIDE DEF T
<1>3. \A m \in Nat : m \in T
  BY <1>1, <1>2, Induction
<1>. QED  BY <1>3 DEF T

\* A nonempty set of indexes has a largest one.
LEMMA LargestIndex ==
  ASSUME NEW n \in Nat, NEW S \in SUBSET (1..n), S # {}
  PROVE  Max(S) \in S /\ \A k \in S : k <= Max(S)
<1>. DEFINE T == {m \in Nat : \A k \in S : k <= m}
<1>1. n \in T
  OBVIOUS
<1>2. PICK m \in T : \A y \in T : m <= y
  BY <1>1, LeastNatural
<1>3. m \in S
  <2>. SUFFICES ASSUME m \notin S PROVE FALSE
    OBVIOUS
  <2>1. PICK k \in S : TRUE
    OBVIOUS
  <2>2. k \in Nat /\ k >= 1 /\ k <= m
    BY <1>2, <2>1
  <2>3. \A j \in S : j <= m /\ j # m /\ j \in Nat
    BY <1>2
  <2>4. m - 1 \in T
    BY <2>2, <2>3, <1>2
  <2>. QED  BY <1>2, <2>4
<1>4. \E x \in S : \A y \in S : x >= y
  BY <1>2, <1>3
<1>. QED  BY <1>4 DEF Max

\* The last of the indexes up to m + 1
LEMMA LastIndex ==
  ASSUME NEW m \in Nat
  PROVE  Max(1..(m + 1)) = m + 1 /\ (1..(m + 1)) \ {m + 1} = 1..m /\ 1..(m + 1) # {}
<1>1. Max(1..(m + 1)) \in 1..(m + 1) /\ \A k \in 1..(m + 1) : k <= Max(1..(m + 1))
  <2>1. m + 1 \in Nat /\ 1..(m + 1) \in SUBSET (1..(m + 1)) /\ m + 1 \in 1..(m + 1)
    OBVIOUS
  <2>. QED  BY <2>1, LargestIndex
<1>2. m + 1 \in 1..(m + 1)
  OBVIOUS
<1>3. m + 1 <= Max(1..(m + 1))
  BY <1>1, <1>2
<1>. HIDE DEF Max
<1>. QED  BY <1>1, <1>3

-----------------------------------------------------------------------------
(* A fold from the left is by definition a recursive function on sets of   *)
(* indexes, which takes the last index of a set last.                      *)

Folds(step, base, iter, D) ==
  iter = [s \in D |-> IF s = {} THEN base ELSE step[<<iter[s \ {Max(s)}], Max(s)>>]]

\* Such a function exists for every number of indexes, and it never leaves a set
\* that the step does not leave.
LEMMA FoldExists ==
  ASSUME NEW A, NEW n \in Nat, NEW base \in A, NEW step \in [A \X (1..n) -> A]
  PROVE  \E iter : Folds(step, base, iter, SUBSET (1..n)) /\ \A s \in SUBSET (1..n) : iter[s] \in A
<1>. DEFINE Up(m) == {s \in SUBSET (1..n) : \A k \in s : k <= m}
            Good == {m \in Nat : \E iter : Folds(step, base, iter, Up(m)) /\ \A s \in Up(m) : iter[s] \in A}
<1>1. 0 \in Good
  <2>1. \A s \in Up(0) : s = {}
    OBVIOUS
  <2>. HIDE DEF Up
  <2>2. Folds(step, base, [s \in Up(0) |-> base], Up(0))
    BY <2>1 DEF Folds
  <2>. QED BY <2>2
<1>2. ASSUME NEW m \in Nat, m \in Good PROVE m + 1 \in Good
  <2>1. PICK iter : Folds(step, base, iter, Up(m)) /\ \A s \in Up(m) : iter[s] \in A
    BY <1>2
  <2>. DEFINE next == [s \in Up(m + 1) |-> IF s = {} THEN base ELSE step[<<iter[s \ {Max(s)}], Max(s)>>]]
  <2>2. \A s \in Up(m) : s \in Up(m + 1)
    OBVIOUS
  <2>3. ASSUME NEW s \in Up(m + 1), s # {} PROVE s \ {Max(s)} \in Up(m) /\ Max(s) \in 1..n
    <3>1. s \in SUBSET (1..n) /\ \A k \in s : k <= m + 1
      OBVIOUS
    <3>2. Max(s) \in s /\ \A k \in s : k <= Max(s)
      BY <2>3, <3>1, LargestIndex
    <3>3. ASSUME NEW k \in s \ {Max(s)} PROVE k <= m
      <4>1. k \in s /\ k # Max(s)
        OBVIOUS
      <4>. HIDE DEF Up
      <4>2. k \in 1..n /\ Max(s) \in 1..n
        BY <3>1, <3>2, <4>1
      <4>3. k <= Max(s) /\ Max(s) <= m + 1
        BY <3>1, <3>2, <4>1
      <4>. QED  BY <4>1, <4>2, <4>3
    <3>. QED  BY <3>1, <3>2, <3>3
  <2>. HIDE DEF Up
  <2>4. \A s \in Up(m) : next[s] = iter[s]
    BY <2>1, <2>2 DEF Folds
  <2>5. Folds(step, base, next, Up(m + 1))
    BY <2>3, <2>4 DEF Folds
  <2>6. \A s \in Up(m + 1) : next[s] \in A
    BY <2>1, <2>3
  <2>. HIDE DEF next
  <2>7. m + 1 \in Nat /\ \E other : Folds(step, base, other, Up(m + 1)) /\ \A s \in Up(m + 1) : other[s] \in A
    BY <2>5, <2>6
  <2>. QED  BY <2>7
<1>3. Up(n) = SUBSET (1..n)
  OBVIOUS
<1>. HIDE DEF Good
<1>4. n \in Good
  BY <1>1, <1>2, Induction
<1>. QED  BY <1>3, <1>4 DEF Good

\* Its value for the first m + 1 indexes is one step from that for the first m.
LEMMA FoldStep ==
  ASSUME NEW n \in Nat, NEW step, NEW base, NEW iter, Folds(step, base, iter, SUBSET (1..n))
  PROVE  /\ iter[1..0] = base
         /\ \A m \in 0..(n - 1) : iter[1..(m + 1)] = step[<<iter[1..m], m + 1>>]
<1>1. iter[1..0] = base
  <2>1. 1..0 = {}
    OBVIOUS
  <2>. QED  BY <2>1 DEF Folds
<1>2. ASSUME NEW m \in 0..(n - 1)
      PROVE  iter[1..(m + 1)] = step[<<iter[1..m], m + 1>>]
  <2>1. 1..(m + 1) \in SUBSET (1..n) /\ m \in Nat
    OBVIOUS
  <2>2. Max(1..(m + 1)) = m + 1 /\ (1..(m + 1)) \ {m + 1} = 1..m /\ 1..(m + 1) # {}
    BY <2>1, LastIndex
  <2>3. iter[1..(m + 1)] = step[<<iter[(1..(m + 1)) \ {Max(1..(m + 1))}], Max(1..(m + 1))>>]
    BY <2>1, <2>2 DEF Folds
  <2>. QED  BY <2>2, <2>3
<1>. QED  BY <1>1, <1>2

\* The sum of a sequence: what is left when it is added up one by one
LEMMA Sums ==
  ASSUME NEW seq \in Seq(Nat), NEW base \in Nat
  PROVE  \E f \in [0..Len(seq) -> Nat] :
           /\ f[0] = base /\ f[Len(seq)] = FoldLeft(+, base, seq)
           /\ \A m \in 0..(Len(seq) - 1) : f[m + 1] = f[m] + seq[m + 1]
<1>. DEFINE n    == Len(seq)
            step == [x \in Nat \X (1..n) |-> x[1] + seq[x[2]]]
            fold == CHOOSE iter : iter = [s \in SUBSET (1..n) |->
                                            IF s = {} THEN base ELSE iter[s \ {Max(s)}] + seq[Max(s)]]
<1>1. n \in Nat /\ DOMAIN seq = 1..n /\ \A i \in 1..n : seq[i] \in Nat
  OBVIOUS
<1>. HIDE DEF n
<1>2. step \in [Nat \X (1..n) -> Nat]
  BY <1>1
<1>3. PICK iter : Folds(step, base, iter, SUBSET (1..n)) /\ \A s \in SUBSET (1..n) : iter[s] \in Nat
  BY <1>1, <1>2, FoldExists
<1>4. \A s \in SUBSET (1..n) : s # {} => Max(s) \in 1..n /\ s \ {Max(s)} \in SUBSET (1..n)
  BY <1>1, LargestIndex
<1>5. iter = [s \in SUBSET (1..n) |-> IF s = {} THEN base ELSE iter[s \ {Max(s)}] + seq[Max(s)]]
  BY <1>1, <1>3, <1>4 DEF Folds
<1>6. fold = [s \in SUBSET (1..n) |-> IF s = {} THEN base ELSE fold[s \ {Max(s)}] + seq[Max(s)]]
  BY <1>5
<1>7. FoldLeft(+, base, seq) = fold[1..n]
  BY <1>1 DEF FoldLeft, MapThenFoldSet
<1>. HIDE DEF fold, step
<1>. DEFINE f == [m \in 0..n |-> fold[1..m]]
<1>8. f[0] = base
  <2>1. 1..0 = {} /\ 0 \in 0..n
    BY <1>1
  <2>. QED  BY <1>6, <2>1
<1>9. ASSUME NEW m \in 0..(n - 1)
      PROVE  f[m + 1] = f[m] + seq[m + 1]
  <2>1. 1..(m + 1) \in SUBSET (1..n) /\ m \in Nat /\ m \in 0..n /\ m + 1 \in 0..n
    BY <1>1
  <2>2. Max(1..(m + 1)) = m + 1 /\ (1..(m + 1)) \ {m + 1} = 1..m /\ 1..(m + 1) # {}
    BY <2>1, LastIndex
  <2>3. fold[1..(m + 1)] = fold[(1..(m + 1)) \ {Max(1..(m + 1))}] + seq[Max(1..(m + 1))]
    BY <1>6, <2>1, <2>2
  <2>. QED  BY <2>1, <2>2, <2>3
<1>0. f = [m \in 0..n |-> f[m]] /\ f[n] = fold[1..n]
  BY <1>1
<1>. HIDE DEF f
<1>10. \A m \in Nat : m \in {i \in Nat : i <= n => f[i] \in Nat}
  <2>. DEFINE T == {i \in Nat : i <= n => f[i] \in Nat}
  <2>1. 0 \in T
    BY <1>8
  <2>2. ASSUME NEW m \in Nat, m \in T PROVE m + 1 \in T
    <3>1. m + 1 <= n => m \in 0..(n - 1) /\ m + 1 \in 1..n
      BY <1>1
    <3>. QED  BY <1>1, <1>9, <2>2, <3>1
  <2>. HIDE DEF T
  <2>3. \A m \in Nat : m \in T
    BY <2>1, <2>2, Induction
  <2>. QED  BY <2>3 DEF T
<1>11. f \in [0..n -> Nat]
  <2>1. \A m \in 0..n : m \in Nat /\ m <= n
    BY <1>1
  <2>2. \A m \in 0..n : f[m] \in Nat
    BY <1>10, <2>1
  <2>. QED  BY <1>0, <2>2
<1>12. f[n] = FoldLeft(+, base, seq)
  BY <1>0, <1>7
<1>. QED  BY <1>8, <1>9, <1>11, <1>12 DEF n

\* A sum of naturals grows from its base.
LEMMA SumGrows ==
  ASSUME NEW seq \in Seq(Nat), NEW base \in Nat
  PROVE  /\ FoldLeft(+, base, seq) \in Nat /\ FoldLeft(+, base, seq) >= base
         /\ Len(seq) = 0 => FoldLeft(+, base, seq) = base
<1>. DEFINE n     == Len(seq)
            total == FoldLeft(+, base, seq)
<1>1. n \in Nat /\ \A i \in 1..n : seq[i] \in Nat
  OBVIOUS
<1>2. PICK f \in [0..n -> Nat] : /\ f[0] = base /\ f[n] = total
                                 /\ \A m \in 0..(n - 1) : f[m + 1] = f[m] + seq[m + 1]
  BY Sums
<1>. HIDE DEF n, total
<1>. DEFINE T == {m \in Nat : m <= n => f[m] >= base}
<1>3. 0 \in T
  BY <1>2
<1>4. ASSUME NEW m \in Nat, m \in T PROVE m + 1 \in T
  <2>1. m + 1 <= n => m \in 0..(n - 1) /\ m + 1 \in 1..n /\ m \in 0..n
    BY <1>1
  <2>2. m + 1 <= n => f[m + 1] = f[m] + seq[m + 1] /\ f[m] \in Nat /\ seq[m + 1] \in Nat /\ f[m] >= base
    BY <1>1, <1>2, <1>4, <2>1
  <2>. QED  BY <2>2
<1>. HIDE DEF T
<1>5. n \in T
  BY <1>1, <1>3, <1>4, Induction
<1>6. f[n] >= base /\ f[n] \in Nat
  BY <1>1, <1>5 DEF T
<1>. QED  BY <1>2, <1>6 DEF n, total

\* The base only shifts it.
LEMMA SumFromBase ==
  ASSUME NEW seq \in Seq(Nat), NEW base \in Nat
  PROVE  FoldLeft(+, base, seq) = base + FoldLeft(+, 0, seq) /\ FoldLeft(+, 0, seq) \in Nat
<1>. DEFINE n      == Len(seq)
            total  == FoldLeft(+, base, seq)
            total0 == FoldLeft(+, 0, seq)
<1>1. n \in Nat /\ \A i \in 1..n : seq[i] \in Nat
  OBVIOUS
<1>2. PICK f \in [0..n -> Nat] : /\ f[0] = base /\ f[n] = total
                                 /\ \A m \in 0..(n - 1) : f[m + 1] = f[m] + seq[m + 1]
  BY Sums
<1>3. PICK g \in [0..n -> Nat] : /\ g[0] = 0 /\ g[n] = total0
                                 /\ \A m \in 0..(n - 1) : g[m + 1] = g[m] + seq[m + 1]
  <2>1. 0 \in Nat
    OBVIOUS
  <2>. QED  BY <2>1, Sums, Zenon
<1>. HIDE DEF n, total, total0
<1>. DEFINE T == {m \in Nat : m <= n => f[m] = base + g[m]}
<1>4. 0 \in T
  BY <1>2, <1>3
<1>5. ASSUME NEW m \in Nat, m \in T PROVE m + 1 \in T
  <2>1. m + 1 <= n => m \in 0..(n - 1) /\ m + 1 \in 1..n /\ m \in 0..n
    BY <1>1
  <2>2. m + 1 <= n => /\ f[m + 1] = f[m] + seq[m + 1] /\ g[m + 1] = g[m] + seq[m + 1] /\ f[m] = base + g[m]
                      /\ f[m] \in Nat /\ g[m] \in Nat /\ seq[m + 1] \in Nat
    BY <1>1, <1>2, <1>3, <1>5, <2>1
  <2>. QED  BY <2>2
<1>. HIDE DEF T
<1>6. n \in T
  BY <1>1, <1>4, <1>5, Induction
<1>7. f[n] = base + g[n] /\ g[n] \in Nat
  BY <1>1, <1>6 DEF T
<1>. QED  BY <1>2, <1>3, <1>7 DEF n, total, total0

-----------------------------------------------------------------------------
(* Order                                                                    *)

\* How many members of E the relation R puts before e
RankIn(E, R, e) == Cardinality({x \in E : <<x, e>> \in R})

\* The ranks in a finite ordered set are the numbers below its size.
LEMMA RanksIn ==
  ASSUME NEW E, IsFiniteSet(E), NEW R,
         \A x \in E : <<x, x>> \notin R,
         \A x, y, z \in E : <<x, y>> \in R /\ <<y, z>> \in R => <<x, z>> \in R,
         \A x, y \in E : x # y => <<x, y>> \in R \/ <<y, x>> \in R
  PROVE  /\ Cardinality(E) \in Nat
         /\ \A e \in E : RankIn(E, R, e) \in 0..(Cardinality(E) - 1)
         /\ \A d, e \in E : <<d, e>> \in R => RankIn(E, R, d) < RankIn(E, R, e)
         /\ \A n \in 1..Cardinality(E) : \E e \in E : RankIn(E, R, e) = n - 1
<1>. DEFINE Below(e) == {x \in E : <<x, e>> \in R}
            c        == Cardinality(E)
            rank     == [e \in E |-> RankIn(E, R, e)]
<1>1. c \in Nat
  BY FS_CardinalityType
<1>2. ASSUME NEW A, NEW B, IsFiniteSet(B), A \subseteq B, NEW x \in B, x \notin A
      PROVE  Cardinality(A) \in Nat /\ Cardinality(B) \in Nat /\ Cardinality(A) < Cardinality(B)
  <2>1. IsFiniteSet(A) /\ Cardinality(A) <= Cardinality(B) /\ (Cardinality(B) = Cardinality(A) => B = A)
    BY <1>2, FS_Subset
  <2>2. Cardinality(A) \in Nat /\ Cardinality(B) \in Nat
    BY <1>2, <2>1, FS_CardinalityType
  <2>3. B # A
    BY <1>2
  <2>. QED  BY <2>1, <2>2, <2>3
<1>3. ASSUME NEW e \in E PROVE RankIn(E, R, e) \in 0..(c - 1)
  <2>1. Below(e) \subseteq E /\ e \notin Below(e)
    OBVIOUS
  <2>. HIDE DEF Below, c
  <2>2. Cardinality(Below(e)) \in Nat /\ Cardinality(Below(e)) < Cardinality(E)
    BY <1>2, <2>1
  <2>3. RankIn(E, R, e) = Cardinality(Below(e)) /\ c = Cardinality(E)
    BY DEF RankIn, Below, c
  <2>. QED  BY <1>1, <2>2, <2>3
<1>4. ASSUME NEW d \in E, NEW e \in E, <<d, e>> \in R PROVE RankIn(E, R, d) < RankIn(E, R, e)
  <2>1. Below(d) \subseteq Below(e) /\ d \in Below(e) /\ d \notin Below(d) /\ Below(e) \subseteq E
    BY <1>4
  <2>. HIDE DEF Below
  <2>2. IsFiniteSet(Below(e))
    BY <2>1, FS_Subset
  <2>3. Cardinality(Below(d)) < Cardinality(Below(e))
    BY <1>2, <2>1, <2>2
  <2>. QED  BY <2>3 DEF RankIn, Below
<1>5. rank \in Injection(E, 0..(c - 1))
  <2>1. rank \in [E -> 0..(c - 1)]
    BY <1>3
  <2>2. ASSUME NEW d \in E, NEW e \in E, d # e PROVE rank[d] # rank[e]
    <3>1. <<d, e>> \in R \/ <<e, d>> \in R
      BY <2>2
    <3>2. rank[d] < rank[e] \/ rank[e] < rank[d]
      BY <1>4, <3>1
    <3>3. rank[d] \in Int /\ rank[e] \in Int
      BY <2>1
    <3>. QED  BY <3>2, <3>3
  <2>. HIDE DEF rank
  <2>. QED  BY <2>1, <2>2 DEF Injection, IsInjective
<1>6. IsFiniteSet(0..(c - 1)) /\ Cardinality(0..(c - 1)) = c
  <2>1. 0 \in Int /\ c - 1 \in Int
    BY <1>1
  <2>2. IsFiniteSet(0..(c - 1)) /\ Cardinality(0..(c - 1)) = IF 0 > c - 1 THEN 0 ELSE (c - 1) - 0 + 1
    BY <2>1, FS_Interval
  <2>. HIDE DEF c
  <2>. QED  BY <1>1, <2>2
<1>7. rank \in Surjection(E, 0..(c - 1))
  <2>. HIDE DEF rank
  <2>. QED  BY <1>5, <1>6, FS_Injection DEF c
<1>8. ASSUME NEW n \in 1..c PROVE \E e \in E : RankIn(E, R, e) = n - 1
  <2>1. n - 1 \in 0..(c - 1)
    BY <1>1
  <2>2. \E e \in E : rank[e] = n - 1
    BY <1>7, <2>1 DEF Surjection
  <2>. QED  BY <2>2
<1>. QED  BY <1>1, <1>3, <1>4, <1>8
=============================================================================
