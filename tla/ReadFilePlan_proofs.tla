------------------------- MODULE ReadFilePlan_proofs -------------------------
(***************************************************************************)
(* Proofs about ReadFilePlan, for every set of lines and every number and  *)
(* length of columns: the line may be rewritten in place, and its columns  *)
(* are its fields.                                                         *)
(***************************************************************************)
EXTENDS ReadFilePlan, FoldLemmas, SequenceTheorems, FiniteSetTheorems

IInv == TypeOK /\ LoopInv

\* The inductive invariant holds before the file is opened.
LEMMA InitInv == Init => IInv
<1> SUFFICES ASSUME Init PROVE IInv
  OBVIOUS
<1>1. [c \in Column |-> Empty] \in [Column -> [from: Nat, size: Nat]]
  BY DEF Empty
<1> QED
  BY <1>1 DEF Init, IInv, TypeOK, LoopInv

\* A round of the loop reads a character of the line.
LEMMA CharType == ASSUME TypeOK, Scanning PROVE Char \in Character
  BY DEF TypeOK, Scanning, Char

\* Every step of the scan keeps the inductive invariant.
LEMMA NextInv == IInv /\ [Next]_vars => IInv'
<1> SUFFICES ASSUME IInv, [Next]_vars PROVE IInv'
  OBVIOUS
<1> USE FileAssumption DEF IInv
<1>1. CASE Begin \/ End \/ Cancelled
  BY <1>1 DEF Begin, End, Cancelled, loopVars, TypeOK, LoopInv
<1>2. CASE ReadLine
  BY <1>2 DEF ReadLine, TypeOK, LoopInv, Column
<1>3. ASSUME NEW s \in {"OutOfQuote", "BeginQuote", "InQuote"}, Scanning, Skip(s) PROVE IInv'
  BY <1>3 DEF Scanning, Skip, TypeOK, LoopInv
<1>4. ASSUME NEW s \in {"OutOfQuote", "BeginQuote", "InQuote"}, Scanning, Keep(s) PROVE IInv'
  <2>1. m_line' \in Seq(Character) /\ Len(m_line') = Len(m_line)
    BY <1>4, CharType DEF Scanning, Keep, TypeOK, LoopInv
  <2> QED
    BY <1>4, <2>1 DEF Scanning, Keep, TypeOK, LoopInv
<1>5. CASE Scanning /\ EndField
  <2>1. CASE TooLong(tokenIndex + 1)
    BY <1>5, <2>1 DEF EndField, NextBegin, TypeOK, LoopInv
  <2>2. CASE ~TooLong(tokenIndex + 1)
    <3>1. Token \in [from: Nat, size: Nat] /\ Token.from + Token.size = targetIndex
      BY <1>5 DEF Scanning, Token, TypeOK, LoopInv
    <3>2. TypeOK'
      <4> DEFINE V == [from: Nat, size: Nat]
      <4>1. m_result \in [Column -> V] /\ Token \in V
        BY <3>1 DEF TypeOK
      <4> HIDE DEF V
      <4>2. m_result' \in [Column -> V]
        BY <1>5, <2>2, <4>1 DEF EndField
      <4> QED
        BY <1>5, <2>2, <4>2 DEF EndField, NextBegin, TypeOK, V
    <3>3. tokenIndex + 1 \in Column
      BY <1>5 DEF Scanning, Column, TypeOK
    <3>4. ASSUME NEW c \in Column, c <= tokenIndex'
          PROVE  m_result'[c].from + m_result'[c].size <= beginToken'
      <4>1. CASE c = tokenIndex + 1
        BY <1>5, <2>2, <3>1, <3>3, <4>1 DEF EndField, NextBegin, TypeOK
      <4>2. CASE c # tokenIndex + 1
        <5>1. m_result'[c] = m_result[c] /\ c <= tokenIndex
          BY <1>5, <2>2, <3>4, <4>2 DEF EndField, NextBegin, TypeOK, Column
        <5> QED
          BY <1>5, <2>2, <5>1 DEF EndField, NextBegin, Scanning, TypeOK, LoopInv
      <4> QED
        BY <4>1, <4>2
    <3> QED
      BY <1>5, <2>2, <3>2, <3>4 DEF EndField, NextBegin, Scanning, TypeOK, LoopInv
  <2> QED
    BY <2>1, <2>2
<1>6. CASE OutOfQuote
  BY <1>3, <1>4, <1>5, <1>6 DEF OutOfQuote
<1>7. CASE BeginQuote
  BY <1>4, <1>7 DEF BeginQuote
<1>8. CASE InQuote
  BY <1>3, <1>4, <1>8 DEF InQuote
<1>9. CASE LineDone
  <2>1. Token \in [from: Nat, size: Nat]
    BY <1>9 DEF LineDone, Token, TypeOK, LoopInv
  <2>2. m_result' \in [Column -> [from: Nat, size: Nat]]
    <3> DEFINE V == [from: Nat, size: Nat]
    <3>1. m_result \in [Column -> V] /\ Token \in V /\ Empty \in V
      BY <2>1 DEF TypeOK, Empty
    <3> HIDE DEF V
    <3>2. m_result' \in [Column -> V]
      BY <1>9, <3>1 DEF LineDone, Filled
    <3> QED
      BY <3>2 DEF V
  <2> QED
    BY <1>9, <2>2 DEF LineDone, loopVars, TypeOK, LoopInv
<1>10. CASE UNCHANGED vars
  BY <1>10 DEF vars, loopVars, TypeOK, LoopInv
<1> QED
  BY <1>1, <1>2, <1>6, <1>7, <1>8, <1>9, <1>10 DEF Next

\* The loop of next() writes behind the place where it reads, and the fields lie
\* behind the place where it writes.
THEOREM LoopInvariant == Spec => [](TypeOK /\ LoopInv)
<1>1. Spec => []IInv
  BY InitInv, NextInv, PTL DEF Spec
<1> QED
  BY <1>1, PTL DEF IInv

\* What is written behind a part of a sequence leaves that part alone.
LEMMA SubSeqKept ==
  ASSUME NEW S, NEW s \in Seq(S), NEW e \in S, NEW k \in Nat, NEW m \in Nat, NEW n \in Nat,
         n < k, k <= Len(s)
  PROVE  SubSeq([s EXCEPT ![k] = e], m + 1, n) = SubSeq(s, m + 1, n)
<1> DEFINE t == [s EXCEPT ![k] = e]
<1>1. t \in Seq(S) /\ Len(t) = Len(s) /\ \A j \in 1..Len(s) : j # k => t[j] = s[j]
  OBVIOUS
<1> QED
  BY <1>1

\* A step of the loop changes no field that has been found.
LEMMA StepStays ==
  ASSUME IInv, Next, pc = "line", NEW c \in Column, c <= tokenIndex
  PROVE  SubSeq(m_line', m_result'[c].from + 1, m_result'[c].from + m_result'[c].size) = View(m_result[c])
<1> USE DEF IInv
<1>1. ASSUME m_result'[c] = m_result[c], m_line' = m_line
      PROVE  SubSeq(m_line', m_result'[c].from + 1, m_result'[c].from + m_result'[c].size)
               = View(m_result[c])
  BY <1>1 DEF View
<1>2. ASSUME NEW q, Scanning, Keep(q)
      PROVE  SubSeq(m_line', m_result'[c].from + 1, m_result'[c].from + m_result'[c].size)
               = View(m_result[c])
  <2> DEFINE a == m_result[c].from
             n == m_result[c].from + m_result[c].size
             k == targetIndex + 1
  <2>1. a \in Nat /\ n \in Nat /\ k \in Nat /\ n < k /\ k <= Len(m_line)
    BY <1>2 DEF Scanning, TypeOK, LoopInv
  <2>2. Char \in Character /\ m_line \in Seq(Character)
    BY <1>2, CharType DEF TypeOK
  <2> HIDE DEF a, n, k
  <2>3. SubSeq([m_line EXCEPT ![k] = Char], a + 1, n) = SubSeq(m_line, a + 1, n)
    BY <2>1, <2>2, SubSeqKept
  <2> QED
    BY <1>2, <2>3 DEF Keep, View, a, n, k
<1>3. ASSUME NEW q, Skip(q) PROVE m_result'[c] = m_result[c] /\ m_line' = m_line
  BY <1>3 DEF Skip
<1>4. ASSUME EndField PROVE m_result'[c] = m_result[c] /\ m_line' = m_line
  BY <1>4 DEF EndField, NextBegin, TypeOK, Column
<1>5. ASSUME LineDone PROVE m_result'[c] = m_result[c] /\ m_line' = m_line
  BY <1>5 DEF LineDone, loopVars, TypeOK
<1>6. CASE OutOfQuote
  BY <1>1, <1>2, <1>3, <1>4, <1>6 DEF OutOfQuote
<1>7. CASE BeginQuote
  BY <1>2, <1>7 DEF BeginQuote
<1>8. CASE InQuote
  BY <1>1, <1>2, <1>3, <1>8 DEF InQuote
<1>9. CASE LineDone
  BY <1>1, <1>5, <1>9
<1> QED
  BY <1>6, <1>7, <1>8, <1>9 DEF Next, Begin, End, ReadLine, Cancelled

\* A field that next() has found is not changed by what it does with the rest of
\* the line, although that is written into the same buffer.
THEOREM FieldsStayTheorem == Spec => FieldsStay
<1> DEFINE Stays == pc = "line" => \A c \in Column : c <= tokenIndex =>
      SubSeq(m_line', m_result'[c].from + 1, m_result'[c].from + m_result'[c].size) = View(m_result[c])
<1>1. ASSUME IInv, Next PROVE Stays
  BY <1>1, StepStays
<1>2. IInv /\ [Next]_vars => [Stays]_vars
  BY <1>1
<1>3. Spec => []IInv
  BY InitInv, NextInv, PTL DEF Spec
<1> QED
  BY <1>2, <1>3, PTL DEF Spec, FieldsStay

-----------------------------------------------------------------------------
(* Sets of places in a line, from the left to the right.                   *)

\* The places of P up to k
UpTo(P, k) == {j \in P : j <= k}

Rank(P, k) == Cardinality(UpTo(P, k))

\* The n-th place of P
Nth(P, n) == CHOOSE k \in P : Rank(P, k) = n

\* The characters of a line at the places of P
Listed(line, P) == [n \in 1..Cardinality(P) |-> line[Nth(P, n)]]

\* What is in a set of places
LEMMA Places ==
  ASSUME NEW m \in Nat, NEW P \in SUBSET (1..m)
  PROVE  /\ \A x \in P : x \in Nat /\ x >= 1 /\ x <= m
         /\ \A k \in Nat : UpTo(P, k) \in SUBSET P
         /\ \A k \in Nat : \A x \in P : x \in UpTo(P, k) <=> x <= k
BY DEF UpTo

\* Sets of places are finite, and there are more of them up to a later place.
LEMMA Ranks ==
  ASSUME NEW m \in Nat, NEW P \in SUBSET (1..m)
  PROVE  /\ IsFiniteSet(P) /\ Cardinality(P) \in Nat
         /\ \A k \in Nat : IsFiniteSet(UpTo(P, k)) /\ Rank(P, k) \in Nat
         /\ \A j, k \in Nat : j <= k => Rank(P, j) <= Rank(P, k)
         /\ \A j \in Nat, k \in P : j < k => Rank(P, j) < Rank(P, k)
         /\ \A k \in Nat : k + 1 \notin P => UpTo(P, k + 1) = UpTo(P, k)
         /\ \A k \in Nat : k + 1 \in P => /\ UpTo(P, k + 1) = UpTo(P, k) \cup {k + 1}
                                          /\ Rank(P, k + 1) = Rank(P, k) + 1
<1>1. IsFiniteSet(1..m)
  BY FS_Interval
<1>0. /\ \A x \in P : x \in Nat /\ x >= 1 /\ x <= m
      /\ \A k \in Nat : UpTo(P, k) \in SUBSET P
      /\ \A k \in Nat : \A x \in P : x \in UpTo(P, k) <=> x <= k
  BY Places
<1>2. IsFiniteSet(P) /\ Cardinality(P) \in Nat
  BY <1>1, FS_Subset, FS_CardinalityType
<1>3. ASSUME NEW k \in Nat PROVE IsFiniteSet(UpTo(P, k)) /\ Rank(P, k) \in Nat
  <2>1. UpTo(P, k) \in SUBSET P
    BY DEF UpTo
  <2>. QED  BY <1>2, <2>1, FS_Subset, FS_CardinalityType DEF Rank
<1>4. ASSUME NEW j \in Nat, NEW k \in Nat, j <= k PROVE Rank(P, j) <= Rank(P, k)
  <2>1. UpTo(P, j) \in SUBSET UpTo(P, k)
    <3>1. \A x \in P : x \in UpTo(P, j) => x \in UpTo(P, k)
      BY <1>0, <1>4
    <3>. QED  BY <1>0, <3>1
  <2>. QED  BY <1>3, <2>1, FS_Subset DEF Rank
<1>5. ASSUME NEW j \in Nat, NEW k \in P, j < k PROVE Rank(P, j) < Rank(P, k)
  <2>0. k \in Nat
    BY <1>0
  <2>1. k \in Nat /\ UpTo(P, j) \in SUBSET UpTo(P, k) /\ k \in UpTo(P, k) /\ k \notin UpTo(P, j)
    <3>1. \A x \in P : x \in UpTo(P, j) => x \in UpTo(P, k)
      BY <1>0, <1>5, <2>0
    <3>2. k \in UpTo(P, k) /\ k \notin UpTo(P, j)
      BY <1>0, <1>5, <2>0
    <3>. QED  BY <1>0, <2>0, <3>1, <3>2
  <2>2. /\ Cardinality(UpTo(P, j)) <= Cardinality(UpTo(P, k))
        /\ Cardinality(UpTo(P, k)) = Cardinality(UpTo(P, j)) => UpTo(P, k) = UpTo(P, j)
    BY <1>3, <2>1, FS_Subset
  <2>3. Rank(P, j) <= Rank(P, k) /\ Rank(P, j) # Rank(P, k) /\ Rank(P, j) \in Nat /\ Rank(P, k) \in Nat
    BY <1>3, <2>1, <2>2 DEF Rank
  <2>. QED  BY <2>3
<1>6. ASSUME NEW k \in Nat, k + 1 \notin P PROVE UpTo(P, k + 1) = UpTo(P, k)
  <2>1. \A x \in P : x <= k + 1 <=> x <= k
    BY <1>0, <1>6
  <2>2. k + 1 \in Nat
    OBVIOUS
  <2>. QED  BY <1>0, <2>1, <2>2
<1>7. ASSUME NEW k \in Nat, k + 1 \in P
      PROVE  UpTo(P, k + 1) = UpTo(P, k) \cup {k + 1} /\ Rank(P, k + 1) = Rank(P, k) + 1
  <2>1. UpTo(P, k + 1) = UpTo(P, k) \cup {k + 1} /\ k + 1 \notin UpTo(P, k)
    <3>1. \A x \in P : x <= k + 1 <=> x <= k \/ x = k + 1
      BY <1>0
    <3>2. k + 1 \in Nat /\ ~(k + 1 <= k)
      OBVIOUS
    <3>3. k + 1 \notin UpTo(P, k)
      BY <1>0, <1>7, <3>2
    <3>4. \A x \in P : x \in UpTo(P, k + 1) <=> x \in UpTo(P, k) \/ x = k + 1
      BY <1>0, <3>1, <3>2
    <3>. QED  BY <1>0, <1>7, <3>2, <3>3, <3>4
  <2>. QED  BY <1>3, <2>1, FS_AddElement DEF Rank
<1>. QED  BY <1>2, <1>3, <1>4, <1>5, <1>6, <1>7

\* There is one n-th place, for every n up to the number of places.
LEMMA NthPlace ==
  ASSUME NEW m \in Nat, NEW P \in SUBSET (1..m), NEW n \in 1..Cardinality(P)
  PROVE  /\ Nth(P, n) \in P /\ Rank(P, Nth(P, n)) = n
         /\ \A k \in P : Rank(P, k) = n => k = Nth(P, n)
<1>1. Cardinality(P) \in Nat /\ \A k \in Nat : Rank(P, k) \in Nat
  BY Ranks
<1>0. /\ \A x \in P : x \in Nat /\ x >= 1 /\ x <= m
      /\ \A k \in Nat : UpTo(P, k) \in SUBSET P
      /\ \A k \in Nat : \A x \in P : x \in UpTo(P, k) <=> x <= k
  BY Places
<1>2. UpTo(P, m) = P /\ Rank(P, m) = Cardinality(P)
  <2>2. UpTo(P, m) = P
    BY <1>0
  <2>. QED  BY <2>2 DEF Rank
<1>3. UpTo(P, 0) = {} /\ Rank(P, 0) = 0
  <2>0. \A x \in P : ~(x <= 0)
    BY <1>0
  <2>1. UpTo(P, 0) = {}
    BY <1>0, <2>0
  <2>. QED  BY <2>1, FS_EmptySet DEF Rank
<1>. DEFINE T == {k \in Nat : n <= Rank(P, k)}
<1>4. m \in T
  BY <1>2
<1>5. PICK b \in T : \A y \in T : b <= y
  BY <1>4, LeastNatural
<1>6. b \in Nat /\ b # 0 /\ n <= Rank(P, b) /\ b - 1 \in Nat
  BY <1>3, <1>5
<1>7. Rank(P, b - 1) < n
  <2>1. b - 1 \notin T
    BY <1>5, <1>6
  <2>. QED  BY <1>1, <1>6, <2>1
<1>8. b \in P /\ Rank(P, b) = n
  <2>. DEFINE a == b - 1
  <2>1. a \in Nat /\ a + 1 = b
    BY <1>6
  <2>. HIDE DEF a
  <2>0. /\ a + 1 \notin P => UpTo(P, a + 1) = UpTo(P, a)
        /\ a + 1 \in P => Rank(P, a + 1) = Rank(P, a) + 1
    BY <2>1, Ranks
  <2>2. /\ b \notin P => UpTo(P, b) = UpTo(P, b - 1)
        /\ b \in P => Rank(P, b) = Rank(P, b - 1) + 1
    BY <2>0, <2>1 DEF a
  <2>. QED  BY <1>1, <1>6, <1>7, <2>2 DEF Rank
<1>9. Nth(P, n) \in P /\ Rank(P, Nth(P, n)) = n
  BY <1>8 DEF Nth
<1>10. ASSUME NEW k \in P, Rank(P, k) = n PROVE k = Nth(P, n)
  <2>1. k \in Nat /\ Nth(P, n) \in Nat
    BY <1>0, <1>9
  <2>2. k < Nth(P, n) \/ Nth(P, n) < k \/ k = Nth(P, n)
    BY <2>1
  <2>3. \A j \in Nat, x \in P : j < x => Rank(P, j) < Rank(P, x)
    BY Ranks
  <2>. QED  BY <1>1, <1>9, <1>10, <2>1, <2>2, <2>3
<1>. QED  BY <1>9, <1>10

\* No places, no characters.
LEMMA ListedNone == ASSUME NEW line PROVE Listed(line, {}) = <<>>
<1>1. Cardinality({}) = 0
  BY FS_EmptySet
<1>. QED  BY <1>1 DEF Listed

\* One more place behind all the others appends its character.
LEMMA ListedNext ==
  ASSUME NEW S, NEW line \in Seq(S), NEW k \in Nat, k < Len(line), NEW P \in SUBSET (1..k)
  PROVE  Listed(line, P \cup {k + 1}) = Append(Listed(line, P), line[k + 1])
<1>. DEFINE Q == P \cup {k + 1}
            c == Cardinality(P)
<1>1. Q \in SUBSET (1..(k + 1)) /\ k + 1 \notin P /\ k + 1 \in Nat /\ Len(line) \in Nat
  OBVIOUS
<1>2. IsFiniteSet(P) /\ c \in Nat /\ Cardinality(Q) = c + 1
  BY <1>1, Ranks, FS_AddElement
<1>3. Rank(Q, k + 1) = c + 1
  <2>1. \A x \in Q : x \in Nat /\ x <= k + 1
    BY <1>1
  <2>2. UpTo(Q, k + 1) = Q
    BY <2>1 DEF UpTo
  <2>. QED  BY <1>2, <2>2 DEF Rank
<1>4. ASSUME NEW x \in P PROVE Rank(Q, x) = Rank(P, x)
  <2>1. UpTo(Q, x) = UpTo(P, x)
    BY <1>1 DEF UpTo
  <2>. QED  BY <2>1 DEF Rank
<1>5. k + 1 \in Q /\ P \subseteq Q
  OBVIOUS
<1>. HIDE DEF Q, c
<1>6. ASSUME NEW n \in 1..c PROVE Nth(Q, n) = Nth(P, n)
  <2>1. Nth(P, n) \in P /\ Rank(P, Nth(P, n)) = n
    BY NthPlace DEF c
  <2>2. n \in 1..Cardinality(Q)
    BY <1>2
  <2>3. Nth(P, n) \in Q /\ Rank(Q, Nth(P, n)) = n
    BY <1>4, <1>5, <2>1
  <2>4. \A x \in Q : Rank(Q, x) = n => x = Nth(Q, n)
    BY <1>1, <2>2, NthPlace
  <2>. QED  BY <2>3, <2>4
<1>7. Nth(Q, c + 1) = k + 1
  <2>1. c + 1 \in 1..Cardinality(Q)
    BY <1>2
  <2>. QED  BY <1>1, <1>3, <1>5, <2>1, NthPlace
<1>8. ASSUME NEW n \in 1..c PROVE Nth(P, n) \in 1..Len(line)
  <2>1. Nth(P, n) \in P
    BY NthPlace DEF c
  <2>2. \A x \in P : x \in 1..Len(line)
    BY <1>1
  <2>. QED  BY <2>1, <2>2
<1>9. Listed(line, P) \in Seq(S) /\ Len(Listed(line, P)) = c /\ \A n \in 1..c : Listed(line, P)[n] = line[Nth(P, n)]
  <2>1. \A n \in 1..c : line[Nth(P, n)] \in S
    BY <1>8
  <2>2. Listed(line, P) = [n \in 1..c |-> line[Nth(P, n)]]
    BY DEF Listed, c
  <2>. QED  BY <1>2, <2>1, <2>2
<1>10. Listed(line, Q) = [n \in 1..(c + 1) |-> line[Nth(Q, n)]]
  BY <1>2 DEF Listed
<1>11. line[k + 1] \in S
  BY <1>1
<1>12. \A n \in 1..(c + 1) : n \in 1..c \/ n = c + 1
  BY <1>2
<1>13. /\ Listed(line, Q) \in Seq(S) /\ Len(Listed(line, Q)) = c + 1
       /\ \A n \in 1..(c + 1) : Listed(line, Q)[n] = Append(Listed(line, P), line[k + 1])[n]
  <2>1. ASSUME NEW n \in 1..(c + 1)
        PROVE  line[Nth(Q, n)] \in S /\ line[Nth(Q, n)] = Append(Listed(line, P), line[k + 1])[n]
    <3>1. CASE n \in 1..c
      BY <1>2, <1>6, <1>8, <1>9, <1>11, <3>1
    <3>2. CASE n = c + 1
      BY <1>2, <1>7, <1>9, <1>11, <3>2
    <3>. QED  BY <1>12, <3>1, <3>2
  <2>. DEFINE t == [n \in 1..(c + 1) |-> line[Nth(Q, n)]]
  <2>2. t \in [1..(c + 1) -> S] /\ \A n \in 1..(c + 1) : t[n] = Append(Listed(line, P), line[k + 1])[n]
    BY <2>1
  <2>3. Listed(line, Q) = t
    BY <1>10
  <2>. HIDE DEF t
  <2>4. c + 1 \in Nat
    BY <1>2
  <2>5. t \in Seq(S) /\ Len(t) = c + 1
    BY <2>2, <2>4
  <2>. QED  BY <2>2, <2>3, <2>5
<1>14. Append(Listed(line, P), line[k + 1]) \in Seq(S) /\ Len(Append(Listed(line, P), line[k + 1])) = c + 1
  BY <1>9, <1>11
<1>. QED  BY <1>2, <1>13, <1>14, SeqEqual DEF Q

-----------------------------------------------------------------------------
(* The fields of a line, up to the place that the loop has reached.        *)

\* The places of the characters of the f-th field
PlacesOf(line, f) == {k \in 1..Len(line) : InField(line, f, k) /\ Stands(line, k)}

\* What is behind the loop has not been written to.
Untouched ==
  Len(m_line) = Len(source) /\ \A k \in (i + 1)..Len(source) : m_line[k] = source[k]

\* state counts the quotes, and remembers one that has just been opened.
StateRight ==
  /\ state = "OutOfQuote" <=> Outside(source, i + 1)
  /\ state = "BeginQuote" <=> ~Outside(source, i + 1) /\ i > 0 /\ source[i] = Quote

\* What has been written of the current field is its beginning.
TokenRight ==
  /\ tokenIndex = Rank(Ends(source), i)
  /\ SubSeq(m_line, beginToken + 1, targetIndex) = Listed(source, UpTo(PlacesOf(source, tokenIndex + 1), i))

FieldFits(c) == Limit[c] > 0 => Len(Field(source, c)) <= Limit[c]

\* The fields in front of it are found.
FieldsFound ==
  \A c \in Column : c <= tokenIndex => View(m_result[c]) = Field(source, c) /\ FieldFits(c)

\* The loop has found what there is to be found up to i.
Scanned ==
  pc = "line" => source \in Lines /\ Untouched /\ StateRight /\ TokenRight /\ FieldsFound

FieldInv == Scanned /\ RowRight /\ RefusedIffTooLong

\* The field that ends a sequence of its characters
LEMMA FieldListed == ASSUME NEW line, NEW f PROVE Field(line, f) = Listed(line, PlacesOf(line, f))
BY DEF Field, Listed, Nth, Rank, UpTo, PlacesOf

\* Counting the quotes from the left
LEMMA Alternates ==
  ASSUME NEW line \in Seq(Character), NEW k \in Nat, k < Len(line)
  PROVE  /\ line[k + 1] = Quote => (Outside(line, (k + 1) + 1) <=> ~Outside(line, k + 1))
         /\ line[k + 1] # Quote => (Outside(line, (k + 1) + 1) <=> Outside(line, k + 1))
<1>. DEFINE P == {j \in 1..Len(line) : line[j] = Quote}
<1>1. P \in SUBSET (1..Len(line)) /\ Len(line) \in Nat
  OBVIOUS
<1>2. ASSUME NEW n \in Nat, n <= Len(line) PROVE QuotesBefore(line, n + 1) = Rank(P, n)
  <2>1. (n + 1) - 1 = n
    OBVIOUS
  <2>2. {j \in 1..n : line[j] = Quote} = UpTo(P, n)
    BY <1>2 DEF UpTo
  <2>. QED  BY <2>1, <2>2 DEF QuotesBefore, Rank
<1>3. k + 1 \in Nat /\ k + 1 \in 1..Len(line)
  OBVIOUS
<1>4. k + 1 \in P <=> line[k + 1] = Quote
  BY <1>3
<1>5. QuotesBefore(line, k + 1) = Rank(P, k) /\ QuotesBefore(line, (k + 1) + 1) = Rank(P, k + 1)
  BY <1>2, <1>3
<1>. HIDE DEF P
<1>6. /\ Rank(P, k) \in Nat
      /\ k + 1 \in P => Rank(P, k + 1) = Rank(P, k) + 1
      /\ k + 1 \notin P => Rank(P, k + 1) = Rank(P, k)
  BY <1>1, Ranks DEF Rank
<1>7. \A n \in Nat : (n + 1) % 2 = 0 <=> ~(n % 2 = 0)
  OBVIOUS
<1>. QED  BY <1>4, <1>5, <1>6, <1>7 DEF Outside

\* The beginning of a line is outside of quotes.
LEMMA OutsideFirst == ASSUME NEW line PROVE Outside(line, 0 + 1)
<1>1. {j \in 1..((0 + 1) - 1) : line[j] = Quote} = {}
  OBVIOUS
<1>2. QuotesBefore(line, 0 + 1) = 0
  BY <1>1, FS_EmptySet DEF QuotesBefore
<1>. QED  BY <1>2 DEF Outside

\* The number of a field is one more than that of the ends before it.
LEMMA FieldNumber ==
  ASSUME NEW line \in Seq(Character), NEW k \in 1..Len(line), NEW f
  PROVE  InField(line, f, k) <=> k \notin Ends(line) /\ Rank(Ends(line), k - 1) = f - 1
<1>1. Ends(line) \in SUBSET (1..Len(line)) /\ Len(line) \in Nat /\ k \in Nat
  BY DEF Ends
<1>2. \A e \in Ends(line) : e \in Nat
  BY <1>1
<1>3. \A e \in Ends(line) : e < k <=> e <= k - 1
  BY <1>1, <1>2
<1>4. {e \in Ends(line) : e < k} = UpTo(Ends(line), k - 1)
  BY <1>3 DEF UpTo
<1>. QED  BY <1>4 DEF InField, Rank

\* What the ends of fields are
LEMMA EndsPlaces ==
  ASSUME NEW line \in Seq(Character)
  PROVE  /\ Len(line) \in Nat /\ Ends(line) \in SUBSET (1..Len(line))
         /\ \A f : PlacesOf(line, f) \in SUBSET (1..Len(line))
         /\ \A k \in 1..Len(line) : k \in Ends(line) <=> line[k] = Separator /\ Outside(line, k)
BY DEF Ends, PlacesOf

\* The characters of a field are those between its ends that stand for themselves.
LEMMA FieldPlaces ==
  ASSUME NEW line \in Seq(Character), NEW k \in 1..Len(line), NEW f
  PROVE  k \in PlacesOf(line, f) <=>
           k \notin Ends(line) /\ Rank(Ends(line), k - 1) = f - 1 /\ Stands(line, k)
BY FieldNumber DEF PlacesOf

\* All places are up to k.
LEMMA UpToAll ==
  ASSUME NEW m \in Nat, NEW P \in SUBSET (1..m), NEW k \in Nat, \A x \in P : x <= k
  PROVE  UpTo(P, k) = P
<1>1. UpTo(P, k) \in SUBSET P /\ \A x \in P : x <= k => x \in UpTo(P, k)
  BY Places
<1>. QED  BY <1>1

\* No place is up to k.
LEMMA UpToNone ==
  ASSUME NEW m \in Nat, NEW P \in SUBSET (1..m), NEW k \in Nat, \A x \in P : ~(x <= k)
  PROVE  UpTo(P, k) = {}
<1>1. UpTo(P, k) \in SUBSET P /\ \A x \in P : x \in UpTo(P, k) => x <= k
  BY Places
<1>. QED  BY <1>1

\* A character that is not the end of a field is appended to it if it stands for itself.
LEMMA ReadOn ==
  ASSUME NEW line \in Seq(Character), NEW k \in Nat, k < Len(line),
         k + 1 \notin Ends(line), NEW f, f - 1 = Rank(Ends(line), k)
  PROVE  /\ Rank(Ends(line), k + 1) = Rank(Ends(line), k)
         /\ ~Stands(line, k + 1) => UpTo(PlacesOf(line, f), k + 1) = UpTo(PlacesOf(line, f), k)
         /\ Stands(line, k + 1) => Listed(line, UpTo(PlacesOf(line, f), k + 1))
                                     = Append(Listed(line, UpTo(PlacesOf(line, f), k)), line[k + 1])
<1>. DEFINE P == PlacesOf(line, f)
<1>1. /\ Len(line) \in Nat /\ Ends(line) \in SUBSET (1..Len(line)) /\ P \in SUBSET (1..Len(line))
      /\ k + 1 \in 1..Len(line) /\ (k + 1) - 1 = k
  BY EndsPlaces
<1>2. k + 1 \in P <=> Stands(line, k + 1)
  BY <1>1, FieldPlaces
<1>. HIDE DEF P
<1>3. Rank(Ends(line), k + 1) = Rank(Ends(line), k)
  BY <1>1, Ranks DEF Rank
<1>4. /\ k + 1 \notin P => UpTo(P, k + 1) = UpTo(P, k)
      /\ k + 1 \in P => UpTo(P, k + 1) = UpTo(P, k) \cup {k + 1}
  BY <1>1, Ranks
<1>5. UpTo(P, k) \in SUBSET (1..k)
  <2>1. UpTo(P, k) \in SUBSET P /\ \A x \in P : x \in Nat /\ x >= 1 /\ (x \in UpTo(P, k) => x <= k)
    BY <1>1, Places
  <2>. QED  BY <2>1
<1>6. CASE Stands(line, k + 1)
  <2>1. Listed(line, UpTo(P, k) \cup {k + 1}) = Append(Listed(line, UpTo(P, k)), line[k + 1])
    BY <1>5, ListedNext
  <2>. QED  BY <1>2, <1>3, <1>4, <1>6, <2>1 DEF P
<1>7. CASE ~Stands(line, k + 1)
  BY <1>2, <1>3, <1>4, <1>7 DEF P
<1>. QED  BY <1>6, <1>7

\* The end of a field is behind all its characters and before those of the next.
LEMMA ReadEnd ==
  ASSUME NEW line \in Seq(Character), NEW k \in Nat, k < Len(line),
         k + 1 \in Ends(line), NEW f \in Nat, f - 1 = Rank(Ends(line), k)
  PROVE  /\ Rank(Ends(line), k + 1) = f
         /\ UpTo(PlacesOf(line, f), k) = PlacesOf(line, f)
         /\ UpTo(PlacesOf(line, f + 1), k + 1) = {}
<1>1. /\ Len(line) \in Nat /\ Ends(line) \in SUBSET (1..Len(line))
      /\ PlacesOf(line, f) \in SUBSET (1..Len(line)) /\ PlacesOf(line, f + 1) \in SUBSET (1..Len(line))
      /\ k + 1 \in 1..Len(line) /\ (k + 1) - 1 = k
  BY EndsPlaces
<1>2. /\ \A j \in Nat : Rank(Ends(line), j) \in Nat
      /\ \A j, m \in Nat : j <= m => Rank(Ends(line), j) <= Rank(Ends(line), m)
  BY <1>1, Ranks
<1>3. Rank(Ends(line), k + 1) = f
  <2>1. Rank(Ends(line), k + 1) = Rank(Ends(line), k) + 1
    BY <1>1, Ranks
  <2>. QED  BY <1>2, <2>1
<1>4. ASSUME NEW x \in PlacesOf(line, f) PROVE x <= k
  <2>1. x \in 1..Len(line) /\ x \notin Ends(line) /\ Rank(Ends(line), x - 1) = f - 1
    BY <1>1, FieldPlaces
  <2>. SUFFICES ASSUME ~(x <= k) PROVE FALSE
    OBVIOUS
  <2>2. x # k + 1 /\ k + 1 <= x - 1 /\ x - 1 \in Nat /\ k + 1 \in Nat
    BY <2>1
  <2>3. f <= f - 1
    BY <1>2, <1>3, <2>1, <2>2
  <2>. QED  BY <2>3
<1>5. UpTo(PlacesOf(line, f), k) = PlacesOf(line, f)
  BY <1>1, <1>4, UpToAll
<1>6. ASSUME NEW x \in PlacesOf(line, f + 1) PROVE ~(x <= k + 1)
  <2>1. x \in 1..Len(line) /\ Rank(Ends(line), x - 1) = (f + 1) - 1
    BY <1>1, FieldPlaces
  <2>. SUFFICES ASSUME x <= k + 1 PROVE FALSE
    OBVIOUS
  <2>2. x - 1 \in Nat /\ x - 1 <= k
    BY <2>1
  <2>3. f <= f - 1
    BY <1>2, <2>1, <2>2
  <2>. QED  BY <2>3
<1>7. UpTo(PlacesOf(line, f + 1), k + 1) = {}
  <2>1. k + 1 \in Nat
    OBVIOUS
  <2>. QED  BY <1>1, <1>6, <2>1, UpToNone
<1>. QED  BY <1>3, <1>5, <1>7

\* At the end of the line its last field is read, and all others are empty.
LEMMA ReadAll ==
  ASSUME NEW line \in Seq(Character), NEW f \in Nat, f - 1 = Rank(Ends(line), Len(line))
  PROVE  /\ UpTo(PlacesOf(line, f), Len(line)) = PlacesOf(line, f)
         /\ \A g \in Nat : g > f => PlacesOf(line, g) = {}
<1>1. Len(line) \in Nat /\ Ends(line) \in SUBSET (1..Len(line)) /\ \A g : PlacesOf(line, g) \in SUBSET (1..Len(line))
  BY EndsPlaces
<1>2. UpTo(PlacesOf(line, f), Len(line)) = PlacesOf(line, f)
  <2>1. \A x \in PlacesOf(line, f) : x <= Len(line)
    BY <1>1
  <2>. QED  BY <1>1, <2>1, UpToAll
<1>3. ASSUME NEW g \in Nat, g > f, NEW x \in PlacesOf(line, g) PROVE FALSE
  <2>1. x \in 1..Len(line) /\ Rank(Ends(line), x - 1) = g - 1
    BY <1>1, FieldPlaces
  <2>2. x - 1 \in Nat /\ x - 1 <= Len(line)
    BY <2>1
  <2>3. /\ Rank(Ends(line), x - 1) <= Rank(Ends(line), Len(line))
        /\ Rank(Ends(line), x - 1) \in Nat /\ Rank(Ends(line), Len(line)) \in Nat
    BY <1>1, <2>2, Ranks
  <2>4. g - 1 <= f - 1
    BY <2>1, <2>3
  <2>. QED  BY <1>3, <2>4
<1>. QED  BY <1>2, <1>3

\* A character that is written behind a part of a sequence makes it longer.
LEMMA SubSeqGrows ==
  ASSUME NEW S, NEW s \in Seq(S), NEW e \in S, NEW m \in Nat, NEW n \in Nat, m <= n, n < Len(s)
  PROVE  SubSeq([s EXCEPT ![n + 1] = e], m + 1, n + 1) = Append(SubSeq(s, m + 1, n), e)
<1> DEFINE t == [s EXCEPT ![n + 1] = e]
<1>1. t \in Seq(S) /\ Len(t) = Len(s) /\ t[n + 1] = e /\ \A j \in 1..Len(s) : j # n + 1 => t[j] = s[j]
  OBVIOUS
<1>2. /\ SubSeq(t, m + 1, n + 1) \in Seq(S) /\ Len(SubSeq(t, m + 1, n + 1)) = (n - m) + 1
      /\ \A k \in 1..((n - m) + 1) : SubSeq(t, m + 1, n + 1)[k] = t[m + k]
  BY <1>1
<1>3. /\ SubSeq(s, m + 1, n) \in Seq(S) /\ Len(SubSeq(s, m + 1, n)) = n - m
      /\ \A k \in 1..(n - m) : SubSeq(s, m + 1, n)[k] = s[m + k]
  OBVIOUS
<1>4. /\ Append(SubSeq(s, m + 1, n), e) \in Seq(S) /\ Len(Append(SubSeq(s, m + 1, n), e)) = (n - m) + 1
      /\ Append(SubSeq(s, m + 1, n), e)[(n - m) + 1] = e
      /\ \A k \in 1..(n - m) : Append(SubSeq(s, m + 1, n), e)[k] = s[m + k]
  BY <1>3
<1>5. \A k \in 1..((n - m) + 1) : t[m + k] = IF k = (n - m) + 1 THEN e ELSE s[m + k]
  BY <1>1
<1> HIDE DEF t
<1>6. \A k \in 1..((n - m) + 1) : SubSeq(t, m + 1, n + 1)[k] = Append(SubSeq(s, m + 1, n), e)[k]
  BY <1>2, <1>4, <1>5
<1> QED
  BY <1>2, <1>4, <1>6, SeqEqual DEF t

-----------------------------------------------------------------------------
(* The loop keeps FieldInv.                                                *)

\* What a round of the loop reads
LEMMA Reads ==
  ASSUME IInv, FieldInv, Scanning
  PROVE  /\ source \in Seq(Character) /\ i \in Nat /\ i < Len(source)
         /\ Char = source[i + 1] /\ Len(source) \in Nat /\ Len(m_line) = Len(source)
         /\ i + 1 \in Ends(source) <=> Char = Separator /\ state = "OutOfQuote"
         /\ tokenIndex \in Nat /\ (tokenIndex + 1) - 1 = Rank(Ends(source), i)
         /\ Stands(source, i + 1) <=> (Char = Quote => state = "BeginQuote")
<1>1. source \in Lines /\ Untouched /\ StateRight /\ TokenRight
  BY DEF FieldInv, Scanned, Scanning
<1>2. source \in Seq(Character) /\ Len(source) \in Nat /\ Len(m_line) = Len(source) /\ i \in Nat /\ i < Len(m_line)
      /\ tokenIndex \in Nat /\ pc = "line"
  BY <1>1 DEF IInv, TypeOK, Scanning, Untouched
<1>3. i + 1 \in (i + 1)..Len(source) /\ i + 1 \in 1..Len(source)
  BY <1>2
<1>4. Char = source[i + 1]
  BY <1>1, <1>3 DEF Untouched, Char
<1>5. i + 1 \in Ends(source) <=> source[i + 1] = Separator /\ Outside(source, i + 1)
  BY <1>2, <1>3, EndsPlaces
<1>6. Stands(source, i + 1) <=> (Char = Quote => state = "BeginQuote")
  <2>1. (i + 1) - 1 = i /\ (i + 1 > 1 <=> i > 0)
    BY <1>2
  <2>. QED  BY <1>1, <1>4, <2>1 DEF StateRight, Stands
<1>. QED  BY <1>1, <1>2, <1>4, <1>5, <1>6 DEF StateRight, TokenRight

\* In the middle of the loop nothing else is promised.
LEMMA InLoop ==
  ASSUME pc' = "line", source' \in Lines, Untouched', StateRight', TokenRight', FieldsFound'
  PROVE  FieldInv'
BY DEF FieldInv, Scanned, RowRight, RefusedIffTooLong

\* A field that has been found, found with the next step
LEMMA StillFound ==
  ASSUME IInv, FieldInv, Next, pc = "line", source' = source, NEW c \in Column, c <= tokenIndex
  PROVE  View(m_result[c])' = Field(source, c) /\ FieldFits(c)'
<1>1. View(m_result[c]) = Field(source, c) /\ FieldFits(c)
  BY DEF FieldInv, Scanned, FieldsFound
<1>2. View(m_result[c])' = View(m_result[c])
  BY StepStays DEF View
<1>3. FieldFits(c)' = FieldFits(c)
  BY DEF FieldFits
<1>. QED  BY <1>1, <1>2, <1>3

\* A quote that is not kept opens or closes a quoted part.
LEMMA SkipScans ==
  ASSUME IInv, FieldInv, Next, Scanning, Char = Quote,
         \/ state = "OutOfQuote" /\ Skip("BeginQuote")
         \/ state = "InQuote" /\ Skip("OutOfQuote")
  PROVE  FieldInv'
<1>1. /\ source \in Seq(Character) /\ i \in Nat /\ i < Len(source)
      /\ Char = source[i + 1] /\ Len(source) \in Nat /\ Len(m_line) = Len(source)
      /\ i + 1 \in Ends(source) <=> Char = Separator /\ state = "OutOfQuote"
      /\ tokenIndex \in Nat /\ (tokenIndex + 1) - 1 = Rank(Ends(source), i)
      /\ Stands(source, i + 1) <=> (Char = Quote => state = "BeginQuote")
  BY Reads
<1>2. i + 1 \notin Ends(source)
  BY <1>1, FileAssumption
<1>3. /\ source \in Lines /\ Untouched /\ StateRight /\ TokenRight /\ pc = "line"
  BY DEF FieldInv, Scanned, Scanning
<1>4. /\ i' = i + 1 /\ pc' = pc /\ m_line' = m_line /\ targetIndex' = targetIndex /\ beginToken' = beginToken
      /\ tokenIndex' = tokenIndex /\ m_result' = m_result /\ source' = source
      /\ state' = IF state = "OutOfQuote" THEN "BeginQuote" ELSE "OutOfQuote"
  BY DEF Skip
<1>5. Untouched'
  BY <1>1, <1>3, <1>4 DEF Untouched
<1>6. StateRight'
  <2>1. Outside(source, (i + 1) + 1) <=> ~Outside(source, i + 1)
    BY <1>1, Alternates
  <2>2. state' = "OutOfQuote" <=> Outside(source, (i + 1) + 1)
    BY <1>3, <1>4, <2>1 DEF StateRight
  <2>3. state' = "BeginQuote" <=> ~Outside(source, (i + 1) + 1) /\ i + 1 > 0 /\ source[i + 1] = Quote
    BY <1>1, <1>3, <1>4, <2>1 DEF StateRight
  <2>. QED  BY <1>4, <2>2, <2>3 DEF StateRight
<1>7. TokenRight'
  <2>1. /\ Rank(Ends(source), i + 1) = Rank(Ends(source), i)
        /\ UpTo(PlacesOf(source, tokenIndex + 1), i + 1) = UpTo(PlacesOf(source, tokenIndex + 1), i)
    <3>. DEFINE f == tokenIndex + 1
    <3>1. f - 1 = Rank(Ends(source), i) /\ ~Stands(source, i + 1)
      BY <1>1
    <3>. HIDE DEF f
    <3>2. /\ Rank(Ends(source), i + 1) = Rank(Ends(source), i)
          /\ UpTo(PlacesOf(source, f), i + 1) = UpTo(PlacesOf(source, f), i)
      BY <1>1, <1>2, <3>1, ReadOn
    <3>. QED  BY <3>2 DEF f
  <2>2. /\ tokenIndex = Rank(Ends(source), i + 1)
        /\ SubSeq(m_line, beginToken + 1, targetIndex)
             = Listed(source, UpTo(PlacesOf(source, tokenIndex + 1), i + 1))
    BY <1>3, <2>1 DEF TokenRight
  <2>. QED  BY <1>4, <2>2 DEF TokenRight
<1>8. FieldsFound'
  BY <1>3, <1>4, StillFound DEF FieldsFound
<1>. QED  BY <1>3, <1>4, <1>5, <1>6, <1>7, <1>8, InLoop

\* A character that is kept becomes the last one of its field: all but quotes, and the
\* second one of two quotes.
LEMMA KeepScans ==
  ASSUME IInv, FieldInv, Next, Scanning,
         \/ state = "OutOfQuote" /\ Char # Separator /\ Char # Quote /\ Keep("OutOfQuote")
         \/ state # "OutOfQuote" /\ Char # Quote /\ Keep("InQuote")
         \/ state = "BeginQuote" /\ Char = Quote /\ Keep("OutOfQuote")
  PROVE  FieldInv'
<1>1. /\ source \in Seq(Character) /\ i \in Nat /\ i < Len(source)
      /\ Char = source[i + 1] /\ Len(source) \in Nat /\ Len(m_line) = Len(source)
      /\ i + 1 \in Ends(source) <=> Char = Separator /\ state = "OutOfQuote"
      /\ tokenIndex \in Nat /\ (tokenIndex + 1) - 1 = Rank(Ends(source), i)
      /\ Stands(source, i + 1) <=> (Char = Quote => state = "BeginQuote")
  BY Reads
<1>2. i + 1 \notin Ends(source)
  BY <1>1
<1>3. /\ source \in Lines /\ Untouched /\ StateRight /\ TokenRight /\ pc = "line"
  BY DEF FieldInv, Scanned, Scanning
<1>4. /\ i' = i + 1 /\ pc' = pc /\ m_line' = [m_line EXCEPT ![targetIndex + 1] = Char]
      /\ targetIndex' = targetIndex + 1 /\ beginToken' = beginToken
      /\ tokenIndex' = tokenIndex /\ m_result' = m_result /\ source' = source
      /\ state' = IF state = "OutOfQuote" \/ Char = Quote THEN "OutOfQuote" ELSE "InQuote"
      /\ Char = Quote => state = "BeginQuote"
  BY DEF Keep
<1>5. /\ m_line \in Seq(Character) /\ Char \in Character
      /\ beginToken \in Nat /\ targetIndex \in Nat /\ beginToken <= targetIndex /\ targetIndex <= i
  BY <1>3, CharType DEF IInv, TypeOK, LoopInv
<1>6. Untouched'
  <2>1. Len(m_line') = Len(m_line) /\ \A k \in 1..Len(m_line) : k # targetIndex + 1 => m_line'[k] = m_line[k]
    BY <1>4, <1>5
  <2>2. ASSUME NEW k \in ((i + 1) + 1)..Len(source) PROVE m_line'[k] = source[k]
    <3>1. k \in (i + 1)..Len(source) /\ k \in 1..Len(m_line) /\ k # targetIndex + 1
      BY <1>1, <1>5
    <3>. QED  BY <1>3, <2>1, <3>1 DEF Untouched
  <2>. QED  BY <1>1, <1>4, <2>1, <2>2 DEF Untouched
<1>7. StateRight'
  <2>1. /\ Char # Quote => (Outside(source, (i + 1) + 1) <=> Outside(source, i + 1))
        /\ Char = Quote => (Outside(source, (i + 1) + 1) <=> ~Outside(source, i + 1))
    BY <1>1, Alternates
  <2>2. state' = "OutOfQuote" <=> Outside(source, (i + 1) + 1)
    BY <1>3, <1>4, <2>1 DEF StateRight
  <2>3. ~(~Outside(source, (i + 1) + 1) /\ source[i + 1] = Quote)
    BY <1>1, <1>3, <1>4, <2>1 DEF StateRight
  <2>. QED  BY <1>4, <2>2, <2>3 DEF StateRight
<1>8. TokenRight'
  <2>1. /\ Rank(Ends(source), i + 1) = Rank(Ends(source), i)
        /\ Listed(source, UpTo(PlacesOf(source, tokenIndex + 1), i + 1))
             = Append(Listed(source, UpTo(PlacesOf(source, tokenIndex + 1), i)), source[i + 1])
    BY <1>1, <1>2, <1>4, ReadOn
  <2>2. SubSeq(m_line', beginToken + 1, targetIndex + 1) = Append(SubSeq(m_line, beginToken + 1, targetIndex), Char)
    BY <1>1, <1>4, <1>5, SubSeqGrows
  <2>3. /\ tokenIndex = Rank(Ends(source), i + 1)
        /\ SubSeq(m_line', beginToken + 1, targetIndex + 1)
             = Listed(source, UpTo(PlacesOf(source, tokenIndex + 1), i + 1))
    BY <1>1, <1>3, <2>1, <2>2 DEF TokenRight
  <2>. QED  BY <1>4, <2>3 DEF TokenRight
<1>9. FieldsFound'
  BY <1>3, <1>4, StillFound DEF FieldsFound
<1>. QED  BY <1>3, <1>4, <1>6, <1>7, <1>8, <1>9, InLoop

\* The size of the current field
LEMMA TokenSize ==
  ASSUME IInv, pc = "line"
  PROVE  /\ Token.from = beginToken /\ Token.size = targetIndex - beginToken /\ Token.size \in Nat
         /\ Token.from + Token.size = targetIndex /\ targetIndex <= Len(m_line)
         /\ Len(SubSeq(m_line, beginToken + 1, targetIndex)) = Token.size
         /\ SubSeq(m_line, Token.from + 1, Token.from + Token.size) = SubSeq(m_line, beginToken + 1, targetIndex)
<1>1. /\ m_line \in Seq(Character) /\ beginToken \in Nat /\ targetIndex \in Nat /\ i \in Nat
      /\ beginToken <= targetIndex /\ targetIndex <= i /\ i <= Len(m_line)
  BY DEF IInv, TypeOK, LoopInv
<1>2. /\ Token.from = beginToken /\ Token.size = targetIndex - beginToken /\ Token.size \in Nat
      /\ Token.from + Token.size = targetIndex
  BY <1>1 DEF Token
<1>3. Len(SubSeq(m_line, beginToken + 1, targetIndex)) = targetIndex - beginToken
  BY <1>1
<1>. QED  BY <1>1, <1>2, <1>3

\* A field that is refused is the field of the line.
LEMMA RefusedRight ==
  ASSUME IInv, pc = "line", NEW f \in Column, TooLong(f), pc' = "refused", source' = source,
         SubSeq(m_line, beginToken + 1, targetIndex) = Field(source, f)
  PROVE  FieldInv'
<1>1. Limit[f] > 0 /\ Len(Field(source, f)) > Limit[f]
  BY TokenSize DEF TooLong
<1>2. RefusedIffTooLong'
  BY <1>1 DEF RefusedIffTooLong
<1>. QED  BY <1>2 DEF FieldInv, Scanned, RowRight

\* A separator ends a field and begins the next one.
LEMMA EndScans ==
  ASSUME IInv, FieldInv, Next, Scanning, Char = Separator,
         state = "OutOfQuote", EndField
  PROVE  FieldInv'
<1>1. /\ source \in Seq(Character) /\ i \in Nat /\ i < Len(source)
      /\ Char = source[i + 1] /\ Len(source) \in Nat /\ Len(m_line) = Len(source)
      /\ i + 1 \in Ends(source) <=> Char = Separator /\ state = "OutOfQuote"
      /\ tokenIndex \in Nat /\ (tokenIndex + 1) - 1 = Rank(Ends(source), i)
  BY Reads
<1>2. i + 1 \in Ends(source)
  BY <1>1
<1>3. /\ source \in Lines /\ Untouched /\ StateRight /\ TokenRight /\ pc = "line"
  BY DEF FieldInv, Scanned, Scanning
<1>4. tokenIndex + 1 \in Nat /\ tokenIndex + 1 \in Column
  BY <1>1 DEF Scanning, Column
<1>5. /\ Rank(Ends(source), i + 1) = tokenIndex + 1
      /\ UpTo(PlacesOf(source, tokenIndex + 1), i) = PlacesOf(source, tokenIndex + 1)
      /\ UpTo(PlacesOf(source, (tokenIndex + 1) + 1), i + 1) = {}
  BY <1>1, <1>2, <1>4, ReadEnd
<1>6. SubSeq(m_line, beginToken + 1, targetIndex) = Field(source, tokenIndex + 1)
  BY <1>3, <1>5, FieldListed DEF TokenRight
<1>7. source' = source /\ m_line' = m_line /\ targetIndex' = targetIndex /\ state' = state
      /\ tokenIndex' = tokenIndex + 1
  BY DEF EndField
<1>8. CASE TooLong(tokenIndex + 1)
  <2>1. pc' = "refused"
    BY <1>8 DEF EndField
  <2>. QED  BY <1>3, <1>4, <1>6, <1>7, <1>8, <2>1, RefusedRight
<1>9. CASE ~TooLong(tokenIndex + 1)
  <2>1. /\ m_result' = [m_result EXCEPT ![tokenIndex + 1] = Token]
        /\ beginToken' = targetIndex /\ i' = i + 1 /\ pc' = pc
    BY <1>9 DEF EndField, NextBegin
  <2>2. Untouched'
    BY <1>1, <1>3, <1>7, <2>1 DEF Untouched
  <2>3. StateRight'
    <3>1. Outside(source, (i + 1) + 1) <=> Outside(source, i + 1)
      BY <1>1, Alternates, FileAssumption
    <3>. QED  BY <1>3, <1>7, <2>1, <3>1 DEF StateRight
  <2>4. TokenRight'
    <3>1. SubSeq(m_line, targetIndex + 1, targetIndex) = <<>>
      BY <1>3 DEF IInv, TypeOK
    <3>2. Listed(source, UpTo(PlacesOf(source, (tokenIndex + 1) + 1), i + 1)) = <<>>
      BY <1>5, ListedNone
    <3>. QED  BY <1>5, <1>7, <2>1, <3>1, <3>2 DEF TokenRight
  <2>5. ASSUME NEW c \in Column, c <= tokenIndex'
        PROVE  View(m_result[c])' = Field(source, c) /\ FieldFits(c)'
    <3>1. CASE c = tokenIndex + 1
      <4>1. m_result'[c] = Token
        BY <1>4, <2>1, <3>1 DEF IInv, TypeOK
      <4>2. View(m_result[c])' = Field(source, c)
        BY <1>3, <1>6, <1>7, <3>1, <4>1, TokenSize DEF View
      <4>3. Limit[c] > 0 => Len(Field(source, c)) <= Limit[c]
        <5>1. Limit[c] \in Nat
          BY FileAssumption DEF Column
        <5>2. Len(Field(source, c)) = Token.size /\ Token.size \in Nat
          BY <1>3, <1>6, <3>1, TokenSize
        <5>3. ~(Limit[c] > 0 /\ Token.size > Limit[c])
          BY <1>9, <3>1 DEF TooLong
        <5>. QED  BY <5>1, <5>2, <5>3
      <4>. QED  BY <1>7, <4>2, <4>3 DEF FieldFits
    <3>2. CASE c # tokenIndex + 1
      <4>1. c <= tokenIndex
        BY <1>1, <1>7, <2>5, <3>2 DEF Column
      <4>. QED  BY <1>3, <1>7, <4>1, StillFound
    <3>. QED  BY <3>1, <3>2
  <2>6. FieldsFound'
    BY <1>7, <2>5 DEF FieldsFound
  <2>. QED  BY <1>3, <1>7, <2>1, <2>2, <2>3, <2>4, <2>6, InLoop
<1>. QED  BY <1>8, <1>9

\* Behind the loop every column has its field.
LEMMA DoneScans ==
  ASSUME IInv, FieldInv, Next, LineDone
  PROVE  FieldInv'
<1>1. /\ source \in Lines /\ Untouched /\ TokenRight /\ FieldsFound /\ pc = "line"
  BY DEF FieldInv, Scanned, LineDone
<1>2. /\ source \in Seq(Character) /\ tokenIndex \in Nat /\ Len(Limit) \in Nat
      /\ Len(m_line) = Len(source) /\ Len(source) \in Nat /\ i \in Nat /\ i <= Len(source)
      /\ \A c \in Column : Limit[c] \in Nat
  BY <1>1, FileAssumption DEF IInv, TypeOK, LoopInv, Untouched, Column
<1>3. source' = source /\ m_line' = m_line /\ tokenIndex' = tokenIndex
  BY DEF LineDone, loopVars
<1>4. ASSUME tokenIndex < Len(Limit)
      PROVE  /\ tokenIndex + 1 \in Column /\ tokenIndex + 1 \in Nat
             /\ SubSeq(m_line, beginToken + 1, targetIndex) = Field(source, tokenIndex + 1)
             /\ \A c \in Column : c > tokenIndex + 1 => Field(source, c) = <<>>
  <2>1. i = Len(source) /\ tokenIndex + 1 \in Nat /\ tokenIndex + 1 \in Column
    BY <1>1, <1>2, <1>4 DEF LineDone, Scanning, Column
  <2>2. (tokenIndex + 1) - 1 = Rank(Ends(source), Len(source))
    BY <1>1, <1>2, <2>1 DEF TokenRight
  <2>3. /\ UpTo(PlacesOf(source, tokenIndex + 1), Len(source)) = PlacesOf(source, tokenIndex + 1)
        /\ \A g \in Nat : g > tokenIndex + 1 => PlacesOf(source, g) = {}
    BY <1>2, <2>1, <2>2, ReadAll
  <2>4. SubSeq(m_line, beginToken + 1, targetIndex) = Field(source, tokenIndex + 1)
    BY <1>1, <2>1, <2>3, FieldListed DEF TokenRight
  <2>5. ASSUME NEW c \in Column, c > tokenIndex + 1 PROVE Field(source, c) = <<>>
    BY <2>3, <2>5, FieldListed, ListedNone DEF Column
  <2>. QED  BY <2>1, <2>4, <2>5
<1>5. CASE tokenIndex < Len(Limit) /\ TooLong(tokenIndex + 1)
  <2>1. pc' = "refused"
    BY <1>5 DEF LineDone
  <2>. QED  BY <1>1, <1>3, <1>4, <1>5, <2>1, RefusedRight
<1>6. CASE ~(tokenIndex < Len(Limit) /\ TooLong(tokenIndex + 1))
  <2>1. /\ pc' = "row"
        /\ m_result' = [c \in Column |-> IF c <= tokenIndex THEN m_result[c]
                                         ELSE IF c = tokenIndex + 1 THEN Token ELSE Empty]
    BY <1>6 DEF LineDone, Filled
  <2>2. ASSUME NEW c \in Column
        PROVE  /\ m_result'[c].from + m_result'[c].size <= Len(m_line)
               /\ View(m_result[c])' = Field(source, c)
               /\ Limit[c] > 0 => Len(Field(source, c)) <= Limit[c]
    <3>0. c \in Nat /\ c >= 1 /\ c <= Len(Limit)
      BY <1>2 DEF Column
    <3>1. CASE c <= tokenIndex
      <4>1. m_result'[c] = m_result[c]
        BY <2>1, <3>1
      <4>2. m_result[c].from + m_result[c].size <= Len(m_line)
        <5>1. m_result[c].from \in Nat /\ m_result[c].size \in Nat
          BY DEF IInv, TypeOK
        <5>2. m_result[c].from + m_result[c].size <= beginToken /\ beginToken <= targetIndex /\ targetIndex <= i
              /\ i <= Len(m_line) /\ beginToken \in Nat /\ targetIndex \in Nat
          BY <1>1, <3>1 DEF IInv, TypeOK, LoopInv
        <5>. QED  BY <1>2, <5>1, <5>2
      <4>3. View(m_result[c]) = Field(source, c) /\ FieldFits(c)
        BY <1>1, <3>1 DEF FieldsFound
      <4>4. View(m_result[c])' = View(m_result[c])
        BY <1>3, <4>1 DEF View
      <4>. QED  BY <4>1, <4>2, <4>3, <4>4 DEF FieldFits
    <3>2. CASE c = tokenIndex + 1
      <4>1. tokenIndex < Len(Limit) /\ ~TooLong(c) /\ m_result'[c] = Token
        BY <1>2, <1>6, <2>1, <3>0, <3>2
      <4>2. /\ Token.from + Token.size = targetIndex /\ targetIndex <= Len(m_line) /\ Token.size \in Nat
            /\ Len(SubSeq(m_line, beginToken + 1, targetIndex)) = Token.size
            /\ SubSeq(m_line, Token.from + 1, Token.from + Token.size) = SubSeq(m_line, beginToken + 1, targetIndex)
        BY <1>1, TokenSize
      <4>3. View(m_result[c])' = Field(source, c)
        BY <1>3, <1>4, <3>2, <4>1, <4>2 DEF View
      <4>4. Len(Field(source, c)) = Token.size /\ ~(Limit[c] > 0 /\ Token.size > Limit[c]) /\ Limit[c] \in Nat
        BY <1>2, <1>4, <3>2, <4>1, <4>2 DEF TooLong
      <4>. QED  BY <4>1, <4>2, <4>3, <4>4
    <3>3. CASE c > tokenIndex + 1
      <4>1. tokenIndex < Len(Limit) /\ m_result'[c] = Empty /\ Field(source, c) = <<>>
        BY <1>2, <1>4, <2>1, <3>0, <3>3
      <4>2. View(m_result[c])' = <<>> /\ Len(<<>>) = 0
        BY <1>3, <4>1 DEF View, Empty, IInv, TypeOK
      <4>. QED  BY <1>2, <4>1, <4>2 DEF Empty
    <3>. QED  BY <1>2, <3>0, <3>1, <3>2, <3>3
  <2>3. RowRight'
    BY <1>3, <2>2 DEF RowRight
  <2>4. RefusedIffTooLong'
    <3>1. ASSUME NEW c \in Column, Limit[c] > 0, Len(Field(source, c)) > Limit[c] PROVE FALSE
      <4>1. Limit[c] \in Nat /\ Len(Field(source, c)) <= Limit[c]
        BY <1>2, <2>2, <3>1
      <4>2. Field(source, c) = View(m_result[c])'
        BY <2>2
      <4>3. Len(Field(source, c)) \in Nat
        <5>1. m_line' \in Seq(Character) /\ m_result'[c].from \in Nat /\ m_result'[c].size \in Nat
          BY NextInv DEF IInv, TypeOK
        <5>2. m_result'[c].from + m_result'[c].size <= Len(m_line')
          BY <1>3, <2>2
        <5>3. Field(source, c) = SubSeq(m_line', m_result'[c].from + 1, m_result'[c].from + m_result'[c].size)
          BY <4>2 DEF View
        <5>4. SubSeq(m_line', m_result'[c].from + 1, m_result'[c].from + m_result'[c].size) \in Seq(Character)
          BY <5>1, <5>2
        <5>. QED  BY <5>3, <5>4
      <4>. QED  BY <3>1, <4>1, <4>3
    <3>. QED  BY <1>3, <2>1, <3>1 DEF RefusedIffTooLong
  <2>. QED  BY <2>1, <2>3, <2>4 DEF FieldInv, Scanned
<1>. QED  BY <1>5, <1>6

\* A new line, of which nothing is read yet
LEMMA ReadLineScans ==
  ASSUME IInv, ReadLine
  PROVE  FieldInv'
<1>1. PICK line \in Lines : m_line' = line /\ source' = line
  BY DEF ReadLine
<1>2. /\ i' = 0 /\ state' = "OutOfQuote" /\ targetIndex' = 0 /\ beginToken' = 0 /\ tokenIndex' = 0 /\ pc' = "line"
  BY DEF ReadLine
<1>3. line \in Seq(Character) /\ Len(line) \in Nat
  BY FileAssumption
<1>4. Untouched'
  BY <1>1, <1>2 DEF Untouched
<1>5. StateRight'
  BY <1>1, <1>2, OutsideFirst DEF StateRight
<1>6. ASSUME NEW P \in SUBSET (1..Len(line)) PROVE UpTo(P, 0) = {} /\ Rank(P, 0) = 0
  <2>1. \A x \in P : ~(x <= 0)
    BY <1>3
  <2>2. UpTo(P, 0) = {}
    BY <1>3, <2>1, UpToNone
  <2>. QED  BY <2>2, FS_EmptySet DEF Rank
<1>7. TokenRight'
  <2>1. Rank(Ends(line), 0) = 0 /\ UpTo(PlacesOf(line, 0 + 1), 0) = {}
    BY <1>3, <1>6, EndsPlaces
  <2>2. SubSeq(line, 0 + 1, 0) = <<>>
    BY <1>3
  <2>3. /\ 0 = Rank(Ends(line), 0)
        /\ SubSeq(line, 0 + 1, 0) = Listed(line, UpTo(PlacesOf(line, 0 + 1), 0))
    BY <2>1, <2>2, ListedNone
  <2>. QED  BY <1>1, <1>2, <2>3 DEF TokenRight
<1>8. FieldsFound'
  <2>1. \A c \in Column : ~(c <= 0)
    BY FileAssumption DEF Column
  <2>. QED  BY <1>2, <2>1 DEF FieldsFound
<1>. QED  BY <1>1, <1>2, <1>4, <1>5, <1>7, <1>8, InLoop

\* Every step keeps FieldInv.
LEMMA FieldNext ==
  ASSUME IInv, FieldInv, [Next]_vars
  PROVE  FieldInv'
<1>1. CASE Begin \/ End \/ Cancelled
  <2>1. /\ pc' \in {"open", "failed", "closed"}
    BY <1>1 DEF Begin, End, Cancelled
  <2>. QED  BY <2>1 DEF FieldInv, Scanned, RowRight, RefusedIffTooLong
<1>2. CASE ReadLine
  BY <1>2, ReadLineScans
<1>3. CASE OutOfQuote
  BY <1>3, SkipScans, KeepScans, EndScans DEF OutOfQuote, Next
<1>4. CASE BeginQuote
  <2>1. CASE Char = Quote
    BY <1>4, <2>1, KeepScans DEF BeginQuote, Next
  <2>2. CASE Char # Quote
    BY <1>4, <2>2, KeepScans DEF BeginQuote, Next
  <2>. QED  BY <2>1, <2>2
<1>5. CASE InQuote
  BY <1>5, SkipScans, KeepScans DEF InQuote, Next
<1>6. CASE LineDone
  BY <1>6, DoneScans DEF Next
<1>7. CASE UNCHANGED vars
  <2>1. Scanned'
    BY <1>7 DEF FieldInv, Scanned, vars, loopVars, Untouched, StateRight, TokenRight, FieldsFound, FieldFits, View
  <2>2. RowRight'
    BY <1>7 DEF FieldInv, RowRight, vars, loopVars, View
  <2>3. RefusedIffTooLong'
    BY <1>7 DEF FieldInv, RefusedIffTooLong, vars, loopVars
  <2>. QED  BY <2>1, <2>2, <2>3 DEF FieldInv
<1>. QED  BY <1>1, <1>2, <1>3, <1>4, <1>5, <1>6, <1>7 DEF Next

\* FieldInv holds in every state.
LEMMA FieldInvariant == Spec => []FieldInv
<1>1. Init => FieldInv
  BY DEF Init, FieldInv, Scanned, RowRight, RefusedIffTooLong
<1>2. IInv /\ FieldInv /\ [Next]_vars => FieldInv'
  BY FieldNext
<1>3. Spec => []IInv
  BY InitInv, NextInv, PTL DEF Spec
<1>. QED  BY <1>1, <1>2, <1>3, PTL DEF Spec

\* Whenever a row of the file can be read, each column has its field of the line, for
\* every file, any number of columns and any of their lengths
\* (ReadFilePlan::next, which rewrites the line that the columns are views of).
THEOREM RowTheorem == Spec => []RowRight
<1>1. FieldInv => RowRight
  BY DEF FieldInv
<1>. QED  BY <1>1, FieldInvariant, PTL

\* A line is refused if, and only if, one of its fields is longer than its column
\* (setToken).
THEOREM RefusedTheorem == Spec => []RefusedIffTooLong
<1>1. FieldInv => RefusedIffTooLong
  BY DEF FieldInv
<1>. QED  BY <1>1, FieldInvariant, PTL
=============================================================================
